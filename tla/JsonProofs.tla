------------------------------ MODULE JsonProofs ------------------------------
(***************************************************************************)
(* The items that the JSON macros link stay in lists that end and do not   *)
(* meet, and are all freed; they are the document that is described; the   *)
(* printer stays inside its buffer, and what it leaves there is the        *)
(* document.  All of it for documents of any size and depth.               *)
(***************************************************************************)
EXTENDS JsonTrees, SequenceTheorems, WellFoundedInduction, TLAPS

(* One more step along the pointers.                                       *)
Further(points, S) == S \cup UNION {points[k] : k \in S}

LEMMA Least ==
  ASSUME NEW T \in SUBSET Nat, T # {}
  PROVE  \E n \in T : \A m \in T : ~(m < n)
<1>1. PICK n \in T : \A m \in T : ~(<<m, n>> \in OpToRel(<, Nat))
  BY WFMin, NatLessThanWellFounded, Zenon
<1>2. \A m \in T : m < n => <<m, n>> \in OpToRel(<, Nat)
  BY Zenon DEF OpToRel
<1>3. QED
  BY Zenon, <1>1, <1>2

(* Walks of every length exist, a step at a time.                          *)
Walk(r, n, points, i) ==
  \A k \in 0 .. n : r[k] = IF k = 0 THEN {i} \ {Null} ELSE Further(points, r[k - 1])

LEMMA WalksExist ==
  ASSUME NEW points \in [Items -> SUBSET Items], NEW i \in Items \cup {Null},
         NEW n \in Nat
  PROVE  \E r \in [0 .. n -> SUBSET Items] : Walk(r, n, points, i)
<1> DEFINE T == {m \in Nat : ~\E r \in [0 .. m -> SUBSET Items] : Walk(r, m, points, i)}
<1>1. SUFFICES ASSUME T # {}
              PROVE  FALSE
  BY SMT
<1>2. PICK m \in T : \A l \in T : ~(l < m)
  BY Least, <1>1
<1>3. CASE m = 0
  <2> DEFINE r == [k \in 0 .. 0 |-> {i} \ {Null}]
  <2>1. r \in [0 .. 0 -> SUBSET Items] /\ Walk(r, 0, points, i)
    BY SMT DEF Walk
  <2>2. QED
    BY <1>3, <2>1
<1>4. CASE m # 0
  <2>1. m - 1 \in Nat /\ m - 1 < m /\ m \in Nat
    BY <1>4
  <2>2. PICK q \in [0 .. m - 1 -> SUBSET Items] : Walk(q, m - 1, points, i)
    BY <1>2, <2>1
  <2>3. Further(points, q[m - 1]) \in SUBSET Items
    BY <2>1, SMT DEF Further
  <2> DEFINE r == [k \in 0 .. m |-> IF k = m THEN Further(points, q[m - 1]) ELSE q[k]]
  <2>4. /\ r \in [0 .. m -> SUBSET Items]
        /\ r[m] = Further(points, q[m - 1])
        /\ \A k \in 0 .. m - 1 : r[k] = q[k]
    BY <2>1, <2>3, SMT
  <2> HIDE DEF r
  <2>5. ASSUME NEW k \in 0 .. m
        PROVE  r[k] = IF k = 0 THEN {i} \ {Null} ELSE Further(points, r[k - 1])
    <3>1. CASE k = m
      BY <1>4, <2>1, <2>4, <3>1, SMT
    <3>2. CASE k # m
      <4>1. k \in 0 .. m - 1 /\ (k # 0 => k - 1 \in 0 .. m - 1)
        BY <2>1, <3>2, SMT
      <4>2. QED
        BY <2>2, <2>4, <4>1, Zenon DEF Walk
    <3>3. QED
      BY <3>1, <3>2
  <2>6. Walk(r, m, points, i)
    BY <2>5, Zenon DEF Walk
  <2>7. QED
    BY <2>4, <2>6
<1>5. QED
  BY <1>3, <1>4

LEMMA ReachedWalks ==
  ASSUME NEW points \in [Items -> SUBSET Items], NEW i \in Items \cup {Null}
  PROVE  \E r \in [0 .. MaxItems -> SUBSET Items] :
            Walk(r, MaxItems, points, i) /\ Reached(points, i) = r[MaxItems]
<1> DEFINE IsWalk(r) ==
      r = [n \in 0 .. MaxItems |->
             IF n = 0 THEN {i} \ {Null}
             ELSE r[n - 1] \cup UNION {points[k] : k \in r[n - 1]}]
<1>1. MaxItems \in Nat
  BY ItemsAssumption
<1>2. PICK q \in [0 .. MaxItems -> SUBSET Items] : Walk(q, MaxItems, points, i)
  BY WalksExist, <1>1
<1>3. IsWalk(q)
  BY <1>2, Zenon DEF Walk, Further
<1>4. \E r : IsWalk(r) /\ Reached(points, i) = r[MaxItems]
  BY <1>3, Zenon DEF Reached
<1>5. PICK r : IsWalk(r) /\ Reached(points, i) = r[MaxItems]
  BY <1>4
<1>6. Walk(r, MaxItems, points, i)
  BY <1>5, Zenon DEF Walk, Further
<1>7. \A n \in 0 .. MaxItems : r[n] = q[n]
  <2> DEFINE T == {n \in 0 .. MaxItems : r[n] # q[n]}
  <2>1. SUFFICES ASSUME T # {}
                PROVE  FALSE
    BY SMT
  <2>2. PICK n \in T : \A m \in T : ~(m < n)
    <3>1. T \in SUBSET Nat /\ T # {}
      BY <1>1, <2>1, SMT
    <3>2. QED
      BY Least, <3>1
  <2>3. CASE n = 0
    BY <1>1, <1>2, <1>6, <2>2, <2>3 DEF Walk
  <2>4. CASE n # 0
    <3>1. n \in 0 .. MaxItems /\ n - 1 \in 0 .. MaxItems /\ n - 1 < n
      BY <1>1, <2>2, <2>4, SMT
    <3>2. r[n - 1] = q[n - 1]
      BY <2>2, <3>1
    <3>3. QED
      BY <1>2, <1>6, <2>2, <2>4, <3>1, <3>2, Zenon DEF Walk
  <2>5. QED
    BY <2>3, <2>4
<1>8. MaxItems \in 0 .. MaxItems
  BY <1>1
<1>9. QED
  BY <1>2, <1>5, <1>7, <1>8

(* A set that holds where the pointers point holds what they reach.        *)
LEMMA ReachedLeast ==
  ASSUME NEW points \in [Items -> SUBSET Items], NEW i \in Items \cup {Null},
         NEW S, {i} \ {Null} \subseteq S, \A k \in S \cap Items : points[k] \subseteq S
  PROVE  Reached(points, i) \subseteq S
<1>1. PICK r \in [0 .. MaxItems -> SUBSET Items] :
        Walk(r, MaxItems, points, i) /\ Reached(points, i) = r[MaxItems]
  BY ReachedWalks
<1> DEFINE T == {n \in 0 .. MaxItems : ~(r[n] \subseteq S)}
<1>2. MaxItems \in Nat
  BY ItemsAssumption
<1>3. SUFFICES ASSUME T # {}
              PROVE  FALSE
  BY <1>1, <1>2, SMT
<1>4. PICK n \in T : \A m \in T : ~(m < n)
  <2>1. T \in SUBSET Nat /\ T # {}
    BY <1>2, <1>3, SMT
  <2>2. QED
    BY Least, <2>1
<1>5. CASE n = 0
  BY <1>1, <1>2, <1>4, <1>5 DEF Walk
<1>6. CASE n # 0
  <2>1. n \in 0 .. MaxItems /\ n - 1 \in 0 .. MaxItems /\ n - 1 < n
    BY <1>2, <1>4, <1>6, SMT
  <2>2. r[n - 1] \subseteq S /\ r[n - 1] \subseteq Items
    BY <1>1, <1>4, <2>1
  <2>3. r[n] = Further(points, r[n - 1])
    BY <1>1, <1>6, <2>1 DEF Walk
  <2>4. r[n] \subseteq S
    BY <2>2, <2>3 DEF Further
  <2>5. QED
    BY <1>4, <2>4
<1>7. QED
  BY <1>5, <1>6

LEMMA ReachedStarts ==
  ASSUME NEW points \in [Items -> SUBSET Items], NEW i \in Items \cup {Null}
  PROVE  /\ Reached(points, i) \subseteq Items
         /\ i # Null => i \in Reached(points, i)
<1>1. PICK r \in [0 .. MaxItems -> SUBSET Items] :
        Walk(r, MaxItems, points, i) /\ Reached(points, i) = r[MaxItems]
  BY ReachedWalks
<1>2. MaxItems \in Nat
  BY ItemsAssumption
<1> DEFINE T == {n \in 0 .. MaxItems : ~({i} \ {Null} \subseteq r[n])}
<1>3. T = {}
  <2>1. SUFFICES ASSUME T # {}
                PROVE  FALSE
    OBVIOUS
  <2>2. PICK n \in T : \A m \in T : ~(m < n)
    <3>1. T \in SUBSET Nat /\ T # {}
      BY <1>2, <2>1, SMT
    <3>2. QED
      BY Least, <3>1
  <2>3. CASE n = 0
    BY <1>1, <1>2, <2>2, <2>3 DEF Walk
  <2>4. CASE n # 0
    <3>1. n \in 0 .. MaxItems /\ n - 1 \in 0 .. MaxItems /\ n - 1 < n
      BY <1>2, <2>2, <2>4, SMT
    <3>2. {i} \ {Null} \subseteq r[n - 1]
      BY <2>2, <3>1
    <3>3. r[n] = Further(points, r[n - 1])
      BY <1>1, <2>4, <3>1 DEF Walk
    <3>4. QED
      BY <2>2, <3>2, <3>3 DEF Further
  <2>5. QED
    BY <2>3, <2>4
<1>4. QED
  BY <1>1, <1>2, <1>3

(* Pointers that only lead to later items are followed to their ends: an   *)
(* item that is reached is reached before as many steps as its address.    *)
LEMMA ReachedCloses ==
  ASSUME NEW points \in [Items -> SUBSET Items], NEW i \in Items \cup {Null},
         \A k \in Items : \A j \in points[k] : k < j,
         NEW k \in Reached(points, i)
  PROVE  points[k] \subseteq Reached(points, i)
<1>1. PICK r \in [0 .. MaxItems -> SUBSET Items] :
        Walk(r, MaxItems, points, i) /\ Reached(points, i) = r[MaxItems]
  BY ReachedWalks
<1>2. MaxItems \in Nat /\ k \in Items
  BY ItemsAssumption, ReachedStarts
<1>3. \A n \in 1 .. MaxItems : r[n] = Further(points, r[n - 1])
  BY <1>1, <1>2, SMT DEF Walk
<1>4. \A m \in 0 .. MaxItems : \A n \in m .. MaxItems : r[m] \subseteq r[n]
  <2>1. SUFFICES ASSUME NEW m \in 0 .. MaxItems
                PROVE  \A n \in m .. MaxItems : r[m] \subseteq r[n]
    OBVIOUS
  <2> DEFINE T == {n \in m .. MaxItems : ~(r[m] \subseteq r[n])}
  <2>2. SUFFICES ASSUME T # {}
                PROVE  FALSE
    OBVIOUS
  <2>3. PICK n \in T : \A l \in T : ~(l < n)
    <3>1. T \in SUBSET Nat /\ T # {}
      BY <1>2, <2>2, SMT
    <3>2. QED
      BY Least, <3>1
  <2>4. n \in 1 .. MaxItems /\ n - 1 \in m .. MaxItems /\ n - 1 < n
    BY <1>2, <2>3, SMT
  <2>5. r[m] \subseteq r[n - 1]
    BY <2>3, <2>4
  <2>6. r[n - 1] \subseteq r[n]
    BY <1>3, <2>4 DEF Further
  <2>7. QED
    BY <2>3, <2>5, <2>6
<1>5. \A j \in Items : j \in r[MaxItems] => j \in r[j]
  <2> DEFINE T == {j \in Items : j \in r[MaxItems] /\ j \notin r[j]}
  <2>1. SUFFICES ASSUME T # {}
                PROVE  FALSE
    OBVIOUS
  <2>2. PICK j \in T : \A l \in T : ~(l < j)
    <3>1. T \in SUBSET Nat /\ T # {}
      BY <1>2, <2>1, SMT DEF Items
    <3>2. QED
      BY Least, <3>1
  <2> DEFINE U == {n \in 0 .. MaxItems : j \in r[n]}
  <2>3. PICK n \in U : \A l \in U : ~(l < n)
    <3>1. U # {} /\ U \subseteq Nat
      BY <1>2, <2>2, SMT
    <3>2. QED
      BY Least, <3>1
  <2>4. j \in Items /\ j \in 0 .. MaxItems /\ j \in Nat
    BY <1>2, <2>2, SMT DEF Items
  <2>5. ~(n <= j)
    BY <1>4, <2>2, <2>3, <2>4, SMT
  <2>6. n \in 1 .. MaxItems /\ n - 1 \in 0 .. MaxItems /\ n - 1 < n /\ j <= n - 1
    BY <1>2, <2>3, <2>4, <2>5, SMT
  <2>7. j \notin r[n - 1]
    BY <2>3, <2>6
  <2>8. PICK p \in r[n - 1] : j \in points[p]
    BY <1>3, <2>3, <2>6, <2>7 DEF Further
  <2>9. p \in Items /\ p < j
    BY <1>1, <2>6, <2>8
  <2>10. p \in r[MaxItems]
    BY <1>2, <1>4, <2>6, <2>8, SMT
  <2>11. p \in r[p]
    BY <2>2, <2>9, <2>10
  <2>12. p \in 0 .. MaxItems /\ j - 1 \in p .. MaxItems /\ j \in 1 .. MaxItems
    BY <1>2, <2>4, <2>9, SMT DEF Items
  <2>13. p \in r[j - 1]
    BY <1>4, <2>11, <2>12
  <2>14. j \in r[j]
    BY <1>3, <2>8, <2>12, <2>13 DEF Further
  <2>15. QED
    BY <2>2, <2>14
<1>6. SUFFICES ASSUME NEW j \in points[k]
              PROVE  j \in r[MaxItems]
  BY <1>1
<1>7. j \in Items /\ k < j
  BY <1>2
<1>8. k \in r[k]
  BY <1>1, <1>2, <1>5
<1>9. /\ k \in 0 .. MaxItems /\ MaxItems - 1 \in k .. MaxItems
      /\ MaxItems \in 1 .. MaxItems
  BY <1>2, <1>7, SMT DEF Items
<1>10. k \in r[MaxItems - 1]
  BY <1>4, <1>8, <1>9
<1>11. QED
  BY <1>3, <1>9, <1>10 DEF Further

-----------------------------------------------------------------------------
(* The inductive invariant.                                                *)

(* owner is the container whose list an item is in.  Contents come after   *)
(* their container, and a list is in the order of its addresses: the macros *)
(* create the items in the order of the document.                          *)
Linked(h, owner) ==
  /\ owner \in [Items -> Pointers]
  /\ \A i \in Free(h) : h[i] = Unallocated /\ owner[i] = Null
  /\ \A i \in Items : owner[i] # Null =>
       owner[i] \in Allocated(h) /\ h[owner[i]].child # Null /\ owner[i] < i
  /\ \A i \in Items : owner[i] = Null => h[i].prev = Null /\ h[i].next = Null
  /\ \A i \in Items : h[i].next # Null =>
       owner[h[i].next] = owner[i] /\ h[h[i].next].prev = i /\ i < h[i].next
  /\ \A i \in Items : owner[i] # Null /\ h[owner[i]].child # i =>
       /\ h[i].prev # Null /\ h[i].prev < i
       /\ owner[h[i].prev] = owner[i] /\ h[h[i].prev].next = i
  /\ \A c \in Items : h[c].child # Null =>
       LET last == h[h[c].child].prev
       IN  owner[h[c].child] = c /\ last # Null /\ owner[last] = c /\ h[last].next = Null

(* An element that is filled before it is put into its array.              *)
Pending(k) == heap[blocks[k - 1]].type = "Array"

(* While a document is built, memory is given out from the first item on,  *)
(* and every item is in a list but for the root and the pending elements.  *)
Growing(owner) ==
  /\ \A i \in Allocated(heap) : \A j \in Items : j < i => j \in Allocated(heap)
  /\ response \in Allocated(heap) /\ owner[response] = Null
  /\ \A k \in 1 .. Len(blocks) : blocks[k] \in Allocated(heap)
  /\ \A k, l \in 1 .. Len(blocks) : k < l => blocks[k] < blocks[l]
  /\ \A k \in 2 .. Len(blocks) :
       IF Pending(k)
       THEN /\ owner[blocks[k]] = Null /\ heap[blocks[k]].string = NoName
            /\ \A j \in Items : owner[j] = blocks[k - 1] => j < blocks[k]
       ELSE owner[blocks[k]] # Null
  /\ \A i \in Allocated(heap) : owner[i] = Null =>
       i = response \/ \E k \in 2 .. Len(blocks) : blocks[k] = i /\ Pending(k)

IInv ==
  /\ TypeOK
  /\ phase = "idle" => heap = EmptyHeap /\ response = Null /\ blocks = <<>>
  /\ phase = "build" => blocks # <<>> /\ blocks[1] = response
  /\ phase = "built" => blocks = <<>>
  /\ \E owner \in [Items -> Pointers] :
       /\ Linked(heap, owner)
       /\ phase \in {"build", "built"} => Growing(owner)
  /\ NothingLost

-----------------------------------------------------------------------------
(* What the pointers of linked items reach.                                *)

LEMMA Cell ==
  ASSUME NEW h \in [Items -> Cells], NEW i \in Items
  PROVE  /\ h[i] \in Cells
         /\ h[i].next \in Pointers /\ h[i].prev \in Pointers /\ h[i].child \in Pointers
BY DEF Cells

LEMMA SameCell ==
  ASSUME NEW a \in Cells, NEW b \in Cells, a.type = b.type, a.string = b.string,
         a.value = b.value, a.next = b.next, a.prev = b.prev, a.child = b.child
  PROVE  a = b
BY SMT DEF Cells

LEMMA NullIsNoItem == \A i \in Items : i # Null
BY DEF Items, Null

LEMMA PointersLeadOn ==
  ASSUME NEW h \in [Items -> Cells], NEW owner, Linked(h, owner),
         NEW down, NEW along,
         down = [k \in Items |-> {h[k].child, h[k].next} \ {Null}],
         along = [k \in Items |-> {h[k].next} \ {Null}]
  PROVE  /\ down \in [Items -> SUBSET Items] /\ along \in [Items -> SUBSET Items]
         /\ \A k \in Items : (\A j \in down[k] : k < j) /\ (\A j \in along[k] : k < j)
<1>1. \A k \in Items : h[k].next \in Pointers /\ h[k].child \in Pointers
  BY Cell
<1>2. \A k \in Items : h[k].next # Null => k < h[k].next
  BY DEF Linked
<1>3. \A k \in Items : h[k].child # Null => k < h[k].child
  BY <1>1 DEF Linked, Pointers
<1>4. QED
  BY <1>1, <1>2, <1>3 DEF Pointers

(* Who follows a list from its first item on finds all that it holds.      *)
LEMMA ListIsFollowed ==
  ASSUME NEW h \in [Items -> Cells], NEW owner, Linked(h, owner),
         NEW c \in Items, NEW S, h[c].child # Null => h[c].child \in S,
         \A k \in S \cap Items : h[k].next # Null => h[k].next \in S
  PROVE  \A i \in Items : owner[i] = c => i \in S
<1> DEFINE T == {i \in Items : owner[i] = c /\ i \notin S}
<1>1. SUFFICES ASSUME T # {}
              PROVE  FALSE
  OBVIOUS
<1>2. PICK i \in T : \A j \in T : ~(j < i)
  <2>1. T \in SUBSET Nat /\ T # {}
    BY <1>1, SMT DEF Items
  <2>2. QED
    BY Least, <2>1
<1>3. c # Null /\ h[c].child # i
  BY <1>2, NullIsNoItem DEF Linked
<1>4. /\ h[i].prev # Null /\ h[i].prev < i
      /\ owner[h[i].prev] = c /\ h[h[i].prev].next = i
  BY <1>2, <1>3 DEF Linked
<1>5. h[i].prev \in Items
  BY <1>2, <1>4, Cell DEF Pointers
<1>6. h[i].prev \in S
  BY <1>2, <1>4, <1>5
<1>7. QED
  BY <1>2, <1>4, <1>5, <1>6, NullIsNoItem

LEMMA ListHolds ==
  ASSUME NEW h \in [Items -> Cells], NEW owner, Linked(h, owner), NEW c \in Items
  PROVE  Chained(h, h[c].child) = {i \in Items : owner[i] = c}
<1> DEFINE along == [k \in Items |-> {h[k].next} \ {Null}]
           list == Chained(h, h[c].child)
<1>1. along \in [Items -> SUBSET Items] /\ \A k \in Items : \A j \in along[k] : k < j
  BY PointersLeadOn
<1>2. h[c].child \in Items \cup {Null}
  BY Cell DEF Pointers
<1>3. list = Reached(along, h[c].child)
  BY DEF Chained
<1> HIDE DEF along, list
<1>4. \A k \in Items : along[k] = {h[k].next} \ {Null}
  BY DEF along
<1>5. list \subseteq Items /\ (h[c].child # Null => h[c].child \in list)
  BY <1>1, <1>2, <1>3, ReachedStarts
<1>6. \A k \in list : along[k] \subseteq list
  BY <1>1, <1>2, <1>3, ReachedCloses
<1>7. \A i \in Items : owner[i] = c => i \in list
  <2>1. \A k \in list \cap Items : h[k].next # Null => h[k].next \in list
    BY <1>4, <1>6
  <2>2. QED
    BY <1>5, <2>1, ListIsFollowed
<1>8. list \subseteq {i \in Items : owner[i] = c}
  <2> DEFINE S == {i \in Items : owner[i] = c}
  <2>1. {h[c].child} \ {Null} \subseteq S
    BY <1>2 DEF Linked
  <2>2. \A k \in S \cap Items : along[k] \subseteq S
    BY <1>1, <1>4 DEF Linked
  <2> HIDE DEF S
  <2>3. list \subseteq S
    BY <1>1, <1>2, <1>3, <2>1, <2>2, ReachedLeast
  <2>4. QED
    BY <2>3 DEF S
<1>9. QED
  BY <1>5, <1>7, <1>8 DEF list

LEMMA LinkedLists ==
  ASSUME NEW h \in [Items -> Cells], NEW owner, Linked(h, owner)
  PROVE  ListsAreLinked(h)
<1> DEFINE lists == [c \in Allocated(h) |-> Chained(h, h[c].child)]
<1>1. ASSUME NEW c \in Allocated(h)
      PROVE  lists[c] = {i \in Items : owner[i] = c} /\ c \in Items
  <2>1. c \in Items
    BY DEF Allocated
  <2>2. QED
    BY <2>1, ListHolds
<1> HIDE DEF lists
<1>2. SUFFICES ASSUME NEW c \in Allocated(h)
              PROVE  /\ lists[c] \subseteq Allocated(h)
                     /\ IsLinked(h, h[c].child, lists[c])
                     /\ \A d \in Allocated(h) \ {c} : lists[c] \cap lists[d] = {}
  BY DEF ListsAreLinked, lists
<1>3. lists[c] \subseteq Allocated(h)
  BY <1>1, NullIsNoItem DEF Linked, Allocated
<1>4. IsLinked(h, h[c].child, lists[c])
  <2>1. \A i \in lists[c] : h[i].next # Null => h[h[i].next].prev = i
    BY <1>1 DEF Linked
  <2>2. h[c].child # Null => h[h[c].child].prev \in lists[c] /\ h[h[h[c].child].prev].next = Null
    <3>1. SUFFICES ASSUME h[c].child # Null
                  PROVE  h[h[c].child].prev \in lists[c] /\ h[h[h[c].child].prev].next = Null
      OBVIOUS
    <3>2. h[c].child \in Items
      BY <1>1, <3>1, Cell DEF Pointers
    <3>3. h[h[c].child].prev \in Pointers
      BY <3>2, Cell
    <3>4. QED
      BY <1>1, <3>1, <3>3 DEF Linked, Pointers
  <2>3. QED
    BY <2>1, <2>2 DEF IsLinked
<1>5. \A d \in Allocated(h) \ {c} : lists[c] \cap lists[d] = {}
  BY <1>1
<1>6. QED
  BY <1>3, <1>4, <1>5

(* cJSON_Delete frees an item with all that its container, its list or its *)
(* own contents lead to, and no more.                                      *)
LEMMA DoomedCloses ==
  ASSUME NEW h \in [Items -> Cells], NEW owner, Linked(h, owner), NEW i \in Pointers
  PROVE  /\ Doomed(h, i) \subseteq Items
         /\ i # Null => i \in Doomed(h, i)
         /\ \A k \in Doomed(h, i) :
              /\ h[k].child # Null => h[k].child \in Doomed(h, i)
              /\ h[k].next # Null => h[k].next \in Doomed(h, i)
              /\ \A j \in Items : owner[j] = k => j \in Doomed(h, i)
<1> DEFINE down == [k \in Items |-> {h[k].child, h[k].next} \ {Null}]
           doomed == Doomed(h, i)
<1>1. down \in [Items -> SUBSET Items] /\ \A k \in Items : \A j \in down[k] : k < j
  BY PointersLeadOn
<1>2. doomed = Reached(down, i) /\ i \in Items \cup {Null}
  BY DEF Doomed, Pointers
<1> HIDE DEF down, doomed
<1>3. \A k \in Items : down[k] = {h[k].child, h[k].next} \ {Null}
  BY DEF down
<1>4. doomed \subseteq Items /\ (i # Null => i \in doomed)
  BY <1>1, <1>2, ReachedStarts
<1>5. \A k \in doomed : down[k] \subseteq doomed
  BY <1>1, <1>2, ReachedCloses
<1>6. \A k \in doomed : /\ h[k].child # Null => h[k].child \in doomed
                        /\ h[k].next # Null => h[k].next \in doomed
  BY <1>3, <1>4, <1>5
<1>7. ASSUME NEW k \in doomed
      PROVE  \A j \in Items : owner[j] = k => j \in doomed
  BY <1>4, <1>6, ListIsFollowed
<1>8. QED
  BY <1>4, <1>6, <1>7 DEF doomed

LEMMA DoomedLeast ==
  ASSUME NEW h \in [Items -> Cells], NEW i \in Pointers, NEW S, i # Null => i \in S,
         \A k \in S \cap Items : /\ h[k].child # Null => h[k].child \in S
                                 /\ h[k].next # Null => h[k].next \in S
  PROVE  Doomed(h, i) \subseteq S
<1> DEFINE down == [k \in Items |-> {h[k].child, h[k].next} \ {Null}]
<1>1. down \in [Items -> SUBSET Items]
  BY Cell DEF Pointers
<1>2. Doomed(h, i) = Reached(down, i) /\ i \in Items \cup {Null}
  BY DEF Doomed, Pointers
<1>3. \A k \in S \cap Items : down[k] \subseteq S
  OBVIOUS
<1>4. {i} \ {Null} \subseteq S
  OBVIOUS
<1> HIDE DEF down
<1>5. Reached(down, i) \subseteq S
  BY <1>1, <1>2, <1>3, <1>4, ReachedLeast
<1>6. QED
  BY <1>2, <1>5

-----------------------------------------------------------------------------
(* What the operations on items leave linked.                              *)

(* Nothing points at an item that is in no list.                           *)
LEMMA NotPointedAt ==
  ASSUME NEW h \in [Items -> Cells], NEW owner, Linked(h, owner),
         NEW i \in Items, owner[i] = Null
  PROVE  \A j \in Items : h[j].next # i /\ h[j].child # i /\ h[j].prev # i
<1> SUFFICES ASSUME NEW j \in Items
             PROVE  h[j].next # i /\ h[j].child # i /\ h[j].prev # i
  OBVIOUS
<1>1. i # Null /\ j # Null
  BY NullIsNoItem
<1>2. h[j].next # i
  BY <1>1 DEF Linked
<1>3. h[j].child # i
  BY <1>1 DEF Linked
<1>4. h[j].prev # i
  <2>1. CASE owner[j] = Null
    BY <1>1, <2>1 DEF Linked
  <2>2. CASE owner[j] # Null /\ h[owner[j]].child # j
    BY <1>1, <2>2 DEF Linked
  <2>3. CASE owner[j] # Null /\ h[owner[j]].child = j
    <3>1. owner[j] \in Items /\ h[owner[j]].child # Null
      BY <1>1, <2>3 DEF Linked, Allocated
    <3>2. owner[h[j].prev] = owner[j]
      BY <2>3, <3>1 DEF Linked
    <3>3. QED
      BY <2>3, <3>2
  <2>4. QED
    BY <2>1, <2>2, <2>3
<1>5. QED
  BY <1>2, <1>3, <1>4

LEMMA CreatedLinked ==
  ASSUME NEW h \in [Items -> Cells], NEW owner, Linked(h, owner),
         NEW i \in Free(h), NEW cell \in Cells, cell.type # "unallocated",
         cell.next = Null, cell.prev = Null, cell.child = Null
  PROVE  LET g == [h EXCEPT ![i] = cell]
         IN  /\ g \in [Items -> Cells]
             /\ Linked(g, owner)
             /\ Allocated(g) = Allocated(h) \cup {i}
             /\ owner[i] = Null
<1> DEFINE g == [h EXCEPT ![i] = cell]
<1>1. i \in Items /\ owner[i] = Null
  BY DEF Free, Linked
<1>2. g \in [Items -> Cells] /\ g[i] = cell /\ \A j \in Items \ {i} : g[j] = h[j]
  BY <1>1
<1> HIDE DEF g
<1>3. \A j \in Items : h[j].next # i /\ h[j].child # i /\ h[j].prev # i
  BY <1>1, NotPointedAt
<1>4. Free(g) = Free(h) \ {i}
  BY <1>1, <1>2 DEF Free
<1>5. Allocated(g) = Allocated(h) \cup {i}
  BY <1>1, <1>4 DEF Allocated
<1>6. \A j \in Items : h[j].next \in Pointers /\ h[j].prev \in Pointers /\ h[j].child \in Pointers
  BY Cell
<1>7. h[i] = Unallocated
  BY DEF Linked
<1>8. h[i].child = Null /\ h[i].next = Null /\ h[i].prev = Null
  BY <1>7 DEF Unallocated
<1>9. \A j \in Items : g[j].next = h[j].next /\ g[j].prev = h[j].prev /\ g[j].child = h[j].child
  BY <1>1, <1>2, <1>8
<1>10. \A j \in Free(g) : g[j] = Unallocated /\ owner[j] = Null
  BY <1>1, <1>2, <1>4 DEF Linked, Free
<1>11. \A j \in Items : owner[j] # Null =>
         owner[j] \in Allocated(g) /\ g[owner[j]].child # Null /\ owner[j] < j
  BY <1>5, <1>9 DEF Linked, Allocated
<1>12. \A j \in Items : owner[j] = Null => g[j].prev = Null /\ g[j].next = Null
  BY <1>9 DEF Linked
<1>13. \A j \in Items : g[j].next # Null =>
         owner[g[j].next] = owner[j] /\ g[g[j].next].prev = j /\ j < g[j].next
  BY <1>6, <1>9 DEF Linked, Pointers
<1>14. \A j \in Items : owner[j] # Null /\ g[owner[j]].child # j =>
         /\ g[j].prev # Null /\ g[j].prev < j
         /\ owner[g[j].prev] = owner[j] /\ g[g[j].prev].next = j
  BY <1>6, <1>9 DEF Linked, Pointers, Allocated
<1>15. \A c \in Items : g[c].child # Null =>
         LET last == g[g[c].child].prev
         IN  owner[g[c].child] = c /\ last # Null /\ owner[last] = c /\ g[last].next = Null
  BY <1>6, <1>9 DEF Linked, Pointers
<1>16. owner \in [Items -> Pointers]
  BY DEF Linked
<1>17. Linked(g, owner)
  BY <1>10, <1>11, <1>12, <1>13, <1>14, <1>15, <1>16 DEF Linked
<1>18. QED
  BY <1>1, <1>2, <1>5, <1>17 DEF g

LEMMA SetNext ==
  ASSUME NEW h \in [Items -> Cells], NEW i \in Items, NEW p \in Pointers
  PROVE  LET g == [h EXCEPT ![i].next = p]
         IN  /\ g \in [Items -> Cells]
             /\ \A j \in Items : /\ g[j].type = h[j].type /\ g[j].string = h[j].string
                                 /\ g[j].value = h[j].value /\ g[j].next = IF j = i THEN p ELSE h[j].next
                                 /\ g[j].prev = h[j].prev
                                 /\ g[j].child = h[j].child
<1> DEFINE g == [h EXCEPT ![i].next = p]
<1>1. h[i] \in Cells
  OBVIOUS
<1>2. [h[i] EXCEPT !.next = p] \in Cells
  BY <1>1, SMT DEF Cells
<1>3. g = [h EXCEPT ![i] = [h[i] EXCEPT !.next = p]]
  OBVIOUS
<1>4. /\ g \in [Items -> Cells] /\ g[i] = [h[i] EXCEPT !.next = p]
      /\ \A j \in Items : j # i => g[j] = h[j]
  BY <1>2, <1>3
<1>5. \A j \in Items : j = i =>
        /\ g[j].type = h[j].type /\ g[j].string = h[j].string /\ g[j].value = h[j].value
        /\ g[j].next = IF j = i THEN p ELSE h[j].next
        /\ g[j].prev = h[j].prev
        /\ g[j].child = h[j].child
  BY <1>1, <1>4, SMT DEF Cells
<1>6. QED
  BY <1>4, <1>5

LEMMA SetPrev ==
  ASSUME NEW h \in [Items -> Cells], NEW i \in Items, NEW p \in Pointers
  PROVE  LET g == [h EXCEPT ![i].prev = p]
         IN  /\ g \in [Items -> Cells]
             /\ \A j \in Items : /\ g[j].type = h[j].type /\ g[j].string = h[j].string
                                 /\ g[j].value = h[j].value /\ g[j].next = h[j].next
                                 /\ g[j].prev = IF j = i THEN p ELSE h[j].prev
                                 /\ g[j].child = h[j].child
<1> DEFINE g == [h EXCEPT ![i].prev = p]
<1>1. h[i] \in Cells
  OBVIOUS
<1>2. [h[i] EXCEPT !.prev = p] \in Cells
  BY <1>1, SMT DEF Cells
<1>3. g = [h EXCEPT ![i] = [h[i] EXCEPT !.prev = p]]
  OBVIOUS
<1>4. /\ g \in [Items -> Cells] /\ g[i] = [h[i] EXCEPT !.prev = p]
      /\ \A j \in Items : j # i => g[j] = h[j]
  BY <1>2, <1>3
<1>5. \A j \in Items : j = i =>
        /\ g[j].type = h[j].type /\ g[j].string = h[j].string /\ g[j].value = h[j].value
        /\ g[j].next = h[j].next
        /\ g[j].prev = IF j = i THEN p ELSE h[j].prev
        /\ g[j].child = h[j].child
  BY <1>1, <1>4, SMT DEF Cells
<1>6. QED
  BY <1>4, <1>5

LEMMA SetChild ==
  ASSUME NEW h \in [Items -> Cells], NEW i \in Items, NEW p \in Pointers
  PROVE  LET g == [h EXCEPT ![i].child = p]
         IN  /\ g \in [Items -> Cells]
             /\ \A j \in Items : /\ g[j].type = h[j].type /\ g[j].string = h[j].string
                                 /\ g[j].value = h[j].value /\ g[j].next = h[j].next
                                 /\ g[j].prev = h[j].prev
                                 /\ g[j].child = IF j = i THEN p ELSE h[j].child
<1> DEFINE g == [h EXCEPT ![i].child = p]
<1>1. h[i] \in Cells
  OBVIOUS
<1>2. [h[i] EXCEPT !.child = p] \in Cells
  BY <1>1, SMT DEF Cells
<1>3. g = [h EXCEPT ![i] = [h[i] EXCEPT !.child = p]]
  OBVIOUS
<1>4. /\ g \in [Items -> Cells] /\ g[i] = [h[i] EXCEPT !.child = p]
      /\ \A j \in Items : j # i => g[j] = h[j]
  BY <1>2, <1>3
<1>5. \A j \in Items : j = i =>
        /\ g[j].type = h[j].type /\ g[j].string = h[j].string /\ g[j].value = h[j].value
        /\ g[j].next = h[j].next
        /\ g[j].prev = h[j].prev
        /\ g[j].child = IF j = i THEN p ELSE h[j].child
  BY <1>1, <1>4, SMT DEF Cells
<1>6. QED
  BY <1>4, <1>5

(* An item that comes after all of a list is put at its end.               *)
LEMMA AddedLinked ==
  ASSUME NEW h \in [Items -> Cells], NEW owner, Linked(h, owner),
         NEW c \in Allocated(h), NEW item \in Allocated(h), owner[item] = Null,
         c < item, \A j \in Items : owner[j] = c => j < item
  PROVE  LET g == add_item_to_array(h, c, item)
         IN  /\ g \in [Items -> Cells]
             /\ Linked(g, [owner EXCEPT ![item] = c])
             /\ \A j \in Items : g[j].type = h[j].type /\ g[j].string = h[j].string
<1> DEFINE g == add_item_to_array(h, c, item)
           head == h[c].child
           last == h[head].prev
           now == [owner EXCEPT ![item] = c]
<1>1. c \in Items /\ item \in Items /\ c # item /\ c # Null /\ item # Null
  <2>1. c \in Items /\ item \in Items
    BY DEF Allocated
  <2>2. c # item
    BY <2>1, SMT DEF Items
  <2>3. QED
    BY <2>1, <2>2, NullIsNoItem
<1>2. /\ \A j \in Items : h[j].next \in Pointers /\ h[j].prev \in Pointers /\ h[j].child \in Pointers
      /\ \A j \in Items : h[j].next # item /\ h[j].child # item /\ h[j].prev # item
  BY <1>1, Cell, NotPointedAt
<1>3. owner \in [Items -> Pointers] /\ h[item].next = Null /\ h[item].prev = Null
  BY <1>1 DEF Linked
<1>4. /\ now \in [Items -> Pointers] /\ now[item] = c
      /\ \A j \in Items \ {item} : now[j] = owner[j]
  BY <1>1, <1>3 DEF Pointers
<1>5. CASE head = Null
  <2>1. g = [h EXCEPT ![c].child = item, ![item].prev = item, ![item].next = Null]
    BY <1>5 DEF add_item_to_array
  <2>2. /\ g \in [Items -> Cells]
        /\ \A j \in Items : /\ g[j].type = h[j].type /\ g[j].string = h[j].string
                            /\ g[j].value = h[j].value
                            /\ g[j].next = h[j].next
                            /\ g[j].prev = IF j = item THEN item ELSE h[j].prev
                            /\ g[j].child = IF j = c THEN item ELSE h[j].child
    <3> DEFINE g1 == [h EXCEPT ![c].child = item]
               g2 == [g1 EXCEPT ![item].prev = item]
    <3>1. item \in Pointers /\ Null \in Pointers
      BY <1>1 DEF Pointers
    <3>2. /\ g1 \in [Items -> Cells]
          /\ \A j \in Items : /\ g1[j].type = h[j].type /\ g1[j].string = h[j].string
                              /\ g1[j].value = h[j].value
                              /\ g1[j].next = h[j].next
                              /\ g1[j].prev = h[j].prev
                              /\ g1[j].child = IF j = c THEN item ELSE h[j].child
      BY <1>1, <3>1, SetChild
    <3>3. /\ g2 \in [Items -> Cells]
          /\ \A j \in Items : /\ g2[j].type = g1[j].type /\ g2[j].string = g1[j].string
                              /\ g2[j].value = g1[j].value
                              /\ g2[j].next = g1[j].next
                              /\ g2[j].prev = IF j = item THEN item ELSE g1[j].prev
                              /\ g2[j].child = g1[j].child
      <4> HIDE DEF g1
      <4>1. QED
        BY <1>1, <3>1, <3>2, SetPrev
    <3>4. g = [g2 EXCEPT ![item].next = Null]
      BY <2>1
    <3> HIDE DEF g1, g2, g
    <3>5. /\ g \in [Items -> Cells]
          /\ \A j \in Items : /\ g[j].type = g2[j].type /\ g[j].string = g2[j].string
                              /\ g[j].value = g2[j].value
                              /\ g[j].next = IF j = item THEN Null ELSE g2[j].next
                              /\ g[j].prev = g2[j].prev
                              /\ g[j].child = g2[j].child
      BY <1>1, <3>1, <3>3, <3>4, SetNext
    <3>6. QED
      BY <1>3, <3>2, <3>3, <3>5
  <2>3. \A j \in Items : owner[j] # c
    BY <1>1, <1>5 DEF Linked
  <2> HIDE DEF g, now
  <2>4. Free(g) = Free(h) /\ Allocated(g) = Allocated(h)
    BY <2>2 DEF Free, Allocated
  <2>5. \A j \in Free(g) : g[j] = Unallocated /\ now[j] = Null
    <3>1. SUFFICES ASSUME NEW j \in Free(h)
                  PROVE  g[j] = h[j] /\ j # item
      BY <1>4, <2>4 DEF Linked, Free
    <3>2. j \in Items /\ j # item /\ owner[j] = Null /\ h[j] = Unallocated
      BY DEF Linked, Free, Allocated
    <3>3. j # c
      BY DEF Free, Allocated
    <3>4. QED
      BY <2>2, <3>2, <3>3, SameCell, Cell
  <2>6. \A j \in Items : now[j] # Null =>
          now[j] \in Allocated(g) /\ g[now[j]].child # Null /\ now[j] < j
    <3>1. SUFFICES ASSUME NEW j \in Items, now[j] # Null
                  PROVE  now[j] \in Allocated(g) /\ g[now[j]].child # Null /\ now[j] < j
      OBVIOUS
    <3>2. CASE j = item
      BY <1>1, <1>4, <2>2, <2>4, <3>2
    <3>3. CASE j # item
      <4>1. owner[j] \in Allocated(h) /\ h[owner[j]].child # Null /\ owner[j] < j
        BY <1>4, <3>1, <3>3 DEF Linked
      <4>2. owner[j] \in Items
        BY <4>1 DEF Allocated
      <4>3. QED
        BY <1>1, <1>4, <2>2, <2>4, <3>3, <4>1, <4>2
    <3>4. QED
      BY <3>2, <3>3
  <2>7. \A j \in Items : now[j] = Null => g[j].prev = Null /\ g[j].next = Null
    BY <1>1, <1>4, <2>2 DEF Linked
  <2>8. \A j \in Items : g[j].next # Null =>
          now[g[j].next] = now[j] /\ g[g[j].next].prev = j /\ j < g[j].next
    BY <1>1, <1>2, <1>3, <1>4, <2>2 DEF Linked, Pointers
  <2>9. \A j \in Items : now[j] # Null /\ g[now[j]].child # j =>
          /\ g[j].prev # Null /\ g[j].prev < j
          /\ now[g[j].prev] = now[j] /\ g[g[j].prev].next = j
    <3>1. SUFFICES ASSUME NEW j \in Items, now[j] # Null, g[now[j]].child # j
                  PROVE  /\ g[j].prev # Null /\ g[j].prev < j
                         /\ now[g[j].prev] = now[j] /\ g[g[j].prev].next = j
      OBVIOUS
    <3>2. j # item
      BY <1>1, <1>4, <2>2, <3>1
    <3>3. owner[j] # Null /\ owner[j] \in Items /\ owner[j] # c
      BY <1>3, <1>4, <2>3, <3>1, <3>2 DEF Pointers
    <3>4. h[owner[j]].child # j
      BY <1>4, <2>2, <3>1, <3>2, <3>3
    <3>5. /\ h[j].prev # Null /\ h[j].prev < j
          /\ owner[h[j].prev] = owner[j] /\ h[h[j].prev].next = j
      BY <3>3, <3>4 DEF Linked
    <3>6. h[j].prev \in Items /\ h[j].prev # item
      BY <1>2, <3>5 DEF Pointers
    <3>7. QED
      BY <1>4, <2>2, <3>2, <3>5, <3>6
  <2>10. \A d \in Items : g[d].child # Null =>
          LET end == g[g[d].child].prev
          IN  now[g[d].child] = d /\ end # Null /\ now[end] = d /\ g[end].next = Null
    <3>1. SUFFICES ASSUME NEW d \in Items, g[d].child # Null
                  PROVE  LET end == g[g[d].child].prev
                         IN  now[g[d].child] = d /\ end # Null /\ now[end] = d /\ g[end].next = Null
      OBVIOUS
    <3>2. CASE d = c
      BY <1>1, <1>3, <1>4, <2>2, <3>2
    <3>3. CASE d # c
      <4> DEFINE x == h[d].child
                 end == h[x].prev
      <4>1. g[d].child = x /\ x # Null /\ x \in Items /\ x # item
        BY <1>2, <2>2, <3>1, <3>3 DEF Pointers
      <4>2. owner[x] = d /\ end # Null /\ owner[end] = d /\ h[end].next = Null
        BY <4>1 DEF Linked
      <4>3. end \in Items /\ end # item
        BY <1>2, <4>1, <4>2 DEF Pointers
      <4> HIDE DEF x, end
      <4>4. g[x].prev = end
        BY <2>2, <4>1 DEF end
      <4>5. QED
        BY <1>4, <2>2, <4>1, <4>2, <4>3, <4>4
    <3>4. QED
      BY <3>2, <3>3
  <2>11. Linked(g, now)
    BY <1>4, <2>5, <2>6, <2>7, <2>8, <2>9, <2>10 DEF Linked
  <2>12. QED
    BY <2>2, <2>11 DEF g, now
<1>6. CASE head # Null
  <2>1. /\ head \in Items /\ last \in Items /\ owner[head] = c /\ owner[last] = c
        /\ h[last].next = Null /\ head = h[c].child /\ last = h[head].prev
    BY <1>1, <1>2, <1>6 DEF Linked, Pointers
  <2>2. head # item /\ last # item /\ last # Null
    BY <1>1, <2>1, NullIsNoItem
  <2>3. g = [h EXCEPT ![last].next = item, ![item].prev = last, ![head].prev = item]
    BY <1>6, <2>2 DEF add_item_to_array, suffix_object
  <2> HIDE DEF head, last
  <2>4. /\ g \in [Items -> Cells]
        /\ \A j \in Items : /\ g[j].type = h[j].type /\ g[j].string = h[j].string
                            /\ g[j].value = h[j].value /\ g[j].child = h[j].child
                            /\ g[j].next = IF j = last THEN item ELSE h[j].next
                            /\ g[j].prev = IF j = head THEN item
                                           ELSE IF j = item THEN last ELSE h[j].prev
    <3> DEFINE g1 == [h EXCEPT ![last].next = item]
               g2 == [g1 EXCEPT ![item].prev = last]
    <3>1. item \in Pointers /\ last \in Pointers
      BY <1>1, <2>1 DEF Pointers
    <3>2. /\ g1 \in [Items -> Cells]
          /\ \A j \in Items : /\ g1[j].type = h[j].type /\ g1[j].string = h[j].string
                              /\ g1[j].value = h[j].value
                              /\ g1[j].next = IF j = last THEN item ELSE h[j].next
                              /\ g1[j].prev = h[j].prev
                              /\ g1[j].child = h[j].child
      BY <2>1, <3>1, SetNext
    <3>3. /\ g2 \in [Items -> Cells]
          /\ \A j \in Items : /\ g2[j].type = g1[j].type /\ g2[j].string = g1[j].string
                              /\ g2[j].value = g1[j].value
                              /\ g2[j].next = g1[j].next
                              /\ g2[j].prev = IF j = item THEN last ELSE g1[j].prev
                              /\ g2[j].child = g1[j].child
      <4> HIDE DEF g1
      <4>1. QED
        BY <1>1, <3>1, <3>2, SetPrev
    <3>4. g = [g2 EXCEPT ![head].prev = item]
      BY <2>3
    <3> HIDE DEF g1, g2, g
    <3>5. /\ g \in [Items -> Cells]
          /\ \A j \in Items : /\ g[j].type = g2[j].type /\ g[j].string = g2[j].string
                              /\ g[j].value = g2[j].value
                              /\ g[j].next = g2[j].next
                              /\ g[j].prev = IF j = head THEN item ELSE g2[j].prev
                              /\ g[j].child = g2[j].child
      BY <1>1, <2>1, <3>1, <3>3, <3>4, SetPrev
    <3>6. QED
      BY <1>1, <3>2, <3>3, <3>5
  <2> HIDE DEF g, now
  <2>5. Free(g) = Free(h) /\ Allocated(g) = Allocated(h)
    BY <2>4 DEF Free, Allocated
  <2>6. \A j \in Free(g) : g[j] = Unallocated /\ now[j] = Null
    <3>1. SUFFICES ASSUME NEW j \in Free(h)
                  PROVE  g[j] = h[j] /\ j # item
      BY <1>4, <2>5 DEF Linked, Free
    <3>2. j \in Items /\ j # item /\ owner[j] = Null /\ h[j] = Unallocated
      BY DEF Linked, Free, Allocated
    <3>3. j # head /\ j # last
      BY <1>1, <2>1, <3>2
    <3>4. QED
      BY <2>4, <3>2, <3>3, SameCell, Cell
  <2>7. \A j \in Items : now[j] # Null =>
          now[j] \in Allocated(g) /\ g[now[j]].child # Null /\ now[j] < j
    <3>1. SUFFICES ASSUME NEW j \in Items, now[j] # Null
                  PROVE  now[j] \in Allocated(g) /\ g[now[j]].child # Null /\ now[j] < j
      OBVIOUS
    <3>2. CASE j = item
      BY <1>1, <1>4, <1>6, <2>1, <2>4, <2>5, <3>2
    <3>3. CASE j # item
      <4>1. owner[j] \in Allocated(h) /\ h[owner[j]].child # Null /\ owner[j] < j
        BY <1>4, <3>1, <3>3 DEF Linked
      <4>2. owner[j] \in Items
        BY <4>1 DEF Allocated
      <4>3. QED
        BY <1>1, <1>4, <2>4, <2>5, <3>3, <4>1, <4>2
    <3>4. QED
      BY <3>2, <3>3
  <2>8. \A j \in Items : now[j] = Null => g[j].prev = Null /\ g[j].next = Null
    BY <1>1, <1>4, <2>1, <2>4 DEF Linked
  <2>9. \A j \in Items : g[j].next # Null =>
          now[g[j].next] = now[j] /\ g[g[j].next].prev = j /\ j < g[j].next
    <3>1. SUFFICES ASSUME NEW j \in Items, g[j].next # Null
                  PROVE  now[g[j].next] = now[j] /\ g[g[j].next].prev = j /\ j < g[j].next
      OBVIOUS
    <3>2. CASE j = last
      BY <1>1, <1>4, <2>1, <2>2, <2>4, <3>2
    <3>3. CASE j # last
      <4> DEFINE x == h[j].next
      <4>1. g[j].next = x /\ x # Null /\ x \in Items /\ x # item
        BY <1>2, <2>4, <3>1, <3>3 DEF Pointers
      <4>2. owner[x] = owner[j] /\ h[x].prev = j /\ j < x
        BY <4>1 DEF Linked
      <4>3. x # head /\ j # item
        BY <1>3, <2>1, <3>3, <4>1, <4>2
      <4> HIDE DEF x
      <4>4. QED
        BY <1>4, <2>4, <4>1, <4>2, <4>3
    <3>4. QED
      BY <3>2, <3>3
  <2>10. \A j \in Items : now[j] # Null /\ g[now[j]].child # j =>
          /\ g[j].prev # Null /\ g[j].prev < j
          /\ now[g[j].prev] = now[j] /\ g[g[j].prev].next = j
    <3>1. SUFFICES ASSUME NEW j \in Items, now[j] # Null, g[now[j]].child # j
                  PROVE  /\ g[j].prev # Null /\ g[j].prev < j
                         /\ now[g[j].prev] = now[j] /\ g[g[j].prev].next = j
      OBVIOUS
    <3>2. CASE j = item
      BY <1>1, <1>4, <2>1, <2>2, <2>4, <3>2
    <3>3. CASE j # item
      <4>1. owner[j] # Null /\ owner[j] \in Items
        BY <1>3, <1>4, <3>1, <3>3 DEF Pointers
      <4>2. h[owner[j]].child # j
        BY <1>4, <2>4, <3>1, <3>3, <4>1
      <4>3. /\ h[j].prev # Null /\ h[j].prev < j
            /\ owner[h[j].prev] = owner[j] /\ h[h[j].prev].next = j
        BY <4>1, <4>2 DEF Linked
      <4>4. h[j].prev \in Items /\ h[j].prev # item
        BY <1>2, <4>3 DEF Pointers
      <4>5. j # head /\ h[j].prev # last
        BY <2>1, <4>2, <4>3, NullIsNoItem
      <4>6. QED
        BY <1>4, <2>4, <3>3, <4>3, <4>4, <4>5
    <3>4. QED
      BY <3>2, <3>3
  <2>11. \A d \in Items : g[d].child # Null =>
          LET end == g[g[d].child].prev
          IN  now[g[d].child] = d /\ end # Null /\ now[end] = d /\ g[end].next = Null
    <3>1. SUFFICES ASSUME NEW d \in Items, g[d].child # Null
                  PROVE  LET end == g[g[d].child].prev
                         IN  now[g[d].child] = d /\ end # Null /\ now[end] = d /\ g[end].next = Null
      OBVIOUS
    <3>2. CASE d = c
      BY <1>1, <1>3, <1>4, <2>1, <2>2, <2>4, <3>2
    <3>3. CASE d # c
      <4> DEFINE x == h[d].child
                 end == h[x].prev
      <4>1. g[d].child = x /\ x # Null /\ x \in Items /\ x # item
        BY <1>2, <2>4, <3>1, <3>3 DEF Pointers
      <4>2. owner[x] = d /\ end # Null /\ owner[end] = d /\ h[end].next = Null
        BY <4>1 DEF Linked
      <4>3. end \in Items /\ end # item
        BY <1>2, <4>1, <4>2 DEF Pointers
      <4>4. x # head /\ end # last
        BY <2>1, <3>3, <4>2
      <4> HIDE DEF x, end
      <4>5. g[x].prev = end
        BY <2>4, <4>1, <4>4 DEF end
      <4>6. QED
        BY <1>4, <2>4, <4>1, <4>2, <4>3, <4>4, <4>5
    <3>4. QED
      BY <3>2, <3>3
  <2>12. Linked(g, now)
    BY <1>4, <2>6, <2>7, <2>8, <2>9, <2>10, <2>11 DEF Linked
  <2>13. QED
    BY <2>4, <2>12 DEF g, now
<1>7. QED
  BY <1>5, <1>6

(* cJSON_Delete frees whole trees: what is left is linked as before.       *)
LEMMA DeletedLinked ==
  ASSUME NEW h \in [Items -> Cells], NEW owner, Linked(h, owner),
         NEW i \in Pointers, i # Null => owner[i] = Null
  PROVE  LET g == cJSON_Delete(h, i)
             D == Doomed(h, i)
         IN  /\ g \in [Items -> Cells]
             /\ D \subseteq Items
             /\ \A j \in Items : g[j] = IF j \in D THEN Unallocated ELSE h[j]
             /\ Linked(g, [j \in Items |-> IF j \in D THEN Null ELSE owner[j]])
<1> DEFINE g == cJSON_Delete(h, i)
           D == Doomed(h, i)
           now == [j \in Items |-> IF j \in D THEN Null ELSE owner[j]]
<1>1. /\ D \subseteq Items /\ (i # Null => i \in D)
      /\ \A k \in D : /\ h[k].child # Null => h[k].child \in D
                      /\ h[k].next # Null => h[k].next \in D
                      /\ \A j \in Items : owner[j] = k => j \in D
  BY DoomedCloses
<1>2. Unallocated \in Cells
  BY SMT DEF Unallocated, Cells, Pointers, NoName, NoValue, Null
<1>3. /\ g \in [Items -> Cells]
      /\ \A j \in Items : g[j] = IF j \in D THEN Unallocated ELSE h[j]
  <2> HIDE DEF D
  <2>1. g = [j \in Items |-> IF j \in D THEN Unallocated ELSE h[j]]
    BY DEF cJSON_Delete, D
  <2>2. QED
    BY <1>2, <2>1
<1>4. /\ \A j \in Items : h[j].next \in Pointers /\ h[j].prev \in Pointers /\ h[j].child \in Pointers
      /\ owner \in [Items -> Pointers]
  BY Cell DEF Linked
<1>5. \A j \in D : j # i => owner[j] \in D
  <2> DEFINE S == {j \in D : j = i \/ owner[j] \in D}
  <2>1. i # Null => i \in S
    BY <1>1
  <2>2. ASSUME NEW k \in S \cap Items
        PROVE  /\ h[k].child # Null => h[k].child \in S
               /\ h[k].next # Null => h[k].next \in S
    <3>1. k \in D /\ (k # i => owner[k] \in D)
      OBVIOUS
    <3>2. h[k].child # Null => owner[h[k].child] = k
      BY DEF Linked
    <3>3. h[k].next # Null => owner[h[k].next] = owner[k] /\ owner[k] # Null
      BY DEF Linked
    <3>4. k = i => h[k].next = Null
      BY <3>3, NullIsNoItem
    <3> HIDE DEF D
    <3>5. QED
      BY <1>1, <3>1, <3>2, <3>3, <3>4
  <2> HIDE DEF S
  <2>3. D \subseteq S
    BY <2>1, <2>2, DoomedLeast
  <2>4. QED
    BY <2>3 DEF S
<1> HIDE DEF D
<1>6. /\ now \in [Items -> Pointers]
      /\ \A j \in Items : now[j] = IF j \in D THEN Null ELSE owner[j]
  BY <1>4 DEF Pointers
<1> HIDE DEF g, now
<1>7. \A j \in Items : owner[j] # Null /\ owner[j] \notin D => j \notin D
  BY <1>1, <1>5, NullIsNoItem
<1>8. \A j \in Items : j \notin D => owner[j] \notin D
  BY <1>1
<1>9. /\ Unallocated.type = "unallocated" /\ Unallocated.next = Null
      /\ Unallocated.prev = Null /\ Unallocated.child = Null
  BY DEF Unallocated
<1>10. Free(g) = Free(h) \cup D /\ Allocated(g) = Allocated(h) \ D
  BY <1>1, <1>3, <1>9 DEF Free, Allocated
<1>11. \A j \in Free(g) : g[j] = Unallocated /\ now[j] = Null
  BY <1>1, <1>3, <1>6, <1>10 DEF Linked, Free
<1>12. ASSUME NEW j \in Items, now[j] # Null
       PROVE  now[j] \in Allocated(g) /\ g[now[j]].child # Null /\ now[j] < j
  <2>1. j \notin D /\ now[j] = owner[j] /\ owner[j] \notin D /\ owner[j] # Null
    BY <1>6, <1>8, <1>12
  <2>2. owner[j] \in Allocated(h) /\ h[owner[j]].child # Null /\ owner[j] < j
    BY <2>1 DEF Linked
  <2>3. owner[j] \in Items
    BY <2>2 DEF Allocated
  <2>4. QED
    BY <1>3, <1>10, <2>1, <2>2, <2>3
<1>13. ASSUME NEW j \in Items, now[j] = Null
       PROVE  g[j].prev = Null /\ g[j].next = Null
  <2>1. CASE j \in D
    BY <1>3, <1>9, <2>1
  <2>2. CASE j \notin D
    BY <1>3, <1>6, <1>13, <2>2 DEF Linked
  <2>3. QED
    BY <2>1, <2>2
<1>14. ASSUME NEW j \in Items, g[j].next # Null
       PROVE  now[g[j].next] = now[j] /\ g[g[j].next].prev = j /\ j < g[j].next
  <2> DEFINE x == h[j].next
  <2>1. j \notin D /\ g[j] = h[j]
    BY <1>3, <1>9, <1>14
  <2>2. x # Null /\ x \in Items /\ owner[j] # Null
    BY <1>4, <1>14, <2>1 DEF Linked, Pointers
  <2>3. owner[x] = owner[j] /\ h[x].prev = j /\ j < x
    BY <2>2 DEF Linked
  <2>4. x \notin D
    BY <1>7, <1>8, <2>1, <2>2, <2>3
  <2> HIDE DEF x
  <2>5. g[j].next = x /\ g[x] = h[x] /\ now[x] = owner[x] /\ now[j] = owner[j]
    BY <1>3, <1>6, <2>1, <2>2, <2>4 DEF x
  <2>6. QED
    BY <2>3, <2>5
<1>15. ASSUME NEW j \in Items, now[j] # Null, g[now[j]].child # j
       PROVE  /\ g[j].prev # Null /\ g[j].prev < j
              /\ now[g[j].prev] = now[j] /\ g[g[j].prev].next = j
  <2> DEFINE p == h[j].prev
  <2>1. /\ j \notin D /\ g[j] = h[j] /\ now[j] = owner[j]
        /\ owner[j] # Null /\ owner[j] \notin D /\ owner[j] \in Items
    BY <1>3, <1>4, <1>6, <1>8, <1>15 DEF Pointers
  <2>2. h[owner[j]].child # j
    BY <1>3, <1>15, <2>1
  <2>3. p # Null /\ p < j /\ owner[p] = owner[j] /\ h[p].next = j
    BY <2>1, <2>2 DEF Linked
  <2>4. p \in Items /\ p \notin D
    BY <1>4, <1>7, <2>1, <2>3 DEF Pointers
  <2> HIDE DEF p
  <2>5. g[j].prev = p /\ g[p] = h[p] /\ now[p] = owner[p]
    BY <1>3, <1>6, <2>1, <2>4 DEF p
  <2>6. QED
    BY <2>1, <2>3, <2>5
<1>16. ASSUME NEW c \in Items, g[c].child # Null
       PROVE  LET last == g[g[c].child].prev
              IN  now[g[c].child] = c /\ last # Null /\ now[last] = c /\ g[last].next = Null
  <2> DEFINE x == h[c].child
             end == h[x].prev
  <2>1. c \notin D /\ g[c] = h[c]
    BY <1>3, <1>9, <1>16
  <2>2. x # Null /\ x \in Items
    BY <1>4, <1>16, <2>1 DEF Pointers
  <2>3. owner[x] = c /\ end # Null /\ owner[end] = c /\ h[end].next = Null
    BY <2>2 DEF Linked
  <2>4. end \in Items
    BY <1>4, <2>2, <2>3 DEF Pointers
  <2>5. x \notin D /\ end \notin D
    BY <1>7, <2>1, <2>2, <2>3, <2>4, NullIsNoItem
  <2> HIDE DEF x, end
  <2>6. /\ g[c].child = x /\ g[x].prev = end /\ g[end] = h[end]
        /\ now[x] = owner[x] /\ now[end] = owner[end]
    BY <1>3, <1>6, <2>1, <2>2, <2>4, <2>5 DEF x, end
  <2>7. QED
    BY <2>3, <2>6
<1>17. Linked(g, now)
  BY <1>6, <1>11, <1>12, <1>13, <1>14, <1>15, <1>16 DEF Linked
<1>18. QED
  BY <1>1, <1>3, <1>17 DEF g, D, now

(* Every item is in the tree of one that is in no list.                    *)
LEMMA InSomeTree ==
  ASSUME NEW h \in [Items -> Cells], NEW owner, Linked(h, owner), NEW S,
         \A i \in Allocated(h) : owner[i] = Null => i \in S,
         \A k \in S : \A j \in Items : owner[j] = k => j \in S
  PROVE  Allocated(h) \subseteq S
<1> DEFINE T == {i \in Items : i \in Allocated(h) /\ i \notin S}
<1>1. SUFFICES ASSUME T # {}
              PROVE  FALSE
  BY DEF Allocated
<1>2. PICK i \in T : \A j \in T : ~(j < i)
  <2>1. T \in SUBSET Nat /\ T # {}
    BY <1>1, SMT DEF Items
  <2>2. QED
    BY Least, <2>1
<1>3. owner[i] # Null
  BY <1>2
<1>4. owner[i] \in Allocated(h) /\ owner[i] < i
  BY <1>2, <1>3 DEF Linked
<1>5. owner[i] \in S
  BY <1>2, <1>4 DEF Allocated
<1>6. QED
  BY <1>2, <1>5

-----------------------------------------------------------------------------
(* The open blocks.                                                        *)

LEMMA BoundedBlocks ==
  ASSUME NEW s
  PROVE  s \in BoundedSeq(Items, MaxItems) <=> s \in Seq(Items) /\ Len(s) <= MaxItems
<1>1. MaxItems \in Nat
  BY ItemsAssumption
<1>2. ASSUME s \in BoundedSeq(Items, MaxItems)
      PROVE  s \in Seq(Items) /\ Len(s) <= MaxItems
  <2>1. PICK m \in 0 .. MaxItems : s \in [1 .. m -> Items]
    BY <1>2 DEF BoundedSeq, SeqOf
  <2>2. QED
    BY <1>1, <2>1, SMT
<1>3. ASSUME s \in Seq(Items), Len(s) <= MaxItems
      PROVE  s \in BoundedSeq(Items, MaxItems)
  <2>1. Len(s) \in 0 .. MaxItems /\ s \in [1 .. Len(s) -> Items]
    BY <1>1, <1>3, LenProperties, SMT
  <2>2. QED
    BY <2>1 DEF BoundedSeq, SeqOf
<1>4. QED
  BY <1>2, <1>3

(* Blocks are in the order of their addresses, of which there are no more  *)
(* than items.                                                             *)
LEMMA FewBlocks ==
  ASSUME NEW s \in Seq(Items), \A k, l \in 1 .. Len(s) : k < l => s[k] < s[l]
  PROVE  s \in BoundedSeq(Items, MaxItems)
<1>1. MaxItems \in Nat /\ Len(s) \in Nat /\ \A k \in 1 .. Len(s) : s[k] \in 1 .. MaxItems
  BY ItemsAssumption, LenProperties DEF Items
<1> DEFINE T == {k \in 1 .. Len(s) : s[k] < k}
<1>2. T = {}
  <2>1. SUFFICES ASSUME T # {}
                PROVE  FALSE
    OBVIOUS
  <2>2. PICK k \in T : \A j \in T : ~(j < k)
    <3>1. T \in SUBSET Nat /\ T # {}
      BY <1>1, <2>1, SMT
    <3>2. QED
      BY Least, <3>1
  <2>3. k \in 1 .. Len(s) /\ s[k] < k /\ s[k] \in 1 .. MaxItems
    BY <1>1, <2>2
  <2>4. k - 1 \in 1 .. Len(s) /\ k - 1 < k
    BY <1>1, <2>3, SMT
  <2>5. s[k - 1] < s[k] /\ ~(s[k - 1] < k - 1) /\ s[k - 1] \in 1 .. MaxItems
    BY <1>1, <2>2, <2>3, <2>4
  <2>6. QED
    BY <1>1, <2>3, <2>5, SMT
<1>3. Len(s) <= MaxItems
  <2>1. CASE Len(s) = 0
    BY <1>1, <2>1
  <2>2. CASE Len(s) # 0
    <3>1. Len(s) \in 1 .. Len(s)
      BY <1>1, <2>2, SMT
    <3>2. ~(s[Len(s)] < Len(s)) /\ s[Len(s)] \in 1 .. MaxItems
      BY <1>1, <1>2, <3>1
    <3>3. QED
      BY <1>1, <3>2, SMT
  <2>3. QED
    BY <2>1, <2>2
<1>4. QED
  BY <1>3, BoundedBlocks

LEMMA FreshComesLast ==
  ASSUME NEW h \in [Items -> Cells], NEW i, Fresh(h, i),
         \A a \in Allocated(h) : \A j \in Items : j < a => j \in Allocated(h)
  PROVE  /\ i \in Items /\ i \in Free(h) /\ i \notin Allocated(h)
         /\ \A a \in Allocated(h) : a < i
         /\ \A a \in Allocated(h) \cup {i} : \A j \in Items : j < a => j \in Allocated(h) \cup {i}
<1>1. i \in Items /\ i \in Free(h) /\ i \notin Allocated(h)
  BY DEF Fresh, Free, Allocated
<1>2. \A j \in Items : j < i => j \in Allocated(h)
  BY <1>1, SMT DEF Fresh, Allocated, Items
<1>3. ASSUME NEW a \in Allocated(h)
      PROVE  a < i
  <2>1. a \in Items /\ a # i /\ ~(i < a)
    BY <1>1 DEF Allocated
  <2>2. QED
    BY <1>1, <2>1, SMT DEF Items
<1>4. QED
  BY <1>1, <1>2, <1>3

-----------------------------------------------------------------------------
(* The steps.                                                              *)

Kinds == {"String", "Number", "True", "False", "Object", "Array"}
Labels == Names \cup {NoName}
Contents == Strings \cup Numbers \cup {NoValue}

NewCell(type, name, value) ==
  [type |-> type, string |-> name, value |-> value,
   next |-> Null, prev |-> Null, child |-> Null]

Stored(h, i, cell) == [h EXCEPT ![i] = cell]

LEMMA NewCellIs ==
  ASSUME NEW type \in Kinds, NEW name \in Labels, NEW value \in Contents
  PROVE  /\ NewCell(type, name, value) \in Cells
         /\ NewCell(type, name, value).type = type /\ type # "unallocated"
         /\ NewCell(type, name, value).string = name
         /\ NewCell(type, name, value).next = Null
         /\ NewCell(type, name, value).prev = Null
         /\ NewCell(type, name, value).child = Null
BY SMT DEF NewCell, Cells, Kinds, Labels, Contents, Pointers

LEMMA CreatedIs ==
  ASSUME NEW h \in [Items -> Cells], NEW i \in Items,
         NEW type \in Kinds, NEW name \in Labels, NEW value \in Contents, NEW c
  PROVE  /\ Created(h, i, type, value) = Stored(h, i, NewCell(type, NoName, value))
         /\ add_item_to_object(Created(h, i, type, value), c, name, i)
              = add_item_to_array(Stored(h, i, NewCell(type, name, value)), c, i)
<1>1. [Unallocated EXCEPT !.type = type, !.value = value] = NewCell(type, NoName, value)
  <2> DEFINE u1 == [Unallocated EXCEPT !.type = type]
             u2 == [u1 EXCEPT !.value = value]
             new == NewCell(type, NoName, value)
  <2>1. /\ Unallocated \in Cells
        /\ Unallocated.string = NoName /\ Unallocated.next = Null
        /\ Unallocated.prev = Null /\ Unallocated.child = Null
    BY SMT DEF Unallocated, Cells, Pointers
  <2>2. /\ u1 \in Cells /\ u1.type = type /\ u1.string = Unallocated.string
        /\ u1.next = Unallocated.next /\ u1.prev = Unallocated.prev
        /\ u1.child = Unallocated.child
    BY <2>1, SMT DEF Cells, Kinds
  <2> HIDE DEF u1
  <2>3. /\ u2 \in Cells /\ u2.type = u1.type /\ u2.string = u1.string /\ u2.value = value
        /\ u2.next = u1.next /\ u2.prev = u1.prev /\ u2.child = u1.child
    BY <2>2, SMT DEF Cells, Contents
  <2>4. /\ new \in Cells /\ new.type = type /\ new.string = NoName /\ new.value = value
        /\ new.next = Null /\ new.prev = Null /\ new.child = Null
    BY SMT DEF NewCell, Cells, Kinds, Contents, Pointers
  <2> HIDE DEF u2, new
  <2>5. u2 = new
    BY <2>1, <2>2, <2>3, <2>4, SameCell
  <2>6. QED
    BY <2>5 DEF u2, u1, new
<1>2. Created(h, i, type, value) = [h EXCEPT ![i] = NewCell(type, NoName, value)]
  BY <1>1 DEF Created
<1>3. [NewCell(type, NoName, value) EXCEPT !.string = name] = NewCell(type, name, value)
  BY DEF NewCell
<1>4. [Created(h, i, type, value) EXCEPT ![i].string = name]
         = [h EXCEPT ![i] = NewCell(type, name, value)]
  BY <1>2, <1>3
<1>5. QED
  BY <1>2, <1>4 DEF add_item_to_object, Stored

Constructing(owner) ==
  /\ heap \in [Items -> Cells]
  /\ blocks \in Seq(Items)
  /\ response \in Pointers
  /\ Linked(heap, owner)
  /\ Growing(owner)

Owned(owner, i, c) == [owner EXCEPT ![i] = c]

(* A field is put into the innermost block.                                *)
LEMMA FieldAdded ==
  ASSUME NEW owner, Constructing(owner), blocks # <<>>, NEW i, Fresh(heap, i),
         NEW type \in Kinds, NEW value \in Contents, NEW name \in Names,
         NEW g, g = add_item_to_object(Created(heap, i, type, value), Last(blocks), name, i),
         NEW now, now = Owned(owner, i, Last(blocks))
  PROVE  /\ g \in [Items -> Cells] /\ Linked(g, now)
         /\ Allocated(g) = Allocated(heap) \cup {i}
         /\ now[i] = Last(blocks) /\ \A j \in Items \ {i} : now[j] = owner[j]
         /\ g[i].type = type
         /\ \A j \in Items \ {i} : g[j].type = heap[j].type /\ g[j].string = heap[j].string
<1> DEFINE c == Last(blocks)
           cell == NewCell(type, name, value)
           h == Stored(heap, i, cell)
<1>1. /\ heap \in [Items -> Cells] /\ Linked(heap, owner) /\ owner \in [Items -> Pointers]
      /\ \A a \in Allocated(heap) : \A j \in Items : j < a => j \in Allocated(heap)
  BY DEF Constructing, Growing, Linked
<1>2. c \in Allocated(heap) /\ c \in Items
  BY LenProperties, EmptySeq, SMT DEF Constructing, Growing, Last, Allocated
<1>3. /\ i \in Items /\ i \in Free(heap) /\ i \notin Allocated(heap)
      /\ \A a \in Allocated(heap) : a < i
  BY <1>1, FreshComesLast
<1>4. /\ cell \in Cells /\ cell.type = type /\ type # "unallocated"
      /\ cell.next = Null /\ cell.prev = Null /\ cell.child = Null
  BY NewCellIs DEF Labels
<1>5. g = add_item_to_array(h, c, i)
  <2>1. name \in Labels /\ heap \in [Items -> Cells] /\ i \in Items
    BY <1>1, <1>3 DEF Labels
  <2>2. QED
    BY <2>1, CreatedIs
<1> HIDE DEF cell, c
<1>6. /\ h \in [Items -> Cells] /\ Linked(h, owner)
      /\ Allocated(h) = Allocated(heap) \cup {i} /\ owner[i] = Null
  BY <1>1, <1>3, <1>4, CreatedLinked DEF Stored
<1>7. h[i] = cell /\ \A j \in Items \ {i} : h[j] = heap[j]
  BY <1>1, <1>3 DEF Stored
<1> HIDE DEF h
<1>8. \A j \in Items : owner[j] = c => j < i
  <2>1. ASSUME NEW j \in Items, owner[j] = c
        PROVE  j \in Allocated(heap)
    BY <1>1, <1>2, <2>1, NullIsNoItem DEF Linked, Allocated
  <2>2. QED
    BY <1>3, <2>1
<1>9. /\ g \in [Items -> Cells] /\ Linked(g, [owner EXCEPT ![i] = c])
      /\ \A j \in Items : g[j].type = h[j].type /\ g[j].string = h[j].string
  <2>1. c \in Allocated(h) /\ i \in Allocated(h) /\ c < i
    BY <1>2, <1>3, <1>6
  <2>2. /\ add_item_to_array(h, c, i) \in [Items -> Cells]
        /\ Linked(add_item_to_array(h, c, i), [owner EXCEPT ![i] = c])
        /\ \A j \in Items : /\ add_item_to_array(h, c, i)[j].type = h[j].type
                            /\ add_item_to_array(h, c, i)[j].string = h[j].string
    BY <1>6, <1>8, <2>1, AddedLinked
  <2>3. QED
    BY <1>5, <2>2
<1>10. Allocated(g) = Allocated(h)
  BY <1>9 DEF Allocated, Free
<1>11. now[i] = c /\ \A j \in Items \ {i} : now[j] = owner[j]
  BY <1>1, <1>3 DEF c, Owned
<1>12. Linked(g, now)
  BY <1>9 DEF c, Owned
<1>13. QED
  BY <1>3, <1>4, <1>6, <1>7, <1>9, <1>10, <1>11, <1>12 DEF c

LEMMA Opened ==
  ASSUME IInv, phase \in {"build", "built"}
  PROVE  \E owner : Constructing(owner)
<1>1. blocks \in Seq(Items)
  BY BoundedBlocks DEF IInv, TypeOK
<1>2. QED
  BY <1>1 DEF IInv, TypeOK, Constructing

LEMMA StillGrowing ==
  ASSUME NEW owner, Constructing(owner)', phase' \in {"build", "built"},
         phase' = "build" => blocks' # <<>> /\ blocks'[1] = response',
         phase' = "built" => blocks' = <<>>
  PROVE  IInv'
<1>1. blocks' \in BoundedSeq(Items, MaxItems)
  BY FewBlocks DEF Constructing, Growing
<1>2. TypeOK'
  BY <1>1 DEF TypeOK, Constructing
<1>3. owner \in [Items -> Pointers]
  BY DEF Constructing, Linked
<1>4. NothingLost'
  BY DEF NothingLost
<1>5. QED
  BY <1>2, <1>3, <1>4 DEF IInv, Constructing

LEMMA FieldGrows ==
  ASSUME NEW owner, Constructing(owner), blocks # <<>>, heap[Last(blocks)].type = "Object",
         NEW i, Fresh(heap, i),
         NEW type \in Kinds, NEW value \in Contents, NEW name \in Names,
         heap' = add_item_to_object(Created(heap, i, type, value), Last(blocks), name, i),
         response' = response, blocks' = blocks \/ blocks' = Append(blocks, i)
  PROVE  \E now : Constructing(now)'
<1> DEFINE top == Len(blocks)
<1>0. PICK now : now = Owned(owner, i, Last(blocks))
  OBVIOUS
<1>1. /\ heap' \in [Items -> Cells] /\ Linked(heap', now)
      /\ Allocated(heap') = Allocated(heap) \cup {i}
      /\ now[i] = Last(blocks) /\ \A j \in Items \ {i} : now[j] = owner[j]
      /\ \A j \in Items \ {i} : heap'[j].type = heap[j].type /\ heap'[j].string = heap[j].string
  BY <1>0, FieldAdded
<1>2. /\ heap \in [Items -> Cells] /\ blocks \in Seq(Items) /\ response \in Pointers
      /\ Linked(heap, owner) /\ Growing(owner)
  BY DEF Constructing
<1>3. /\ i \in Items /\ i \notin Allocated(heap)
      /\ \A a \in Allocated(heap) : a < i
      /\ \A a \in Allocated(heap') : \A j \in Items : j < a => j \in Allocated(heap')
  <2>1. \A a \in Allocated(heap) : \A j \in Items : j < a => j \in Allocated(heap)
    BY <1>2 DEF Growing
  <2>2. QED
    BY <1>1, <1>2, <2>1, FreshComesLast
<1>4. top \in Nat /\ top >= 1 /\ top = Len(blocks)
  BY <1>2, LenProperties, EmptySeq, SMT
<1>5. /\ blocks' \in Seq(Items)
      /\ \/ Len(blocks') = top
         \/ Len(blocks') = top + 1 /\ blocks'[top + 1] = i
      /\ \A k \in 1 .. top : blocks'[k] = blocks[k]
  BY <1>2, <1>3, <1>4, AppendProperties, SMT
<1> HIDE DEF top
<1>6. \A k \in 1 .. top : blocks[k] \in Allocated(heap) /\ blocks[k] \in Items /\ blocks[k] # i
  BY <1>2, <1>3, <1>4 DEF Growing, Allocated
<1>7. Last(blocks) = blocks[top] /\ Last(blocks) \in Items /\ Last(blocks) # Null
  BY <1>4, <1>6, NullIsNoItem, SMT DEF Last
<1>8. /\ response' \in Allocated(heap') /\ now[response'] = Null
      /\ response' \in Pointers
  BY <1>1, <1>2, <1>3 DEF Growing, Allocated
<1>9. \A k \in 1 .. Len(blocks') : blocks'[k] \in Allocated(heap')
  BY <1>1, <1>4, <1>5, <1>6, SMT
<1>10. \A k, l \in 1 .. Len(blocks') : k < l => blocks'[k] < blocks'[l]
  <2>1. SUFFICES ASSUME NEW k \in 1 .. Len(blocks'), NEW l \in 1 .. Len(blocks'), k < l
                PROVE  blocks'[k] < blocks'[l]
    OBVIOUS
  <2>2. k \in 1 .. top /\ blocks'[k] = blocks[k]
    BY <1>4, <1>5, <2>1, SMT
  <2>3. CASE l \in 1 .. top
    BY <1>2, <1>4, <1>5, <2>1, <2>2, <2>3 DEF Growing
  <2>4. CASE l \notin 1 .. top
    <3>1. blocks'[l] = i
      BY <1>4, <1>5, <2>1, <2>4, SMT
    <3>2. QED
      BY <1>3, <1>6, <2>2, <3>1
  <2>5. QED
    BY <2>3, <2>4
<1>11. \A k \in 2 .. Len(blocks') :
         IF Pending(k)'
         THEN /\ now[blocks'[k]] = Null /\ heap'[blocks'[k]].string = NoName
              /\ \A j \in Items : now[j] = blocks'[k - 1] => j < blocks'[k]
         ELSE now[blocks'[k]] # Null
  <2>1. SUFFICES ASSUME NEW k \in 2 .. Len(blocks')
                PROVE  IF Pending(k)'
                       THEN /\ now[blocks'[k]] = Null /\ heap'[blocks'[k]].string = NoName
                            /\ \A j \in Items : now[j] = blocks'[k - 1] => j < blocks'[k]
                       ELSE now[blocks'[k]] # Null
    OBVIOUS
  <2>2. k - 1 \in 1 .. top /\ blocks'[k - 1] = blocks[k - 1]
    BY <1>4, <1>5, <2>1, SMT
  <2>3. heap'[blocks'[k - 1]].type = heap[blocks[k - 1]].type /\ blocks[k - 1] \in Items
    BY <1>1, <1>6, <2>2
  <2>4. Pending(k)' <=> Pending(k)
    BY <2>3 DEF Pending
  <2>5. CASE k \in 2 .. top
    <3>1. k \in 1 .. top /\ blocks'[k] = blocks[k]
      BY <1>4, <1>5, <2>5, SMT
    <3>2. /\ now[blocks'[k]] = owner[blocks[k]]
          /\ heap'[blocks'[k]].string = heap[blocks[k]].string
      BY <1>1, <1>6, <3>1
    <3>3. k \in 2 .. Len(blocks)
      BY <2>5, <1>4
    <3>4. CASE Pending(k)
      <4>1. /\ owner[blocks[k]] = Null /\ heap[blocks[k]].string = NoName
            /\ \A j \in Items : owner[j] = blocks[k - 1] => j < blocks[k]
        BY <1>2, <3>3, <3>4 DEF Growing
      <4>2. blocks[k - 1] # Last(blocks)
        BY <3>4, <2>2 DEF Pending
      <4>3. \A j \in Items : now[j] = blocks'[k - 1] => j < blocks'[k]
        BY <1>1, <2>2, <3>1, <4>1, <4>2
      <4>4. QED
        BY <2>4, <3>2, <3>4, <4>1, <4>3
    <3>5. CASE ~Pending(k)
      BY <1>2, <2>4, <3>2, <3>3, <3>5 DEF Growing
    <3>6. QED
      BY <3>4, <3>5
  <2>6. CASE k \notin 2 .. top
    <3>1. k = top + 1 /\ k - 1 = top /\ blocks'[k] = i
      BY <1>4, <1>5, <2>1, <2>6, SMT
    <3>2. ~Pending(k)
      BY <1>7, <3>1 DEF Pending
    <3>3. QED
      BY <1>1, <1>7, <2>4, <3>1, <3>2
  <2>7. QED
    BY <2>5, <2>6
<1>12. \A a \in Allocated(heap') : now[a] = Null =>
         a = response' \/ \E k \in 2 .. Len(blocks') : blocks'[k] = a /\ Pending(k)'
  <2>1. SUFFICES ASSUME NEW a \in Allocated(heap'), now[a] = Null, a # response'
                PROVE  \E k \in 2 .. Len(blocks') : blocks'[k] = a /\ Pending(k)'
    OBVIOUS
  <2>2. a \in Allocated(heap) /\ owner[a] = Null
    BY <1>1, <1>7, <2>1 DEF Allocated
  <2>3. PICK k \in 2 .. Len(blocks) : blocks[k] = a /\ Pending(k)
    BY <1>2, <2>1, <2>2 DEF Growing
  <2>4. k \in 1 .. top /\ k - 1 \in 1 .. top /\ k \in 2 .. Len(blocks')
    BY <1>4, <1>5, <2>3, SMT
  <2>5. /\ blocks'[k] = a /\ blocks'[k - 1] = blocks[k - 1]
        /\ heap'[blocks'[k - 1]].type = heap[blocks[k - 1]].type
    BY <1>1, <1>5, <1>6, <2>3, <2>4
  <2>6. Pending(k)'
    BY <2>3, <2>5 DEF Pending
  <2>7. QED
    BY <2>4, <2>5, <2>6
<1>13. Growing(now)'
  BY <1>3, <1>8, <1>9, <1>10, <1>11, <1>12 DEF Growing
<1>14. Constructing(now)'
  BY <1>1, <1>5, <1>8, <1>13 DEF Constructing
<1>15. QED
  BY <1>14

LEMMA RootCreated ==
  ASSUME IInv, NEW i, CreateResponse(i)
  PROVE  IInv'
<1>1. /\ phase = "idle" /\ Fresh(heap, i) /\ heap' = Created(heap, i, "Object", NoValue)
      /\ response' = i /\ blocks' = <<i>> /\ phase' = "build"
      /\ heap = EmptyHeap /\ heap \in [Items -> Cells]
  BY DEF CreateResponse, IInv, TypeOK
<1>2. PICK owner \in [Items -> Pointers] : Linked(heap, owner)
  BY DEF IInv
<1> DEFINE cell == NewCell("Object", NoName, NoValue)
<1>3. /\ cell \in Cells /\ cell.type = "Object" /\ cell.type # "unallocated"
      /\ cell.string = NoName
      /\ cell.next = Null /\ cell.prev = Null /\ cell.child = Null
  <2>1. "Object" \in Kinds /\ NoName \in Labels /\ NoValue \in Contents
    BY DEF Kinds, Labels, Contents
  <2>2. QED
    BY <2>1, NewCellIs
<1>4. i \in Items /\ i \in Free(heap)
  BY <1>1 DEF Fresh, Free
<1>5. heap' = Stored(heap, i, cell)
  <2>1. "Object" \in Kinds /\ NoName \in Labels /\ NoValue \in Contents
    BY DEF Kinds, Labels, Contents
  <2>2. Created(heap, i, "Object", NoValue) = Stored(heap, i, cell)
    BY <1>1, <1>4, <2>1, CreatedIs
  <2>3. QED
    BY <1>1, <2>2
<1> HIDE DEF cell
<1>6. /\ heap' \in [Items -> Cells] /\ Linked(heap', owner)
      /\ Allocated(heap') = Allocated(heap) \cup {i} /\ owner[i] = Null
  BY <1>1, <1>2, <1>3, <1>4, <1>5, CreatedLinked DEF Stored
<1>7. Allocated(heap) = {} /\ Free(heap) = Items
  BY <1>1 DEF Allocated, Free, EmptyHeap, Unallocated
<1>8. \A j \in Items : ~(j < i)
  BY <1>1, <1>4, <1>7, SMT DEF Fresh, Items
<1>9. blocks' \in Seq(Items) /\ Len(blocks') = 1 /\ blocks'[1] = i /\ blocks' # <<>>
  BY <1>1, <1>4, SMT
<1>10. i \in Pointers
  BY <1>4 DEF Pointers
<1>11. Growing(owner)'
  <2>1. \A a \in Allocated(heap') : \A j \in Items : j < a => j \in Allocated(heap')
    BY <1>6, <1>7, <1>8
  <2>2. response' \in Allocated(heap') /\ owner[response'] = Null
    BY <1>1, <1>6
  <2>3. \A k \in 1 .. Len(blocks') : k = 1 /\ blocks'[k] \in Allocated(heap')
    BY <1>6, <1>9, SMT
  <2>4. \A k, l \in 1 .. Len(blocks') : k < l => blocks'[k] < blocks'[l]
    BY <2>3
  <2>5. \A k \in 2 .. Len(blocks') : FALSE
    BY <1>9, SMT
  <2>6. \A a \in Allocated(heap') : a = response'
    BY <1>1, <1>6, <1>7
  <2>7. QED
    BY <2>1, <2>2, <2>3, <2>4, <2>5, <2>6 DEF Growing
<1>12. Constructing(owner)'
  BY <1>1, <1>6, <1>9, <1>10, <1>11 DEF Constructing
<1>13. QED
  BY <1>1, <1>9, <1>12, StillGrowing

LEMMA FieldIsAdded ==
  ASSUME IInv, NEW i, NEW name \in Names, NEW type \in Kinds, NEW value \in Contents,
         AddField(i, name, type, value)
  PROVE  IInv'
<1>1. /\ phase = "build" /\ phase' = phase /\ response' = response /\ blocks' = blocks
      /\ blocks # <<>> /\ heap[Last(blocks)].type = "Object" /\ Fresh(heap, i)
      /\ heap' = add_item_to_object(Created(heap, i, type, value), Last(blocks), name, i)
  BY DEF AddField, Building, Innermost
<1>2. PICK owner : Constructing(owner)
  BY <1>1, Opened
<1>3. PICK now : Constructing(now)'
  BY <1>1, <1>2, FieldGrows
<1>4. blocks[1] = response
  BY <1>1 DEF IInv
<1>5. QED
  BY <1>1, <1>3, <1>4, StillGrowing

LEMMA FieldIsOpened ==
  ASSUME IInv, NEW i, NEW name \in Names, NEW type \in Kinds, OpenField(i, name, type)
  PROVE  IInv'
<1>1. /\ phase = "build" /\ phase' = phase /\ response' = response
      /\ blocks' = Append(blocks, i)
      /\ blocks # <<>> /\ heap[Last(blocks)].type = "Object" /\ Fresh(heap, i)
      /\ heap' = add_item_to_object(Created(heap, i, type, NoValue), Last(blocks), name, i)
  BY DEF OpenField, Building, Innermost
<1>2. PICK owner : Constructing(owner)
  BY <1>1, Opened
<1>3. NoValue \in Contents
  BY DEF Contents
<1>4. PICK now : Constructing(now)'
  BY <1>1, <1>2, <1>3, FieldGrows
<1>5. blocks' # <<>> /\ blocks'[1] = response'
  <2>1. blocks \in Seq(Items) /\ i \in Items /\ blocks[1] = response
    BY <1>1, <1>2 DEF Constructing, Fresh, Free, IInv
  <2>2. QED
    BY <1>1, <2>1, AppendProperties, EmptySeq, SMT
<1>6. QED
  BY <1>1, <1>4, <1>5, StillGrowing

LEMMA ElementIsOpened ==
  ASSUME IInv, NEW i, OpenElement(i)
  PROVE  IInv'
<1>1. /\ phase = "build" /\ phase' = phase /\ response' = response
      /\ blocks' = Append(blocks, i) /\ blocks # <<>>
      /\ heap[Last(blocks)].type = "Array" /\ Fresh(heap, i)
      /\ heap' = Created(heap, i, "Object", NoValue)
      /\ blocks[1] = response
  BY DEF OpenElement, Building, Innermost, IInv
<1>2. PICK owner : Constructing(owner)
  BY <1>1, Opened
<1>3. /\ heap \in [Items -> Cells] /\ blocks \in Seq(Items) /\ response \in Pointers
      /\ Linked(heap, owner) /\ Growing(owner)
  BY <1>2 DEF Constructing
<1> DEFINE cell == NewCell("Object", NoName, NoValue)
<1>0. PICK top : top = Len(blocks)
  OBVIOUS
<1>4. "Object" \in Kinds /\ NoName \in Labels /\ NoValue \in Contents
  BY DEF Kinds, Labels, Contents
<1>5. /\ cell \in Cells /\ cell.type # "unallocated" /\ cell.string = NoName
      /\ cell.next = Null /\ cell.prev = Null /\ cell.child = Null
  BY <1>4, NewCellIs
<1>6. \A a \in Allocated(heap) : \A j \in Items : j < a => j \in Allocated(heap)
  BY <1>3 DEF Growing
<1>7. /\ i \in Items /\ i \in Free(heap) /\ i \notin Allocated(heap)
      /\ \A a \in Allocated(heap) : a < i
      /\ \A a \in Allocated(heap) \cup {i} : \A j \in Items :
           j < a => j \in Allocated(heap) \cup {i}
  BY <1>1, <1>3, <1>6, FreshComesLast
<1>8. heap' = Stored(heap, i, cell)
  <2>1. Created(heap, i, "Object", NoValue) = Stored(heap, i, cell)
    BY <1>3, <1>4, <1>7, CreatedIs
  <2>2. QED
    BY <1>1, <2>1
<1> HIDE DEF cell
<1>9. /\ heap' \in [Items -> Cells] /\ Linked(heap', owner)
      /\ Allocated(heap') = Allocated(heap) \cup {i} /\ owner[i] = Null
  BY <1>3, <1>5, <1>7, <1>8, CreatedLinked DEF Stored
<1>10. heap'[i] = cell /\ \A j \in Items \ {i} : heap'[j] = heap[j]
  BY <1>3, <1>7, <1>8 DEF Stored
<1>11. /\ top \in Nat /\ top >= 1 /\ top = Len(blocks)
       /\ blocks' \in Seq(Items) /\ blocks' # <<>>
       /\ Len(blocks') = top + 1 /\ blocks'[top + 1] = i
       /\ \A k \in 1 .. top : blocks'[k] = blocks[k]
  BY <1>0, <1>1, <1>3, <1>7, AppendProperties, LenProperties, EmptySeq, SMT
<1>12. \A k \in 1 .. top : blocks[k] \in Allocated(heap) /\ blocks[k] \in Items /\ blocks[k] # i
  BY <1>3, <1>7, <1>11 DEF Growing, Allocated
<1>13. heap[blocks[top]].type = "Array"
  BY <1>1, <1>11 DEF Last
<1>14. response' \in Allocated(heap') /\ owner[response'] = Null /\ response' \in Pointers
  BY <1>1, <1>3, <1>9 DEF Growing
<1>15. \A k \in 1 .. Len(blocks') : blocks'[k] \in Allocated(heap')
  BY <1>9, <1>11, <1>12, SMT
<1>16. \A k, l \in 1 .. Len(blocks') : k < l => blocks'[k] < blocks'[l]
  <2>1. SUFFICES ASSUME NEW k \in 1 .. Len(blocks'), NEW l \in 1 .. Len(blocks'), k < l
                PROVE  blocks'[k] < blocks'[l]
    OBVIOUS
  <2>2. k \in 1 .. top /\ blocks'[k] = blocks[k]
    BY <1>11, <2>1, SMT
  <2>3. CASE l \in 1 .. top
    BY <1>3, <1>11, <2>1, <2>2, <2>3 DEF Growing
  <2>4. CASE l \notin 1 .. top
    <3>1. blocks'[l] = i
      BY <1>11, <2>1, <2>4, SMT
    <3>2. QED
      BY <1>7, <1>12, <2>2, <3>1
  <2>5. QED
    BY <2>3, <2>4
<1>17. \A k \in 2 .. top : /\ Pending(k)' <=> Pending(k)
                           /\ blocks'[k] = blocks[k] /\ blocks'[k - 1] = blocks[k - 1]
                           /\ heap'[blocks'[k]].string = heap[blocks[k]].string
  <2>1. SUFFICES ASSUME NEW k \in 2 .. top
                PROVE  /\ Pending(k)' <=> Pending(k)
                       /\ blocks'[k] = blocks[k] /\ blocks'[k - 1] = blocks[k - 1]
                       /\ heap'[blocks'[k]].string = heap[blocks[k]].string
    OBVIOUS
  <2>2. k \in 1 .. top /\ k - 1 \in 1 .. top
    BY <1>11, <2>1, SMT
  <2>3. QED
    BY <1>10, <1>11, <1>12, <2>2 DEF Pending
<1>18. top + 1 \in 2 .. Len(blocks') /\ top + 1 - 1 = top /\ top \in 1 .. top
  BY <1>11, SMT
<1>19. ASSUME NEW k, k = top + 1
       PROVE  Pending(k)' /\ blocks'[k] = i /\ blocks'[k - 1] = blocks[top]
  <2>1. blocks'[k - 1] = blocks[top] /\ blocks[top] \in Items \ {i}
    BY <1>11, <1>12, <1>18, <1>19
  <2>2. heap'[blocks'[k - 1]].type = "Array"
    BY <1>10, <1>13, <2>1
  <2>3. QED
    BY <1>11, <1>19, <2>1, <2>2 DEF Pending
<1>20. \A k \in 2 .. Len(blocks') :
         IF Pending(k)'
         THEN /\ owner[blocks'[k]] = Null /\ heap'[blocks'[k]].string = NoName
              /\ \A j \in Items : owner[j] = blocks'[k - 1] => j < blocks'[k]
         ELSE owner[blocks'[k]] # Null
  <2>1. SUFFICES ASSUME NEW k \in 2 .. Len(blocks')
                PROVE  IF Pending(k)'
                       THEN /\ owner[blocks'[k]] = Null /\ heap'[blocks'[k]].string = NoName
                            /\ \A j \in Items : owner[j] = blocks'[k - 1] => j < blocks'[k]
                       ELSE owner[blocks'[k]] # Null
    OBVIOUS
  <2>2. CASE k \in 2 .. top
    BY <1>3, <1>11, <1>17, <2>2 DEF Growing
  <2>3. CASE k \notin 2 .. top
    <3>1. k = top + 1
      BY <1>11, <2>1, <2>3, SMT
    <3>2. Pending(k)' /\ blocks'[k] = i /\ blocks'[k - 1] = blocks[top]
      BY <1>19, <3>1
    <3>3. heap'[i].string = NoName
      BY <1>5, <1>10
    <3>4. ASSUME NEW j \in Items, owner[j] = blocks[top]
          PROVE  j < i
      <4>1. owner[j] # Null
        BY <1>12, <1>18, <3>4, NullIsNoItem
      <4>2. j \in Allocated(heap)
        BY <1>3, <4>1 DEF Linked, Allocated
      <4>3. QED
        BY <1>7, <4>2
    <3>5. QED
      BY <1>9, <3>2, <3>3, <3>4
  <2>4. QED
    BY <2>2, <2>3
<1>21. \A a \in Allocated(heap') : owner[a] = Null =>
         a = response' \/ \E k \in 2 .. Len(blocks') : blocks'[k] = a /\ Pending(k)'
  <2>1. SUFFICES ASSUME NEW a \in Allocated(heap'), owner[a] = Null, a # response'
                PROVE  \E k \in 2 .. Len(blocks') : blocks'[k] = a /\ Pending(k)'
    OBVIOUS
  <2>2. CASE a = i
    BY <1>11, <1>18, <1>19, <2>2
  <2>3. CASE a # i
    <3>1. a \in Allocated(heap)
      BY <1>9, <2>3
    <3>2. PICK k \in 2 .. top : blocks[k] = a /\ Pending(k)
      BY <1>1, <1>3, <1>11, <2>1, <3>1 DEF Growing
    <3>3. k \in 2 .. Len(blocks')
      BY <1>11, <3>2, SMT
    <3>4. QED
      BY <1>17, <3>2, <3>3
  <2>4. QED
    BY <2>2, <2>3
<1>22. Growing(owner)'
  BY <1>7, <1>9, <1>14, <1>15, <1>16, <1>20, <1>21 DEF Growing
<1>23. Constructing(owner)'
  BY <1>9, <1>11, <1>14, <1>22 DEF Constructing
<1>24. blocks'[1] = response'
  BY <1>1, <1>11, SMT
<1>25. QED
  BY <1>1, <1>11, <1>23, <1>24, StillGrowing

(* The end of a block puts an element into its array.                      *)
LEMMA ElementAdded ==
  ASSUME NEW owner, Constructing(owner), NEW top, top = Len(blocks), top > 1,
         NEW g, g = IF heap[blocks[top - 1]].type = "Array"
                    THEN add_item_to_array(heap, blocks[top - 1], blocks[top]) ELSE heap
  PROVE  \E now :
           /\ g \in [Items -> Cells] /\ Linked(g, now)
           /\ \A j \in Items : g[j].type = heap[j].type /\ g[j].string = heap[j].string
           /\ now[blocks[top]] \in {blocks[top - 1], owner[blocks[top]]} \ {Null}
           /\ \A j \in Items \ {blocks[top]} : now[j] = owner[j]
<1>1. /\ heap \in [Items -> Cells] /\ blocks \in Seq(Items)
      /\ Linked(heap, owner) /\ Growing(owner) /\ owner \in [Items -> Pointers]
  BY DEF Constructing, Linked
<1>2. top \in Nat /\ top \in 2 .. Len(blocks) /\ top \in 1 .. Len(blocks) /\ top - 1 \in 1 .. Len(blocks)
  BY <1>1, LenProperties, SMT
<1>3. /\ blocks[top] \in Allocated(heap) /\ blocks[top - 1] \in Allocated(heap)
      /\ blocks[top - 1] < blocks[top]
  BY <1>1, <1>2, SMT DEF Growing
<1>4. /\ blocks[top] \in Items /\ blocks[top - 1] \in Items
      /\ blocks[top] # Null /\ blocks[top - 1] # Null
  BY <1>3, NullIsNoItem DEF Allocated
<1>5. CASE heap[blocks[top - 1]].type = "Array"
  <2>1. Pending(top)
    BY <1>5 DEF Pending
  <2>2. /\ owner[blocks[top]] = Null
        /\ \A j \in Items : owner[j] = blocks[top - 1] => j < blocks[top]
    BY <1>1, <1>2, <2>1 DEF Growing
  <2>3. PICK now : now = Owned(owner, blocks[top], blocks[top - 1])
    OBVIOUS
  <2>4. /\ g \in [Items -> Cells] /\ Linked(g, now)
        /\ \A j \in Items : g[j].type = heap[j].type /\ g[j].string = heap[j].string
    <3>1. g = add_item_to_array(heap, blocks[top - 1], blocks[top])
      BY <1>5
    <3>2. now = [owner EXCEPT ![blocks[top]] = blocks[top - 1]]
      BY <2>3 DEF Owned
    <3>3. PICK c, item : c = blocks[top - 1] /\ item = blocks[top]
      OBVIOUS
    <3>4. /\ c \in Allocated(heap) /\ item \in Allocated(heap) /\ owner[item] = Null /\ c < item
          /\ \A j \in Items : owner[j] = c => j < item
      BY <1>3, <2>2, <3>3
    <3>5. /\ add_item_to_array(heap, c, item) \in [Items -> Cells]
          /\ Linked(add_item_to_array(heap, c, item), [owner EXCEPT ![item] = c])
          /\ \A j \in Items : /\ add_item_to_array(heap, c, item)[j].type = heap[j].type
                              /\ add_item_to_array(heap, c, item)[j].string = heap[j].string
      BY <1>1, <3>4, AddedLinked
    <3>6. g = add_item_to_array(heap, c, item) /\ now = [owner EXCEPT ![item] = c]
      BY <3>1, <3>2, <3>3
    <3>7. QED
      BY <3>5, <3>6
  <2>5. now[blocks[top]] = blocks[top - 1] /\ \A j \in Items \ {blocks[top]} : now[j] = owner[j]
    BY <1>1, <1>4, <2>3 DEF Owned
  <2>6. QED
    BY <1>4, <2>4, <2>5
<1>6. CASE heap[blocks[top - 1]].type # "Array"
  <2>1. g = heap /\ ~Pending(top)
    BY <1>6 DEF Pending
  <2>2. owner[blocks[top]] # Null
    BY <1>1, <1>2, <2>1 DEF Growing
  <2>3. QED
    BY <1>1, <2>1, <2>2
<1>7. QED
  BY <1>5, <1>6

LEMMA BlockIsClosed ==
  ASSUME IInv, CloseBlock
  PROVE  IInv'
<1>0. PICK top : top = Len(blocks)
  OBVIOUS
<1>1. /\ phase = "build" /\ phase' = phase /\ response' = response
      /\ top > 1 /\ blocks' = Front(blocks) /\ blocks # <<>> /\ blocks[1] = response
      /\ heap' = IF heap[blocks[top - 1]].type = "Array"
                 THEN add_item_to_array(heap, blocks[top - 1], blocks[top]) ELSE heap
  BY <1>0 DEF CloseBlock, Building, Last, IInv
<1>2. PICK owner : Constructing(owner)
  BY <1>1, Opened
<1>3. /\ heap \in [Items -> Cells] /\ blocks \in Seq(Items) /\ response \in Pointers
      /\ Linked(heap, owner) /\ Growing(owner)
  BY <1>2 DEF Constructing
<1>4. PICK now :
           /\ heap' \in [Items -> Cells] /\ Linked(heap', now)
           /\ \A j \in Items : heap'[j].type = heap[j].type /\ heap'[j].string = heap[j].string
           /\ now[blocks[top]] \in {blocks[top - 1], owner[blocks[top]]} \ {Null}
           /\ \A j \in Items \ {blocks[top]} : now[j] = owner[j]
  BY <1>0, <1>1, <1>2, ElementAdded
<1>5. Allocated(heap') = Allocated(heap)
  BY <1>4 DEF Allocated, Free
<1>6. /\ top \in Nat /\ top = Len(blocks) /\ top - 1 \in Nat
      /\ top \in 1 .. top /\ top - 1 \in 1 .. top /\ 1 \in 1 .. top
  BY <1>0, <1>1, <1>3, LenProperties, SMT
<1>7. /\ blocks' \in Seq(Items) /\ Len(blocks') = top - 1
      /\ \A k \in 1 .. top - 1 : blocks'[k] = blocks[k]
  BY <1>1, <1>3, <1>6, SubSeqProperties, SMT DEF Front
<1>8. blocks' # <<>> /\ blocks'[1] = response'
  BY <1>1, <1>6, <1>7, EmptySeq, SMT
<1>9. /\ \A k \in 1 .. top : blocks[k] \in Allocated(heap) /\ blocks[k] \in Items
      /\ \A k, l \in 1 .. top : k < l => blocks[k] < blocks[l]
  BY <1>3, <1>6 DEF Growing, Allocated
<1>10. ASSUME NEW k \in 1 .. top, k # top
       PROVE  k \in 1 .. top - 1 /\ blocks[k] # blocks[top]
  <2>1. k < top /\ k \in 1 .. top - 1
    BY <1>6, <1>10, SMT
  <2>2. blocks[k] < blocks[top] /\ blocks[k] \in Items /\ blocks[top] \in Items
    BY <1>6, <1>9, <2>1
  <2>3. QED
    BY <2>1, <2>2, SMT DEF Items
<1>11. response' \in Allocated(heap') /\ now[response'] = Null /\ response' \in Pointers
  <2>1. 1 # top
    BY <1>1
  <2>2. response # blocks[top] /\ response \in Items
    BY <1>1, <1>6, <1>9, <1>10, <2>1
  <2>3. QED
    BY <1>1, <1>3, <1>4, <1>5, <2>2 DEF Growing
<1>12. \A a \in Allocated(heap') : \A j \in Items : j < a => j \in Allocated(heap')
  BY <1>3, <1>5 DEF Growing
<1>13. \A k \in 1 .. Len(blocks') : k \in 1 .. top /\ blocks'[k] = blocks[k]
  BY <1>6, <1>7, SMT
<1>14. \A k \in 1 .. Len(blocks') : blocks'[k] \in Allocated(heap')
  BY <1>5, <1>9, <1>13
<1>15. \A k, l \in 1 .. Len(blocks') : k < l => blocks'[k] < blocks'[l]
  BY <1>9, <1>13
<1>16. ASSUME NEW k \in 2 .. Len(blocks')
       PROVE  /\ k \in 2 .. top /\ k \in 1 .. top /\ k - 1 \in 1 .. top
              /\ k # top /\ k - 1 # top - 1 /\ k - 1 < top - 1
              /\ blocks'[k] = blocks[k] /\ blocks'[k - 1] = blocks[k - 1]
              /\ blocks[k] # blocks[top]
              /\ Pending(k)' <=> Pending(k)
  <2>1. /\ k \in 2 .. top /\ k \in 1 .. top /\ k - 1 \in 1 .. top /\ k # top
        /\ k - 1 # top - 1 /\ k - 1 < top - 1
        /\ k \in 1 .. Len(blocks') /\ k - 1 \in 1 .. Len(blocks')
    BY <1>6, <1>7, SMT
  <2>2. blocks'[k] = blocks[k] /\ blocks'[k - 1] = blocks[k - 1] /\ blocks[k - 1] \in Items
    BY <1>9, <1>13, <2>1
  <2>3. blocks[k] # blocks[top]
    BY <1>10, <2>1
  <2>4. Pending(k)' <=> Pending(k)
    BY <1>4, <2>2 DEF Pending
  <2>5. QED
    BY <2>1, <2>2, <2>3, <2>4
<1>17. \A k \in 2 .. Len(blocks') :
         IF Pending(k)'
         THEN /\ now[blocks'[k]] = Null /\ heap'[blocks'[k]].string = NoName
              /\ \A j \in Items : now[j] = blocks'[k - 1] => j < blocks'[k]
         ELSE now[blocks'[k]] # Null
  <2>1. SUFFICES ASSUME NEW k \in 2 .. Len(blocks')
                PROVE  IF Pending(k)'
                       THEN /\ now[blocks'[k]] = Null /\ heap'[blocks'[k]].string = NoName
                            /\ \A j \in Items : now[j] = blocks'[k - 1] => j < blocks'[k]
                       ELSE now[blocks'[k]] # Null
    OBVIOUS
  <2>2. blocks[k] \in Items /\ now[blocks'[k]] = owner[blocks[k]] /\ k \in 2 .. Len(blocks)
    BY <1>4, <1>6, <1>9, <1>16
  <2>3. CASE ~Pending(k)
    BY <1>3, <1>16, <2>2, <2>3 DEF Growing
  <2>4. CASE Pending(k)
    <3>1. /\ owner[blocks[k]] = Null /\ heap[blocks[k]].string = NoName
          /\ \A j \in Items : owner[j] = blocks[k - 1] => j < blocks[k]
      BY <1>3, <2>2, <2>4 DEF Growing
    <3>2. blocks[k - 1] # blocks[top - 1]
      <4>1. blocks[k - 1] < blocks[top - 1] /\ blocks[k - 1] \in Items /\ blocks[top - 1] \in Items
        BY <1>6, <1>9, <1>16
      <4>2. QED
        BY <4>1, SMT DEF Items
    <3>3. ASSUME NEW j \in Items, now[j] = blocks[k - 1]
          PROVE  owner[j] = blocks[k - 1]
      BY <1>4, <3>2, <3>3
    <3>4. QED
      BY <1>4, <1>16, <2>2, <2>4, <3>1, <3>3
  <2>5. QED
    BY <2>3, <2>4
<1>18. \A a \in Allocated(heap') : now[a] = Null =>
         a = response' \/ \E k \in 2 .. Len(blocks') : blocks'[k] = a /\ Pending(k)'
  <2>1. SUFFICES ASSUME NEW a \in Allocated(heap'), now[a] = Null, a # response'
                PROVE  \E k \in 2 .. Len(blocks') : blocks'[k] = a /\ Pending(k)'
    OBVIOUS
  <2>2. a # blocks[top] /\ a \in Items /\ owner[a] = Null /\ a \in Allocated(heap)
    BY <1>4, <1>5, <2>1 DEF Allocated
  <2>3. PICK k \in 2 .. Len(blocks) : blocks[k] = a /\ Pending(k)
    BY <1>1, <1>3, <2>1, <2>2 DEF Growing
  <2>4. k # top
    BY <2>2, <2>3
  <2>5. k \in 2 .. Len(blocks')
    BY <1>6, <1>7, <2>3, <2>4, SMT
  <2>6. QED
    BY <1>16, <2>3, <2>5
<1>19. Growing(now)'
  BY <1>11, <1>12, <1>14, <1>15, <1>17, <1>18 DEF Growing
<1>20. Constructing(now)'
  BY <1>4, <1>7, <1>11, <1>19 DEF Constructing
<1>21. QED
  BY <1>1, <1>8, <1>20, StillGrowing

LEMMA BlocksEnd ==
  ASSUME IInv, EndJson
  PROVE  IInv'
<1>1. /\ phase = "build" /\ phase' = "built" /\ heap' = heap /\ response' = response
      /\ Len(blocks) = 1 /\ blocks' = <<>>
  BY DEF EndJson, Building
<1>2. PICK owner : Constructing(owner)
  BY <1>1, Opened
<1>3. /\ heap \in [Items -> Cells] /\ response \in Pointers
      /\ Linked(heap, owner) /\ Growing(owner)
  BY <1>2 DEF Constructing
<1>4. \A k \in 2 .. Len(blocks) : FALSE
  BY <1>1, SMT
<1>5. blocks' \in Seq(Items) /\ Len(blocks') = 0
  BY <1>1, SMT
<1>6. \A k \in 1 .. Len(blocks') : FALSE
  BY <1>5, SMT
<1>7. \A k \in 2 .. Len(blocks') : FALSE
  BY <1>5, SMT
<1>8. Growing(owner)'
  <2>1. \A a \in Allocated(heap') : \A j \in Items : j < a => j \in Allocated(heap')
    BY <1>1, <1>3 DEF Growing
  <2>2. response' \in Allocated(heap') /\ owner[response'] = Null
    BY <1>1, <1>3 DEF Growing
  <2>3. \A a \in Allocated(heap') : owner[a] = Null => a = response'
    BY <1>1, <1>3, <1>4 DEF Growing
  <2>4. QED
    BY <1>6, <1>7, <2>1, <2>2, <2>3 DEF Growing
<1>9. Constructing(owner)'
  BY <1>1, <1>3, <1>5, <1>8 DEF Constructing
<1>10. QED
  BY <1>1, <1>9, StillGrowing

(* Deleting the response leaves no item but in pending elements.           *)
LEMMA ResponseDeleted ==
  ASSUME NEW owner, Constructing(owner), NEW g, g = cJSON_Delete(heap, response)
  PROVE  /\ g \in [Items -> Cells]
         /\ \E now \in [Items -> Pointers] : Linked(g, now)
         /\ \A i \in Allocated(g) : \E k \in 2 .. Len(blocks) :
              g[blocks[k]].string = NoName /\ i \in Doomed(g, blocks[k])
<1>1. /\ heap \in [Items -> Cells] /\ blocks \in Seq(Items) /\ response \in Pointers
      /\ Linked(heap, owner) /\ Growing(owner)
      /\ response # Null /\ owner[response] = Null
  BY NullIsNoItem DEF Constructing, Growing, Allocated
<1>2. PICK D : D = Doomed(heap, response)
  OBVIOUS
<1>3. PICK now : now = [j \in Items |-> IF j \in D THEN Null ELSE owner[j]]
  OBVIOUS
<1>4. /\ g \in [Items -> Cells] /\ D \subseteq Items
      /\ \A j \in Items : g[j] = IF j \in D THEN Unallocated ELSE heap[j]
      /\ Linked(g, now)
  <2>1. /\ cJSON_Delete(heap, response) \in [Items -> Cells] /\ Doomed(heap, response) \subseteq Items
        /\ \A j \in Items : cJSON_Delete(heap, response)[j]
             = IF j \in Doomed(heap, response) THEN Unallocated ELSE heap[j]
        /\ Linked(cJSON_Delete(heap, response),
                  [j \in Items |-> IF j \in Doomed(heap, response) THEN Null ELSE owner[j]])
    BY <1>1, DeletedLinked
  <2>2. QED
    BY <1>2, <1>3, <2>1
<1>5. response \in D
  BY <1>1, <1>2, DoomedCloses
<1>6. \A k \in 2 .. Len(blocks) : blocks[k] \in Items /\ blocks[k] \in Pointers /\ blocks[k] # Null
  <2>1. \A k \in 2 .. Len(blocks) : k \in 1 .. Len(blocks)
    BY <1>1, LenProperties, SMT
  <2>2. QED
    BY <1>1, <2>1, NullIsNoItem DEF Growing, Allocated, Pointers
<1> DEFINE K == {k \in 2 .. Len(blocks) : Pending(k)}
           S == {i \in Items : \E k \in K : i \in Doomed(g, blocks[k])}
<1>7. ASSUME NEW k \in K
      PROVE  /\ Doomed(g, blocks[k]) \subseteq Items /\ blocks[k] \in Doomed(g, blocks[k])
             /\ \A i \in Doomed(g, blocks[k]) : \A j \in Items :
                  now[j] = i => j \in Doomed(g, blocks[k])
             /\ g[blocks[k]].string = NoName
  <2>1. blocks[k] \in Pointers /\ blocks[k] # Null /\ blocks[k] \in Items
    BY <1>6
  <2>2. /\ Doomed(g, blocks[k]) \subseteq Items /\ blocks[k] \in Doomed(g, blocks[k])
        /\ \A i \in Doomed(g, blocks[k]) : \A j \in Items :
             now[j] = i => j \in Doomed(g, blocks[k])
    BY <1>4, <2>1, DoomedCloses
  <2>3. heap[blocks[k]].string = NoName
    BY <1>1 DEF Growing
  <2>4. g[blocks[k]].string = NoName
    BY <1>4, <2>1, <2>3 DEF Unallocated
  <2>5. QED
    BY <2>2, <2>4
<1>8. ASSUME NEW i \in Allocated(g), now[i] = Null
      PROVE  i \in S
  <2>1. i \in Items /\ i \notin D /\ i \in Allocated(heap)
    BY <1>4 DEF Allocated, Free, Unallocated
  <2>2. owner[i] = Null /\ i # response
    BY <1>3, <1>5, <1>8, <2>1
  <2>3. PICK k \in 2 .. Len(blocks) : blocks[k] = i /\ Pending(k)
    BY <1>1, <2>1, <2>2 DEF Growing
  <2>4. QED
    BY <1>7, <2>1, <2>3
<1>9. ASSUME NEW i \in S, NEW j \in Items, now[j] = i
      PROVE  j \in S
  BY <1>7, <1>9
<1>10. Allocated(g) \subseteq S
  <2> HIDE DEF S, K
  <2>1. QED
    BY <1>4, <1>8, <1>9, InSomeTree
<1>11. now \in [Items -> Pointers]
  BY <1>4 DEF Linked
<1>12. QED
  BY <1>4, <1>7, <1>10, <1>11

LEMMA NothingToDelete ==
  ASSUME NEW h \in [Items -> Cells]
  PROVE  cJSON_Delete(h, Null) = h
<1>1. Doomed(h, Null) \subseteq {}
  <2>1. Null \in Pointers /\ (Null # Null => Null \in {})
    BY DEF Pointers
  <2>2. \A k \in {} \cap Items : /\ h[k].child # Null => h[k].child \in {}
                                 /\ h[k].next # Null => h[k].next \in {}
    OBVIOUS
  <2>3. QED
    BY <2>1, <2>2, DoomedLeast
<1>2. QED
  BY <1>1 DEF cJSON_Delete

LEMMA BuildFailed ==
  ASSUME IInv, phase = "idle" \/ phase = "build", Fail(heap)
  PROVE  IInv'
<1>1. /\ heap' = cJSON_Delete(heap, response) /\ response' = Null
      /\ phase' = "failed" /\ blocks' = blocks
      /\ heap \in [Items -> Cells] /\ blocks \in BoundedSeq(Items, MaxItems)
  BY DEF Fail, IInv, TypeOK
<1>2. /\ heap' \in [Items -> Cells]
      /\ \E now \in [Items -> Pointers] : Linked(heap', now)
      /\ \A i \in Allocated(heap') : \E k \in 2 .. Len(blocks') :
           heap'[blocks'[k]].string = NoName /\ i \in Doomed(heap', blocks'[k])
  <2>1. CASE phase = "idle"
    <3>1. heap' = heap /\ heap = EmptyHeap
      BY <1>1, <2>1, NothingToDelete DEF IInv
    <3>2. \E now \in [Items -> Pointers] : Linked(heap, now)
      BY DEF IInv
    <3>3. Allocated(heap) = {}
      BY <3>1 DEF Allocated, Free, EmptyHeap, Unallocated
    <3>4. QED
      BY <1>1, <3>1, <3>2, <3>3
  <2>2. CASE phase = "build"
    <3>1. PICK owner : Constructing(owner)
      BY <2>2, Opened
    <3>2. PICK g : g = cJSON_Delete(heap, response)
      OBVIOUS
    <3>3. /\ g \in [Items -> Cells]
          /\ \E now \in [Items -> Pointers] : Linked(g, now)
          /\ \A i \in Allocated(g) : \E k \in 2 .. Len(blocks) :
               g[blocks[k]].string = NoName /\ i \in Doomed(g, blocks[k])
      BY <3>1, <3>2, ResponseDeleted
    <3>4. heap' = g
      BY <1>1, <3>2
    <3>5. QED
      BY <1>1, <3>3, <3>4
  <2>3. QED
    BY <2>1, <2>2
<1>3. TypeOK'
  BY <1>1, <1>2 DEF TypeOK, Pointers
<1>4. NothingLost'
  BY <1>1, <1>2 DEF NothingLost, IsAllocated
<1>5. QED
  BY <1>1, <1>2, <1>3, <1>4 DEF IInv

(* An item whose name could not be copied goes as it came.                 *)
LEMMA AbandonedIsGone ==
  ASSUME NEW h \in [Items -> Cells], NEW i \in Items, h[i] = Unallocated
  PROVE  Abandoned(Created(h, i, "String", NoValue), i) = h
<1> DEFINE cell == NewCell("String", NoName, NoValue)
<1>1. "String" \in Kinds /\ NoName \in Labels /\ NoValue \in Contents
  BY DEF Kinds, Labels, Contents
<1>2. cell \in Cells /\ cell.next = Null /\ cell.child = Null
  BY <1>1, NewCellIs
<1>3. PICK g : g = Created(h, i, "String", NoValue)
  OBVIOUS
<1>4. g = Stored(h, i, cell)
  BY <1>1, <1>3, CreatedIs
<1> HIDE DEF cell
<1>5. /\ g \in [Items -> Cells] /\ g[i] = cell
      /\ \A j \in Items \ {i} : g[j] = h[j]
  BY <1>2, <1>4 DEF Stored
<1>6. Doomed(g, i) \subseteq {i}
  <2>1. i \in Pointers
    BY DEF Pointers
  <2>2. \A k \in {i} \cap Items : /\ g[k].child # Null => g[k].child \in {i}
                                  /\ g[k].next # Null => g[k].next \in {i}
    BY <1>2, <1>5
  <2>3. QED
    BY <1>5, <2>1, <2>2, DoomedLeast
<1>7. \A j \in Items : (IF j \in Doomed(g, i) THEN Unallocated ELSE g[j]) = h[j]
  <2>1. PICK down : down = [k \in Items |-> {g[k].child, g[k].next} \ {Null}]
    OBVIOUS
  <2>2. down \in [Items -> SUBSET Items] /\ i # Null
    BY <1>5, <2>1, Cell, NullIsNoItem DEF Pointers
  <2>3. i \in Reached(down, i)
    BY <2>2, ReachedStarts
  <2>4. i \in Doomed(g, i)
    BY <2>1, <2>3 DEF Doomed
  <2>5. QED
    BY <1>5, <1>6, <2>4
<1>8. cJSON_Delete(g, i) = h
  BY <1>7 DEF cJSON_Delete
<1>9. QED
  BY <1>3, <1>8 DEF Abandoned

LEMMA ResponseIsDeleted ==
  ASSUME IInv, DeleteResponse
  PROVE  IInv'
<1>1. /\ phase = "built" /\ phase' = "idle" /\ response' = Null /\ blocks' = <<>>
      /\ heap' = cJSON_Delete(heap, response) /\ blocks = <<>>
      /\ blocks \in BoundedSeq(Items, MaxItems)
  BY DEF DeleteResponse, IInv, TypeOK
<1>2. PICK owner : Constructing(owner)
  BY <1>1, Opened
<1>3. PICK g : g = cJSON_Delete(heap, response)
  OBVIOUS
<1>4. /\ g \in [Items -> Cells]
      /\ \E now \in [Items -> Pointers] : Linked(g, now)
      /\ \A i \in Allocated(g) : \E k \in 2 .. Len(blocks) :
           g[blocks[k]].string = NoName /\ i \in Doomed(g, blocks[k])
  BY <1>2, <1>3, ResponseDeleted
<1>5. \A k \in 2 .. Len(blocks) : FALSE
  BY <1>1, EmptySeq, SMT
<1>6. Allocated(g) = {}
  BY <1>4, <1>5
<1>7. g = EmptyHeap
  <2>1. \A i \in Items : g[i] = Unallocated
    BY <1>4, <1>6 DEF Allocated, Linked
  <2>2. QED
    BY <1>4, <2>1 DEF EmptyHeap
<1>8. heap' = g
  BY <1>1, <1>3
<1>9. TypeOK'
  BY <1>1, <1>4, <1>8 DEF TypeOK, Pointers
<1>10. NothingLost'
  BY <1>1, <1>6, <1>8 DEF NothingLost, IsAllocated
<1>11. QED
  BY <1>1, <1>4, <1>7, <1>8, <1>9, <1>10 DEF IInv

LEMMA NameFailed ==
  ASSUME IInv, NEW i, NoMemoryForName(i)
  PROVE  IInv'
<1>1. /\ phase = "build" /\ Fresh(heap, i)
      /\ Fail(Abandoned(Created(heap, i, "String", NoValue), i))
  BY DEF NoMemoryForName, Building
<1>2. heap \in [Items -> Cells] /\ i \in Items /\ heap[i] = Unallocated
  BY <1>1 DEF IInv, TypeOK, Linked, Fresh, Free
<1>3. Abandoned(Created(heap, i, "String", NoValue), i) = heap
  BY <1>2, AbandonedIsGone
<1>4. Fail(heap)
  BY <1>1, <1>3
<1>5. QED
  BY <1>1, <1>4, BuildFailed

LEMMA IInvInit == Init => IInv
<1> SUFFICES ASSUME Init
             PROVE  IInv
  OBVIOUS
<1>1. phase = "idle" /\ heap = EmptyHeap /\ response = Null /\ blocks = <<>>
  BY DEF Init
<1>2. Unallocated \in Cells
  BY SMT DEF Unallocated, Cells, Pointers, NoName, NoValue, Null
<1>3. heap \in [Items -> Cells] /\ \A i \in Items : heap[i] = Unallocated
  BY <1>1, <1>2 DEF EmptyHeap
<1>4. blocks \in BoundedSeq(Items, MaxItems)
  <2>1. blocks \in Seq(Items) /\ Len(blocks) <= MaxItems
    BY <1>1, ItemsAssumption, SMT
  <2>2. QED
    BY <2>1, BoundedBlocks
<1>5. TypeOK
  BY <1>1, <1>3, <1>4 DEF TypeOK, Pointers
<1>6. Allocated(heap) = {}
  BY <1>3 DEF Allocated, Free, Unallocated
<1>7. PICK owner : owner = [i \in Items |-> Null]
  OBVIOUS
<1>8. owner \in [Items -> Pointers] /\ \A i \in Items : owner[i] = Null
  BY <1>7 DEF Pointers
<1>9. Linked(heap, owner)
  BY <1>3, <1>8 DEF Linked, Free, Unallocated
<1>10. NothingLost
  BY <1>1, <1>6 DEF NothingLost, IsAllocated
<1>11. QED
  BY <1>1, <1>5, <1>8, <1>9, <1>10 DEF IInv

LEMMA IInvNext ==
  ASSUME IInv, [Next]_vars
  PROVE  IInv'
<1>1. ASSUME NEW i \in Items, CreateResponse(i)
      PROVE  IInv'
  BY <1>1, RootCreated
<1>2. /\ "String" \in Kinds /\ "Number" \in Kinds /\ "True" \in Kinds /\ "False" \in Kinds
      /\ "Object" \in Kinds /\ "Array" \in Kinds /\ NoValue \in Contents
      /\ Strings \subseteq Contents /\ Numbers \subseteq Contents
  BY DEF Kinds, Contents
<1>3. ASSUME NEW i \in Items, NEW name \in Names, NEW value \in Strings,
             AddField(i, name, "String", value)
      PROVE  IInv'
  <2>1. "String" \in Kinds /\ value \in Contents
    BY <1>2
  <2>2. QED
    BY <1>3, <2>1, FieldIsAdded
<1>4. ASSUME NEW i \in Items, NEW name \in Names, NEW value \in Numbers,
             AddField(i, name, "Number", value)
      PROVE  IInv'
  <2>1. "Number" \in Kinds /\ value \in Contents
    BY <1>2
  <2>2. QED
    BY <1>4, <2>1, FieldIsAdded
<1>5. ASSUME NEW i \in Items, NEW name \in Names, NEW type \in {"True", "False"},
             AddField(i, name, type, NoValue)
      PROVE  IInv'
  <2>1. type \in Kinds
    BY <1>2
  <2>2. QED
    BY <1>2, <1>5, <2>1, FieldIsAdded
<1>6. ASSUME NEW i \in Items, NEW name \in Names, NEW type \in {"Object", "Array"},
             OpenField(i, name, type)
      PROVE  IInv'
  <2>1. type \in Kinds
    BY <1>2
  <2>2. QED
    BY <1>6, <2>1, FieldIsOpened
<1>7. ASSUME NEW i \in Items, OpenElement(i)
      PROVE  IInv'
  BY <1>7, ElementIsOpened
<1>8. ASSUME NEW i \in Items, NoMemoryForName(i)
      PROVE  IInv'
  BY <1>8, NameFailed
<1>9. ASSUME NoMemoryForItem
      PROVE  IInv'
  BY <1>9, BuildFailed DEF NoMemoryForItem, Building
<1>10. ASSUME Abort
       PROVE  IInv'
  <2>1. /\ phase' = "aborted" /\ heap' = heap /\ response' = response /\ blocks' = blocks
    BY <1>10 DEF Abort
  <2>2. TypeOK'
    BY <2>1 DEF IInv, TypeOK
  <2>3. QED
    BY <2>1, <2>2 DEF IInv, NothingLost
<1>11. ASSUME UNCHANGED vars
       PROVE  IInv'
  <2>1. phase' = phase /\ heap' = heap /\ response' = response /\ blocks' = blocks
    BY <1>11 DEF vars
  <2>2. TypeOK' /\ NothingLost'
    BY <2>1 DEF IInv, TypeOK, NothingLost, IsAllocated
  <2>3. \A owner : Growing(owner)' <=> Growing(owner)
    BY <2>1 DEF Growing, Pending
  <2>4. QED
    BY <2>1, <2>2, <2>3 DEF IInv
<1>12. CASE Build
  BY <1>1, <1>3, <1>4, <1>5, <1>6, <1>7, <1>8, <1>9, <1>12, BlockIsClosed, BlocksEnd DEF Build
<1>13. QED
  BY <1>10, <1>11, <1>12, ResponseIsDeleted DEF Next, Stopped

-----------------------------------------------------------------------------
(* The theorems.                                                           *)

LEMMA InvariantHolds == Spec => []IInv
BY IInvInit, IInvNext, PTL DEF Spec

(* Whatever the handler builds, and wherever memory runs out, the items are *)
(* cJSON structures and no more blocks are open than there are items.      *)
THEOREM ItemsTyped == Spec => []TypeOK
<1>1. IInv => TypeOK
  BY DEF IInv
<1>2. QED
  BY <1>1, InvariantHolds, PTL

(* The lists of cJSON stay linked both ways, apart from each other and free *)
(* of freed items, through every step of the macros of util.h and of       *)
(* cJSON_Delete.                                                           *)
THEOREM ListsStayLinked == Spec => []WellLinked
<1>1. IInv => WellLinked
  <2>1. SUFFICES ASSUME IInv
                PROVE  WellLinked
    OBVIOUS
  <2>2. PICK owner : Linked(heap, owner)
    BY <2>1 DEF IInv
  <2>3. heap \in [Items -> Cells]
    BY <2>1 DEF IInv, TypeOK
  <2>4. QED
    BY <2>2, <2>3, LinkedLists DEF WellLinked
<1>2. QED
  BY <1>1, InvariantHolds, PTL

(* status_request leaves no item behind, and goto fail none but the pending *)
(* elements of an array.                                                   *)
THEOREM NoItemIsLost == Spec => []NothingLost
<1>1. IInv => NothingLost
  BY DEF IInv
<1>2. QED
  BY <1>1, InvariantHolds, PTL

-----------------------------------------------------------------------------
(* Functions that are defined step by step exist.                          *)

Runs(N, S, a, step) ==
  {f \in [0 .. N -> S] : f[0] = a /\ \A n \in 1 .. N : f[n] = step[<<n, f[n - 1]>>]}

StepsOn(N, S) == [(1 .. N) \X S -> S]

LEMMA StepByStep ==
  ASSUME NEW N \in Nat, NEW S, NEW a \in S, NEW step \in StepsOn(N, S)
  PROVE  Runs(N, S, a, step) # {}
<1> SUFFICES \E f \in [0 .. N -> S] : /\ f[0] = a
                                      /\ \A n \in 1 .. N : f[n] = step[<<n, f[n - 1]>>]
  BY Zenon DEF Runs
<1> USE DEF StepsOn
<1> DEFINE Steps(f, m) == f[0] = a /\ \A n \in 1 .. m : f[n] = step[<<n, f[n - 1]>>]
           T == {m \in 0 .. N : ~\E f \in [0 .. m -> S] : Steps(f, m)}
<1>1. T = {}
  <2>1. SUFFICES ASSUME T # {}
                PROVE  FALSE
    OBVIOUS
  <2>2. PICK m \in T : \A l \in T : ~(l < m)
    <3>1. T \in SUBSET Nat /\ T # {}
      BY <2>1, SMT
    <3>2. QED
      BY Least, <3>1
  <2>3. CASE m = 0
    <3> DEFINE f == [n \in 0 .. 0 |-> a]
    <3>1. f \in [0 .. 0 -> S] /\ Steps(f, 0)
      BY SMT
    <3>2. QED
      BY <2>2, <2>3, <3>1
  <2>4. CASE m # 0
    <3>1. m - 1 \in 0 .. N /\ m - 1 < m /\ m \in 1 .. N /\ m \in Nat
      BY <2>2, <2>4, SMT
    <3>2. PICK q \in [0 .. m - 1 -> S] : Steps(q, m - 1)
      BY <2>2, <3>1
    <3>3. m - 1 \in 0 .. m - 1 /\ 0 \in 0 .. m - 1 /\ 0 # m
      BY <3>1, SMT
    <3>4. step[<<m, q[m - 1]>>] \in S
      BY <3>1, <3>3
    <3> DEFINE f == [n \in 0 .. m |-> IF n = m THEN step[<<m, q[m - 1]>>] ELSE q[n]]
    <3>5. \A n \in 0 .. m : n # m => n \in 0 .. m - 1
      BY <3>1, SMT
    <3>6. f \in [0 .. m -> S]
      BY <3>4, <3>5
    <3>7. f[m] = step[<<m, q[m - 1]>>] /\ \A n \in 0 .. m - 1 : f[n] = q[n]
      BY <3>1, SMT
    <3> HIDE DEF f
    <3>8. ASSUME NEW n \in 1 .. m
          PROVE  f[n] = step[<<n, f[n - 1]>>]
      <4>1. CASE n = m
        BY <3>3, <3>7, <4>1
      <4>2. CASE n # m
        <5>1. n \in 1 .. m - 1 /\ n \in 0 .. m - 1 /\ n - 1 \in 0 .. m - 1
          BY <3>1, <4>2, SMT
        <5>2. QED
          BY <3>2, <3>7, <5>1
      <4>3. QED
        BY <4>1, <4>2
    <3>9. f[0] = a
      BY <3>2, <3>3, <3>7
    <3>10. QED
      BY <2>2, <3>6, <3>8, <3>9
  <2>5. QED
    BY <2>3, <2>4
<1>2. N \in 0 .. N
  BY SMT
<1>3. QED
  BY <1>1, <1>2

-----------------------------------------------------------------------------
(* Escapes.                                                                *)

Literals ==
  {"?", Quote, Backslash, "[", "]", "{", "}", ",", ":",
   "a", "b", "e", "f", "l", "n", "r", "s", "t", "u", "0", "1"}

Letters == Literals \cup UNION {Range(str) : str \in Names \cup Strings \cup Numbers}

Plain == Seq(Letters)

(* In the buffer there are NULs as well.                                   *)
Bytes == Letters \cup {NUL}

Texts == Seq(Bytes)

LEMMA LiteralsAreLetters == Literals \subseteq Letters /\ Literals \subseteq Bytes
BY DEF Letters, Bytes

LEMMA NulIsNoLetter == NUL \notin Letters /\ NUL \in Bytes
<1>1. NUL \notin Literals
  BY Zenon DEF NUL, Literals, Quote, Backslash
<1>2. \A str \in Names \cup Strings \cup Numbers : NUL \notin Range(str)
  BY TextAssumption
<1>3. QED
  BY <1>1, <1>2, Zenon DEF Letters, Bytes

LEMMA PlainIsText ==
  ASSUME NEW t \in Plain
  PROVE  /\ t \in Texts /\ Len(t) \in Nat
         /\ \A k \in 1 .. Len(t) : t[k] \in Letters /\ t[k] # NUL
<1>1. Len(t) \in Nat /\ t \in [1 .. Len(t) -> Letters]
  BY LenProperties DEF Plain
<1>2. t \in [1 .. Len(t) -> Bytes] /\ \A k \in 1 .. Len(t) : t[k] \in Letters
  BY <1>1 DEF Bytes
<1>3. QED
  BY <1>1, <1>2, NulIsNoLetter, SeqDef, Zenon DEF Texts

LEMMA TextsJoin ==
  ASSUME NEW s \in Texts, NEW t \in Texts
  PROVE  s \o t \in Texts /\ Len(s) \in Nat /\ Len(s \o t) = Len(s) + Len(t)
BY ConcatProperties, LenProperties DEF Texts

LEMMA PlainJoins ==
  ASSUME NEW s \in Plain, NEW t \in Plain
  PROVE  s \o t \in Plain /\ Len(s) \in Nat /\ Len(s \o t) = Len(s) + Len(t)
BY ConcatProperties, LenProperties DEF Plain

LEMMA EscapedCharIs ==
  ASSUME NEW ch \in Letters
  PROVE  /\ EscapedChar(ch) \in Plain /\ EscapeCharacters(ch) \in Nat
         /\ Len(EscapedChar(ch)) = 1 + EscapeCharacters(ch)
<1>1. {Quote, Backslash, "b", "f", "n", "r", "t", "u", "0", "1"} \subseteq Letters
  BY LiteralsAreLetters, Zenon DEF Literals
<1>2. DOMAIN EscapeLetters = {Backslash, Quote, "bs", "ff", "nl", "cr", "tab"}
  BY Zenon DEF EscapeLetters
<1>3. CASE ch \in DOMAIN EscapeLetters
  <2>1. ch \in Controls \cup {Quote, Backslash} /\ ch \in OneMore
    BY <1>2, <1>3, Zenon DEF Controls, OneMore
  <2>2. EscapeLetters[ch] \in {"b", "f", "n", "r", "t"} \/ EscapeLetters[ch] = ch
    BY <1>3 DEF EscapeLetters
  <2>3. EscapeLetters[ch] \in Letters
    BY <1>1, <2>2, Zenon
  <2>4. PICK letter \in Letters : letter = EscapeLetters[ch]
    BY <2>3
  <2>5. EscapedChar(ch) = <<Backslash, letter>> /\ EscapeCharacters(ch) = 1
    BY <1>3, <2>1, <2>4, Zenon DEF EscapedChar, EscapeCharacters
  <2>6. Backslash \in Letters
    BY <1>1
  <2> HIDE DEF Letters
  <2>7. QED
    BY <2>5, <2>6, SMT DEF Plain
<1>4. CASE ch \notin DOMAIN EscapeLetters /\ ch = Control
  <2>1. ch \in Controls /\ ch \notin OneMore
    BY <1>2, <1>4, Zenon DEF Controls, OneMore
  <2>2. EscapedChar(ch) = <<Backslash, "u">> \o <<"0", "0", "1", "f">> /\ EscapeCharacters(ch) = 5
    BY <1>4, <2>1, Zenon DEF EscapedChar, EscapeCharacters, ControlCode
  <2>3. <<Backslash, "u">> \in Plain /\ <<"0", "0", "1", "f">> \in Plain
    BY <1>1, SMT DEF Plain
  <2>4. QED
    BY <2>2, <2>3, ConcatProperties, SMT DEF Plain
<1>5. CASE ch \notin DOMAIN EscapeLetters /\ ch # Control
  <2>1. ch \notin Controls \cup {Quote, Backslash} /\ ch \notin OneMore
    BY <1>2, <1>5, Zenon DEF Controls, OneMore
  <2>2. EscapedChar(ch) = <<ch>> /\ EscapeCharacters(ch) = 0
    BY <2>1, Zenon DEF EscapedChar, EscapeCharacters
  <2>3. QED
    BY <2>2, SMT DEF Plain
<1>6. QED
  BY <1>3, <1>4, <1>5

(* As many characters are written as were counted.                         *)
LEMMA EscapedLength ==
  ASSUME NEW str \in Plain
  PROVE  /\ Escaped(str) \in Plain /\ output_length(str) \in Nat
         /\ Len(Escaped(str)) = output_length(str)
<1> DEFINE N == Len(str)
           IsLength(f) == f = [n \in 0 .. N |->
             IF n = 0 THEN 0 ELSE f[n - 1] + 1 + EscapeCharacters(str[n])]
           IsEscaped(f) == f = [n \in 0 .. N |->
             IF n = 0 THEN <<>> ELSE f[n - 1] \o EscapedChar(str[n])]
<1>1. N \in Nat /\ \A n \in 1 .. N : str[n] \in Letters
  BY LenProperties DEF Plain
<1>2. \A n \in 1 .. N : /\ EscapedChar(str[n]) \in Plain /\ EscapeCharacters(str[n]) \in Nat
                        /\ Len(EscapedChar(str[n])) = 1 + EscapeCharacters(str[n])
  BY <1>1, EscapedCharIs
<1> HIDE DEF N
<1>3. \E f : IsLength(f)
  <2> DEFINE step == [x \in (1 .. N) \X Nat |-> x[2] + 1 + EscapeCharacters(str[x[1]])]
  <2>1. step \in [(1 .. N) \X Nat -> Nat]
    BY <1>2, SMT
  <2>2. \A n \in 1 .. N : \A m \in Nat : step[<<n, m>>] = m + 1 + EscapeCharacters(str[n])
    OBVIOUS
  <2> HIDE DEF step
  <2>3. PICK f \in [0 .. N -> Nat] :
          f[0] = 0 /\ \A n \in 1 .. N : f[n] = step[<<n, f[n - 1]>>]
    <3>1. Runs(N, Nat, 0, step) # {}
      BY <1>1, <2>1, StepByStep DEF StepsOn
    <3>2. QED
      BY <3>1 DEF Runs
  <2>4. \A n \in 0 .. N : n # 0 => n \in 1 .. N /\ f[n - 1] \in Nat
    BY <1>1, SMT
  <2>5. \A n \in 0 .. N : f[n] = IF n = 0 THEN 0 ELSE f[n - 1] + 1 + EscapeCharacters(str[n])
    BY <2>2, <2>3, <2>4
  <2>6. IsLength(f)
    BY <2>5
  <2>7. QED
    BY <2>6
<1>4. \E f : IsEscaped(f)
  <2> DEFINE step == [x \in (1 .. N) \X Plain |-> x[2] \o EscapedChar(str[x[1]])]
  <2>1. step \in [(1 .. N) \X Plain -> Plain]
    BY <1>2, SMT DEF Plain
  <2>2. \A n \in 1 .. N : \A m \in Plain : step[<<n, m>>] = m \o EscapedChar(str[n])
    OBVIOUS
  <2> HIDE DEF step
  <2>3. <<>> \in Plain
    BY SMT DEF Plain
  <2>4. PICK f \in [0 .. N -> Plain] :
          f[0] = <<>> /\ \A n \in 1 .. N : f[n] = step[<<n, f[n - 1]>>]
    <3>1. Runs(N, Plain, <<>>, step) # {}
      BY <1>1, <2>1, <2>3, StepByStep DEF StepsOn
    <3>2. QED
      BY <3>1 DEF Runs
  <2>5. \A n \in 0 .. N : n # 0 => n \in 1 .. N /\ f[n - 1] \in Plain
    BY <1>1, SMT
  <2>6. \A n \in 0 .. N : f[n] = IF n = 0 THEN <<>> ELSE f[n - 1] \o EscapedChar(str[n])
    BY <2>2, <2>4, <2>5
  <2>7. IsEscaped(f)
    BY <2>6
  <2>8. QED
    BY <2>7
<1>5. PICK length : IsLength(length) /\ output_length(str) = length[N]
  <2>1. \E f : IsLength(f) /\ output_length(str) = f[N]
    BY <1>3, Zenon DEF output_length, N
  <2>2. QED
    BY <2>1
<1>6. PICK escaped : IsEscaped(escaped) /\ Escaped(str) = escaped[N]
  <2>1. \E f : IsEscaped(f) /\ Escaped(str) = f[N]
    BY <1>4, Zenon DEF Escaped, N
  <2>2. QED
    BY <2>1
<1>7. /\ \A n \in 0 .. N : length[n] = IF n = 0 THEN 0 ELSE length[n - 1] + 1 + EscapeCharacters(str[n])
      /\ \A n \in 0 .. N : escaped[n] = IF n = 0 THEN <<>> ELSE escaped[n - 1] \o EscapedChar(str[n])
  BY <1>5, <1>6, Zenon
<1> DEFINE T == {n \in 0 .. N : ~(/\ length[n] \in Nat /\ escaped[n] \in Plain
                                  /\ Len(escaped[n]) = length[n])}
<1>8. T = {}
  <2>1. SUFFICES ASSUME T # {}
                PROVE  FALSE
    OBVIOUS
  <2>2. PICK n \in T : \A m \in T : ~(m < n)
    <3>1. T \in SUBSET Nat /\ T # {}
      BY <1>1, <2>1, SMT
    <3>2. QED
      BY Least, <3>1
  <2>3. CASE n = 0
    <3>1. 0 \in 0 .. N
      BY <1>1, SMT
    <3>2. length[0] = 0 /\ escaped[0] = <<>>
      BY <1>7, <3>1
    <3>3. QED
      <4>1. <<>> \in Plain /\ Len(<<>>) = 0 /\ 0 \in Nat
        BY SMT DEF Plain
      <4>2. length[0] \in Nat /\ escaped[0] \in Plain /\ Len(escaped[0]) = length[0]
        BY <3>2, <4>1, Zenon
      <4>3. QED
        BY <2>2, <2>3, <4>2
  <2>4. CASE n # 0
    <3>1. n \in 1 .. N /\ n - 1 \in 0 .. N /\ n - 1 < n /\ n \in 0 .. N
      BY <1>1, <2>2, <2>4, SMT
    <3>2. length[n - 1] \in Nat /\ escaped[n - 1] \in Plain /\ Len(escaped[n - 1]) = length[n - 1]
      BY <2>2, <3>1
    <3>3. /\ length[n] = length[n - 1] + 1 + EscapeCharacters(str[n])
          /\ escaped[n] = escaped[n - 1] \o EscapedChar(str[n])
      BY <1>7, <2>4, <3>1
    <3>4. /\ EscapedChar(str[n]) \in Plain /\ EscapeCharacters(str[n]) \in Nat
          /\ Len(EscapedChar(str[n])) = 1 + EscapeCharacters(str[n])
      BY <1>2, <3>1
    <3>5. escaped[n] \in Plain /\ Len(escaped[n]) = length[n] /\ length[n] \in Nat
      <4>1. PICK s, t : s = escaped[n - 1] /\ t = EscapedChar(str[n])
        OBVIOUS
      <4>2. s \o t \in Plain /\ Len(s \o t) = Len(s) + Len(t) /\ escaped[n] = s \o t
        BY <3>2, <3>3, <3>4, <4>1, PlainJoins, Zenon
      <4>3. Len(s) = length[n - 1] /\ Len(t) = 1 + EscapeCharacters(str[n])
        BY <3>2, <3>4, <4>1, Zenon
      <4>4. \A l, e \in Nat : l + (1 + e) = l + 1 + e /\ l + 1 + e \in Nat
        OBVIOUS
      <4>5. /\ Len(s) + Len(t) = length[n - 1] + 1 + EscapeCharacters(str[n])
            /\ length[n] \in Nat
        BY <3>2, <3>3, <3>4, <4>3, <4>4, Zenon
      <4>6. QED
        BY <3>3, <4>2, <4>5, Zenon
    <3>6. QED
      BY <2>2, <3>5
  <2>5. QED
    BY <2>3, <2>4
<1>9. N \in 0 .. N
  BY <1>1, SMT
<1>10. QED
  BY <1>5, <1>6, <1>8, <1>9

LEMMA ValuesArePlain ==
  /\ \A str \in Names \cup Strings \cup Numbers : str \in Plain
  /\ NoName \in Plain /\ NoValue \in Plain
<1>1. ASSUME NEW str \in Names \cup Strings \cup Numbers
      PROVE  str \in Plain
  <2>1. str \in Seq(STRING) /\ Range(str) \subseteq Letters
    BY TextAssumption DEF Letters
  <2>2. Len(str) \in Nat /\ str \in [1 .. Len(str) -> STRING]
    BY <2>1, LenProperties
  <2>3. \A k \in 1 .. Len(str) : str[k] \in Letters
    BY <2>1, <2>2, Zenon DEF Range
  <2>4. str \in [1 .. Len(str) -> Letters]
    BY <2>2, <2>3
  <2>5. QED
    BY <2>2, <2>4, SeqDef DEF Plain
<1>2. NoName \in Plain /\ NoValue \in Plain
  BY SMT DEF Plain, NoName, NoValue
<1>3. QED
  BY <1>1, <1>2

-----------------------------------------------------------------------------
(* The buffer.  Every writer needs room where the printing is to go on, or *)
(* a NUL behind it.                                                        *)

Sound == [bytes : Texts, offset : Nat, inside : {TRUE}]

Offset(p) == p.offset
Size(p) == Len(p.bytes)

Ready(p) == Offset(p) < Size(p)

Ended(p) == \E k \in Offset(p) + 1 .. Size(p) : p.bytes[k] = NUL

LEMMA FunctionIsText ==
  ASSUME NEW n \in Nat, NEW f \in [1 .. n -> Bytes]
  PROVE  f \in Texts /\ Len(f) = n
BY SeqDef, LenProperties DEF Texts

LEMMA TextIsFunction ==
  ASSUME NEW f \in Texts
  PROVE  Len(f) \in Nat /\ f \in [1 .. Len(f) -> Bytes] /\ DOMAIN f = 1 .. Len(f)
BY LenProperties DEF Texts

LEMMA SoundIs ==
  ASSUME NEW p \in Sound
  PROVE  /\ p.bytes \in Texts /\ p.inside = TRUE /\ DOMAIN p.bytes = 1 .. Size(p)
         /\ Offset(p) \in Nat /\ Size(p) \in Nat
BY TextIsFunction DEF Sound, Offset, Size

LEMMA EnsureRoom ==
  ASSUME NEW p \in Sound, NEW needed \in Nat
  PROVE  /\ ensure(p, needed) \in Sound
         /\ Offset(ensure(p, needed)) = Offset(p)
         /\ Offset(p) + needed + 1 <= Size(ensure(p, needed))
         /\ \A k \in 1 .. Size(p) : ensure(p, needed).bytes[k] = p.bytes[k]
<1> DEFINE total == Needed(p, needed)
<1>1. total \in Nat /\ total = Offset(p) + needed + 1
  <2>1. total = needed + Offset(p) + 1 /\ Offset(p) \in Nat
    BY SoundIs, Zenon DEF Needed, Offset
  <2> HIDE DEF total
  <2>2. QED
    BY <2>1
<1> HIDE DEF total
<1>2. CASE Fits(p, needed)
  <2>1. ensure(p, needed) = p /\ total <= Size(p)
    BY <1>2, Zenon DEF ensure, Fits, total, Size
  <2>2. QED
    BY <1>1, <2>1
<1>3. CASE ~Fits(p, needed)
  <2> DEFINE size  == 2 * total
             bytes == [k \in 1 .. size |-> IF k <= Len(p.bytes) THEN p.bytes[k] ELSE "?"]
  <2>1. size \in Nat /\ total <= size
    BY <1>1
  <2>2. "?" \in Bytes
    BY LiteralsAreLetters, Zenon DEF Literals
  <2>3. ensure(p, needed) = [p EXCEPT !.bytes = bytes]
    BY <1>3, Zenon DEF ensure, total
  <2> HIDE DEF size
  <2>4. \A k \in 1 .. size : k <= Len(p.bytes) => p.bytes[k] \in Bytes
    <3>1. p.bytes \in [1 .. Size(p) -> Bytes] /\ Size(p) \in Nat
      BY SoundIs, TextIsFunction, Zenon DEF Size
    <3>2. \A k \in 1 .. size : k <= Size(p) => k \in 1 .. Size(p)
      BY <2>1, <3>1
    <3>3. QED
      BY <3>1, <3>2 DEF Size
  <2>5. bytes \in [1 .. size -> Bytes]
    BY <2>2, <2>4
  <2>6. bytes \in Texts /\ Len(bytes) = size
    BY <2>1, <2>5, FunctionIsText
  <2>7. \A k \in 1 .. Size(p) : bytes[k] = p.bytes[k]
    <3>1. Size(p) \in Nat /\ Size(p) < total
      BY <1>1, <1>3, SoundIs DEF Fits, total, Size
    <3>2. \A k \in 1 .. Size(p) : k \in 1 .. size /\ k <= Size(p)
      BY <1>1, <2>1, <3>1
    <3>3. QED
      BY <3>2, Zenon DEF Size
  <2> HIDE DEF bytes
  <2>8. /\ ensure(p, needed) \in Sound /\ ensure(p, needed).offset = p.offset
        /\ ensure(p, needed).bytes = bytes
    BY <2>3, <2>6 DEF Sound
  <2>9. Size(ensure(p, needed)) = size /\ Offset(ensure(p, needed)) = Offset(p)
    BY <2>6, <2>8, Zenon DEF Size, Offset
  <2>10. QED
    BY <1>1, <2>1, <2>7, <2>8, <2>9
<1>4. QED
  BY <1>2, <1>3

LEMMA PutInside ==
  ASSUME NEW p \in Sound, NEW at \in Nat, NEW chars \in Texts,
         Offset(p) + at + Len(chars) <= Size(p)
  PROVE  /\ Put(p, at, chars) \in Sound
         /\ Offset(Put(p, at, chars)) = Offset(p)
         /\ Size(Put(p, at, chars)) = Size(p)
         /\ \A k \in 1 .. Len(chars) : Put(p, at, chars).bytes[Offset(p) + at + k] = chars[k]
         /\ \A k \in 1 .. Offset(p) + at : Put(p, at, chars).bytes[k] = p.bytes[k]
<1> DEFINE size  == Size(p)
           from  == Offset(p) + at
           end   == from + Len(chars)
           bytes == [k \in 1 .. size |-> IF k \in from + 1 .. end THEN chars[k - from] ELSE p.bytes[k]]
<1>1. /\ p.bytes \in Texts /\ DOMAIN p.bytes = 1 .. size /\ p.inside = TRUE
      /\ from \in Nat /\ size \in Nat /\ Len(chars) \in Nat /\ end <= size
  <2>1. /\ p.bytes \in Texts /\ DOMAIN p.bytes = 1 .. size /\ p.inside = TRUE
        /\ Offset(p) \in Nat /\ size \in Nat /\ Len(chars) \in Nat
    BY SoundIs, TextIsFunction, Zenon
  <2> HIDE DEF size
  <2>2. from \in Nat
    BY <2>1
  <2>3. QED
    BY <2>1, <2>2, Zenon DEF size
<1>2. Put(p, at, chars) = [p EXCEPT !.bytes = bytes, !.inside = TRUE]
  <2>1. p.inside /\ end <= Len(p.bytes)
    BY <1>1 DEF Size
  <2>2. (p.inside /\ end <= Len(p.bytes)) = TRUE
    BY <2>1, Zenon
  <2>3. Put(p, at, chars) = [p EXCEPT !.bytes = bytes, !.inside = p.inside /\ end <= Len(p.bytes)]
    BY <1>1, Zenon DEF Put, Offset
  <2>4. QED
    BY <2>2, <2>3, Zenon
<1>3. /\ \A k \in 1 .. size : p.bytes[k] \in Bytes
      /\ \A k \in 1 .. Len(chars) : chars[k] \in Bytes
  BY <1>1, TextIsFunction DEF Size
<1> HIDE DEF from, size
<1>4. \A k \in from + 1 .. end : chars[k - from] \in Bytes
  BY <1>1, <1>3
<1>5. bytes \in [1 .. size -> Bytes]
  BY <1>3, <1>4
<1>6. bytes \in Texts /\ Len(bytes) = size
  BY <1>1, <1>5, FunctionIsText
<1>7. ASSUME NEW k \in 1 .. Len(chars)
      PROVE  bytes[from + k] = chars[k]
  <2>1. from + k \in from + 1 .. end /\ from + k \in 1 .. size /\ (from + k) - from = k
    BY <1>1
  <2>2. bytes[from + k] = chars[(from + k) - from]
    BY <2>1, Zenon
  <2>3. QED
    BY <2>1, <2>2, Zenon
<1>8. ASSUME NEW k \in 1 .. from
      PROVE  bytes[k] = p.bytes[k]
  <2>1. k \in 1 .. size /\ k \notin from + 1 .. end
    BY <1>1
  <2>2. QED
    BY <2>1, Zenon
<1> HIDE DEF bytes
<1>9. /\ Put(p, at, chars) \in Sound /\ Put(p, at, chars).offset = p.offset
      /\ Put(p, at, chars).bytes = bytes
  BY <1>2, <1>6 DEF Sound
<1>10. QED
  BY <1>6, <1>7, <1>8, <1>9, Zenon DEF Offset, Size, from, size

LEMMA OffsetUpdated ==
  ASSUME NEW p \in Sound, Ended(p)
  PROVE  update_offset(p) \in Sound /\ Ready(update_offset(p))
<1>1. p.bytes \in Texts /\ Size(p) \in Nat /\ Offset(p) \in Nat /\ p.inside = TRUE
  BY SoundIs
<1> DEFINE ends == {k \in Offset(p) + 1 .. Size(p) : p.bytes[k] = NUL}
           end  == CHOOSE k \in ends : \A j \in ends : k <= j
<1>2. ends # {} /\ ends \in SUBSET Nat
  BY <1>1 DEF Ended
<1>3. \E k \in ends : \A j \in ends : ~(j < k)
  BY <1>2, Least
<1>4. \E k \in ends : \A j \in ends : k <= j
  BY <1>2, <1>3
<1>5. end \in ends
  BY <1>4, Zenon
<1>6. update_offset(p) = [p EXCEPT !.offset = end - 1]
  BY <1>2, Zenon DEF update_offset, Size, Offset
<1> HIDE DEF end
<1>7. end - 1 \in Nat /\ end - 1 < Size(p)
  BY <1>1, <1>5
<1>8. /\ update_offset(p) \in Sound /\ update_offset(p).offset = end - 1
      /\ update_offset(p).bytes = p.bytes
  BY <1>1, <1>6, <1>7 DEF Sound
<1>9. Offset(update_offset(p)) = end - 1 /\ Size(update_offset(p)) = Size(p)
  BY <1>8, Zenon DEF Offset, Size
<1>10. QED
  BY <1>7, <1>8, <1>9 DEF Ready

LEMMA Emitted ==
  ASSUME NEW p \in Sound, NEW needed \in Nat, NEW chars \in Texts, NEW n \in Nat,
         Len(chars) <= needed + 1, n <= needed
  PROVE  LET q == Advance(Put(ensure(p, needed), 0, chars), n)
         IN  /\ q \in Sound /\ Ready(q)
             /\ n < Len(chars) /\ chars[Len(chars)] = NUL => Ended(q)
<1> DEFINE e == ensure(p, needed)
           w == Put(e, 0, chars)
           q == Advance(w, n)
<1>1. /\ e \in Sound /\ Offset(e) = Offset(p) /\ Offset(p) \in Nat
      /\ Offset(p) + needed + 1 <= Size(e) /\ Size(e) \in Nat /\ Len(chars) \in Nat
  BY EnsureRoom, SoundIs, TextIsFunction
<1> HIDE DEF e
<1>2. Offset(e) + 0 + Len(chars) <= Size(e)
  BY <1>1
<1>3. /\ w \in Sound /\ Offset(w) = Offset(p) /\ Size(w) = Size(e)
      /\ \A k \in 1 .. Len(chars) : w.bytes[Offset(e) + 0 + k] = chars[k]
  BY <1>1, <1>2, PutInside
<1> HIDE DEF w
<1>4. q \in Sound /\ Offset(q) = Offset(p) + n /\ Size(q) = Size(e) /\ q.bytes = w.bytes
  <2>1. Offset(w) + n \in Nat
    BY <1>1, <1>3
  <2>2. q = [w EXCEPT !.offset = Offset(w) + n]
    BY Zenon DEF Advance, Offset
  <2>3. q \in Sound /\ q.offset = Offset(w) + n /\ q.bytes = w.bytes
    BY <1>3, <2>1, <2>2 DEF Sound
  <2>4. QED
    BY <1>3, <2>3, Zenon DEF Offset, Size
<1> HIDE DEF q
<1>5. Ready(q)
  BY <1>1, <1>3, <1>4 DEF Ready
<1>6. ASSUME n < Len(chars), chars[Len(chars)] = NUL
      PROVE  Ended(q)
  <2>1. Len(chars) \in 1 .. Len(chars) /\ Offset(e) + 0 + Len(chars) = Offset(p) + Len(chars)
    BY <1>1, <1>6
  <2>2. w.bytes[Offset(p) + Len(chars)] = NUL
    BY <1>3, <1>6, <2>1, Zenon
  <2>3. Offset(p) + Len(chars) \in Offset(q) + 1 .. Size(q)
    <3>1. \A o, l, size \in Nat :
            n < l /\ l <= needed + 1 /\ o + needed + 1 <= size => o + l \in o + n + 1 .. size
      OBVIOUS
    <3>2. QED
      BY <1>1, <1>4, <1>6, <3>1, Zenon
  <2>4. QED
    BY <1>4, <2>2, <2>3, Zenon DEF Ended
<1>7. QED
  BY <1>4, <1>5, <1>6, Zenon DEF q, w, e

LEMMA StringPrinted ==
  ASSUME NEW p \in Sound, NEW str \in Plain
  PROVE  LET length == output_length(str)
             opened == Put(ensure(p, length + 3), 0, <<Quote>> \o Escaped(str))
             q == Put(opened, length + 1, <<Quote, NUL>>)
         IN  q \in Sound /\ Ended(q)
<1> DEFINE length == output_length(str)
           e == ensure(p, length + 3)
           opened == Put(e, 0, <<Quote>> \o Escaped(str))
           last == <<Quote, NUL>>
           q == Put(opened, length + 1, last)
<1>1. length \in Nat /\ Escaped(str) \in Texts /\ Len(Escaped(str)) = length
  BY EscapedLength, PlainIsText, Zenon
<1>2. Quote \in Bytes /\ NUL \in Bytes
  BY LiteralsAreLetters, NulIsNoLetter, Zenon DEF Literals
<1>3. /\ <<Quote>> \in Texts /\ Len(<<Quote>>) = 1
      /\ last \in Texts /\ Len(last) = 2 /\ last[2] = NUL
  BY <1>2, SMT DEF Texts
<1> HIDE DEF last
<1>4. <<Quote>> \o Escaped(str) \in Texts /\ Len(<<Quote>> \o Escaped(str)) = 1 + length
  BY <1>1, <1>3, TextsJoin
<1> HIDE DEF length
<1>5. /\ e \in Sound /\ Offset(e) = Offset(p) /\ Offset(p) \in Nat
      /\ Offset(p) + (length + 3) + 1 <= Size(e) /\ Size(e) \in Nat
  <2>1. length + 3 \in Nat
    BY <1>1
  <2>2. QED
    BY <2>1, EnsureRoom, SoundIs, Zenon
<1> HIDE DEF e
<1>6. Offset(e) + 0 + Len(<<Quote>> \o Escaped(str)) <= Size(e)
  <2> DEFINE l == Len(<<Quote>> \o Escaped(str))
  <2>1. l = 1 + length
    BY <1>4
  <2> HIDE DEF l
  <2>2. Offset(e) + 0 + l <= Size(e)
    BY <1>1, <1>5, <2>1
  <2>3. QED
    BY <2>2 DEF l
<1>7. opened \in Sound /\ Offset(opened) = Offset(p) /\ Size(opened) = Size(e)
  BY <1>4, <1>5, <1>6, PutInside
<1> HIDE DEF opened
<1>8. Offset(opened) + (length + 1) + Len(last) <= Size(opened) /\ length + 1 \in Nat
  BY <1>1, <1>3, <1>5, <1>7
<1>9. /\ q \in Sound /\ Offset(q) = Offset(p) /\ Size(q) = Size(e)
      /\ \A k \in 1 .. Len(last) : q.bytes[Offset(opened) + (length + 1) + k] = last[k]
  BY <1>3, <1>7, <1>8, PutInside
<1> HIDE DEF q
<1>10. /\ 2 \in 1 .. Len(last)
       /\ Offset(opened) + (length + 1) + 2 \in Offset(q) + 1 .. Size(q)
  <2>1. \A o, l, size \in Nat :
          o + (l + 3) + 1 <= size => o + (l + 1) + 2 \in o + 1 .. size
    OBVIOUS
  <2>2. Offset(opened) + (length + 1) + 2 \in Offset(q) + 1 .. Size(q)
    BY <1>1, <1>5, <1>7, <1>9, <2>1, Zenon
  <2>3. QED
    BY <1>3, <2>2
<1>11. Ended(q)
  BY <1>3, <1>9, <1>10, Zenon DEF Ended
<1>12. QED
  BY <1>9, <1>11, Zenon DEF q, opened, e, length, last

-----------------------------------------------------------------------------
(* The calls.  All but the innermost wait for the one they made, and what  *)
(* comes back to them is a text that has ended.                            *)

Waiting == {"print", "element", "field"}

Frames ==
  [at : Waiting \cup {"value", "key", "colon"}, item : Items] \cup
  [at : {"bracket", "brace"}, item : {Null}]

Stack(s) == s \in Seq(Frames) /\ \A k \in 1 .. Len(s) - 1 : s[k].at \in Waiting

GoesOn(at, p) == IF at \in Waiting \cup {"colon"} THEN Ended(p) ELSE Ready(p)

(* What the printer keeps to, with the calls s.                            *)
Keeps(p, s) ==
  /\ p \in Sound /\ Stack(s)
  /\ s # <<>> => GoesOn(Last(s).at, p)

PInv == Keeps(printer, calls)

LEMMA Frame ==
  ASSUME NEW s, Stack(s), s # <<>>
  PROVE  /\ Last(s) \in Frames
         /\ Last(s).at \in Waiting \cup {"value", "key", "colon"} => Last(s).item \in Items
<1>1. Last(s) \in Frames
  BY DEF Stack, Last
<1>2. \A c \in Frames : c.at \in Waiting \cup {"value", "key", "colon"} => c.item \in Items
  BY DEF Frames, Waiting
<1>3. QED
  BY <1>1, <1>2

LEMMA FrontIs ==
  ASSUME NEW s \in Seq(Frames), s # <<>>
  PROVE  /\ Front(s) \in Seq(Frames) /\ Len(Front(s)) = Len(s) - 1
         /\ \A k \in 1 .. Len(Front(s)) : Front(s)[k] = s[k]
<1>1. PICK m : m = Len(s) - 1
  OBVIOUS
<1>2. Len(s) \in Nat /\ Len(s) # 0 /\ \A k \in 1 .. Len(s) : s[k] \in Frames
  BY EmptySeq, LenProperties
<1>3. m \in Nat /\ \A k \in 1 .. m : k \in 1 .. Len(s)
  BY <1>1, <1>2
<1>4. Front(s) = SubSeq(s, 1, m) /\ m \in Int /\ 1 \in Int /\ \A k \in 1 .. m : s[k] \in Frames
  BY <1>1, <1>2, <1>3 DEF Front
<1>5. /\ SubSeq(s, 1, m) \in Seq(Frames)
      /\ Len(SubSeq(s, 1, m)) = IF 1 <= m THEN m - 1 + 1 ELSE 0
      /\ \A k \in 1 .. m - 1 + 1 : SubSeq(s, 1, m)[k] = s[1 + k - 1]
  BY <1>4, SubSeqProperties
<1>6. /\ (IF 1 <= m THEN m - 1 + 1 ELSE 0) = m /\ m - 1 + 1 = m
      /\ \A k \in 1 .. m : 1 + k - 1 = k
  BY <1>3
<1>7. Len(SubSeq(s, 1, m)) = m /\ \A k \in 1 .. m : SubSeq(s, 1, m)[k] = s[k]
  BY <1>5, <1>6
<1>8. QED
  BY <1>1, <1>4, <1>5, <1>7

LEMMA Returned ==
  ASSUME NEW s, Stack(s), s # <<>>, NEW next, Stack(next)
  PROVE  /\ Stack(Front(s) \o next)
         /\ next # <<>> => Last(Front(s) \o next) = Last(next)
         /\ next = <<>> /\ Front(s) \o next # <<>> => Last(Front(s) \o next).at \in Waiting
<1> DEFINE f == Front(s)
           t == f \o next
<1>1. /\ s \in Seq(Frames) /\ next \in Seq(Frames)
      /\ \A k \in 1 .. Len(s) - 1 : s[k].at \in Waiting
      /\ \A k \in 1 .. Len(next) - 1 : next[k].at \in Waiting
  BY DEF Stack
<1>2. Len(s) \in Nat /\ Len(s) # 0 /\ Len(next) \in Nat
  BY <1>1, EmptySeq, LenProperties
<1>3. /\ f \in Seq(Frames) /\ Len(f) = Len(s) - 1
      /\ \A k \in 1 .. Len(f) : f[k] = s[k]
  <2>1. QED
    BY <1>1, <1>2, FrontIs
<1> HIDE DEF f
<1>4. /\ t \in Seq(Frames) /\ Len(t) = Len(f) + Len(next)
      /\ \A k \in 1 .. Len(f) + Len(next) : t[k] = IF k <= Len(f) THEN f[k] ELSE next[k - Len(f)]
  BY <1>1, <1>3, ConcatProperties
<1> HIDE DEF t
<1>5. ASSUME NEW k \in 1 .. Len(t) - 1
      PROVE  t[k].at \in Waiting
  <2>0. Len(f) \in Nat /\ Len(next) \in Nat /\ k \in 1 .. (Len(f) + Len(next)) - 1
    <3>1. Len(s) - 1 \in Nat
      BY <1>2
    <3>2. QED
      BY <1>2, <1>3, <1>4, <3>1, Zenon
  <2>1. CASE k <= Len(f)
    <3>1. k \in 1 .. Len(f) /\ k \in 1 .. Len(f) + Len(next)
      BY <2>0, <2>1
    <3>2. k \in 1 .. Len(s) - 1 /\ t[k] = s[k]
      BY <1>3, <1>4, <2>1, <3>1, Zenon
    <3>3. QED
      BY <1>1, <3>2, Zenon
  <2>2. CASE ~(k <= Len(f))
    <3>1. \A a, b \in Nat : \A c \in 1 .. (a + b) - 1 :
            ~(c <= a) => c - a \in 1 .. b - 1 /\ c \in 1 .. a + b
      OBVIOUS
    <3>2. k - Len(f) \in 1 .. Len(next) - 1 /\ k \in 1 .. Len(f) + Len(next)
      BY <2>0, <2>2, <3>1, Zenon
    <3>3. t[k] = next[k - Len(f)]
      BY <1>4, <2>2, <3>2, Zenon
    <3>4. QED
      BY <1>1, <3>2, <3>3, Zenon
  <2>3. QED
    BY <2>1, <2>2
<1>6. ASSUME next # <<>>
      PROVE  Last(t) = Last(next)
  <2>1. Len(next) # 0
    BY <1>1, <1>6, EmptySeq
  <2>2. t[Len(t)] = next[Len(next)]
    <3>1. /\ Len(t) \in 1 .. Len(f) + Len(next) /\ ~(Len(t) <= Len(f))
          /\ Len(t) - Len(f) = Len(next)
      BY <1>2, <1>3, <1>4, <2>1
    <3>2. QED
      BY <1>4, <3>1
  <2>3. QED
    BY <2>2 DEF Last
<1>7. ASSUME next = <<>>, t # <<>>
      PROVE  Last(t).at \in Waiting
  <2>1. Len(next) = 0 /\ Len(t) # 0
    BY <1>1, <1>4, <1>7, EmptySeq
  <2>2. Len(t) \in 1 .. Len(f) /\ Len(t) \in 1 .. Len(s) - 1
    BY <1>2, <1>3, <1>4, <2>1
  <2>3. t[Len(t)] = s[Len(t)]
    BY <1>2, <1>3, <1>4, <2>1, <2>2
  <2>4. QED
    BY <1>1, <2>2, <2>3 DEF Last
<1>8. QED
  BY <1>4, <1>5, <1>6, <1>7 DEF Stack, t, f

(* A step that leaves a printer q and goes on with the calls next.         *)
LEMMA StepKeeps ==
  ASSUME NEW s, Stack(s), s # <<>>, NEW next, Stack(next), NEW q \in Sound,
         next = <<>> => Ended(q),
         next # <<>> => GoesOn(Last(next).at, q)
  PROVE  Keeps(q, Front(s) \o next)
<1>1. CASE next = <<>>
  BY <1>1, Returned DEF Keeps, GoesOn
<1>2. CASE next # <<>>
  BY <1>2, Returned DEF Keeps
<1>3. QED
  BY <1>1, <1>2

LEMMA NoCalls == Stack(<<>>)
BY EmptySeq, SMT DEF Stack

LEMMA GivenUp ==
  ASSUME NEW p \in Sound, GiveUp(p)
  PROVE  PInv'
<1>1. <<>> \in Texts
  BY SMT DEF Texts
<1>2. Released(p) \in Sound
  BY <1>1 DEF Released, Sound
<1>3. printer' = Released(p) /\ calls' = <<>>
  BY DEF GiveUp
<1>4. QED
  BY <1>2, <1>3, NoCalls DEF PInv, Keeps

LEMMA EmitKeeps ==
  ASSUME PInv, calls # <<>>,
         NEW p \in Sound, NEW needed \in Nat, NEW chars \in Texts, NEW n \in Nat,
         Len(chars) <= needed + 1, n <= needed,
         NEW next, Stack(next),
         next = <<>> => n < Len(chars) /\ chars[Len(chars)] = NUL,
         next # <<>> => Last(next).at \notin Waiting \cup {"colon"},
         Emit(p, needed, chars, n, next)
  PROVE  PInv'
<1>1. CASE printer' = Advance(Put(ensure(p, needed), 0, chars), n) /\ Return(next)
  <2> DEFINE q == Advance(Put(ensure(p, needed), 0, chars), n)
  <2>1. q \in Sound /\ Ready(q) /\ (n < Len(chars) /\ chars[Len(chars)] = NUL => Ended(q))
    BY Emitted, Zenon
  <2> HIDE DEF q
  <2>2. next = <<>> => Ended(q)
    BY <2>1
  <2>3. next # <<>> => GoesOn(Last(next).at, q)
    BY <2>1 DEF GoesOn
  <2>4. Stack(calls)
    BY DEF PInv, Keeps
  <2>5. Keeps(q, Front(calls) \o next)
    BY <2>1, <2>2, <2>3, <2>4, StepKeeps
  <2>6. QED
    BY <1>1, <2>5, Zenon DEF PInv, Return, q
<1>2. CASE GiveUp(p)
  BY <1>2, GivenUp
<1>3. QED
  BY <1>1, <1>2, Zenon DEF Emit

LEMMA StringKeeps ==
  ASSUME PInv, calls # <<>>, NEW str \in Plain, NEW next, Stack(next),
         next # <<>> => Last(next).at \in Waiting \cup {"colon"},
         print_string_ptr(str, next)
  PROVE  PInv'
<1> DEFINE length == output_length(str)
           opened == Put(ensure(printer, length + 3), 0, <<Quote>> \o Escaped(str))
           q == Put(opened, length + 1, <<Quote, NUL>>)
<1>1. printer \in Sound /\ Stack(calls)
  BY DEF PInv, Keeps
<1>2. CASE printer' = q /\ Return(next)
  <2>1. q \in Sound /\ Ended(q)
    BY <1>1, StringPrinted, Zenon
  <2> HIDE DEF q
  <2>2. next # <<>> => GoesOn(Last(next).at, q)
    BY <2>1 DEF GoesOn
  <2>3. Keeps(q, Front(calls) \o next)
    BY <1>1, <2>1, <2>2, StepKeeps
  <2>4. QED
    BY <1>2, <2>3, Zenon DEF PInv, Return
<1>3. CASE GiveUp(printer)
  BY <1>1, <1>3, GivenUp
<1>4. QED
  BY <1>2, <1>3, Zenon DEF print_string_ptr

LEMMA OneLetter ==
  ASSUME NEW c \in Bytes
  PROVE  <<c>> \in Texts /\ Len(<<c>>) = 1
BY SMT DEF Texts

(* Texts that end.                                                         *)
IsEnded(t, n) == t \in Texts /\ Len(t) = n /\ t[n] = NUL

LEMMA LastLetter ==
  ASSUME NEW c \in Bytes
  PROVE  IsEnded(<<c, NUL>>, 2)
<1>1. NUL \in Bytes
  BY LiteralsAreLetters, NulIsNoLetter, Zenon DEF Literals
<1>2. QED
  BY <1>1, SMT DEF Texts, IsEnded

LEMMA Words ==
  /\ IsEnded(<<"t", "r", "u", "e", NUL>>, 5)
  /\ IsEnded(<<"f", "a", "l", "s", "e", NUL>>, 6)
<1>1. {"t", "r", "u", "e", "f", "a", "l", "s", NUL} \subseteq Bytes
  BY LiteralsAreLetters, NulIsNoLetter, Zenon DEF Literals
<1>2. QED
  BY <1>1, SMT DEF Texts, IsEnded

LEMMA Marks == {"[", "]", "{", "}", ",", ":"} \subseteq Bytes
BY LiteralsAreLetters, Zenon DEF Literals

LEMMA Terminated ==
  ASSUME NEW s \in Texts
  PROVE  LET t == Append(s, NUL)
         IN  /\ t \in Texts /\ Len(s) \in Nat /\ Len(t) = Len(s) + 1 /\ t[Len(t)] = NUL
<1>1. NUL \in Bytes
  BY LiteralsAreLetters, NulIsNoLetter, Zenon DEF Literals
<1>2. QED
  BY <1>1, AppendProperties, LenProperties DEF Texts

(* What the calls of the printer go on with.                               *)
LEMMA Pushed ==
  ASSUME NEW i \in Pointers
  PROVE  /\ Stack(NextElement(i)) /\ Stack(NextField(i))
         /\ NextElement(i) # <<>> /\ NextField(i) # <<>>
         /\ Last(NextElement(i)).at \in {"bracket", "value"}
         /\ Last(NextField(i)).at \in {"brace", "key"}
<1>1. ASSUME NEW c \in Frames
      PROVE  Stack(<<c>>) /\ <<c>> # <<>> /\ Last(<<c>>) = c
  BY SMT DEF Stack, Last
<1>2. ASSUME NEW c \in Frames, NEW d \in Frames, c.at \in Waiting
      PROVE  Stack(<<c, d>>) /\ <<c, d>> # <<>> /\ Last(<<c, d>>) = d
  BY <1>2, SMT DEF Stack, Last
<1>3. CASE i = Null
  <2>1. Call("bracket", i) \in Frames /\ Call("brace", i) \in Frames
    BY <1>3 DEF Frames, Call
  <2>2. NextElement(i) = <<Call("bracket", i)>> /\ NextField(i) = <<Call("brace", i)>>
    BY <1>3, Zenon DEF NextElement, NextField
  <2>3. Call("bracket", i).at = "bracket" /\ Call("brace", i).at = "brace"
    BY DEF Call
  <2>4. QED
    BY <1>1, <2>1, <2>2, <2>3, Zenon
<1>4. CASE i # Null
  <2>1. i \in Items
    BY <1>4 DEF Pointers
  <2>2. /\ Call("element", i) \in Frames /\ Call("value", i) \in Frames
        /\ Call("field", i) \in Frames /\ Call("key", i) \in Frames
    BY <2>1 DEF Frames, Call, Waiting
  <2>3. /\ NextElement(i) = <<Call("element", i), Call("value", i)>>
        /\ NextField(i) = <<Call("field", i), Call("key", i)>>
    BY <1>4, Zenon DEF NextElement, NextField
  <2>4. /\ Call("element", i).at \in Waiting /\ Call("field", i).at \in Waiting
        /\ Call("value", i).at = "value" /\ Call("key", i).at = "key"
    BY DEF Call, Waiting
  <2>5. QED
    BY <1>2, <2>2, <2>3, <2>4, Zenon
<1>5. QED
  BY <1>3, <1>4

LEMMA PushedOne ==
  ASSUME NEW i \in Items, NEW at \in {"value", "colon"}
  PROVE  /\ Stack(<<Call(at, i)>>) /\ <<Call(at, i)>> # <<>>
         /\ Last(<<Call(at, i)>>).at = at
<1>1. Call(at, i) \in Frames /\ Call(at, i).at = at
  BY DEF Frames, Call
<1>2. PICK c : c = Call(at, i)
  OBVIOUS
<1>3. Stack(<<c>>) /\ <<c>> # <<>> /\ Last(<<c>>) = c
  BY <1>1, <1>2, SMT DEF Stack, Last
<1>4. QED
  BY <1>1, <1>2, <1>3, Zenon

LEMMA Doer ==
  ASSUME PInv, NEW at, Doing(at)
  PROVE  /\ printer \in Sound /\ Stack(calls) /\ calls # <<>>
         /\ GoesOn(at, printer)
         /\ at \in Waiting \cup {"value", "key", "colon"} => Item \in Items
BY Frame DEF PInv, Keeps, Doing, Item

LEMMA ItemIs ==
  ASSUME TypeOK, NEW i \in Items
  PROVE  /\ heap[i].next \in Pointers /\ heap[i].child \in Pointers
         /\ heap[i].value \in Plain /\ heap[i].string \in Plain
<1>1. heap[i] \in Cells
  BY DEF TypeOK
<1>2. /\ heap[i].next \in Pointers /\ heap[i].child \in Pointers
      /\ heap[i].value \in Strings \cup Numbers \cup {NoValue}
      /\ heap[i].string \in Names \cup {NoName}
  BY <1>1 DEF Cells
<1>3. QED
  BY <1>2, ValuesArePlain

LEMMA ValueKeeps ==
  ASSUME TypeOK, PInv, print_value
  PROVE  PInv'
<1> DEFINE item == heap[Item]
<1>1. Doing("value") /\ printer \in Sound /\ calls # <<>> /\ Item \in Items
  BY Doer, Zenon DEF print_value
<1>2. item.child \in Pointers /\ item.value \in Plain /\ item.value \in Texts
  BY <1>1, ItemIs, PlainIsText
<1> HIDE DEF item
<1>3. CASE Emit(printer, 5, <<"t", "r", "u", "e", NUL>>, 0, <<>>)
  <2> DEFINE chars == <<"t", "r", "u", "e", NUL>>
  <2>1. IsEnded(chars, 5)
    BY Words, Zenon
  <2>2. Emit(printer, 5, chars, 0, <<>>)
    BY <1>3
  <2> HIDE DEF chars
  <2>3. /\ chars \in Texts /\ chars[Len(chars)] = NUL
        /\ Len(chars) <= 5 + 1 /\ 0 <= 5 /\ 0 < Len(chars) /\ 5 \in Nat /\ 0 \in Nat
    BY <2>1 DEF IsEnded
  <2>4. QED
    BY <1>1, <2>2, <2>3, NoCalls, EmitKeeps, Zenon
<1>4. CASE Emit(printer, 6, <<"f", "a", "l", "s", "e", NUL>>, 0, <<>>)
  <2> DEFINE chars == <<"f", "a", "l", "s", "e", NUL>>
  <2>1. IsEnded(chars, 6)
    BY Words, Zenon
  <2>2. Emit(printer, 6, chars, 0, <<>>)
    BY <1>4
  <2> HIDE DEF chars
  <2>3. /\ chars \in Texts /\ chars[Len(chars)] = NUL
        /\ Len(chars) <= 6 + 1 /\ 0 <= 6 /\ 0 < Len(chars) /\ 6 \in Nat /\ 0 \in Nat
    BY <2>1 DEF IsEnded
  <2>4. QED
    BY <1>1, <2>1, <2>2, <2>3, NoCalls, EmitKeeps, Zenon
<1>5. CASE Emit(printer, Len(item.value) + 1, Append(item.value, NUL), Len(item.value), <<>>)
  <2> DEFINE chars == Append(item.value, NUL)
             n == Len(item.value)
  <2>1. chars \in Texts /\ n \in Nat /\ Len(chars) = n + 1 /\ chars[Len(chars)] = NUL
    BY <1>2, Terminated
  <2>2. Emit(printer, n + 1, chars, n, <<>>)
    BY <1>5
  <2> HIDE DEF chars, n
  <2>3. Len(chars) <= (n + 1) + 1 /\ n <= n + 1 /\ n < Len(chars) /\ n + 1 \in Nat
    BY <2>1
  <2>4. QED
    BY <1>1, <2>1, <2>2, <2>3, NoCalls, EmitKeeps, Zenon
<1>6. CASE print_string_ptr(item.value, <<>>)
  BY <1>1, <1>2, <1>6, NoCalls, StringKeeps
<1>7. CASE Emit(printer, 1, <<"[">>, 1, NextElement(item.child))
  <2> DEFINE chars == <<"[">>
             next == NextElement(item.child)
  <2>1. chars \in Texts /\ Len(chars) = 1
    BY Marks, OneLetter, Zenon
  <2>2. Emit(printer, 1, chars, 1, next)
    BY <1>7, Zenon
  <2>3. Stack(next) /\ next # <<>> /\ Last(next).at \in {"bracket", "value"}
    BY <1>2, Pushed
  <2> HIDE DEF chars, next
  <2>4. Len(chars) <= 1 + 1 /\ 1 <= 1 /\ 1 \in Nat
    BY <2>1
  <2>5. Last(next).at \notin Waiting \cup {"colon"}
    BY <2>3 DEF Waiting
  <2>6. QED
    BY <1>1, <2>1, <2>2, <2>3, <2>4, <2>5, EmitKeeps, Zenon
<1>8. CASE Emit(printer, 2, <<"{">>, 1, NextField(item.child))
  <2> DEFINE chars == <<"{">>
             next == NextField(item.child)
  <2>1. chars \in Texts /\ Len(chars) = 1
    BY Marks, OneLetter, Zenon
  <2>2. Emit(printer, 2, chars, 1, next)
    BY <1>8, Zenon
  <2>3. Stack(next) /\ next # <<>> /\ Last(next).at \in {"brace", "key"}
    BY <1>2, Pushed
  <2> HIDE DEF chars, next
  <2>4. Len(chars) <= 2 + 1 /\ 1 <= 2 /\ 1 \in Nat /\ 2 \in Nat
    BY <2>1
  <2>5. Last(next).at \notin Waiting \cup {"colon"}
    BY <2>3 DEF Waiting
  <2>6. QED
    BY <1>1, <2>1, <2>2, <2>3, <2>4, <2>5, EmitKeeps, Zenon
<1>9. QED
  BY <1>3, <1>4, <1>5, <1>6, <1>7, <1>8, Zenon DEF print_value, item

(* A bracket or a comma, with the NUL that ends the text so far.           *)
LEMMA MarkKeeps ==
  ASSUME PInv, calls # <<>>, NEW p \in Sound, NEW c \in Bytes, NEW n \in {0, 1},
         NEW next, Stack(next), next # <<>> => Last(next).at \notin Waiting \cup {"colon"},
         Emit(p, 2, <<c, NUL>>, n, next)
  PROVE  PInv'
<1>1. IsEnded(<<c, NUL>>, 2)
  BY LastLetter
<1> DEFINE chars == <<c, NUL>>
<1>2. Emit(p, 2, chars, n, next)
  OBVIOUS
<1> HIDE DEF chars
<1>3. /\ chars \in Texts /\ chars[Len(chars)] = NUL
      /\ Len(chars) <= 2 + 1 /\ n <= 2 /\ n < Len(chars) /\ 2 \in Nat /\ n \in Nat
  BY <1>1 DEF IsEnded, chars
<1>4. QED
  BY <1>2, <1>3, EmitKeeps, Zenon

LEMMA ElementKeeps ==
  ASSUME TypeOK, PInv, print_array
  PROVE  PInv'
<1> DEFINE p == update_offset(printer)
           next == heap[Item].next
<1>1. Doing("element") /\ printer \in Sound /\ Stack(calls) /\ calls # <<>> /\ Item \in Items
      /\ Ended(printer)
  <2>1. Doing("element") /\ "element" \in Waiting
    BY Zenon DEF print_array, Waiting
  <2>2. QED
    BY <2>1, Doer, Zenon DEF GoesOn
<1>2. next \in Pointers /\ p \in Sound /\ Ready(p)
  BY <1>1, ItemIs, OffsetUpdated
<1>3. /\ Stack(NextElement(next)) /\ NextElement(next) # <<>>
      /\ Last(NextElement(next)).at \notin Waiting \cup {"colon"}
  BY <1>2, Pushed DEF Waiting
<1> HIDE DEF p, next
<1>4. CASE Emit(p, 2, <<",", NUL>>, 1, NextElement(next))
  <2>1. "," \in Bytes /\ 1 \in {0, 1}
    BY Marks, Zenon
  <2>2. QED
    BY <1>1, <1>2, <1>3, <1>4, <2>1, MarkKeeps, Zenon
<1>5. CASE printer' = p /\ Return(NextElement(next))
  <2>1. GoesOn(Last(NextElement(next)).at, p)
    BY <1>2, <1>3, Zenon DEF GoesOn
  <2>2. Keeps(p, Front(calls) \o NextElement(next))
    BY <1>1, <1>2, <1>3, <2>1, StepKeeps
  <2>3. QED
    BY <1>5, <2>2, Zenon DEF PInv, Return
<1>6. QED
  BY <1>4, <1>5, Zenon DEF print_array, p, next

LEMMA KeyKeeps ==
  ASSUME TypeOK, PInv, print_key
  PROVE  PInv'
<1>1. Doing("key") /\ calls # <<>> /\ Item \in Items
  BY Doer, Zenon DEF print_key
<1>2. heap[Item].string \in Plain
  BY <1>1, ItemIs
<1> DEFINE next == <<Call("colon", Item)>>
<1>3. Stack(next) /\ Last(next).at = "colon"
  BY <1>1, PushedOne, Zenon
<1>4. print_string_ptr(heap[Item].string, next)
  BY Zenon DEF print_key
<1> HIDE DEF next
<1>5. Last(next).at \in Waiting \cup {"colon"}
  BY <1>3
<1>6. QED
  BY <1>1, <1>2, <1>3, <1>4, <1>5, StringKeeps, Zenon

LEMMA ColonKeeps ==
  ASSUME PInv, print_colon
  PROVE  PInv'
<1> DEFINE p == update_offset(printer)
           chars == <<":">>
           next == <<Call("value", Item)>>
<1>1. printer \in Sound /\ calls # <<>> /\ Item \in Items /\ Ended(printer)
  <2>1. Doing("colon") /\ "colon" \in Waiting \cup {"colon"}
    BY DEF print_colon
  <2>2. QED
    BY <2>1, Doer, Zenon DEF GoesOn
<1>2. p \in Sound
  BY <1>1, OffsetUpdated
<1>3. chars \in Texts /\ Len(chars) = 1
  BY Marks, OneLetter, Zenon
<1>4. Stack(next) /\ next # <<>> /\ Last(next).at = "value"
  BY <1>1, PushedOne, Zenon
<1>5. Emit(p, 1, chars, 1, next)
  BY Zenon DEF print_colon
<1> HIDE DEF p, chars, next
<1>6. Len(chars) <= 1 + 1 /\ 1 <= 1 /\ 1 \in Nat
  BY <1>3
<1>7. Last(next).at \notin Waiting \cup {"colon"}
  BY <1>4 DEF Waiting
<1>8. QED
  BY <1>1, <1>2, <1>3, <1>4, <1>5, <1>6, <1>7, EmitKeeps, Zenon

LEMMA FieldKeeps ==
  ASSUME TypeOK, PInv, print_object
  PROVE  PInv'
<1> DEFINE p == AfterField(printer)
           next == heap[Item].next
           comma == IF next = Null THEN <<>> ELSE <<",">>
           chars == Append(comma, NUL)
           n == Len(comma)
<1>1. printer \in Sound /\ calls # <<>> /\ Item \in Items /\ Ended(printer)
  <2>1. Doing("field") /\ "field" \in Waiting
    BY Zenon DEF print_object, Waiting
  <2>2. QED
    BY <2>1, Doer, Zenon DEF GoesOn
<1>2. next \in Pointers /\ p \in Sound
  BY <1>1, ItemIs, OffsetUpdated DEF AfterField
<1>3. /\ Stack(NextField(next)) /\ NextField(next) # <<>>
      /\ Last(NextField(next)).at \notin Waiting \cup {"colon"}
  BY <1>2, Pushed DEF Waiting
<1>4. Emit(p, n + 1, chars, n, NextField(next))
  BY Zenon DEF print_object
<1>5. comma \in Texts
  <2>1. <<>> \in Texts
    BY SMT DEF Texts
  <2>2. <<",">> \in Texts
    BY Marks, OneLetter, Zenon
  <2>3. QED
    BY <2>1, <2>2, Zenon
<1> HIDE DEF p, next, comma
<1>6. chars \in Texts /\ n \in Nat /\ Len(chars) = n + 1 /\ chars[Len(chars)] = NUL
  BY <1>5, Terminated
<1> HIDE DEF chars, n
<1>7. Len(chars) <= (n + 1) + 1 /\ n <= n + 1 /\ n + 1 \in Nat
  BY <1>6
<1>8. QED
  BY <1>1, <1>2, <1>3, <1>4, <1>6, <1>7, EmitKeeps, Zenon

LEMMA EndKeeps ==
  ASSUME PInv, print_end
  PROVE  PInv'
<1>1. "]" \in Bytes /\ "}" \in Bytes /\ 0 \in {0, 1}
  BY Marks, Zenon
<1>2. printer \in Sound
  BY DEF PInv, Keeps
<1>3. CASE Doing("bracket") /\ Emit(printer, 2, <<"]", NUL>>, 0, <<>>)
  <2>1. calls # <<>>
    BY <1>3, Zenon DEF Doing
  <2>2. QED
    BY <1>1, <1>2, <1>3, <2>1, NoCalls, MarkKeeps, Zenon
<1>4. CASE Doing("brace") /\ Emit(printer, 2, <<"}", NUL>>, 0, <<>>)
  <2>1. calls # <<>>
    BY <1>4, Zenon DEF Doing
  <2>2. QED
    BY <1>1, <1>2, <1>4, <2>1, NoCalls, MarkKeeps, Zenon
<1>5. QED
  BY <1>3, <1>4, Zenon DEF print_end

LEMMA StartKeeps ==
  ASSUME response \in Items, PInv, print_start
  PROVE  PInv'
<1>1. CASE printer' = Buffer(BufferSize) /\ calls' = <<Call("print", response), Call("value", response)>>
  <2>1. BufferSize \in Nat /\ 0 < BufferSize
    BY TextAssumption
  <2>2. [k \in 1 .. BufferSize |-> "?"] \in [1 .. BufferSize -> Bytes]
    <3>1. "?" \in Bytes
      BY LiteralsAreLetters, Zenon DEF Literals
    <3>2. QED
      BY <3>1
  <2> DEFINE bytes == [k \in 1 .. BufferSize |-> "?"]
  <2>3. bytes \in Texts /\ Len(bytes) = BufferSize
    BY <2>1, <2>2, FunctionIsText
  <2>4. Buffer(BufferSize) = [bytes |-> bytes, offset |-> 0, inside |-> TRUE]
    BY Zenon DEF Buffer
  <2> HIDE DEF bytes
  <2>5. Buffer(BufferSize) \in Sound
    BY <2>3, <2>4 DEF Sound
  <2>6. Ready(Buffer(BufferSize))
    BY <2>1, <2>3, <2>4 DEF Ready, Offset, Size
  <2>7. PICK c, d : c = Call("print", response) /\ d = Call("value", response)
    OBVIOUS
  <2>8. c \in Frames /\ d \in Frames /\ c.at = "print" /\ d.at = "value"
    BY <2>7 DEF Frames, Call, Waiting
  <2>9. Stack(<<c, d>>) /\ Last(<<c, d>>) = d
    BY <2>8, SMT DEF Stack, Last, Waiting
  <2>10. GoesOn("value", Buffer(BufferSize))
    BY <2>6 DEF GoesOn, Waiting
  <2>11. QED
    BY <1>1, <2>5, <2>7, <2>8, <2>9, <2>10, Zenon DEF PInv, Keeps
<1>2. CASE GiveUp(printer)
  BY <1>2, GivenUp DEF PInv, Keeps
<1>3. QED
  BY <1>1, <1>2, Zenon DEF print_start

LEMMA PrintKeeps ==
  ASSUME PInv, print
  PROVE  PInv'
<1> DEFINE p == update_offset(printer)
<1>1. p \in Sound
  <2>1. Doing("print") /\ "print" \in Waiting
    BY DEF print, Waiting
  <2>2. printer \in Sound /\ Ended(printer)
    BY <2>1, Doer, Zenon DEF GoesOn
  <2>3. QED
    BY <2>2, OffsetUpdated
<1> HIDE DEF p
<1>2. CASE printer' = Released(p) /\ calls' = <<>>
  <2>1. <<>> \in Texts
    BY SMT DEF Texts
  <2>2. Released(p) \in Sound
    BY <1>1, <2>1 DEF Released, Sound
  <2>3. QED
    BY <1>2, <2>2, NoCalls DEF PInv, Keeps
<1>3. CASE GiveUp(p)
  BY <1>1, <1>3, GivenUp
<1>4. QED
  BY <1>2, <1>3, Zenon DEF print, p

-----------------------------------------------------------------------------
(* The specification.                                                      *)

LEMMA Printing ==
  ASSUME WriteJson
  PROVE  Abort \/ UNCHANGED vars
<1>1. ASSUME NEW p, GiveUp(p)
      PROVE  Abort
  BY <1>1, Zenon DEF GiveUp
<1>2. ASSUME NEW p, NEW needed, NEW chars, NEW n, NEW next, Emit(p, needed, chars, n, next)
      PROVE  Abort \/ UNCHANGED vars
  BY <1>1, <1>2, Zenon DEF Emit
<1>3. ASSUME NEW str, NEW next, print_string_ptr(str, next)
      PROVE  Abort \/ UNCHANGED vars
  BY <1>1, <1>3, Zenon DEF print_string_ptr
<1>4. CASE print_start
  BY <1>1, <1>4, Zenon DEF print_start
<1>5. CASE print_value
  BY <1>2, <1>3, <1>5, Zenon DEF print_value
<1>6. CASE print_array
  BY <1>2, <1>6, Zenon DEF print_array
<1>7. CASE print_key
  BY <1>3, <1>7, Zenon DEF print_key
<1>8. CASE print_colon
  BY <1>2, <1>8, Zenon DEF print_colon
<1>9. CASE print_object
  BY <1>2, <1>9, Zenon DEF print_object
<1>10. CASE print_end
  BY <1>2, <1>10, Zenon DEF print_end
<1>11. CASE print
  BY <1>1, <1>11, Zenon DEF print
<1>12. QED
  BY <1>4, <1>5, <1>6, <1>7, <1>8, <1>9, <1>10, <1>11, Zenon DEF WriteJson

(* The printer leaves the items alone, and when it fails the process ends: *)
(* what is true of the items is true while they are printed.               *)
THEOREM PrinterKeepsItems == TextSpec => Spec
<1>1. TextInit => Init
  BY DEF TextInit
<1>2. [TextNext]_<<vars, textVars>> => [Next]_vars
  <2>1. SUFFICES ASSUME [TextNext]_<<vars, textVars>>
                PROVE  Next \/ UNCHANGED vars
    OBVIOUS
  <2>2. CASE UNCHANGED <<vars, textVars>>
    BY <2>2
  <2>3. CASE WriteJson
    BY <2>3, Printing DEF Next
  <2>4. CASE Build \/ Abort \/ Stopped
    BY <2>4 DEF Next
  <2>5. CASE Discard
    BY <2>5 DEF Discard, Next
  <2>6. QED
    BY <2>1, <2>2, <2>3, <2>4, <2>5 DEF TextNext
<1>3. QED
  BY <1>1, <1>2, PTL DEF TextSpec, Spec

LEMMA PInvInit == TextInit => PInv
<1>1. SUFFICES ASSUME TextInit
              PROVE  PInv
  OBVIOUS
<1>2. [k \in 1 .. 0 |-> "?"] \in [1 .. 0 -> Bytes] /\ 0 \in Nat
  BY SMT
<1>3. [k \in 1 .. 0 |-> "?"] \in Texts
  BY <1>2, FunctionIsText
<1>4. Buffer(0) \in Sound
  BY <1>3 DEF Buffer, Sound
<1>5. QED
  BY <1>1, <1>4, NoCalls DEF TextInit, PInv, Keeps

LEMMA PInvNext == IInv /\ PInv /\ [TextNext]_<<vars, textVars>> => PInv'
<1>1. SUFFICES ASSUME IInv, PInv, [TextNext]_<<vars, textVars>>
              PROVE  PInv'
  OBVIOUS
<1>2. TypeOK
  BY <1>1 DEF IInv
<1>3. CASE UNCHANGED <<printer, calls>>
  BY <1>1, <1>3 DEF PInv
<1>4. CASE WriteJson
  <2>1. CASE print_start
    <3>1. phase = "built"
      BY <2>1 DEF print_start
    <3>2. response \in Items
      BY <1>1, <3>1 DEF IInv, Growing, Allocated
    <3>3. QED
      BY <1>1, <2>1, <3>2, StartKeeps
  <2>2. QED
    BY <1>1, <1>2, <1>4, <2>1, ValueKeeps, ElementKeeps, KeyKeeps, ColonKeeps, FieldKeeps,
      EndKeeps, PrintKeeps, Zenon DEF WriteJson
<1>5. QED
  BY <1>1, <1>3, <1>4 DEF TextNext, Discard, textVars

(* The printer of cJSON stays inside its buffer, for documents of any size *)
(* and depth, names and strings with any escapes, buffers that start at    *)
(* any size, and memory that may run out at every call of ensure.          *)
THEOREM PrintsStayInside == TextSpec => []PrintsInside
<1>1. PInv => PrintsInside
  BY SoundIs, Zenon DEF PInv, Keeps, PrintsInside
<1>2. TextSpec => []IInv
  BY PrinterKeepsItems, InvariantHolds
<1>3. QED
  BY <1>1, <1>2, PInvInit, PInvNext, PTL DEF TextSpec

-----------------------------------------------------------------------------
(* What is printed.  The buffer holds a text up to the offset or, after a  *)
(* writer that leaves the offset, up to the first NUL behind it.           *)

Begins(p, t) == \A k \in 1 .. Len(t) : p.bytes[k] = t[k]

Holds(p, t) == Offset(p) = Len(t) /\ Begins(p, t)

HoldsEnded(p, t) ==
  /\ Offset(p) <= Len(t) /\ Len(t) < Size(p)
  /\ Begins(p, t) /\ p.bytes[Len(t) + 1] = NUL

LEMMA Joined ==
  ASSUME NEW p, NEW s \in Plain, NEW t \in Plain, Begins(p, s),
         \A k \in 1 .. Len(t) : p.bytes[Len(s) + k] = t[k]
  PROVE  Begins(p, s \o t)
<1> DEFINE m == Len(s)
           n == Len(t)
<1>1. m \in Nat /\ n \in Nat /\ Len(s \o t) = m + n
  BY PlainJoins, PlainIsText
<1>2. \A k \in 1 .. m + n : (s \o t)[k] = IF k <= m THEN s[k] ELSE t[k - m]
  BY ConcatProperties DEF Plain
<1>3. /\ \A k \in 1 .. m : p.bytes[k] = s[k]
      /\ \A k \in 1 .. n : p.bytes[m + k] = t[k]
  BY DEF Begins
<1> HIDE DEF m, n
<1>4. ASSUME NEW k \in 1 .. m + n
      PROVE  p.bytes[k] = (s \o t)[k]
  <2>1. CASE k <= m
    <3>1. k \in 1 .. m
      BY <1>1, <2>1
    <3>2. QED
      BY <1>2, <1>3, <2>1, <3>1, Zenon
  <2>2. CASE ~(k <= m)
    <3>1. k - m \in 1 .. n /\ m + (k - m) = k
      BY <1>1, <2>2
    <3>2. p.bytes[m + (k - m)] = t[k - m]
      BY <1>3, <3>1, Zenon
    <3>3. QED
      BY <1>2, <2>2, <3>1, <3>2, Zenon
  <2>3. QED
    BY <2>1, <2>2
<1>5. QED
  BY <1>1, <1>4, Zenon DEF Begins

(* update_offset finds the end of what was printed.                        *)
LEMMA EndIsFound ==
  ASSUME NEW p \in Sound, NEW t \in Plain, HoldsEnded(p, t)
  PROVE  LET q == update_offset(p)
         IN  q \in Sound /\ Ready(q) /\ Holds(q, t) /\ q.bytes = p.bytes
<1>1. p.bytes \in Texts /\ Size(p) \in Nat /\ Offset(p) \in Nat /\ p.inside = TRUE
  BY SoundIs
<1>2. Len(t) \in Nat /\ \A k \in 1 .. Len(t) : t[k] # NUL
  BY PlainIsText
<1> DEFINE ends == {k \in Offset(p) + 1 .. Size(p) : p.bytes[k] = NUL}
           end  == CHOOSE k \in ends : \A j \in ends : k <= j
           l == Len(t)
<1>3. /\ Offset(p) <= l /\ l < Size(p) /\ p.bytes[l + 1] = NUL
      /\ \A k \in 1 .. l : p.bytes[k] # NUL
  BY <1>2, Zenon DEF HoldsEnded, Begins
<1> HIDE DEF l
<1>4. l \in Nat
  BY <1>2, Zenon DEF l
<1>5. l + 1 \in ends
  BY <1>1, <1>3, <1>4
<1>6. \A k \in ends : l + 1 <= k
  <2>1. ASSUME NEW k \in ends, k < l + 1
        PROVE  FALSE
    <3>1. k \in 1 .. l /\ p.bytes[k] = NUL
      BY <1>1, <1>4, <2>1
    <3>2. QED
      BY <1>3, <3>1
  <2>2. QED
    BY <1>1, <1>4, <2>1
<1>7. end \in ends /\ \A j \in ends : end <= j
  <2>1. \E k \in ends : \A j \in ends : k <= j
    BY <1>5, <1>6
  <2>2. QED
    BY <2>1, Zenon
<1>8. update_offset(p) = [p EXCEPT !.offset = end - 1]
  BY <1>5, Zenon DEF update_offset, Size, Offset
<1>9. end = l + 1 /\ end - 1 = l
  <2>1. end \in Nat
    BY <1>1, <1>7
  <2>2. l + 1 <= end /\ end <= l + 1
    BY <1>5, <1>6, <1>7, Zenon
  <2> HIDE DEF end, ends
  <2>3. QED
    BY <1>4, <2>1, <2>2
<1> HIDE DEF end, ends
<1>10. /\ update_offset(p) \in Sound /\ update_offset(p).offset = l
       /\ update_offset(p).bytes = p.bytes
  BY <1>1, <1>4, <1>8, <1>9 DEF Sound
<1>11. Offset(update_offset(p)) = l /\ Size(update_offset(p)) = Size(p)
  BY <1>10, Zenon DEF Offset, Size
<1>12. Ready(update_offset(p))
  BY <1>3, <1>11 DEF Ready
<1>13. QED
  BY <1>10, <1>11, <1>12, Zenon DEF HoldsEnded, Holds, Begins, l

Emission(p, needed, chars, n) == Advance(Put(ensure(p, needed), 0, chars), n)

StringEmission(p, str) ==
  Put(Put(ensure(p, output_length(str) + 3), 0, <<Quote>> \o Escaped(str)),
      output_length(str) + 1, <<Quote, NUL>>)

(* What ensure and Put leave in the buffer.                                *)
Laid(q, t, needed, chars, n) ==
  /\ q \in Sound /\ Offset(q) = Len(t) + n /\ Len(t) + needed < Size(q)
  /\ Begins(q, t)
  /\ \A k \in 1 .. Len(chars) : q.bytes[Len(t) + k] = chars[k]

LEMMA EmittedBytes ==
  ASSUME NEW p \in Sound, NEW needed \in Nat, NEW chars \in Texts, NEW n \in Nat,
         Len(chars) <= needed + 1, n <= needed, Ready(p), NEW t \in Plain, Holds(p, t)
  PROVE  Laid(Emission(p, needed, chars, n), t, needed, chars, n)
<1> DEFINE e == ensure(p, needed)
           w == Put(e, 0, chars)
           q == Advance(w, n)
           l == Len(t)
<1>1. /\ Offset(p) = l /\ l \in Nat /\ Offset(p) < Size(p) /\ Size(p) \in Nat
      /\ \A k \in 1 .. l : p.bytes[k] = t[k]
  BY PlainIsText, SoundIs, Zenon DEF Holds, Begins, Ready
<1> HIDE DEF l
<1>2. /\ e \in Sound /\ Offset(e) = l
      /\ l + needed + 1 <= Size(e) /\ Size(e) \in Nat /\ Len(chars) \in Nat
      /\ \A k \in 1 .. Size(p) : e.bytes[k] = p.bytes[k]
  BY <1>1, EnsureRoom, SoundIs, TextIsFunction
<1> HIDE DEF e
<1>3. Offset(e) + 0 + Len(chars) <= Size(e) /\ Offset(e) + 0 = l
  BY <1>1, <1>2
<1>4. /\ w \in Sound /\ Offset(w) = l /\ Size(w) = Size(e)
      /\ \A k \in 1 .. Len(chars) : w.bytes[l + k] = chars[k]
      /\ \A k \in 1 .. l : w.bytes[k] = e.bytes[k]
  <2>1. 0 \in Nat
    OBVIOUS
  <2>2. /\ w \in Sound /\ Offset(w) = l /\ Size(w) = Size(e)
        /\ \A k \in 1 .. Len(chars) : w.bytes[Offset(e) + 0 + k] = chars[k]
        /\ \A k \in 1 .. Offset(e) + 0 : w.bytes[k] = e.bytes[k]
    BY <1>2, <1>3, <2>1, PutInside, Zenon
  <2>3. QED
    BY <1>3, <2>2, Zenon
<1> HIDE DEF w
<1>5. q \in Sound /\ Offset(q) = l + n /\ Size(q) = Size(e) /\ q.bytes = w.bytes
  <2>1. Offset(w) + n \in Nat
    BY <1>1, <1>4
  <2>2. q = [w EXCEPT !.offset = Offset(w) + n]
    BY Zenon DEF Advance, Offset
  <2>3. q \in Sound /\ q.offset = Offset(w) + n /\ q.bytes = w.bytes
    BY <1>4, <2>1, <2>2 DEF Sound
  <2>4. QED
    BY <1>4, <2>3, Zenon DEF Offset, Size
<1> HIDE DEF q
<1>6. l + needed < Size(q)
  BY <1>1, <1>2, <1>5
<1>7. \A k \in 1 .. l : q.bytes[k] = t[k]
  <2>1. \A k \in 1 .. l : k \in 1 .. Size(p)
    BY <1>1
  <2>2. QED
    BY <1>1, <1>2, <1>4, <1>5, <2>1, Zenon
<1>8. QED
  BY <1>4, <1>5, <1>6, <1>7, Zenon DEF q, w, e, l, Begins, Emission, Laid

(* The characters w move the offset on.                                    *)
LEMMA EmittedText ==
  ASSUME NEW p \in Sound, NEW needed \in Nat, NEW chars \in Texts, NEW n \in Nat,
         Len(chars) <= needed + 1, n <= needed, Ready(p), NEW t \in Plain, Holds(p, t),
         NEW w \in Plain, Len(w) = n, n <= Len(chars), \A k \in 1 .. n : chars[k] = w[k]
  PROVE  LET q == Emission(p, needed, chars, n)
         IN  q \in Sound /\ Ready(q) /\ Holds(q, t \o w) /\ t \o w \in Plain
<1> DEFINE q == Emission(p, needed, chars, n)
<1>1. /\ q \in Sound /\ Offset(q) = Len(t) + n /\ Len(t) + needed < Size(q)
      /\ Begins(q, t)
      /\ \A k \in 1 .. Len(chars) : q.bytes[Len(t) + k] = chars[k]
  <2>1. Laid(q, t, needed, chars, n)
    BY EmittedBytes, Zenon
  <2> HIDE DEF q
  <2>2. QED
    BY <2>1, Zenon DEF Laid
<1> HIDE DEF q
<1>2. t \o w \in Plain /\ Len(t \o w) = Len(t) + n /\ Len(t) \in Nat
  BY PlainJoins
<1>3. \A k \in 1 .. n : k \in 1 .. Len(chars)
  BY TextIsFunction
<1>4. \A k \in 1 .. Len(w) : q.bytes[Len(t) + k] = w[k]
  BY <1>1, <1>3, Zenon
<1>5. Begins(q, t \o w)
  BY <1>1, <1>4, Joined
<1>6. Size(q) \in Nat /\ Offset(q) = Len(t \o w)
  BY <1>1, <1>2, SoundIs
<1>7. Ready(q)
  BY <1>1, <1>2, <1>6 DEF Ready
<1>8. QED
  BY <1>1, <1>2, <1>5, <1>6, <1>7, Zenon DEF Holds, q

(* The characters w end in a NUL, behind the offset.                       *)
LEMMA EmittedEnd ==
  ASSUME NEW p \in Sound, NEW needed \in Nat, NEW chars \in Texts, NEW n \in Nat,
         Len(chars) <= needed + 1, n <= needed, Ready(p), NEW t \in Plain, Holds(p, t),
         NEW w \in Plain, n <= Len(w), chars = Append(w, NUL)
  PROVE  LET q == Emission(p, needed, chars, n)
         IN  q \in Sound /\ HoldsEnded(q, t \o w) /\ t \o w \in Plain
<1> DEFINE q == Emission(p, needed, chars, n)
           l == Len(t)
           m == Len(w)
<1>1. /\ q \in Sound /\ Offset(q) = l + n /\ l + needed < Size(q)
      /\ Begins(q, t)
      /\ \A k \in 1 .. Len(chars) : q.bytes[l + k] = chars[k]
  <2>1. Laid(q, t, needed, chars, n)
    BY EmittedBytes, Zenon
  <2> HIDE DEF q
  <2>2. QED
    BY <2>1, Zenon DEF Laid
<1> HIDE DEF q
<1>2. t \o w \in Plain /\ Len(t \o w) = l + m /\ l \in Nat /\ m \in Nat
  BY PlainJoins, PlainIsText
<1>3. /\ Len(chars) = m + 1 /\ chars[m + 1] = NUL
      /\ \A k \in 1 .. m : chars[k] = w[k]
  BY AppendProperties DEF Plain
<1> HIDE DEF l, m
<1>4. \A k \in 1 .. m : k \in 1 .. Len(chars)
  BY <1>2, <1>3
<1>5. m + 1 \in 1 .. Len(chars)
  BY <1>2, <1>3
<1>6. \A k \in 1 .. m : q.bytes[l + k] = w[k]
  BY <1>1, <1>3, <1>4, Zenon
<1>7. Begins(q, t \o w)
  BY <1>1, <1>6, Joined, Zenon DEF l, m
<1>8. q.bytes[(l + m) + 1] = NUL
  <2>1. q.bytes[l + (m + 1)] = NUL
    BY <1>1, <1>3, <1>5, Zenon
  <2>2. l + (m + 1) = (l + m) + 1
    BY <1>2
  <2>3. QED
    BY <2>1, <2>2, Zenon
<1>9. Offset(q) <= l + m /\ l + m < Size(q)
  <2>1. Size(q) \in Nat
    BY <1>1, SoundIs
  <2>2. n <= m /\ m + 1 <= needed + 1
    BY <1>3, Zenon DEF m
  <2>3. QED
    BY <1>1, <1>2, <2>1, <2>2
<1>10. QED
  BY <1>1, <1>2, <1>7, <1>8, <1>9, Zenon DEF HoldsEnded, q

(* A string between its quotes ends in a NUL, behind the offset.           *)
LEMMA StringEnds ==
  ASSUME NEW p \in Sound, Ready(p), NEW t \in Plain, Holds(p, t), NEW str \in Plain
  PROVE  LET q == StringEmission(p, str)
         IN  /\ q \in Sound /\ HoldsEnded(q, t \o Quoted(str)) /\ t \o Quoted(str) \in Plain
             /\ Quoted(str) \in Plain
<1> DEFINE length == output_length(str)
           e == ensure(p, length + 3)
           first == <<Quote>> \o Escaped(str)
           opened == Put(e, 0, first)
           last == <<Quote, NUL>>
           q == Put(opened, length + 1, last)
           l == Len(t)
<1>1. length \in Nat /\ Escaped(str) \in Plain /\ Len(Escaped(str)) = length
  BY EscapedLength, Zenon
<1>2. Quote \in Letters
  BY LiteralsAreLetters, Zenon DEF Literals
<1>3. <<Quote>> \in Plain /\ Len(<<Quote>>) = 1 /\ <<Quote>>[1] = Quote
  BY <1>2, SMT DEF Plain
<1>4. last \in Texts /\ Len(last) = 2 /\ last[1] = Quote /\ last[2] = NUL
  BY <1>2, NulIsNoLetter, SMT DEF Texts, Bytes
<1>5. first \in Plain /\ Len(first) = 1 + length /\ first \in Texts
  BY <1>1, <1>3, PlainJoins, PlainIsText
<1>6. /\ Quoted(str) = first \o <<Quote>> /\ Quoted(str) \in Plain
      /\ Len(Quoted(str)) = (1 + length) + 1 /\ t \o Quoted(str) \in Plain
      /\ Len(t \o Quoted(str)) = l + ((1 + length) + 1)
  <2>1. Quoted(str) = first \o <<Quote>>
    BY Zenon DEF Quoted
  <2> HIDE DEF first
  <2>2. Quoted(str) \in Plain /\ Len(Quoted(str)) = (1 + length) + 1
    BY <1>3, <1>5, <2>1, PlainJoins
  <2>3. QED
    BY <2>1, <2>2, PlainJoins, Zenon DEF first
<1> HIDE DEF last, first, length, l
<1>7. /\ e \in Sound /\ Offset(e) = l /\ l \in Nat
      /\ l + (length + 3) + 1 <= Size(e) /\ Size(e) \in Nat
      /\ \A k \in 1 .. l : e.bytes[k] = t[k]
  <2>1. /\ length + 3 \in Nat /\ l \in Nat /\ Offset(p) = l /\ l < Size(p)
        /\ \A k \in 1 .. l : p.bytes[k] = t[k]
    BY <1>1, PlainIsText DEF Holds, Begins, Ready, l
  <2>2. /\ e \in Sound /\ Offset(e) = Offset(p) /\ Size(e) \in Nat
        /\ Offset(p) + (length + 3) + 1 <= Size(e)
        /\ \A k \in 1 .. Size(p) : e.bytes[k] = p.bytes[k]
    BY <2>1, EnsureRoom, SoundIs, Zenon
  <2>3. \A k \in 1 .. l : k \in 1 .. Size(p)
    <3>1. Size(p) \in Nat
      BY SoundIs, Zenon
    <3> HIDE DEF l
    <3>2. QED
      BY <2>1, <3>1
  <2> HIDE DEF e
  <2>4. QED
    BY <2>1, <2>2, <2>3
<1> HIDE DEF e
<1>8. /\ opened \in Sound /\ Offset(opened) = l /\ Size(opened) = Size(e)
      /\ \A k \in 1 .. Len(first) : opened.bytes[l + k] = first[k]
      /\ \A k \in 1 .. l : opened.bytes[k] = t[k]
  <2>1. Offset(e) + 0 + Len(first) <= Size(e) /\ Offset(e) + 0 = l /\ 0 \in Nat
    BY <1>1, <1>5, <1>7
  <2>2. /\ opened \in Sound /\ Offset(opened) = Offset(e) /\ Size(opened) = Size(e)
        /\ \A k \in 1 .. Len(first) : opened.bytes[Offset(e) + 0 + k] = first[k]
        /\ \A k \in 1 .. Offset(e) + 0 : opened.bytes[k] = e.bytes[k]
    BY <1>5, <1>7, <2>1, PutInside, Zenon
  <2>3. QED
    BY <1>7, <2>1, <2>2, Zenon
<1> HIDE DEF opened
<1>9. /\ q \in Sound /\ Offset(q) = l /\ Size(q) = Size(e)
      /\ \A k \in 1 .. 2 : q.bytes[l + (length + 1) + k] = last[k]
      /\ \A k \in 1 .. l + (length + 1) : q.bytes[k] = opened.bytes[k]
  <2>1. Offset(opened) + (length + 1) + Len(last) <= Size(opened) /\ length + 1 \in Nat
    BY <1>1, <1>4, <1>7, <1>8
  <2>2. /\ q \in Sound /\ Offset(q) = Offset(opened) /\ Size(q) = Size(opened)
        /\ \A k \in 1 .. Len(last) : q.bytes[Offset(opened) + (length + 1) + k] = last[k]
        /\ \A k \in 1 .. Offset(opened) + (length + 1) : q.bytes[k] = opened.bytes[k]
    BY <1>4, <1>8, <2>1, PutInside, Zenon
  <2>3. QED
    BY <1>4, <1>8, <2>2, Zenon
<1> HIDE DEF q
<1>10. Begins(q, t \o first)
  <2>1. \A k \in 1 .. l : k \in 1 .. l + (length + 1)
    BY <1>1, <1>7
  <2>2. Begins(q, t)
    BY <1>8, <1>9, <2>1, Zenon DEF Begins, l
  <2>3. \A k \in 1 .. Len(first) : k \in 1 .. 1 + length /\ l + k \in 1 .. l + (length + 1)
    BY <1>1, <1>5, <1>7
  <2>4. \A k \in 1 .. Len(first) : q.bytes[Len(t) + k] = first[k]
    BY <1>8, <1>9, <2>3, Zenon DEF l
  <2>5. QED
    BY <1>5, <2>2, <2>4, Joined
<1>11. Begins(q, t \o Quoted(str))
  <2>1. t \o first \in Plain /\ Len(t \o first) = l + (1 + length)
    BY <1>5, PlainJoins DEF l
  <2>2. q.bytes[l + (length + 1) + 1] = Quote
    BY <1>4, <1>9
  <2>3. \A k \in 1 .. Len(<<Quote>>) : q.bytes[Len(t \o first) + k] = <<Quote>>[k]
    <3>1. l + (length + 1) = l + (1 + length)
      BY <1>1, <1>7
    <3>2. q.bytes[Len(t \o first) + 1] = <<Quote>>[1]
      BY <1>3, <2>1, <2>2, <3>1, Zenon
    <3>3. \A k \in 1 .. Len(<<Quote>>) : k = 1
      BY <1>3
    <3>4. QED
      BY <3>2, <3>3, Zenon
  <2>4. Begins(q, (t \o first) \o <<Quote>>)
    BY <1>3, <1>10, <2>1, <2>3, Joined, Zenon
  <2>5. (t \o first) \o <<Quote>> = t \o (first \o <<Quote>>)
    BY <1>3, <1>5, ConcatAssociative DEF Plain
  <2>6. QED
    BY <1>6, <2>4, <2>5, Zenon
<1>12. HoldsEnded(q, t \o Quoted(str))
  <2> DEFINE n == Len(t \o Quoted(str))
  <2>1. n = l + ((1 + length) + 1)
    BY <1>6
  <2> HIDE DEF n
  <2>2. q.bytes[l + (length + 1) + 2] = NUL
    BY <1>4, <1>9
  <2>3. l + (length + 1) + 2 = n + 1 /\ l <= n /\ n < Size(e)
    BY <1>1, <1>7, <2>1
  <2>4. Offset(q) <= n /\ n < Size(q) /\ q.bytes[n + 1] = NUL
    BY <1>9, <2>2, <2>3
  <2>5. QED
    BY <1>11, <2>4, Zenon DEF HoldsEnded, n
<1>13. QED
  BY <1>6, <1>9, <1>12, Zenon DEF q, opened, e, length, last, first, StringEmission

-----------------------------------------------------------------------------
(* The JSON text of linked items.  The pointers lead to later items, so    *)
(* that the recursion on them ends.                                        *)

Ascending(h) ==
  \A i \in Allocated(h) :
    /\ h[i].next # Null => h[i].next \in Allocated(h) /\ i < h[i].next
    /\ h[i].child # Null => h[i].child \in Allocated(h) /\ i < h[i].child

LEMMA LinkedAscends ==
  ASSUME NEW h \in [Items -> Cells], NEW owner, Linked(h, owner)
  PROVE  Ascending(h)
<1>1. ASSUME NEW i \in Items, i \in Free(h)
      PROVE  h[i].prev = Null /\ owner[i] = Null
  <2>1. h[i] = Unallocated /\ owner[i] = Null
    BY <1>1, Zenon DEF Linked
  <2>2. QED
    BY <2>1 DEF Unallocated
<1>2. ASSUME NEW i \in Allocated(h), h[i].next # Null
      PROVE  h[i].next \in Allocated(h) /\ i < h[i].next
  <2>1. i \in Items /\ h[i].next \in Items
    BY <1>2, Cell DEF Allocated, Pointers
  <2>2. h[h[i].next].prev = i /\ i < h[i].next
    BY <1>2, <2>1, Zenon DEF Linked
  <2>3. h[i].next \notin Free(h)
    BY <1>1, <2>1, <2>2, NullIsNoItem
  <2>4. QED
    BY <2>1, <2>2, <2>3 DEF Allocated
<1>3. ASSUME NEW i \in Allocated(h), h[i].child # Null
      PROVE  h[i].child \in Allocated(h) /\ i < h[i].child
  <2>1. i \in Items /\ h[i].child \in Items
    BY <1>3, Cell DEF Allocated, Pointers
  <2>2. owner[h[i].child] = i /\ i # Null
    BY <1>3, <2>1, NullIsNoItem, Zenon DEF Linked
  <2>3. i < h[i].child
    BY <2>1, <2>2, Zenon DEF Linked
  <2>4. h[i].child \notin Free(h)
    BY <1>1, <2>1, <2>2, Zenon
  <2>5. QED
    BY <2>1, <2>3, <2>4 DEF Allocated
<1>4. QED
  BY <1>2, <1>3, Zenon DEF Ascending

(* Induction from the last item down.                                      *)
LEMMA CountedDown ==
  ASSUME NEW P, MaxItems + 1 \in P, \A m \in Items : m + 1 \in P => m \in P
  PROVE  1 \in P /\ Items \subseteq P
<1> DEFINE T == {n \in 0 .. MaxItems : MaxItems + 1 - n \notin P}
<1>1. MaxItems \in Nat
  BY ItemsAssumption
<1>2. T = {}
  <2>1. SUFFICES ASSUME T # {}
                PROVE  FALSE
    OBVIOUS
  <2>2. PICK n \in T : \A l \in T : ~(l < n)
    <3>1. T \in SUBSET Nat
      BY <1>1
    <3>2. QED
      BY <2>1, <3>1, Least
  <2>3. n # 0
    <3>1. MaxItems + 1 - 0 = MaxItems + 1
      BY <1>1
    <3>2. QED
      BY <2>2, <3>1
  <2>4. /\ n - 1 \in 0 .. MaxItems /\ n - 1 < n /\ MaxItems + 1 - n \in Items
        /\ MaxItems + 1 - (n - 1) = (MaxItems + 1 - n) + 1
    BY <1>1, <2>2, <2>3 DEF Items
  <2>5. (MaxItems + 1 - n) + 1 \in P
    BY <2>2, <2>4
  <2>6. QED
    BY <2>2, <2>4, <2>5
<1>3. \A m \in 1 .. MaxItems + 1 : m \in P
  <2>1. ASSUME NEW m \in 1 .. MaxItems + 1
        PROVE  m \in P
    <3>1. MaxItems + 1 - m \in 0 .. MaxItems /\ MaxItems + 1 - (MaxItems + 1 - m) = m
      BY <1>1
    <3>2. QED
      BY <1>2, <3>1
  <2>2. QED
    BY <2>1
<1>4. 1 \in 1 .. MaxItems + 1 /\ Items \subseteq 1 .. MaxItems + 1
  BY <1>1 DEF Items
<1>5. QED
  BY <1>3, <1>4

SameAt(f, g, i) == i # Null => f[i] = g[i]

LEMMA SameText ==
  ASSUME NEW item, NEW f, NEW g, SameAt(f, g, item.child), SameAt(f, g, item.next)
  PROVE  ValueText(item, f) = ValueText(item, g) /\ ItemText(item, f) = ItemText(item, g)
<1>1. /\ \A type : ListText(f, item.child, type) = ListText(g, item.child, type)
      /\ \A type : ListText(f, item.next, type) = ListText(g, item.next, type)
  BY Zenon DEF ListText, SameAt
<1>2. ValueText(item, f) = ValueText(item, g)
  BY <1>1, Zenon DEF ValueText
<1>3. \A type : RestText(item, f, type) = RestText(item, g, type)
  BY <1>1, Zenon DEF RestText
<1>4. QED
  BY <1>2, <1>3, Zenon DEF ItemText

LEMMA ListTextsExist ==
  ASSUME NEW h, Ascending(h)
  PROVE  ListTexts(h) = [i \in Allocated(h) |-> ItemText(h[i], ListTexts(h))]
<1> DEFINE A == Allocated(h)
           Good(f, m) == \A i \in A : m <= i => f[i] = ItemText(h[i], f)
           IsFunction(f) == f = [i \in A |-> f[i]]
           P == {m \in 1 .. MaxItems + 1 : \E f : IsFunction(f) /\ Good(f, m)}
<1>1. MaxItems \in Nat /\ A \in SUBSET Items
  BY ItemsAssumption DEF Allocated
<1>2. /\ \A i \in A : h[i].next # Null => h[i].next \in A /\ i < h[i].next
      /\ \A i \in A : h[i].child # Null => h[i].child \in A /\ i < h[i].child
  BY Zenon DEF Ascending
<1> HIDE DEF A
<1>3. ASSUME NEW m \in 1 .. MaxItems, NEW f, IsFunction(f), Good(f, m + 1)
      PROVE  \E g : IsFunction(g) /\ Good(g, m)
  <2> DEFINE g == [i \in A |-> IF i = m THEN ItemText(h[m], f) ELSE f[i]]
  <2>1. IsFunction(g)
    OBVIOUS
  <2>2. \A i \in A : g[i] = IF i = m THEN ItemText(h[m], f) ELSE f[i]
    OBVIOUS
  <2> HIDE DEF g
  <2>3. ASSUME NEW i \in A, m <= i
        PROVE  g[i] = ItemText(h[i], g)
    <3>1. \A j \in A : i < j => j # m
      BY <1>1, <2>3 DEF Items
    <3>2. /\ h[i].child # Null => h[i].child \in A /\ i < h[i].child
          /\ h[i].next # Null => h[i].next \in A /\ i < h[i].next
      BY <1>2, Zenon
    <3>3. SameAt(f, g, h[i].child) /\ SameAt(f, g, h[i].next)
      BY <2>2, <3>1, <3>2, Zenon DEF SameAt
    <3>4. ItemText(h[i], f) = ItemText(h[i], g)
      BY <3>3, SameText, Zenon
    <3>5. CASE i = m
      BY <2>2, <3>4, <3>5, Zenon
    <3>6. CASE i # m
      <4>1. m + 1 <= i
        BY <1>1, <2>3, <3>6 DEF Items
      <4>2. QED
        BY <1>3, <2>2, <3>4, <3>6, <4>1, Zenon
    <3>7. QED
      BY <3>5, <3>6
  <2>4. QED
    BY <2>1, <2>3
<1>4. \E f : IsFunction(f) /\ Good(f, MaxItems + 1)
  <2> DEFINE f == [i \in A |-> 0]
  <2>1. IsFunction(f)
    OBVIOUS
  <2>2. Good(f, MaxItems + 1)
    BY <1>1 DEF Items
  <2>3. QED
    BY <2>1, <2>2
<1>5. \E f : IsFunction(f) /\ Good(f, 1)
  <2> HIDE DEF Good, IsFunction
  <2>1. MaxItems + 1 \in P
    BY <1>1, <1>4
  <2>2. \A m \in Items : m + 1 \in P => m \in P
    BY <1>1, <1>3 DEF Items
  <2>3. 1 \in P
    BY <2>1, <2>2, CountedDown
  <2>4. QED
    BY <2>3
<1>6. \E f : f = [i \in A |-> ItemText(h[i], f)]
  <2>1. PICK f : IsFunction(f) /\ Good(f, 1)
    BY <1>5
  <2>2. \A i \in A : f[i] = ItemText(h[i], f)
    BY <1>1, <2>1 DEF Items
  <2>3. f = [i \in A |-> ItemText(h[i], f)]
    BY <2>1, <2>2, Zenon
  <2>4. QED
    BY <2>3
<1>7. QED
  BY <1>6, Zenon DEF ListTexts, A

LEMMA OnePlain ==
  ASSUME NEW c \in Letters
  PROVE  <<c>> \in Plain
BY SMT DEF Plain

LEMMA EmptyIsPlain == <<>> \in Plain
BY SMT DEF Plain

LEMMA PlainJoin ==
  ASSUME NEW s \in Plain, NEW t \in Plain, NEW u \in Plain
  PROVE  /\ s \o t \in Plain /\ s \o t \o u \in Plain
         /\ (s \o t) \o u = s \o (t \o u)
BY PlainJoins, ConcatAssociative DEF Plain

LEMMA Associates ==
  ASSUME NEW s \in Plain, NEW t \in Plain, NEW u \in Plain
  PROVE  (s \o t) \o u = s \o (t \o u)
BY ConcatAssociative DEF Plain

LEMMA QuotedIsPlain ==
  ASSUME NEW str \in Plain
  PROVE  Quoted(str) \in Plain
<1>1. Quote \in Letters
  BY LiteralsAreLetters, Zenon DEF Literals
<1>2. <<Quote>> \in Plain /\ Escaped(str) \in Plain
  BY <1>1, OnePlain, EscapedLength
<1>3. QED
  BY <1>2, PlainJoins DEF Quoted

LEMMA WordsArePlain ==
  <<"t", "r", "u", "e">> \in Plain /\ <<"f", "a", "l", "s", "e">> \in Plain
<1>1. {"t", "r", "u", "e", "f", "a", "l", "s"} \subseteq Letters
  BY LiteralsAreLetters, Zenon DEF Literals
<1>2. QED
  BY <1>1, SMT DEF Plain

LEMMA MarksArePlain ==
  /\ <<"[">> \in Plain /\ <<"]">> \in Plain /\ <<"{">> \in Plain /\ <<"}">> \in Plain
  /\ <<",">> \in Plain /\ <<":">> \in Plain
<1>1. {"[", "]", "{", "}", ",", ":"} \subseteq Letters
  BY LiteralsAreLetters, Zenon DEF Literals
<1>2. QED
  BY <1>1, OnePlain, Zenon

LEMMA ValueIsPlain ==
  ASSUME NEW item \in Cells, item.type \in Kinds, NEW lists,
         \A type \in {"Array", "Object"} : ListText(lists, item.child, type) \in Plain
  PROVE  ValueText(item, lists) \in Plain
<1>1. item.value \in Plain
  BY ValuesArePlain DEF Cells
<1>2. CASE item.type = "True"
  <2>1. ValueText(item, lists) = <<"t", "r", "u", "e">>
    BY <1>2, Zenon DEF ValueText
  <2>2. QED
    BY <2>1, WordsArePlain, Zenon
<1>3. CASE item.type = "False"
  <2>1. ValueText(item, lists) = <<"f", "a", "l", "s", "e">>
    BY <1>3, Zenon DEF ValueText
  <2>2. QED
    BY <2>1, WordsArePlain, Zenon
<1>4. CASE item.type = "Number"
  <2>1. ValueText(item, lists) = item.value
    BY <1>4, Zenon DEF ValueText
  <2>2. QED
    BY <1>1, <2>1, Zenon
<1>5. CASE item.type = "String"
  <2>1. ValueText(item, lists) = Quoted(item.value)
    BY <1>5, Zenon DEF ValueText
  <2>2. QED
    BY <1>1, <2>1, QuotedIsPlain, Zenon
<1>6. CASE item.type = "Array"
  <2>1. ValueText(item, lists) = <<"[">> \o ListText(lists, item.child, "Array") \o <<"]">>
    BY <1>6, Zenon DEF ValueText
  <2>2. PICK b, l, c : b = <<"[">> /\ l = ListText(lists, item.child, "Array") /\ c = <<"]">>
    BY Zenon
  <2>3. b \in Plain /\ l \in Plain /\ c \in Plain
    BY <2>2, MarksArePlain, Zenon
  <2>4. b \o l \o c \in Plain
    BY <2>3, PlainJoin
  <2>5. QED
    BY <2>1, <2>2, <2>4, Zenon
<1>7. CASE item.type = "Object"
  <2>1. ValueText(item, lists) = <<"{">> \o ListText(lists, item.child, "Object") \o <<"}">>
    BY <1>7, Zenon DEF ValueText
  <2>2. PICK b, l, c : b = <<"{">> /\ l = ListText(lists, item.child, "Object") /\ c = <<"}">>
    BY Zenon
  <2>3. b \in Plain /\ l \in Plain /\ c \in Plain
    BY <2>2, MarksArePlain, Zenon
  <2>4. b \o l \o c \in Plain
    BY <2>3, PlainJoin
  <2>5. QED
    BY <2>1, <2>2, <2>4, Zenon
<1>8. QED
  BY <1>2, <1>3, <1>4, <1>5, <1>6, <1>7, Zenon DEF Kinds

LEMMA NameIsPlain ==
  ASSUME NEW item \in Cells
  PROVE  NameText(item) \in Plain
<1>1. item.string \in Plain
  BY ValuesArePlain DEF Cells
<1>2. Quoted(item.string) \in Plain
  BY <1>1, QuotedIsPlain
<1>3. QED
  BY <1>2, MarksArePlain, PlainJoins, Zenon DEF NameText

LEMMA RestIsPlain ==
  ASSUME NEW item, NEW lists, NEW type, ListText(lists, item.next, type) \in Plain
  PROVE  RestText(item, lists, type) \in Plain
<1>1. <<",">> \o ListText(lists, item.next, type) \in Plain
  BY MarksArePlain, PlainJoins, Zenon
<1>2. QED
  BY <1>1, EmptyIsPlain, Zenon DEF RestText

LEMMA NothingBefore ==
  ASSUME NEW s \in Plain
  PROVE  <<>> \o s = s /\ s \o <<>> = s
BY ConcatEmptySeq DEF Plain

(* The text of an element or a field, with those after it in its list.     *)
LEMMA ItemTextIs ==
  ASSUME NEW item \in Cells, NEW lists, ValueText(item, lists) \in Plain,
         \A type \in {"Array", "Object"} : ListText(lists, item.next, type) \in Plain
  PROVE  /\ ItemText(item, lists)["Array"] =
              ValueText(item, lists) \o RestText(item, lists, "Array")
         /\ ItemText(item, lists)["Object"] =
              (NameText(item) \o ValueText(item, lists)) \o RestText(item, lists, "Object")
         /\ \A type \in {"Array", "Object"} : /\ ItemText(item, lists)[type] \in Plain
                                              /\ RestText(item, lists, type) \in Plain
<1> DEFINE v == ValueText(item, lists)
           a == RestText(item, lists, "Array")
           o == RestText(item, lists, "Object")
           n == NameText(item)
<1>1. v \in Plain /\ n \in Plain /\ a \in Plain /\ o \in Plain
  <2>1. /\ ListText(lists, item.next, "Array") \in Plain
        /\ ListText(lists, item.next, "Object") \in Plain
    BY Zenon
  <2>2. QED
    BY <2>1, NameIsPlain, RestIsPlain, Zenon
<1>2. /\ ItemText(item, lists)["Array"] = <<>> \o v \o a
      /\ ItemText(item, lists)["Object"] = n \o v \o o
  BY Zenon DEF ItemText
<1> HIDE DEF v, a, o, n
<1>3. /\ <<>> \o v \o a = v \o a /\ v \o a \in Plain
      /\ n \o v \o o \in Plain
  BY <1>1, NothingBefore, PlainJoin
<1>4. /\ ItemText(item, lists)["Array"] \in Plain
      /\ ItemText(item, lists)["Object"] \in Plain
  BY <1>2, <1>3, Zenon
<1>5. QED
  BY <1>1, <1>2, <1>3, <1>4, Zenon DEF v, a, o, n

(* Everything is text, and the equations of the grammar hold.              *)
LEMMA TextsArePlain ==
  ASSUME NEW h \in [Items -> Cells], Ascending(h)
  PROVE  \A i \in Allocated(h) :
           /\ ListTexts(h)[i] = ItemText(h[i], ListTexts(h))
           /\ TextOf(h, i) \in Plain
           /\ \A type \in {"Array", "Object"} :
                /\ ListTexts(h)[i][type] \in Plain
                /\ ListText(ListTexts(h), h[i].child, type) \in Plain
                /\ ListText(ListTexts(h), h[i].next, type) \in Plain
<1> DEFINE A == Allocated(h)
           L == ListTexts(h)
           IsPlain(i) == \A type \in {"Array", "Object"} : L[i][type] \in Plain
           P == {m \in 1 .. MaxItems + 1 : \A i \in A : m <= i => IsPlain(i)}
<1>1. MaxItems \in Nat /\ A \in SUBSET Items
  BY ItemsAssumption DEF Allocated
<1>2. /\ \A i \in A : h[i].next # Null => h[i].next \in A /\ i < h[i].next
      /\ \A i \in A : h[i].child # Null => h[i].child \in A /\ i < h[i].child
  BY Zenon DEF Ascending
<1>3. \A i \in A : L[i] = ItemText(h[i], L)
  BY ListTextsExist, Zenon
<1>4. ASSUME NEW i \in A
      PROVE  h[i] \in Cells /\ h[i].type \in Kinds
  <2>1. i \in Items /\ h[i].type # "unallocated"
    BY DEF Allocated, Free
  <2>2. h[i] \in Cells
    BY <2>1
  <2>3. QED
    BY <2>1, <2>2 DEF Cells, Kinds
<1> HIDE DEF A, L
<1>5. ASSUME NEW i \in A, h[i].next # Null => IsPlain(h[i].next),
             h[i].child # Null => IsPlain(h[i].child)
      PROVE  /\ ValueText(h[i], L) \in Plain
             /\ \A type \in {"Array", "Object"} :
                  /\ ListText(L, h[i].child, type) \in Plain
                  /\ ListText(L, h[i].next, type) \in Plain
             /\ IsPlain(i)
  <2>1. \A type \in {"Array", "Object"} : /\ ListText(L, h[i].child, type) \in Plain
                                          /\ ListText(L, h[i].next, type) \in Plain
    BY <1>5, EmptyIsPlain, Zenon DEF ListText
  <2>2. ValueText(h[i], L) \in Plain
    BY <1>4, <2>1, ValueIsPlain, Zenon
  <2>3. \A type \in {"Array", "Object"} : ItemText(h[i], L)[type] \in Plain
    BY <1>4, <2>1, <2>2, ItemTextIs, Zenon
  <2>4. QED
    BY <1>3, <2>1, <2>2, <2>3, Zenon
<1>6. Items \subseteq P
  <2> HIDE DEF IsPlain
  <2>1. MaxItems + 1 \in P
    BY <1>1 DEF Items
  <2>2. ASSUME NEW m \in Items, m + 1 \in P
        PROVE  m \in P
    <3>1. ASSUME NEW i \in A, m <= i
          PROVE  IsPlain(i)
      <4>1. \A j \in A : i < j => IsPlain(j)
        BY <1>1, <2>2, <3>1 DEF Items
      <4>2. QED
        BY <1>2, <1>5, <4>1, Zenon
    <3>2. m \in 1 .. MaxItems + 1
      BY <1>1 DEF Items
    <3>3. QED
      BY <3>1, <3>2
  <2>3. QED
    BY <2>1, <2>2, CountedDown
<1>7. \A i \in A : IsPlain(i)
  <2> HIDE DEF IsPlain
  <2>1. QED
    BY <1>1, <1>6 DEF Items
<1>8. QED
  <2>1. ASSUME NEW i \in A
        PROVE  /\ ValueText(h[i], L) \in Plain
               /\ \A type \in {"Array", "Object"} :
                    /\ ListText(L, h[i].child, type) \in Plain
                    /\ ListText(L, h[i].next, type) \in Plain
    BY <1>2, <1>5, <1>7, Zenon
  <2>2. QED
    BY <1>3, <1>7, <2>1, Zenon DEF A, L, TextOf

-----------------------------------------------------------------------------
(* What the calls have still to print: every frame its rest, the innermost *)
(* first.                                                                  *)

Remaining(h, c) ==
  LET item  == h[c.item]
      lists == ListTexts(h)
  IN  CASE c.at = "print"   -> <<>>
        [] c.at = "value"   -> TextOf(h, c.item)
        [] c.at = "key"     -> NameText(item) \o TextOf(h, c.item)
        [] c.at = "colon"   -> <<":">> \o TextOf(h, c.item)
        [] c.at = "element" -> RestText(item, lists, "Array") \o <<"]">>
        [] c.at = "field"   -> RestText(item, lists, "Object") \o <<"}">>
        [] c.at = "bracket" -> <<"]">>
        [] c.at = "brace"   -> <<"}">>

(* The frame c of an item of h, with print only at the bottom.             *)
FrameOf(h, c, n) ==
  /\ c \in Frames /\ c.item \in Allocated(h) \cup {Null}
  /\ n > 1 => c.at # "print"

(* x is what the calls s have still to print.                              *)
Leaves(h, s, x) ==
  /\ s \in Seq(Frames) /\ \A n \in 1 .. Len(s) : FrameOf(h, s[n], n)
  /\ \E r \in [0 .. Len(s) -> Plain] :
       /\ r[0] = <<>> /\ r[Len(s)] = x
       /\ \A n \in 1 .. Len(s) : r[n] = Remaining(h, s[n]) \o r[n - 1]

LEMMA RemainingIsPlain ==
  ASSUME NEW h \in [Items -> Cells], Ascending(h), NEW c, NEW n, FrameOf(h, c, n)
  PROVE  Remaining(h, c) \in Plain
<1>1. c \in Frames /\ (c.item \in Allocated(h) \/ c.item = Null)
  BY DEF FrameOf
<1>2. CASE c.at \in {"bracket", "brace", "print"}
  <2>1. Remaining(h, c) = <<>> \/ Remaining(h, c) = <<"]">> \/ Remaining(h, c) = <<"}">>
    BY <1>2, Zenon DEF Remaining
  <2>2. QED
    BY <2>1, MarksArePlain, EmptyIsPlain, Zenon
<1>3. CASE c.at \in {"value", "key", "colon", "element", "field"}
  <2>1. c.item \in Items /\ c.item \in Allocated(h)
    BY <1>1, <1>3, NullIsNoItem DEF Frames
  <2> DEFINE item == h[c.item]
             lists == ListTexts(h)
  <2>2. /\ TextOf(h, c.item) \in Plain /\ item \in Cells
        /\ ListText(lists, item.next, "Array") \in Plain
        /\ ListText(lists, item.next, "Object") \in Plain
    BY <2>1, TextsArePlain, Zenon
  <2>3. /\ NameText(item) \in Plain
        /\ RestText(item, lists, "Array") \in Plain
        /\ RestText(item, lists, "Object") \in Plain
    BY <2>2, NameIsPlain, RestIsPlain, Zenon
  <2>4. CASE c.at = "value"
    BY <2>2, <2>4, Zenon DEF Remaining
  <2>5. CASE c.at = "key"
    <3>1. Remaining(h, c) = NameText(item) \o TextOf(h, c.item)
      BY <2>5, Zenon DEF Remaining
    <3>2. QED
      BY <2>2, <2>3, <3>1, PlainJoins, Zenon
  <2>6. CASE c.at = "colon"
    <3>1. Remaining(h, c) = <<":">> \o TextOf(h, c.item)
      BY <2>6, Zenon DEF Remaining
    <3>2. QED
      BY <2>2, <3>1, MarksArePlain, PlainJoins, Zenon
  <2>7. CASE c.at = "element"
    <3>1. Remaining(h, c) = RestText(item, lists, "Array") \o <<"]">>
      BY <2>7, Zenon DEF Remaining
    <3>2. QED
      BY <2>3, <3>1, MarksArePlain, PlainJoins, Zenon
  <2>8. CASE c.at = "field"
    <3>1. Remaining(h, c) = RestText(item, lists, "Object") \o <<"}">>
      BY <2>8, Zenon DEF Remaining
    <3>2. QED
      BY <2>3, <3>1, MarksArePlain, PlainJoins, Zenon
  <2>9. QED
    BY <1>3, <2>4, <2>5, <2>6, <2>7, <2>8
<1>4. QED
  BY <1>1, <1>2, <1>3 DEF Frames, Waiting

LEMMA NothingLeaves ==
  ASSUME NEW h
  PROVE  Leaves(h, <<>>, <<>>)
<1> DEFINE s == <<>>
           r == [n \in 0 .. 0 |-> <<>>]
<1>1. s \in Seq(Frames) /\ Len(s) = 0
  OBVIOUS
<1> HIDE DEF s
<1>2. r \in [0 .. 0 -> Plain] /\ r[0] = <<>>
  BY EmptyIsPlain
<1> HIDE DEF r
<1>3. Leaves(h, s, <<>>)
  BY <1>1, <1>2 DEF Leaves
<1>4. QED
  BY <1>3 DEF s

Pops(h, s, x) ==
  \E y \in Plain : Leaves(h, Front(s), y) /\ x = Remaining(h, Last(s)) \o y

LEMMA Popped ==
  ASSUME NEW h, NEW s, NEW x, s # <<>>, Leaves(h, s, x)
  PROVE  Pops(h, s, x)
<1> DEFINE f == Front(s)
           m == Len(s)
<1>1. s \in Seq(Frames) /\ \A n \in 1 .. m : FrameOf(h, s[n], n)
  BY DEF Leaves
<1>2. PICK r \in [0 .. m -> Plain] :
        /\ r[0] = <<>> /\ r[m] = x
        /\ \A n \in 1 .. m : r[n] = Remaining(h, s[n]) \o r[n - 1]
  BY DEF Leaves
<1>3. m \in Nat /\ m # 0
  BY <1>1, EmptySeq, LenProperties
<1>4. f \in Seq(Frames) /\ Len(f) = m - 1 /\ \A n \in 1 .. Len(f) : f[n] = s[n]
  BY <1>1, FrontIs
<1> HIDE DEF f
<1>5. Last(s) = s[m]
  BY DEF Last
<1> HIDE DEF m
<1> DEFINE q == [n \in 0 .. m - 1 |-> r[n]]
<1>6. q \in [0 .. m - 1 -> Plain] /\ \A n \in 0 .. m - 1 : q[n] = r[n]
  BY <1>2, <1>3
<1> HIDE DEF q
<1>7. \A n \in 1 .. m - 1 : /\ n \in 1 .. m /\ n - 1 \in 0 .. m - 1 /\ n \in 0 .. m - 1
  BY <1>3
<1>8. m - 1 \in 0 .. m - 1 /\ 0 \in 0 .. m - 1 /\ m \in 1 .. m
  BY <1>3
<1>9. \A n \in 1 .. m - 1 : q[n] = Remaining(h, f[n]) \o q[n - 1]
  BY <1>2, <1>4, <1>6, <1>7, Zenon
<1>10. \A n \in 1 .. m - 1 : FrameOf(h, f[n], n)
  BY <1>1, <1>4, <1>7, Zenon
<1>11. q[0] = <<>> /\ q[m - 1] \in Plain
  BY <1>2, <1>6, <1>8
<1>12. Leaves(h, f, q[m - 1])
  BY <1>4, <1>6, <1>9, <1>10, <1>11 DEF Leaves
<1>13. x = Remaining(h, Last(s)) \o q[m - 1]
  BY <1>2, <1>5, <1>6, <1>8
<1>14. QED
  BY <1>11, <1>12, <1>13 DEF f, Pops

LEMMA OnePushed ==
  ASSUME NEW h \in [Items -> Cells], Ascending(h), NEW s, NEW y, Leaves(h, s, y),
         NEW c, FrameOf(h, c, Len(s) + 1)
  PROVE  y \in Plain /\ Leaves(h, Append(s, c), Remaining(h, c) \o y)
<1> DEFINE m == Len(s)
           t == Append(s, c)
<1>1. s \in Seq(Frames) /\ \A n \in 1 .. m : FrameOf(h, s[n], n)
  BY DEF Leaves
<1>2. PICK r \in [0 .. m -> Plain] :
        /\ r[0] = <<>> /\ r[m] = y
        /\ \A n \in 1 .. m : r[n] = Remaining(h, s[n]) \o r[n - 1]
  BY DEF Leaves
<1>3. m \in Nat
  BY <1>1, LenProperties
<1>4. c \in Frames /\ Remaining(h, c) \in Plain
  BY RemainingIsPlain DEF FrameOf
<1>5. /\ t \in Seq(Frames) /\ Len(t) = m + 1 /\ t[m + 1] = c
      /\ \A n \in 1 .. m : t[n] = s[n]
  BY <1>1, <1>4, AppendProperties
<1> HIDE DEF m, t
<1>6. m \in 0 .. m /\ 0 \in 0 .. m /\ m + 1 # 0 /\ m + 1 - 1 = m
  BY <1>3
<1>7. y \in Plain
  BY <1>2, <1>6
<1> DEFINE q == [n \in 0 .. m + 1 |-> IF n = m + 1 THEN Remaining(h, c) \o y ELSE r[n]]
<1>8. Remaining(h, c) \o y \in Plain
  BY <1>4, <1>7, PlainJoins
<1>9. \A n \in 0 .. m + 1 : n # m + 1 => n \in 0 .. m
  BY <1>3
<1>10. /\ q \in [0 .. m + 1 -> Plain] /\ q[m + 1] = Remaining(h, c) \o y
       /\ \A n \in 0 .. m : q[n] = r[n]
  BY <1>2, <1>3, <1>8, <1>9
<1> HIDE DEF q
<1>11. \A n \in 1 .. m + 1 : n # m + 1 => n \in 1 .. m /\ n \in 0 .. m /\ n - 1 \in 0 .. m
  BY <1>3
<1>12. \A n \in 1 .. m + 1 : q[n] = Remaining(h, t[n]) \o q[n - 1]
  <2>1. ASSUME NEW n \in 1 .. m + 1
        PROVE  q[n] = Remaining(h, t[n]) \o q[n - 1]
    <3>1. CASE n = m + 1
      <4>1. q[n - 1] = y
        BY <1>2, <1>6, <1>10, <3>1
      <4>2. QED
        BY <1>5, <1>10, <3>1, <4>1, Zenon
    <3>2. CASE n # m + 1
      BY <1>2, <1>5, <1>10, <1>11, <3>2, Zenon
    <3>3. QED
      BY <3>1, <3>2
  <2>2. QED
    BY <2>1
<1>13. \A n \in 1 .. m + 1 : FrameOf(h, t[n], n)
  <2>1. FrameOf(h, c, m + 1)
    BY DEF m
  <2>2. QED
    BY <1>1, <1>5, <1>11, <2>1, Zenon
<1>14. q[0] = <<>>
  BY <1>2, <1>6, <1>10
<1>15. Leaves(h, t, Remaining(h, c) \o y)
  BY <1>5, <1>10, <1>12, <1>13, <1>14 DEF Leaves
<1>16. QED
  BY <1>7, <1>15 DEF t

(* The calls next print v before what was called before them goes on.      *)
Does(h, next, v) ==
  /\ v \in Plain
  /\ \A s, y : Leaves(h, s, y) => y \in Plain /\ Leaves(h, s \o next, v \o y)

LEMMA NothingDone ==
  ASSUME NEW h
  PROVE  Does(h, <<>>, <<>>)
<1>1. ASSUME NEW s, NEW y, Leaves(h, s, y)
      PROVE  y \in Plain /\ Leaves(h, s \o <<>>, <<>> \o y)
  <2>1. s \in Seq(Frames) /\ s \o <<>> = s
    BY <1>1, ConcatEmptySeq DEF Leaves
  <2>2. y \in Plain
    <3>1. PICK r \in [0 .. Len(s) -> Plain] : r[Len(s)] = y
      BY <1>1 DEF Leaves
    <3>2. Len(s) \in 0 .. Len(s)
      BY <2>1, LenProperties
    <3>3. QED
      BY <3>1, <3>2
  <2>3. QED
    BY <1>1, <2>1, <2>2, NothingBefore, Zenon
<1>2. QED
  BY <1>1, EmptyIsPlain, Zenon DEF Does

LEMMA OneDone ==
  ASSUME NEW h \in [Items -> Cells], Ascending(h), NEW c, \A n : FrameOf(h, c, n)
  PROVE  Does(h, <<c>>, Remaining(h, c))
<1>1. Remaining(h, c) \in Plain
  BY RemainingIsPlain, Zenon
<1>2. ASSUME NEW s, NEW y, Leaves(h, s, y)
      PROVE  y \in Plain /\ Leaves(h, s \o <<c>>, Remaining(h, c) \o y)
  <2>1. s \in Seq(Frames) /\ c \in Frames
    BY <1>2, Zenon DEF Leaves, FrameOf
  <2>2. s \o <<c>> = Append(s, c)
    BY <2>1, AppendIsConcat
  <2>3. QED
    BY <1>2, <2>2, OnePushed, Zenon
<1>3. QED
  BY <1>1, <1>2, Zenon DEF Does

LEMMA TwoDone ==
  ASSUME NEW h \in [Items -> Cells], Ascending(h), NEW c, \A n : FrameOf(h, c, n),
         NEW d, \A n : FrameOf(h, d, n)
  PROVE  Does(h, <<c, d>>, Remaining(h, d) \o Remaining(h, c))
<1>1. /\ Remaining(h, c) \in Plain /\ Remaining(h, d) \in Plain
      /\ Remaining(h, d) \o Remaining(h, c) \in Plain
  <2>1. Remaining(h, c) \in Plain /\ Remaining(h, d) \in Plain
    BY RemainingIsPlain, Zenon
  <2>2. QED
    BY <2>1, PlainJoins
<1>2. ASSUME NEW s, NEW y, Leaves(h, s, y)
      PROVE  y \in Plain /\ Leaves(h, s \o <<c, d>>, (Remaining(h, d) \o Remaining(h, c)) \o y)
  <2>1. s \in Seq(Frames) /\ c \in Frames /\ d \in Frames
    BY <1>2, Zenon DEF Leaves, FrameOf
  <2>2. s \o <<c, d>> = Append(Append(s, c), d)
    BY <2>1
  <2>3. y \in Plain /\ Leaves(h, Append(s, c), Remaining(h, c) \o y)
    BY <1>2, OnePushed, Zenon
  <2>4. Leaves(h, Append(Append(s, c), d), Remaining(h, d) \o (Remaining(h, c) \o y))
    BY <2>3, OnePushed, Zenon
  <2>5. Remaining(h, d) \o (Remaining(h, c) \o y) = (Remaining(h, d) \o Remaining(h, c)) \o y
    BY <1>1, <2>3, Associates, Zenon
  <2>6. QED
    BY <2>2, <2>3, <2>4, <2>5, Zenon
<1>3. QED
  BY <1>1, <1>2, Zenon DEF Does

LEMMA CallIs ==
  ASSUME NEW h, NEW i \in Allocated(h), NEW at \in {"value", "key", "colon", "element", "field"}
  PROVE  /\ \A n : FrameOf(h, Call(at, i), n)
         /\ Call(at, i).at = at /\ Call(at, i).item = i
<1>1. i \in Items
  BY DEF Allocated
<1>2. Call(at, i) \in Frames /\ Call(at, i).at = at /\ Call(at, i).item = i /\ at # "print"
  BY <1>1 DEF Frames, Call, Waiting
<1>3. QED
  BY <1>2, Zenon DEF FrameOf

LEMMA EndCallIs ==
  ASSUME NEW h, NEW at \in {"bracket", "brace"}
  PROVE  (\A n : FrameOf(h, Call(at, Null), n)) /\ Call(at, Null).at = at
<1>1. /\ Call(at, Null) \in Frames /\ Call(at, Null).at = at /\ Call(at, Null).item = Null
      /\ at # "print"
  BY DEF Frames, Call
<1>2. QED
  BY <1>1, Zenon DEF FrameOf

(* What a call has to print, by what it does next.                         *)
LEMMA FramePrints ==
  ASSUME NEW h, NEW c
  PROVE  LET item  == h[c.item]
             lists == ListTexts(h)
         IN  /\ c.at = "print" => Remaining(h, c) = <<>>
             /\ c.at = "value" => Remaining(h, c) = TextOf(h, c.item)
             /\ c.at = "key" => Remaining(h, c) = NameText(item) \o TextOf(h, c.item)
             /\ c.at = "colon" => Remaining(h, c) = <<":">> \o TextOf(h, c.item)
             /\ c.at = "element" => Remaining(h, c) = RestText(item, lists, "Array") \o <<"]">>
             /\ c.at = "field" => Remaining(h, c) = RestText(item, lists, "Object") \o <<"}">>
             /\ c.at = "bracket" => Remaining(h, c) = <<"]">>
             /\ c.at = "brace" => Remaining(h, c) = <<"}">>
<1>1. /\ c.at = "print" => Remaining(h, c) = <<>>
      /\ c.at = "value" => Remaining(h, c) = TextOf(h, c.item)
      /\ c.at = "key" => Remaining(h, c) = NameText(h[c.item]) \o TextOf(h, c.item)
  BY Zenon DEF Remaining
<1>2. /\ c.at = "colon" => Remaining(h, c) = <<":">> \o TextOf(h, c.item)
      /\ c.at = "element" =>
           Remaining(h, c) = RestText(h[c.item], ListTexts(h), "Array") \o <<"]">>
  BY Zenon DEF Remaining
<1>3. /\ c.at = "field" =>
           Remaining(h, c) = RestText(h[c.item], ListTexts(h), "Object") \o <<"}">>
      /\ c.at = "bracket" => Remaining(h, c) = <<"]">>
      /\ c.at = "brace" => Remaining(h, c) = <<"}">>
  BY Zenon DEF Remaining
<1>4. QED
  BY <1>1, <1>2, <1>3, Zenon

LEMMA CallPrints ==
  ASSUME NEW h, NEW i
  PROVE  /\ Remaining(h, Call("value", i)) = TextOf(h, i)
         /\ Remaining(h, Call("key", i)) = NameText(h[i]) \o TextOf(h, i)
         /\ Remaining(h, Call("element", i)) = RestText(h[i], ListTexts(h), "Array") \o <<"]">>
         /\ Remaining(h, Call("field", i)) = RestText(h[i], ListTexts(h), "Object") \o <<"}">>
         /\ Remaining(h, Call("bracket", i)) = <<"]">>
         /\ Remaining(h, Call("brace", i)) = <<"}">>
<1>1. \A at : Call(at, i).at = at /\ Call(at, i).item = i
  BY DEF Call
<1>2. /\ Remaining(h, Call("value", i)) = TextOf(h, i)
      /\ Remaining(h, Call("key", i)) = NameText(h[i]) \o TextOf(h, i)
  <2>1. PICK b, c : b = Call("value", i) /\ c = Call("key", i)
    BY Zenon
  <2>2. b.at = "value" /\ b.item = i /\ c.at = "key" /\ c.item = i
    BY <1>1, <2>1, Zenon
  <2>3. Remaining(h, b) = TextOf(h, i)
    BY <2>2, FramePrints, Zenon
  <2>4. Remaining(h, c) = NameText(h[i]) \o TextOf(h, i)
    BY <2>2, FramePrints, Zenon
  <2>5. QED
    BY <2>1, <2>3, <2>4, Zenon
<1>3. /\ Remaining(h, Call("element", i)) = RestText(h[i], ListTexts(h), "Array") \o <<"]">>
      /\ Remaining(h, Call("field", i)) = RestText(h[i], ListTexts(h), "Object") \o <<"}">>
  <2>1. PICK b, c : b = Call("element", i) /\ c = Call("field", i)
    BY Zenon
  <2>2. b.at = "element" /\ b.item = i /\ c.at = "field" /\ c.item = i
    BY <1>1, <2>1, Zenon
  <2>3. Remaining(h, b) = RestText(h[i], ListTexts(h), "Array") \o <<"]">>
    BY <2>2, FramePrints, Zenon
  <2>4. Remaining(h, c) = RestText(h[i], ListTexts(h), "Object") \o <<"}">>
    BY <2>2, FramePrints, Zenon
  <2>5. QED
    BY <2>1, <2>3, <2>4, Zenon
<1>4. /\ Remaining(h, Call("bracket", i)) = <<"]">>
      /\ Remaining(h, Call("brace", i)) = <<"}">>
  <2>1. PICK b, c : b = Call("bracket", i) /\ c = Call("brace", i)
    BY Zenon
  <2>2. b.at = "bracket" /\ c.at = "brace"
    BY <1>1, <2>1, Zenon
  <2>3. Remaining(h, b) = <<"]">> /\ Remaining(h, c) = <<"}">>
    BY <2>2, FramePrints, Zenon
  <2>4. QED
    BY <2>1, <2>3, Zenon
<1>5. QED
  BY <1>2, <1>3, <1>4, Zenon

(* The loops print the rest of the list and its bracket.                   *)
LEMMA NextDone ==
  ASSUME NEW h \in [Items -> Cells], Ascending(h), NEW i, i \in Allocated(h) \/ i = Null
  PROVE  /\ Does(h, NextElement(i), ListText(ListTexts(h), i, "Array") \o <<"]">>)
         /\ Does(h, NextField(i), ListText(ListTexts(h), i, "Object") \o <<"}">>)
<1> DEFINE lists == ListTexts(h)
<1>1. CASE i = Null
  <2>1. /\ NextElement(i) = <<Call("bracket", Null)>>
        /\ NextField(i) = <<Call("brace", Null)>>
    BY <1>1, Zenon DEF NextElement, NextField
  <2>2. /\ Remaining(h, Call("bracket", Null)) = <<"]">>
        /\ Remaining(h, Call("brace", Null)) = <<"}">>
    BY CallPrints, Zenon
  <2>3. /\ Does(h, NextElement(i), <<"]">>)
        /\ Does(h, NextField(i), <<"}">>)
    <3>1. /\ \A n : FrameOf(h, Call("bracket", Null), n)
          /\ \A n : FrameOf(h, Call("brace", Null), n)
      BY EndCallIs, Zenon
    <3>2. QED
      BY <2>1, <2>2, <3>1, OneDone, Zenon
  <2>4. \A type : ListText(lists, i, type) = <<>>
    BY <1>1, Zenon DEF ListText
  <2>5. <<>> \o <<"]">> = <<"]">> /\ <<>> \o <<"}">> = <<"}">>
    BY MarksArePlain, NothingBefore, Zenon
  <2>6. QED
    BY <2>3, <2>4, <2>5, Zenon
<1>2. CASE i # Null
  <2>1. i \in Allocated(h) /\ i \in Items /\ h[i] \in Cells
    BY <1>2 DEF Allocated
  <2>2. /\ NextElement(i) = <<Call("element", i), Call("value", i)>>
        /\ NextField(i) = <<Call("field", i), Call("key", i)>>
    BY <1>2, Zenon DEF NextElement, NextField
  <2> DEFINE item == h[i]
             v == TextOf(h, i)
             a == RestText(item, lists, "Array")
             o == RestText(item, lists, "Object")
             n == NameText(item)
  <2>3. /\ Remaining(h, Call("element", i)) = a \o <<"]">>
        /\ Remaining(h, Call("field", i)) = o \o <<"}">>
        /\ Remaining(h, Call("value", i)) = v
        /\ Remaining(h, Call("key", i)) = n \o v
    BY CallPrints, Zenon
  <2>4. /\ Does(h, NextElement(i), v \o (a \o <<"]">>))
        /\ Does(h, NextField(i), (n \o v) \o (o \o <<"}">>))
    <3>1. PICK b, c, d, e : /\ b = Call("element", i) /\ c = Call("value", i)
                            /\ d = Call("field", i) /\ e = Call("key", i)
      BY Zenon
    <3>2. /\ \A m : FrameOf(h, b, m)
          /\ \A m : FrameOf(h, c, m)
          /\ \A m : FrameOf(h, d, m)
          /\ \A m : FrameOf(h, e, m)
      BY <2>1, <3>1, CallIs, Zenon
    <3>3. /\ Does(h, <<b, c>>, Remaining(h, c) \o Remaining(h, b))
          /\ Does(h, <<d, e>>, Remaining(h, e) \o Remaining(h, d))
      BY <3>2, TwoDone, Zenon
    <3>4. QED
      BY <2>2, <2>3, <3>1, <3>3, Zenon
  <2>5. /\ v \in Plain /\ lists[i] = ItemText(item, lists)
        /\ ListText(lists, item.next, "Array") \in Plain
        /\ ListText(lists, item.next, "Object") \in Plain
    BY <2>1, TextsArePlain, Zenon
  <2>6. n \in Plain /\ a \in Plain /\ o \in Plain
    BY <2>1, <2>5, NameIsPlain, RestIsPlain, Zenon
  <2>7. v = ValueText(item, lists)
    BY Zenon DEF TextOf
  <2>8. lists[i]["Array"] = v \o a /\ lists[i]["Object"] = (n \o v) \o o
    <3>1. \A type \in {"Array", "Object"} : ListText(lists, item.next, type) \in Plain
      BY <2>5, Zenon
    <3>2. QED
      BY <2>1, <2>5, <2>7, <3>1, ItemTextIs, Zenon
  <2>9. /\ ListText(lists, i, "Array") = v \o a
        /\ ListText(lists, i, "Object") = (n \o v) \o o
    BY <1>2, <2>8, Zenon DEF ListText
  <2> HIDE DEF v, a, o, n, lists, item
  <2>10. PICK b, c : b = <<"]">> /\ c = <<"}">>
    BY Zenon
  <2>11. b \in Plain /\ c \in Plain
    BY <2>10, MarksArePlain, Zenon
  <2>12. PICK u \in Plain : u = n \o v
    BY <2>5, <2>6, PlainJoin
  <2>13. v \o (a \o b) = (v \o a) \o b
    <3>1. v \in Plain /\ a \in Plain /\ b \in Plain
      BY <2>5, <2>6, <2>11, Zenon
    <3>2. QED
      BY <3>1, Associates, Zenon
  <2>14. u \o (o \o c) = (u \o o) \o c
    BY <2>6, <2>11, <2>12, Associates, Zenon
  <2>15. QED
    BY <2>4, <2>9, <2>10, <2>12, <2>13, <2>14, Zenon DEF lists
<1>3. QED
  BY <1>1, <1>2, Zenon

-----------------------------------------------------------------------------
(* The document is what has been printed and what is left.                 *)

Shows(at, p, t) ==
  IF at \in Waiting \cup {"colon"} THEN HoldsEnded(p, t) ELSE Ready(p) /\ Holds(p, t)

(* The printer shows t to the calls next, or to the call that waits.       *)
Leads(p, next, t) ==
  IF next = <<>> THEN HoldsEnded(p, t) ELSE Shows(Last(next).at, p, t)

Halfway(h, whole, p, s) ==
  s # <<>> => \E t, x \in Plain :
    Leaves(h, s, x) /\ Shows(Last(s).at, p, t) /\ t \o x = whole

QInv ==
  /\ calls # <<>> => phase = "built"
  /\ text # <<>> => phase \in {"built", "aborted"}
  /\ PrintedIsDocument
  /\ Halfway(heap, TextOf(heap, response), printer, calls)

LEMMA Stepped ==
  ASSUME NEW h, NEW s, Stack(s), s # <<>>, NEW x, Leaves(h, s, x), NEW t \in Plain, NEW q,
         NEW next, Stack(next), NEW v, Does(h, next, v), NEW w \in Plain,
         Remaining(h, Last(s)) = w \o v,
         Leads(q, next, t \o w)
  PROVE  Halfway(h, t \o x, q, Front(s) \o next)
<1> DEFINE r == Front(s) \o next
<1>1. PICK y \in Plain : Leaves(h, Front(s), y) /\ x = (w \o v) \o y
  <2>1. Pops(h, s, x)
    BY Popped, Zenon
  <2>2. QED
    BY <2>1, Zenon DEF Pops
<1>2. v \in Plain /\ Leaves(h, r, v \o y)
  BY <1>1, Zenon DEF Does
<1>3. t \o w \in Plain /\ v \o y \in Plain
  BY <1>2, PlainJoins, Zenon
<1>4. (t \o w) \o (v \o y) = t \o x
  <2>1. (w \o v) \o y = w \o (v \o y)
    BY <1>2, Associates, Zenon
  <2>2. (t \o w) \o (v \o y) = t \o (w \o (v \o y))
    BY <1>3, Associates, Zenon
  <2>3. QED
    BY <1>1, <2>1, <2>2, Zenon
<1>5. ASSUME r # <<>>
      PROVE  Shows(Last(r).at, q, t \o w)
  <2>1. CASE next = <<>>
    <3>1. Last(r).at \in Waiting
      BY <1>5, <2>1, Returned, Zenon
    <3>2. QED
      BY <2>1, <3>1, Zenon DEF Shows, Leads
  <2>2. CASE next # <<>>
    BY <2>2, Returned, Zenon DEF Leads
  <2>3. QED
    BY <2>1, <2>2
<1>6. QED
  BY <1>2, <1>3, <1>4, <1>5, Zenon DEF Halfway

(* t is printed and x is left.                                             *)
Going(t, x) ==
  /\ PInv /\ QInv /\ calls # <<>>
  /\ t \in Plain /\ x \in Plain
  /\ Leaves(heap, calls, x) /\ t \o x = TextOf(heap, response)

LEMMA Returning ==
  ASSUME NEW t, NEW x, Going(t, x), NEW q, NEW next, Stack(next),
         NEW v, Does(heap, next, v), NEW w \in Plain, Remaining(heap, Last(calls)) = w \o v,
         Leads(q, next, t \o w),
         printer' = q, Return(next), UNCHANGED <<vars, text>>
  PROVE  QInv'
<1>1. Stack(calls)
  BY Zenon DEF Going, PInv, Keeps
<1>2. Halfway(heap, t \o x, q, Front(calls) \o next)
  BY <1>1, Stepped, Zenon DEF Going
<1>3. Halfway(heap, TextOf(heap, response), printer, calls)'
  <2>1. heap' = heap /\ response' = response /\ calls' = Front(calls) \o next
    BY DEF vars, Return
  <2>2. QED
    BY <1>2, <2>1, Zenon DEF Going
<1>4. /\ phase' = phase /\ heap' = heap /\ response' = response /\ text' = text
      /\ phase = "built"
  BY DEF vars, Going, QInv
<1>5. PrintedIsDocument'
  BY <1>4, Zenon DEF PrintedIsDocument, QInv, Going
<1>6. QED
  BY <1>3, <1>4, <1>5, Zenon DEF QInv

LEMMA AbortKeeps ==
  ASSUME QInv, Abort, calls' = <<>>, UNCHANGED text
  PROVE  QInv'
<1>1. phase' = "aborted" /\ heap' = heap /\ response' = response /\ text' = text
  BY DEF Abort
<1>2. PrintedIsDocument'
  BY <1>1, Zenon DEF PrintedIsDocument, QInv
<1>3. Halfway(heap, TextOf(heap, response), printer, calls)'
  BY Zenon DEF Halfway
<1>4. QED
  BY <1>1, <1>2, <1>3, Zenon DEF QInv

LEMMA GivenUpShows ==
  ASSUME QInv, NEW p, GiveUp(p)
  PROVE  QInv'
BY AbortKeeps, Zenon DEF GiveUp

LEMMA HeapIs ==
  ASSUME IInv
  PROVE  /\ TypeOK /\ heap \in [Items -> Cells] /\ Ascending(heap)
         /\ phase = "built" => response \in Allocated(heap)
<1>1. TypeOK /\ heap \in [Items -> Cells]
  BY DEF IInv, TypeOK
<1>2. PICK owner \in [Items -> Pointers] :
        Linked(heap, owner) /\ (phase \in {"build", "built"} => Growing(owner))
  BY DEF IInv
<1>3. Ascending(heap)
  BY <1>1, <1>2, LinkedAscends, Zenon
<1>4. phase = "built" => response \in Allocated(heap)
  BY <1>2 DEF Growing
<1>5. QED
  BY <1>1, <1>3, <1>4

LEMMA Shown ==
  ASSUME PInv, QInv, NEW at, Doing(at)
  PROVE  /\ printer \in Sound /\ Last(calls).at = at /\ Last(calls).item = Item
         /\ at \in Waiting \cup {"value", "key", "colon"} =>
              Item \in Allocated(heap) /\ Item \in Items
         /\ \E t, x \in Plain : Going(t, x) /\ Shows(at, printer, t)
<1>1. printer \in Sound /\ calls # <<>> /\ Last(calls).at = at /\ Last(calls).item = Item
  BY Doer, Zenon DEF Doing, Item
<1>2. PICK t, x \in Plain :
        /\ Leaves(heap, calls, x) /\ Shows(Last(calls).at, printer, t)
        /\ t \o x = TextOf(heap, response)
  BY <1>1, Zenon DEF QInv, Halfway
<1>3. Going(t, x) /\ Shows(at, printer, t)
  BY <1>1, <1>2, Zenon DEF Going
<1>4. ASSUME at \in Waiting \cup {"value", "key", "colon"}
      PROVE  Item \in Allocated(heap) /\ Item \in Items
  <2>1. Item \in Items
    BY <1>4, Doer, Zenon
  <2>2. calls \in Seq(Frames) /\ \A n \in 1 .. Len(calls) : FrameOf(heap, calls[n], n)
    BY <1>2 DEF Leaves
  <2>3. Len(calls) \in 1 .. Len(calls)
    BY <1>1, <2>2, EmptySeq, LenProperties
  <2>4. FrameOf(heap, Last(calls), Len(calls))
    BY <2>2, <2>3, Zenon DEF Last
  <2>5. QED
    BY <2>1, <2>4, NullIsNoItem DEF FrameOf, Item
<1>5. QED
  BY <1>1, <1>2, <1>3, <1>4, Zenon

(* The characters w move the offset on, and the calls next follow.         *)
LEMMA TextShows ==
  ASSUME NEW t, NEW x, Going(t, x), NEW p \in Sound, Ready(p), Holds(p, t),
         NEW needed \in Nat, NEW chars \in Texts, NEW n \in Nat,
         Len(chars) <= needed + 1, n <= needed, n <= Len(chars),
         NEW w \in Plain, Len(w) = n, \A k \in 1 .. n : chars[k] = w[k],
         NEW next, Stack(next), next # <<>>, Last(next).at \notin Waiting \cup {"colon"},
         NEW v, Does(heap, next, v), Remaining(heap, Last(calls)) = w \o v,
         Emit(p, needed, chars, n, next)
  PROVE  QInv'
<1> DEFINE q == Emission(p, needed, chars, n)
<1>1. t \in Plain /\ QInv
  BY Zenon DEF Going
<1>2. CASE GiveUp(p)
  BY <1>1, <1>2, GivenUpShows, Zenon
<1>3. CASE printer' = q /\ Return(next) /\ UNCHANGED <<vars, text>>
  <2>1. Ready(q) /\ Holds(q, t \o w)
    BY <1>1, EmittedText, Zenon
  <2> HIDE DEF q
  <2>2. Leads(q, next, t \o w)
    BY <2>1, Zenon DEF Shows, Leads
  <2>3. QED
    BY <1>3, <2>2, Returning, Zenon
<1>4. QED
  BY <1>2, <1>3, Zenon DEF Emit, Emission

(* The characters w and a NUL are all that the call prints.                *)
LEMMA EndShows ==
  ASSUME NEW t, NEW x, Going(t, x), Ready(printer), Holds(printer, t),
         NEW needed \in Nat, NEW n \in Nat, n <= needed,
         NEW w \in Plain, n <= Len(w), Len(w) <= needed,
         NEW chars, chars = Append(w, NUL),
         Remaining(heap, Last(calls)) = w, Emit(printer, needed, chars, n, <<>>)
  PROVE  QInv'
<1> DEFINE q == Emission(printer, needed, chars, n)
<1>1. t \in Plain /\ QInv /\ printer \in Sound
  BY Zenon DEF Going, PInv, Keeps
<1>2. CASE GiveUp(printer)
  BY <1>1, <1>2, GivenUpShows, Zenon
<1>3. CASE printer' = q /\ Return(<<>>) /\ UNCHANGED <<vars, text>>
  <2>1. w \in Texts /\ Len(w) \in Nat
    BY PlainIsText, Terminated
  <2>2. chars \in Texts /\ Len(chars) = Len(w) + 1
    BY <2>1, Terminated
  <2>3. Len(chars) <= needed + 1
    BY <2>1, <2>2
  <2>4. HoldsEnded(q, t \o w)
    BY <1>1, <2>2, <2>3, EmittedEnd, Zenon
  <2> HIDE DEF q
  <2>5. w = w \o <<>> /\ Leads(q, <<>>, t \o w)
    BY <2>4, NothingBefore, Zenon DEF Leads
  <2>6. QED
    BY <1>3, <2>5, NothingDone, NoCalls, Returning, Zenon
<1>4. QED
  BY <1>2, <1>3, Zenon DEF Emit, Emission

(* A string between its quotes, and the calls next.                        *)
LEMMA StringShows ==
  ASSUME NEW t, NEW x, Going(t, x), Ready(printer), Holds(printer, t), NEW str \in Plain,
         NEW next, Stack(next), next # <<>> => Last(next).at \in Waiting \cup {"colon"},
         NEW v, Does(heap, next, v), Remaining(heap, Last(calls)) = Quoted(str) \o v,
         print_string_ptr(str, next)
  PROVE  QInv'
<1> DEFINE q == StringEmission(printer, str)
<1>1. t \in Plain /\ QInv /\ printer \in Sound
  BY Zenon DEF Going, PInv, Keeps
<1>2. CASE GiveUp(printer)
  BY <1>1, <1>2, GivenUpShows, Zenon
<1>3. CASE printer' = q /\ Return(next) /\ UNCHANGED <<vars, text>>
  <2>1. HoldsEnded(q, t \o Quoted(str)) /\ Quoted(str) \in Plain
    BY <1>1, StringEnds, Zenon
  <2> HIDE DEF q
  <2>2. Leads(q, next, t \o Quoted(str))
    BY <2>1, Zenon DEF Shows, Leads
  <2>3. QED
    BY <1>3, <2>1, <2>2, Returning, Zenon
<1>4. QED
  BY <1>2, <1>3, Zenon DEF print_string_ptr, StringEmission

LEMMA Appended ==
  ASSUME NEW s \in Texts, NEW t \in Texts, NEW n \in Nat, NEW m, m = n + 1,
         Len(s) = n, Len(t) = m, t[m] = NUL, \A k \in 1 .. n : t[k] = s[k]
  PROVE  Append(s, NUL) = t
<1> DEFINE u == Append(s, NUL)
<1>1. /\ u \in Texts /\ Len(s) \in Nat /\ Len(u) = Len(s) + 1
      /\ u[Len(s) + 1] = NUL /\ \A k \in 1 .. Len(s) : u[k] = s[k]
  BY NulIsNoLetter, AppendProperties, LenProperties DEF Texts
<1> HIDE DEF u
<1>2. \A k \in 1 .. Len(u) : u[k] = t[k]
  <2>1. \A k \in 1 .. Len(u) : k \in 1 .. Len(s) \/ k = Len(s) + 1
    BY <1>1
  <2>2. QED
    BY <1>1, <2>1, Zenon
<1>3. u = t
  BY <1>1, <1>2, SeqEqual DEF Texts
<1>4. QED
  BY <1>3 DEF u

LEMMA LetterIs ==
  ASSUME NEW c \in Letters
  PROVE  /\ <<c>> \in Plain /\ <<c>> \in Texts /\ Len(<<c>>) = 1
         /\ Append(<<c>>, NUL) = <<c, NUL>>
<1>1. c \in Bytes /\ NUL \in Bytes
  BY NulIsNoLetter DEF Bytes
<1>2. <<c>> \in Plain /\ <<c>> \in Texts /\ Len(<<c>>) = 1
  BY <1>1, OneLetter, OnePlain, Zenon
<1> DEFINE s == <<c>>
           t == <<c, NUL>>
<1>3. /\ t \in Texts /\ Len(t) = 2 /\ t[2] = NUL
      /\ \A k \in 1 .. 1 : t[k] = s[k]
  BY <1>1, SMT DEF Texts
<1> HIDE DEF s, t
<1>4. Append(s, NUL) = t
  <2>1. 1 \in Nat /\ 2 = 1 + 1
    OBVIOUS
  <2>2. s \in Texts /\ Len(s) = 1
    BY <1>2 DEF s
  <2>3. QED
    BY <1>3, <2>1, <2>2, Appended, Zenon
<1>5. QED
  BY <1>2, <1>4, Zenon DEF s, t

(* An opening bracket or a colon, and the calls next.                      *)
LEMMA LetterShows ==
  ASSUME NEW t, NEW x, Going(t, x), NEW p \in Sound, Ready(p), Holds(p, t),
         NEW c \in Letters, NEW needed \in {1, 2},
         NEW next, Stack(next), next # <<>>, Last(next).at \notin Waiting \cup {"colon"},
         NEW v, Does(heap, next, v), Remaining(heap, Last(calls)) = <<c>> \o v,
         Emit(p, needed, <<c>>, 1, next)
  PROVE  QInv'
<1> DEFINE w == <<c>>
<1>1. w \in Plain /\ w \in Texts /\ Len(w) = 1
  BY LetterIs
<1>2. Remaining(heap, Last(calls)) = w \o v /\ Emit(p, needed, w, 1, next)
  OBVIOUS
<1> HIDE DEF w
<1>3. /\ 1 \in Nat /\ needed \in Nat /\ Len(w) <= needed + 1 /\ 1 <= needed /\ 1 <= Len(w)
      /\ \A k \in 1 .. 1 : w[k] = w[k]
  BY <1>1
<1>4. QED
  BY <1>1, <1>2, <1>3, TextShows, Zenon

(* A comma or nothing, with a NUL that does not move the offset on.        *)
LEMMA CommaShows ==
  ASSUME NEW t, NEW x, Going(t, x), NEW p \in Sound, Ready(p), Holds(p, t),
         NEW w \in Plain, NEW n, n = Len(w), NEW chars, chars = Append(w, NUL),
         NEW next, Stack(next), next # <<>>, Last(next).at \notin Waiting \cup {"colon"},
         NEW v, Does(heap, next, v), Remaining(heap, Last(calls)) = w \o v,
         Emit(p, n + 1, chars, n, next)
  PROVE  QInv'
<1>1. w \in Texts /\ n \in Nat
  BY PlainIsText, Terminated
<1>2. chars \in Texts /\ Len(chars) = n + 1
  BY <1>1, Terminated
<1>3. \A k \in 1 .. n : chars[k] = w[k]
  BY AppendProperties DEF Plain
<1>4. n + 1 \in Nat /\ Len(chars) <= (n + 1) + 1 /\ n <= n + 1 /\ n <= Len(chars)
  BY <1>1, <1>2
<1>5. Len(w) = n
  OBVIOUS
<1>6. QED
  BY <1>1, <1>2, <1>3, <1>4, <1>5, TextShows, Zenon

(* The bracket that closes, with a NUL.                                    *)
LEMMA CloseShows ==
  ASSUME NEW t, NEW x, Going(t, x), Ready(printer), Holds(printer, t), NEW c \in Letters,
         Remaining(heap, Last(calls)) = <<c>>, Emit(printer, 2, <<c, NUL>>, 0, <<>>)
  PROVE  QInv'
<1> DEFINE w == <<c>>
           chars == <<c, NUL>>
<1>1. w \in Plain /\ Len(w) = 1 /\ chars = Append(w, NUL)
  BY LetterIs
<1>2. Remaining(heap, Last(calls)) = w /\ Emit(printer, 2, chars, 0, <<>>)
  OBVIOUS
<1> HIDE DEF w, chars
<1>3. 2 \in Nat /\ 0 \in Nat /\ 0 <= 2 /\ 0 <= Len(w) /\ Len(w) <= 2
  BY <1>1
<1>4. QED
  BY <1>1, <1>2, <1>3, EndShows, Zenon

(* What follows an item in its list, for the loop that goes on with it.    *)
Comma(item) == IF item.next = Null THEN <<>> ELSE <<",">>

Continues(item, lists, type, b) ==
  /\ Comma(item) \in Plain
  /\ RestText(item, lists, type) \o b = Comma(item) \o (ListText(lists, item.next, type) \o b)

LEMMA RestIs ==
  ASSUME NEW item, NEW lists, NEW type, ListText(lists, item.next, type) \in Plain,
         NEW b \in Plain
  PROVE  Continues(item, lists, type, b)
<1> DEFINE l == ListText(lists, item.next, type)
<1>1. CASE item.next = Null
  <2>1. l = <<>> /\ RestText(item, lists, type) = <<>>
    BY <1>1, Zenon DEF ListText, RestText
  <2>2. <<>> \o (<<>> \o b) = <<>> \o b
    BY NothingBefore, Zenon
  <2>3. QED
    BY <1>1, <2>1, <2>2, EmptyIsPlain, Zenon DEF Comma, Continues
<1>2. CASE item.next # Null
  <2>1. PICK c : c = <<",">>
    BY Zenon
  <2>2. c \in Plain /\ l \in Plain
    BY <2>1, MarksArePlain, Zenon
  <2>3. RestText(item, lists, type) = c \o l
    BY <1>2, <2>1, Zenon DEF RestText
  <2> HIDE DEF l
  <2>4. (c \o l) \o b = c \o (l \o b)
    BY <2>2, Associates, Zenon
  <2>5. QED
    BY <1>2, <2>1, <2>2, <2>3, <2>4, Zenon DEF l, Comma, Continues
<1>3. QED
  BY <1>1, <1>2, Zenon

IsWord(word, ended, n) == Len(word) = n /\ Append(word, NUL) = ended

LEMMA FourIs ==
  ASSUME NEW a \in Letters, NEW b \in Letters, NEW c \in Letters, NEW d \in Letters
  PROVE  IsWord(<<a, b, c, d>>, <<a, b, c, d, NUL>>, 4)
<1> DEFINE word == <<a, b, c, d>>
           ended == <<a, b, c, d, NUL>>
<1>1. {a, b, c, d, NUL} \subseteq Bytes
  BY NulIsNoLetter DEF Bytes
<1>2. /\ word \in Texts /\ Len(word) = 4 /\ ended \in Texts /\ Len(ended) = 5
      /\ ended[5] = NUL /\ \A k \in 1 .. 4 : ended[k] = word[k]
  BY <1>1, SMT DEF Texts
<1> HIDE DEF word, ended
<1>3. 4 \in Nat /\ 5 = 4 + 1
  OBVIOUS
<1>4. Append(word, NUL) = ended
  BY <1>2, <1>3, Appended, Zenon
<1>5. QED
  BY <1>2, <1>4, Zenon DEF IsWord, word, ended

LEMMA FiveIs ==
  ASSUME NEW a \in Letters, NEW b \in Letters, NEW c \in Letters, NEW d \in Letters,
         NEW e \in Letters
  PROVE  IsWord(<<a, b, c, d, e>>, <<a, b, c, d, e, NUL>>, 5)
<1> DEFINE word == <<a, b, c, d, e>>
           ended == <<a, b, c, d, e, NUL>>
<1>1. {a, b, c, d, e, NUL} \subseteq Bytes
  BY NulIsNoLetter DEF Bytes
<1>2. /\ word \in Texts /\ Len(word) = 5 /\ ended \in Texts /\ Len(ended) = 6
      /\ ended[6] = NUL /\ \A k \in 1 .. 5 : ended[k] = word[k]
  BY <1>1, SMT DEF Texts
<1> HIDE DEF word, ended
<1>3. 5 \in Nat /\ 6 = 5 + 1
  OBVIOUS
<1>4. Append(word, NUL) = ended
  BY <1>2, <1>3, Appended, Zenon
<1>5. QED
  BY <1>2, <1>4, Zenon DEF IsWord, word, ended

LEMMA WordsEnd ==
  /\ IsWord(<<"t", "r", "u", "e">>, <<"t", "r", "u", "e", NUL>>, 4)
  /\ IsWord(<<"f", "a", "l", "s", "e">>, <<"f", "a", "l", "s", "e", NUL>>, 5)
<1>1. /\ "t" \in Letters /\ "r" \in Letters /\ "u" \in Letters /\ "e" \in Letters
      /\ "f" \in Letters /\ "a" \in Letters /\ "l" \in Letters /\ "s" \in Letters
  BY LiteralsAreLetters, Zenon DEF Literals
<1>2. QED
  BY <1>1, FourIs, FiveIs, Zenon

LEMMA ValueShows ==
  ASSUME IInv, PInv, QInv, print_value
  PROVE  QInv'
<1> DEFINE item == heap[Item]
           lists == ListTexts(heap)
           child == item.child
<1>1. Doing("value") /\ "value" \notin Waiting \cup {"colon"}
  BY Zenon DEF print_value, Waiting
<1>2. PICK t, x : Going(t, x) /\ Shows("value", printer, t)
  BY <1>1, Shown, Zenon
<1>3. Ready(printer) /\ Holds(printer, t) /\ printer \in Sound
  BY <1>1, <1>2, Shown, Zenon DEF Shows
<1>4. Item \in Allocated(heap) /\ Item \in Items
  BY <1>1, Shown, Zenon
<1>5. Remaining(heap, Last(calls)) = ValueText(item, lists)
  <2>1. Last(calls).at = "value" /\ Last(calls).item = Item
    BY <1>1, Shown, Zenon
  <2>2. QED
    BY <2>1, FramePrints, Zenon DEF TextOf
<1>6. /\ heap \in [Items -> Cells] /\ Ascending(heap) /\ TypeOK
      /\ child \in Allocated(heap) \/ child = Null
  BY <1>4, HeapIs, Zenon DEF Ascending
<1>7. /\ ListText(lists, child, "Array") \in Plain
      /\ ListText(lists, child, "Object") \in Plain
  BY <1>4, <1>6, TextsArePlain, Zenon
<1>8. item.value \in Plain /\ child \in Pointers
  BY <1>4, <1>6, ItemIs
<1>9. CASE item.type = "True" /\ Emit(printer, 5, <<"t", "r", "u", "e", NUL>>, 0, <<>>)
  <2>1. PICK w, chars : w = <<"t", "r", "u", "e">> /\ chars = <<"t", "r", "u", "e", NUL>>
    BY Zenon
  <2>2. ValueText(item, lists) = w
    BY <1>9, <2>1, Zenon DEF ValueText
  <2>3. IsWord(w, chars, 4) /\ w \in Plain /\ Emit(printer, 5, chars, 0, <<>>)
    BY <1>9, <2>1, WordsEnd, WordsArePlain, Zenon
  <2>4. chars = Append(w, NUL) /\ 5 \in Nat /\ 0 \in Nat /\ 0 <= 5 /\ 0 <= Len(w) /\ Len(w) <= 5
    BY <2>3 DEF IsWord
  <2>5. QED
    BY <1>2, <1>3, <1>5, <2>2, <2>3, <2>4, EndShows, Zenon
<1>10. CASE item.type = "False" /\ Emit(printer, 6, <<"f", "a", "l", "s", "e", NUL>>, 0, <<>>)
  <2>1. PICK w, chars :
          w = <<"f", "a", "l", "s", "e">> /\ chars = <<"f", "a", "l", "s", "e", NUL>>
    BY Zenon
  <2>2. ValueText(item, lists) = w
    BY <1>10, <2>1, Zenon DEF ValueText
  <2>3. IsWord(w, chars, 5) /\ w \in Plain /\ Emit(printer, 6, chars, 0, <<>>)
    BY <1>10, <2>1, WordsEnd, WordsArePlain, Zenon
  <2>4. chars = Append(w, NUL) /\ 6 \in Nat /\ 0 \in Nat /\ 0 <= 6 /\ 0 <= Len(w) /\ Len(w) <= 6
    BY <2>3 DEF IsWord
  <2>5. QED
    BY <1>2, <1>3, <1>5, <2>2, <2>3, <2>4, EndShows, Zenon
<1>11. CASE /\ item.type = "Number"
            /\ Emit(printer, Len(item.value) + 1, Append(item.value, NUL), Len(item.value), <<>>)
  <2>1. PICK w, n, needed, chars : /\ w = item.value /\ n = Len(item.value)
                                   /\ needed = Len(item.value) + 1 /\ chars = Append(w, NUL)
    OBVIOUS
  <2>2. ValueText(item, lists) = w
    BY <1>11, <2>1, Zenon DEF ValueText
  <2>3. w \in Plain /\ n = Len(w) /\ needed = n + 1 /\ Emit(printer, needed, chars, n, <<>>)
    BY <1>8, <1>11, <2>1, Zenon
  <2>4. w \in Texts /\ n \in Nat
    BY <2>3, PlainIsText, Terminated
  <2>5. needed \in Nat /\ n <= needed /\ n <= Len(w) /\ Len(w) <= needed
    BY <2>3, <2>4
  <2>6. QED
    BY <1>2, <1>3, <1>5, <2>1, <2>2, <2>3, <2>4, <2>5, EndShows, Zenon
<1>12. CASE item.type = "String" /\ print_string_ptr(item.value, <<>>)
  <2>1. ValueText(item, lists) = Quoted(item.value)
    BY <1>12, Zenon DEF ValueText
  <2>2. Quoted(item.value) = Quoted(item.value) \o <<>>
    BY <1>8, QuotedIsPlain, NothingBefore, Zenon
  <2>3. PICK next : next = <<>>
    OBVIOUS
  <2>4. /\ Stack(next) /\ Does(heap, next, <<>>)
        /\ next # <<>> => Last(next).at \in Waiting \cup {"colon"}
    BY <2>3, NoCalls, NothingDone, Zenon
  <2>5. /\ print_string_ptr(item.value, next)
        /\ Remaining(heap, Last(calls)) = Quoted(item.value) \o <<>>
    BY <1>5, <1>12, <2>1, <2>2, <2>3, Zenon
  <2>6. QED
    BY <1>2, <1>3, <1>8, <2>4, <2>5, StringShows, Zenon
<1>13. CASE item.type = "Array" /\ Emit(printer, 1, <<"[">>, 1, NextElement(child))
  <2>1. PICK b, l, c : b = "[" /\ l = ListText(lists, child, "Array") /\ c = <<"]">>
    BY Zenon
  <2>2. b \in Letters /\ <<b>> \in Plain /\ l \in Plain /\ c \in Plain
    BY <1>7, <2>1, MarksArePlain, LiteralsAreLetters, Zenon DEF Literals
  <2>3. ValueText(item, lists) = (<<b>> \o l) \o c
    BY <1>13, <2>1, Zenon DEF ValueText
  <2>4. (<<b>> \o l) \o c = <<b>> \o (l \o c)
    BY <2>2, Associates, Zenon
  <2>5. Does(heap, NextElement(child), l \o c)
    BY <1>6, <2>1, NextDone, Zenon
  <2>6. /\ Stack(NextElement(child)) /\ NextElement(child) # <<>>
        /\ Last(NextElement(child)).at \notin Waiting \cup {"colon"}
    BY <1>8, Pushed DEF Waiting
  <2>7. Remaining(heap, Last(calls)) = <<b>> \o (l \o c)
    BY <1>5, <2>3, <2>4, Zenon
  <2>8. 1 \in {1, 2} /\ Emit(printer, 1, <<b>>, 1, NextElement(child))
    BY <1>13, <2>1, Zenon
  <2>9. QED
    BY <1>2, <1>3, <2>2, <2>5, <2>6, <2>7, <2>8, LetterShows, Zenon
<1>14. CASE item.type = "Object" /\ Emit(printer, 2, <<"{">>, 1, NextField(child))
  <2>1. PICK b, l, c : b = "{" /\ l = ListText(lists, child, "Object") /\ c = <<"}">>
    BY Zenon
  <2>2. b \in Letters /\ <<b>> \in Plain /\ l \in Plain /\ c \in Plain
    BY <1>7, <2>1, MarksArePlain, LiteralsAreLetters, Zenon DEF Literals
  <2>3. ValueText(item, lists) = (<<b>> \o l) \o c
    BY <1>14, <2>1, Zenon DEF ValueText
  <2>4. (<<b>> \o l) \o c = <<b>> \o (l \o c)
    BY <2>2, Associates, Zenon
  <2>5. Does(heap, NextField(child), l \o c)
    BY <1>6, <2>1, NextDone, Zenon
  <2>6. /\ Stack(NextField(child)) /\ NextField(child) # <<>>
        /\ Last(NextField(child)).at \notin Waiting \cup {"colon"}
    BY <1>8, Pushed DEF Waiting
  <2>7. Remaining(heap, Last(calls)) = <<b>> \o (l \o c)
    BY <1>5, <2>3, <2>4, Zenon
  <2>8. 2 \in {1, 2} /\ Emit(printer, 2, <<b>>, 1, NextField(child))
    BY <1>14, <2>1, Zenon
  <2>9. QED
    BY <1>2, <1>3, <2>2, <2>5, <2>6, <2>7, <2>8, LetterShows, Zenon
<1>15. QED
  BY <1>9, <1>10, <1>11, <1>12, <1>13, <1>14, Zenon DEF print_value

(* The state in which a call goes on after what it waited for.             *)
LEMMA Resumed ==
  ASSUME PInv, QInv, NEW at \in Waiting \cup {"colon"}, Doing(at)
  PROVE  LET p == update_offset(printer)
         IN  \E t, x \in Plain :
               /\ Going(t, x) /\ HoldsEnded(printer, t)
               /\ p \in Sound /\ Ready(p) /\ Holds(p, t) /\ p.bytes = printer.bytes
<1>1. PICK t, x \in Plain : Going(t, x) /\ Shows(at, printer, t)
  BY Shown, Zenon
<1>2. HoldsEnded(printer, t) /\ printer \in Sound
  BY <1>1, Shown, Zenon DEF Shows
<1>3. QED
  BY <1>1, <1>2, EndIsFound, Zenon

LEMMA ElementShows ==
  ASSUME IInv, PInv, QInv, print_array
  PROVE  QInv'
<1> DEFINE p == update_offset(printer)
           item == heap[Item]
           next == item.next
           lists == ListTexts(heap)
<1>1. Doing("element") /\ "element" \in Waiting
  BY Zenon DEF print_array, Waiting
<1>2. PICK t, x : Going(t, x) /\ p \in Sound /\ Ready(p) /\ Holds(p, t)
  BY <1>1, Resumed, Zenon
<1>3. /\ Item \in Allocated(heap) /\ Item \in Items
      /\ Last(calls).at = "element" /\ Last(calls).item = Item
  BY <1>1, Shown, Zenon
<1>4. /\ heap \in [Items -> Cells] /\ Ascending(heap) /\ TypeOK
      /\ next \in Allocated(heap) \/ next = Null
  BY <1>3, HeapIs, Zenon DEF Ascending
<1>5. PICK l, c : l = ListText(lists, next, "Array") /\ c = <<"]">>
  BY Zenon
<1>6. l \in Plain /\ c \in Plain
  BY <1>3, <1>4, <1>5, TextsArePlain, MarksArePlain, Zenon
<1>7. Does(heap, NextElement(next), l \o c)
  BY <1>4, <1>5, NextDone, Zenon
<1>8. Remaining(heap, Last(calls)) = RestText(item, lists, "Array") \o c
  BY <1>3, <1>5, FramePrints, Zenon
<1>9. PICK comma \in Plain : /\ comma = IF next = Null THEN <<>> ELSE <<",">>
                             /\ Remaining(heap, Last(calls)) = comma \o (l \o c)
  <2>1. /\ Comma(item) \in Plain
        /\ RestText(item, lists, "Array") \o c = Comma(item) \o (l \o c)
    <3>1. ListText(lists, next, "Array") \in Plain
      BY <1>5, <1>6, Zenon
    <3>2. Continues(item, lists, "Array", c)
      BY <1>6, <3>1, RestIs, Zenon
    <3>3. QED
      BY <1>5, <3>2, Zenon DEF Continues
  <2>2. QED
    BY <1>8, <2>1, Zenon DEF Comma
<1>10. next \in Pointers
  BY <1>3, <1>4, ItemIs
<1>11. /\ Stack(NextElement(next)) /\ NextElement(next) # <<>>
       /\ Last(NextElement(next)).at \notin Waiting \cup {"colon"}
  BY <1>10, Pushed DEF Waiting
<1>12. CASE next # Null /\ Emit(p, 2, <<",", NUL>>, 1, NextElement(next))
  <2>1. PICK b, chars : b = "," /\ chars = <<b, NUL>>
    BY Zenon
  <2>2. comma = <<b>> /\ Emit(p, 2, chars, 1, NextElement(next)) /\ b \in Letters
    BY <1>9, <1>12, <2>1, LiteralsAreLetters, Zenon DEF Literals
  <2>3. Len(comma) = 1 /\ chars = Append(comma, NUL)
    BY <2>1, <2>2, LetterIs, Zenon
  <2>4. 2 = 1 + 1 /\ 1 = Len(comma)
    BY <2>3
  <2>5. PICK n : n = 1
    OBVIOUS
  <2>6. Emit(p, n + 1, chars, n, NextElement(next)) /\ n = Len(comma)
    BY <2>2, <2>4, <2>5, Zenon
  <2>7. QED
    BY <1>2, <1>7, <1>9, <1>11, <2>3, <2>6, CommaShows, Zenon
<1>13. CASE /\ next = Null /\ printer' = p /\ Return(NextElement(next))
            /\ UNCHANGED <<vars, text>>
  <2>1. comma = <<>> /\ t \in Plain
    BY <1>2, <1>9, <1>13, Zenon DEF Going
  <2>2. t \o comma = t
    BY <2>1, NothingBefore, Zenon
  <2>3. Leads(p, NextElement(next), t \o comma)
    BY <1>2, <1>11, <2>2, Zenon DEF Leads, Shows
  <2> HIDE DEF p
  <2>4. QED
    BY <1>2, <1>7, <1>9, <1>11, <1>13, <2>3, Returning, Zenon
<1>14. QED
  BY <1>12, <1>13, Zenon DEF print_array

LEMMA FieldShows ==
  ASSUME IInv, PInv, QInv, print_object
  PROVE  QInv'
<1> DEFINE p == update_offset(printer)
           item == heap[Item]
           next == item.next
           lists == ListTexts(heap)
<1>1. Doing("field") /\ "field" \in Waiting
  BY Zenon DEF print_object, Waiting
<1>2. PICK t, x : Going(t, x) /\ p \in Sound /\ Ready(p) /\ Holds(p, t)
  BY <1>1, Resumed, Zenon
<1>3. /\ Item \in Allocated(heap) /\ Item \in Items
      /\ Last(calls).at = "field" /\ Last(calls).item = Item
  BY <1>1, Shown, Zenon
<1>4. /\ heap \in [Items -> Cells] /\ Ascending(heap) /\ TypeOK
      /\ next \in Allocated(heap) \/ next = Null
  BY <1>3, HeapIs, Zenon DEF Ascending
<1>5. PICK l, c : l = ListText(lists, next, "Object") /\ c = <<"}">>
  BY Zenon
<1>6. l \in Plain /\ c \in Plain
  BY <1>3, <1>4, <1>5, TextsArePlain, MarksArePlain, Zenon
<1>7. Does(heap, NextField(next), l \o c)
  BY <1>4, <1>5, NextDone, Zenon
<1>8. Remaining(heap, Last(calls)) = RestText(item, lists, "Object") \o c
  BY <1>3, <1>5, FramePrints, Zenon
<1>9. PICK comma \in Plain : /\ comma = IF next = Null THEN <<>> ELSE <<",">>
                             /\ Remaining(heap, Last(calls)) = comma \o (l \o c)
  <2>1. /\ Comma(item) \in Plain
        /\ RestText(item, lists, "Object") \o c = Comma(item) \o (l \o c)
    <3>1. ListText(lists, next, "Object") \in Plain
      BY <1>5, <1>6, Zenon
    <3>2. Continues(item, lists, "Object", c)
      BY <1>6, <3>1, RestIs, Zenon
    <3>3. QED
      BY <1>5, <3>2, Zenon DEF Continues
  <2>2. QED
    BY <1>8, <2>1, Zenon DEF Comma
<1>10. next \in Pointers
  BY <1>3, <1>4, ItemIs
<1>11. /\ Stack(NextField(next)) /\ NextField(next) # <<>>
       /\ Last(NextField(next)).at \notin Waiting \cup {"colon"}
  BY <1>10, Pushed DEF Waiting
<1>12. PICK n, chars : n = Len(comma) /\ chars = Append(comma, NUL)
  OBVIOUS
<1>13. Emit(p, n + 1, chars, n, NextField(next))
  BY <1>9, <1>12, Zenon DEF print_object, AfterField
<1>14. QED
  BY <1>2, <1>7, <1>9, <1>11, <1>12, <1>13, CommaShows, Zenon

LEMMA KeyShows ==
  ASSUME IInv, PInv, QInv, print_key
  PROVE  QInv'
<1> DEFINE name == heap[Item].string
           next == <<Call("colon", Item)>>
<1>1. Doing("key") /\ "key" \notin Waiting \cup {"colon"}
  BY Zenon DEF print_key, Waiting
<1>2. PICK t, x : Going(t, x) /\ Shows("key", printer, t)
  BY <1>1, Shown, Zenon
<1>3. Ready(printer) /\ Holds(printer, t)
  BY <1>1, <1>2, Zenon DEF Shows
<1>4. /\ Item \in Allocated(heap) /\ Item \in Items
      /\ Last(calls).at = "key" /\ Last(calls).item = Item
  BY <1>1, Shown, Zenon
<1>5. heap \in [Items -> Cells] /\ Ascending(heap) /\ TypeOK
  BY HeapIs, Zenon
<1>6. name \in Plain
  BY <1>4, <1>5, ItemIs
<1>7. PICK b, v : b = <<":">> /\ v = TextOf(heap, Item)
  BY Zenon
<1>8. b \in Plain /\ v \in Plain /\ Quoted(name) \in Plain
  BY <1>4, <1>5, <1>6, <1>7, MarksArePlain, TextsArePlain, QuotedIsPlain, Zenon
<1>9. Remaining(heap, Last(calls)) = (Quoted(name) \o b) \o v
  <2>1. Remaining(heap, Last(calls)) = NameText(heap[Item]) \o v
    BY <1>4, <1>7, FramePrints, Zenon
  <2>2. QED
    BY <1>7, <2>1, Zenon DEF NameText
<1>10. (Quoted(name) \o b) \o v = Quoted(name) \o (b \o v)
  BY <1>8, Associates, Zenon
<1>11. Does(heap, next, b \o v)
  <2>1. PICK c : c = Call("colon", Item)
    OBVIOUS
  <2>2. (\A n : FrameOf(heap, c, n)) /\ c.at = "colon" /\ c.item = Item
    BY <1>4, <2>1, CallIs, Zenon
  <2>3. Remaining(heap, c) = b \o v
    BY <1>7, <2>2, FramePrints, Zenon
  <2>4. Does(heap, <<c>>, Remaining(heap, c))
    BY <1>5, <2>2, OneDone, Zenon
  <2>5. QED
    BY <2>1, <2>3, <2>4, Zenon
<1>12. Stack(next) /\ (next # <<>> => Last(next).at \in Waiting \cup {"colon"})
  BY <1>4, PushedOne, Zenon
<1>13. print_string_ptr(name, next)
  BY Zenon DEF print_key
<1>14. Remaining(heap, Last(calls)) = Quoted(name) \o (b \o v)
  BY <1>9, <1>10, Zenon
<1> HIDE DEF name, next
<1>15. QED
  BY <1>2, <1>3, <1>6, <1>11, <1>12, <1>13, <1>14, StringShows, Zenon

LEMMA ColonShows ==
  ASSUME IInv, PInv, QInv, print_colon
  PROVE  QInv'
<1> DEFINE p == update_offset(printer)
           next == <<Call("value", Item)>>
<1>1. Doing("colon")
  BY Zenon DEF print_colon
<1>2. PICK t, x : Going(t, x) /\ p \in Sound /\ Ready(p) /\ Holds(p, t)
  BY <1>1, Resumed, Zenon
<1>3. /\ Item \in Allocated(heap) /\ Item \in Items
      /\ Last(calls).at = "colon" /\ Last(calls).item = Item
  BY <1>1, Shown, Zenon
<1>4. heap \in [Items -> Cells] /\ Ascending(heap)
  BY HeapIs, Zenon
<1>5. PICK b, v : b = ":" /\ v = TextOf(heap, Item)
  BY Zenon
<1>6. b \in Letters
  BY <1>5, LiteralsAreLetters, Zenon DEF Literals
<1>7. Remaining(heap, Last(calls)) = <<b>> \o v
  BY <1>3, <1>5, FramePrints, Zenon
<1>8. Does(heap, next, v)
  <2>1. PICK c : c = Call("value", Item)
    OBVIOUS
  <2>2. (\A n : FrameOf(heap, c, n)) /\ c.at = "value" /\ c.item = Item
    BY <1>3, <2>1, CallIs, Zenon
  <2>3. Remaining(heap, c) = v
    BY <1>5, <2>2, FramePrints, Zenon
  <2>4. Does(heap, <<c>>, Remaining(heap, c))
    BY <1>4, <2>2, OneDone, Zenon
  <2>5. QED
    BY <2>1, <2>3, <2>4, Zenon
<1>9. Stack(next) /\ next # <<>> /\ Last(next).at \notin Waiting \cup {"colon"}
  <2>1. Stack(next) /\ next # <<>> /\ Last(next).at = "value"
    BY <1>3, PushedOne, Zenon
  <2> HIDE DEF next
  <2>2. QED
    BY <2>1 DEF Waiting
<1>10. 1 \in {1, 2} /\ Emit(p, 1, <<b>>, 1, next)
  BY <1>5, Zenon DEF print_colon
<1> HIDE DEF p, next
<1>11. QED
  BY <1>2, <1>6, <1>7, <1>8, <1>9, <1>10, LetterShows, Zenon

LEMMA EndingShows ==
  ASSUME PInv, QInv, print_end
  PROVE  QInv'
<1>1. "bracket" \notin Waiting \cup {"colon"} /\ "brace" \notin Waiting \cup {"colon"}
  BY DEF Waiting
<1>2. PICK b, c : b = "]" /\ c = "}"
  BY Zenon
<1>3. b \in Letters /\ c \in Letters
  BY <1>2, LiteralsAreLetters, Zenon DEF Literals
<1>4. CASE Doing("bracket") /\ Emit(printer, 2, <<"]", NUL>>, 0, <<>>)
  <2>1. PICK t, x : Going(t, x) /\ Shows("bracket", printer, t)
    BY <1>4, Shown, Zenon
  <2>2. Ready(printer) /\ Holds(printer, t) /\ Last(calls).at = "bracket"
    BY <1>1, <1>4, <2>1, Shown, Zenon DEF Shows
  <2>3. Remaining(heap, Last(calls)) = <<b>>
    BY <1>2, <2>2, FramePrints, Zenon
  <2>4. Emit(printer, 2, <<b, NUL>>, 0, <<>>)
    BY <1>2, <1>4, Zenon
  <2>5. QED
    BY <1>3, <2>1, <2>2, <2>3, <2>4, CloseShows, Zenon
<1>5. CASE Doing("brace") /\ Emit(printer, 2, <<"}", NUL>>, 0, <<>>)
  <2>1. PICK t, x : Going(t, x) /\ Shows("brace", printer, t)
    BY <1>5, Shown, Zenon
  <2>2. Ready(printer) /\ Holds(printer, t) /\ Last(calls).at = "brace"
    BY <1>1, <1>5, <2>1, Shown, Zenon DEF Shows
  <2>3. Remaining(heap, Last(calls)) = <<c>>
    BY <1>2, <2>2, FramePrints, Zenon
  <2>4. Emit(printer, 2, <<c, NUL>>, 0, <<>>)
    BY <1>2, <1>5, Zenon
  <2>5. QED
    BY <1>3, <2>1, <2>2, <2>3, <2>4, CloseShows, Zenon
<1>6. QED
  BY <1>4, <1>5, Zenon DEF print_end

LEMMA StartShows ==
  ASSUME IInv, PInv, QInv, print_start
  PROVE  QInv'
<1>1. phase = "built" /\ text = <<>> /\ calls = <<>>
  BY DEF print_start
<1>2. CASE GiveUp(printer)
  BY <1>2, GivenUpShows
<1>3. CASE /\ printer' = Buffer(BufferSize)
           /\ calls' = <<Call("print", response), Call("value", response)>>
           /\ UNCHANGED <<vars, text>>
  <2>1. PICK c, d : c = Call("print", response) /\ d = Call("value", response)
    OBVIOUS
  <2>2. /\ heap \in [Items -> Cells] /\ Ascending(heap)
        /\ response \in Allocated(heap) /\ response \in Items
    BY <1>1, HeapIs DEF Allocated
  <2>3. /\ c \in Frames /\ c.at = "print" /\ c.item = response
        /\ d \in Frames /\ d.at = "value" /\ d.item = response
    BY <2>1, <2>2 DEF Frames, Call, Waiting
  <2>4. PICK v : v = TextOf(heap, response)
    OBVIOUS
  <2>5. Remaining(heap, c) = <<>> /\ Remaining(heap, d) = v /\ v \in Plain
    BY <2>2, <2>3, <2>4, FramePrints, TextsArePlain, Zenon
  <2>6. PICK s : s = <<>>
    OBVIOUS
  <2>7. Len(s) + 1 = 1 /\ ~(1 > 1) /\ Append(Append(s, c), d) = <<c, d>>
    <3>1. s \in Seq(Frames) /\ Len(s) = 0
      BY <2>6, EmptySeq
    <3>2. s \o <<c, d>> = Append(Append(s, c), d)
      BY <2>3, <3>1
    <3>3. <<c, d>> \in Seq(Frames)
      BY <2>3
    <3>4. <<>> \o <<c, d>> = <<c, d>>
      BY <3>3, ConcatEmptySeq, Zenon
    <3>5. Len(s) + 1 = 1 /\ ~(1 > 1)
      BY <3>1
    <3>6. QED
      BY <2>6, <3>2, <3>4, <3>5, Zenon
  <2>8. FrameOf(heap, c, Len(s) + 1) /\ \A n : FrameOf(heap, d, n)
    <3>1. FrameOf(heap, c, 1)
      BY <2>2, <2>3, <2>7, Zenon DEF FrameOf
    <3>2. d.at # "print"
      BY <2>3
    <3>3. QED
      BY <2>2, <2>3, <2>7, <3>1, <3>2, Zenon DEF FrameOf
  <2>9. Leaves(heap, s, <<>>)
    BY <2>6, NothingLeaves, Zenon
  <2>10. Leaves(heap, Append(s, c), <<>> \o <<>>)
    BY <2>2, <2>5, <2>8, <2>9, OnePushed, Zenon
  <2>11. Leaves(heap, Append(Append(s, c), d), v \o (<<>> \o <<>>))
    BY <2>2, <2>5, <2>8, <2>10, OnePushed, Zenon
  <2>12. <<>> \o <<>> = <<>> /\ v \o <<>> = v /\ <<>> \o v = v
    BY <2>5, EmptyIsPlain, NothingBefore, Zenon
  <2>13. Leaves(heap, <<c, d>>, v)
    BY <2>7, <2>11, <2>12, Zenon
  <2>14. calls' = <<c, d>> /\ calls' # <<>> /\ Last(calls') = d
    <3>1. calls' = <<c, d>>
      BY <1>3, <2>1, Zenon
    <3>2. <<c, d>> # <<>> /\ Last(<<c, d>>) = d
      BY SMT DEF Last
    <3>3. QED
      BY <3>1, <3>2, Zenon
  <2>15. Shows("value", printer', <<>>)
    <3>1. PInv'
      BY <2>2, StartKeeps
    <3>2. Ready(printer')
      <4>1. GoesOn("value", printer')
        BY <2>3, <2>14, <3>1, Zenon DEF PInv, Keeps
      <4>2. QED
        BY <4>1 DEF GoesOn, Waiting
    <3>3. Offset(printer') = 0 /\ Len(<<>>) = 0
      BY <1>3 DEF Buffer, Offset
    <3>4. Holds(printer', <<>>)
      BY <3>3 DEF Holds, Begins
    <3>5. "value" \notin Waiting \cup {"colon"}
      BY DEF Waiting
    <3>6. QED
      BY <3>2, <3>4, <3>5, Zenon DEF Shows
  <2>16. phase' = phase /\ heap' = heap /\ response' = response /\ text' = text
    BY <1>3 DEF vars
  <2>17. Halfway(heap, TextOf(heap, response), printer, calls)'
    <3>1. Halfway(heap, v, printer', calls')
      BY <2>3, <2>5, <2>12, <2>13, <2>14, <2>15, EmptyIsPlain, Zenon DEF Halfway
    <3>2. QED
      BY <2>4, <2>16, <3>1, Zenon
  <2>18. PrintedIsDocument'
    BY <1>1, <2>16, Zenon DEF PrintedIsDocument
  <2>19. QED
    BY <1>1, <2>16, <2>17, <2>18, Zenon DEF QInv
<1>4. QED
  BY <1>2, <1>3, Zenon DEF print_start

(* What is cut out of the buffer at the end.                               *)
LEMMA Cut ==
  ASSUME NEW p \in Sound, NEW t \in Plain, HoldsEnded(p, t)
  PROVE  SubSeq(p.bytes, 1, Len(t) + 1) = Append(t, NUL)
<1> DEFINE b == p.bytes
           n == Len(t)
           u == SubSeq(b, 1, n + 1)
           v == Append(t, NUL)
<1>1. n \in Nat /\ b \in Seq(Bytes) /\ Len(b) \in Nat /\ n < Len(b) /\ b[n + 1] = NUL
      /\ \A k \in 1 .. n : b[k] = t[k]
  <2>1. n \in Nat /\ b \in Seq(Bytes)
    BY PlainIsText, Terminated, SoundIs DEF Texts
  <2>2. QED
    BY <2>1, LenProperties, Zenon DEF HoldsEnded, Begins, Size
<1>2. /\ v \in Seq(Bytes) /\ Len(v) = n + 1 /\ v[n + 1] = NUL
      /\ \A k \in 1 .. n : v[k] = t[k]
  BY PlainIsText, NulIsNoLetter, AppendProperties DEF Texts
<1> HIDE DEF b, n, v
<1>3. PICK m : m = n + 1
  OBVIOUS
<1>4. m \in Int /\ 1 \in Int /\ \A k \in 1 .. m : b[k] \in Bytes
  <2>1. \A k \in 1 .. m : k \in 1 .. Len(b)
    BY <1>1, <1>3
  <2>2. QED
    BY <1>1, <1>3, <2>1, ElementOfSeq
<1>5. /\ SubSeq(b, 1, m) \in Seq(Bytes)
      /\ Len(SubSeq(b, 1, m)) = IF 1 <= m THEN m - 1 + 1 ELSE 0
      /\ \A k \in 1 .. m - 1 + 1 : SubSeq(b, 1, m)[k] = b[1 + k - 1]
  BY <1>4, SubSeqProperties
<1>6. /\ (IF 1 <= m THEN m - 1 + 1 ELSE 0) = m /\ m - 1 + 1 = m
      /\ \A k \in 1 .. m : 1 + k - 1 = k
  BY <1>1, <1>3
<1>7. Len(SubSeq(b, 1, m)) = m /\ \A k \in 1 .. m : SubSeq(b, 1, m)[k] = b[k]
  BY <1>5, <1>6
<1>8. \A k \in 1 .. m : b[k] = v[k]
  <2>1. \A k \in 1 .. m : k \in 1 .. n \/ k = m
    BY <1>1, <1>3
  <2>2. QED
    BY <1>1, <1>2, <1>3, <2>1, Zenon
<1>9. SubSeq(b, 1, m) = v
  <2>1. PICK w : w = SubSeq(b, 1, m)
    OBVIOUS
  <2>2. w \in Seq(Bytes) /\ Len(w) = Len(v) /\ \A k \in 1 .. Len(w) : w[k] = v[k]
    BY <1>2, <1>3, <1>5, <1>7, <1>8, <2>1, Zenon
  <2>3. w = v
    BY <1>2, <2>2, SeqEqual
  <2>4. QED
    BY <2>1, <2>3
<1>10. QED
  BY <1>3, <1>9, Zenon DEF b, n, v

LEMMA PrintShows ==
  ASSUME IInv, PInv, QInv, print
  PROVE  QInv'
<1> DEFINE p == update_offset(printer)
<1>1. Doing("print") /\ "print" \in Waiting \cup {"colon"}
  BY Zenon DEF print, Waiting
<1>2. PICK t, x \in Plain : /\ Going(t, x) /\ HoldsEnded(printer, t)
                            /\ Holds(p, t) /\ p.bytes = printer.bytes
  BY <1>1, Resumed, Zenon
<1>3. Last(calls).at = "print" /\ printer \in Sound
  BY <1>1, Shown, Zenon
<1> HIDE DEF p
<1>4. /\ Leaves(heap, calls, x) /\ calls # <<>> /\ t \o x = TextOf(heap, response)
      /\ phase = "built"
  BY <1>2, Zenon DEF Going, QInv
<1>5. x = <<>>
  <2>1. Remaining(heap, Last(calls)) = <<>>
    BY <1>3, FramePrints, Zenon
  <2>2. PICK y \in Plain : Leaves(heap, Front(calls), y) /\ x = <<>> \o y
    <3>1. Pops(heap, calls, x)
      BY <1>4, Popped, Zenon
    <3>2. QED
      BY <2>1, <3>1, Zenon DEF Pops
  <2>3. calls \in Seq(Frames) /\ \A n \in 1 .. Len(calls) : FrameOf(heap, calls[n], n)
    BY <1>4 DEF Leaves
  <2>4. Len(calls) \in 1 .. Len(calls) /\ Len(calls) \in Nat
    BY <1>4, <2>3, EmptySeq, LenProperties
  <2>5. FrameOf(heap, Last(calls), Len(calls))
    BY <2>3, <2>4, Zenon DEF Last
  <2>6. Len(calls) = 1
    <3>1. PICK n : n = Len(calls)
      OBVIOUS
    <3>2. n \in Nat /\ n \in 1 .. n /\ ~(n > 1)
      BY <1>3, <2>4, <2>5, <3>1, Zenon DEF FrameOf
    <3>3. n = 1
      BY <3>2
    <3>4. QED
      BY <3>1, <3>3
  <2>7. Len(Front(calls)) = 0
    BY <1>4, <2>3, <2>6, FrontIs
  <2>8. y = <<>>
    BY <2>2, <2>7 DEF Leaves
  <2>9. QED
    BY <2>2, <2>8, EmptyIsPlain, NothingBefore, Zenon
<1>6. t = TextOf(heap, response)
  BY <1>4, <1>5, NothingBefore, Zenon
<1>7. CASE GiveUp(p)
  BY <1>7, GivenUpShows
<1>8. CASE /\ printer' = Released(p) /\ calls' = <<>>
           /\ text' = <<SubSeq(p.bytes, 1, p.offset + 1)>> /\ UNCHANGED vars
  <2>1. phase' = phase /\ heap' = heap /\ response' = response
    BY <1>8 DEF vars
  <2>2. p.offset = Len(t)
    BY <1>2, Zenon DEF Holds, Offset
  <2>3. text' = <<Append(t, NUL)>>
    BY <1>2, <1>3, <1>8, <2>2, Cut, Zenon
  <2>4. PrintedIsDocument'
    BY <1>6, <2>1, <2>3, Zenon DEF PrintedIsDocument
  <2>5. Halfway(heap, TextOf(heap, response), printer, calls)'
    BY <1>8, Zenon DEF Halfway
  <2>6. QED
    BY <1>4, <1>8, <2>1, <2>4, <2>5, Zenon DEF QInv
<1>9. QED
  BY <1>7, <1>8, Zenon DEF print, p

LEMMA QInvInit == TextInit => QInv
BY DEF TextInit, QInv, PrintedIsDocument, Halfway

LEMMA BuildIs ==
  ASSUME Build
  PROVE  phase \in {"idle", "build"}
<1>1. CASE \E i \in Items :
             \/ CreateResponse(i)
             \/ \E name \in Names :
                  \/ \E value \in Strings : AddField(i, name, "String", value)
                  \/ \E value \in Numbers : AddField(i, name, "Number", value)
                  \/ \E type \in {"True", "False"} : AddField(i, name, type, NoValue)
                  \/ \E type \in {"Object", "Array"} : OpenField(i, name, type)
             \/ OpenElement(i)
             \/ NoMemoryForName(i)
  BY <1>1, Zenon DEF CreateResponse, AddField, OpenField, OpenElement, NoMemoryForName, Building
<1>2. CASE CloseBlock \/ EndJson \/ NoMemoryForItem
  BY <1>2, Zenon DEF CloseBlock, EndJson, NoMemoryForItem, Building
<1>3. QED
  BY <1>1, <1>2, Zenon DEF Build

LEMMA QInvNext == IInv /\ PInv /\ QInv /\ [TextNext]_<<vars, textVars>> => QInv'
<1>1. SUFFICES ASSUME IInv, PInv, QInv, [TextNext]_<<vars, textVars>>
              PROVE  QInv'
  OBVIOUS
<1>2. CASE WriteJson
  BY <1>1, <1>2, StartShows, ValueShows, ElementShows, KeyShows, ColonShows, FieldShows,
    EndingShows, PrintShows, Zenon DEF WriteJson
<1>3. CASE calls = <<>> /\ text = <<>> /\ calls' = <<>> /\ text' = <<>>
  BY <1>3, Zenon DEF QInv, PrintedIsDocument, Halfway
<1>4. CASE Build /\ UNCHANGED textVars
  <2>1. phase # "built" /\ phase # "aborted"
    BY <1>4, BuildIs
  <2>2. calls = <<>> /\ text = <<>>
    BY <1>1, <2>1 DEF QInv
  <2>3. QED
    BY <1>3, <1>4, <2>2, Zenon DEF textVars
<1>5. CASE Discard
  BY <1>5, Zenon DEF Discard, QInv, PrintedIsDocument, Halfway
<1>6. CASE calls = <<>> /\ Abort /\ UNCHANGED textVars
  BY <1>1, <1>6, AbortKeeps DEF textVars
<1>7. CASE UNCHANGED <<vars, textVars>>
  <2>1. /\ phase' = phase /\ heap' = heap /\ response' = response
        /\ printer' = printer /\ calls' = calls /\ text' = text
    BY <1>7 DEF vars, textVars
  <2>2. QED
    BY <1>1, <2>1, Zenon DEF QInv, PrintedIsDocument
<1>8. CASE Stopped /\ UNCHANGED textVars
  BY <1>7, <1>8, Zenon DEF Stopped
<1>9. QED
  BY <1>1, <1>2, <1>4, <1>5, <1>6, <1>7, <1>8, Zenon DEF TextNext

(* The text in the packet is the document the items stand for, whatever    *)
(* its names, strings and numbers, its depth and its size, and wherever    *)
(* the buffer had to grow.                                                 *)
THEOREM TextIsDocument == TextSpec => []PrintedIsDocument
<1>1. QInv => PrintedIsDocument
  BY DEF QInv
<1>2. TextSpec => []IInv
  BY PrinterKeepsItems, InvariantHolds
<1>3. QED
  BY <1>1, <1>2, PInvInit, PInvNext, QInvInit, QInvNext, PTL DEF TextSpec

-----------------------------------------------------------------------------
(* The documents of linked items.                                          *)

LEMMA Prepended ==
  ASSUME NEW S, NEW d \in S, NEW t \in Seq(S)
  PROVE  /\ <<d>> \o t \in Seq(S) /\ Len(<<d>> \o t) = Len(t) + 1
         /\ (<<d>> \o t)[1] = d
         /\ \A k \in 1 .. Len(t) : (<<d>> \o t)[k + 1] = t[k]
<1>1. <<d>> \in Seq(S) /\ Len(<<d>>) = 1 /\ <<d>>[1] = d
  BY SMT
<1>2. Len(t) \in Nat
  BY LenProperties
<1>3. PICK u : u = <<d>>
  OBVIOUS
<1>4. u \in Seq(S) /\ Len(u) = 1 /\ u[1] = d
  BY <1>1, <1>3
<1>5. /\ u \o t \in Seq(S) /\ Len(u \o t) = Len(t) + 1
      /\ (u \o t)[1] = d
      /\ \A k \in 1 .. Len(t) : (u \o t)[k + 1] = t[k]
  BY <1>2, <1>4, ConcatProperties, SMT
<1>6. QED
  BY <1>3, <1>5

LEMMA WithoutLast ==
  ASSUME NEW S, NEW s \in Seq(S), s # <<>>
  PROVE  /\ Front(s) \in Seq(S) /\ Len(Front(s)) = Len(s) - 1
         /\ \A k \in 1 .. Len(s) - 1 : Front(s)[k] = s[k]
<1>1. PICK m : m = Len(s) - 1
  OBVIOUS
<1>2. Len(s) \in Nat /\ Len(s) # 0 /\ \A k \in 1 .. Len(s) : s[k] \in S
  BY EmptySeq, LenProperties
<1>3. m \in Nat /\ \A k \in 1 .. m : k \in 1 .. Len(s)
  BY <1>1, <1>2
<1>4. Front(s) = SubSeq(s, 1, m) /\ m \in Int /\ 1 \in Int /\ \A k \in 1 .. m : s[k] \in S
  BY <1>1, <1>2, <1>3 DEF Front
<1>5. /\ SubSeq(s, 1, m) \in Seq(S)
      /\ Len(SubSeq(s, 1, m)) = IF 1 <= m THEN m - 1 + 1 ELSE 0
      /\ \A k \in 1 .. m - 1 + 1 : SubSeq(s, 1, m)[k] = s[1 + k - 1]
  BY <1>4, SubSeqProperties
<1>6. QED
  BY <1>1, <1>3, <1>4, <1>5

LEMMA PrependedAppend ==
  ASSUME NEW S, NEW d \in S, NEW t \in Seq(S), NEW x \in S
  PROVE  Append(<<d>> \o t, x) = <<d>> \o Append(t, x)
<1>1. PICK a, b, u : a = <<d>> /\ b = <<x>> /\ u = <<d>> \o t
  OBVIOUS
<1>2. a \in Seq(S) /\ b \in Seq(S)
  BY <1>1, SMT
<1>3. (a \o t) \o b = a \o (t \o b)
  BY <1>2, ConcatAssociative
<1>4. Append(t, x) = t \o b
  BY <1>1, AppendIsConcat
<1>5. u \in Seq(S)
  BY <1>1, Prepended
<1>6. Append(u, x) = u \o b
  BY <1>1, <1>5, AppendIsConcat
<1>7. QED
  BY <1>1, <1>3, <1>4, <1>6, Zenon

(* The end of a list with one item before it.                              *)
LEMMA PrependedEnd ==
  ASSUME NEW S, NEW d \in S, NEW t \in Seq(S), t # <<>>
  PROVE  /\ Front(<<d>> \o t) = <<d>> \o Front(t)
         /\ Last(<<d>> \o t) = Last(t)
<1>1. PICK u : u = <<d>> \o t
  OBVIOUS
<1>2. /\ u \in Seq(S) /\ Len(u) = Len(t) + 1
      /\ u[1] = d /\ \A k \in 1 .. Len(t) : u[k + 1] = t[k]
  BY <1>1, Prepended
<1>3. Len(t) \in Nat \ {0}
  BY LenProperties, EmptySeq
<1>4. u # <<>>
  BY <1>2, <1>3, EmptySeq
<1>5. PICK f, r : f = Front(t) /\ r = Front(u)
  OBVIOUS
<1>6. /\ f \in Seq(S) /\ Len(f) = Len(t) - 1 /\ \A k \in 1 .. Len(t) - 1 : f[k] = t[k]
      /\ r \in Seq(S) /\ Len(r) = Len(u) - 1 /\ \A k \in 1 .. Len(u) - 1 : r[k] = u[k]
  BY <1>2, <1>4, <1>5, WithoutLast
<1>7. PICK v : v = <<d>> \o f
  OBVIOUS
<1>8. /\ v \in Seq(S) /\ Len(v) = Len(f) + 1
      /\ v[1] = d /\ \A k \in 1 .. Len(f) : v[k + 1] = f[k]
  BY <1>6, <1>7, Prepended
<1>9. \A k \in 1 .. Len(v) : v[k] = r[k]
  <2>1. SUFFICES ASSUME NEW k \in 1 .. Len(v)
                PROVE  v[k] = r[k]
    OBVIOUS
  <2>2. Len(v) = Len(t) /\ k \in 1 .. Len(u) - 1
    BY <1>2, <1>3, <1>6, <1>8
  <2>3. CASE k = 1
    BY <1>2, <1>6, <1>8, <2>2, <2>3
  <2>4. CASE k # 1
    <3>1. k - 1 \in 1 .. Len(f) /\ k - 1 \in 1 .. Len(t) - 1 /\ k - 1 \in 1 .. Len(t)
          /\ k = (k - 1) + 1
      BY <1>3, <1>6, <2>2, <2>4
    <3>2. v[k] = f[k - 1] /\ f[k - 1] = t[k - 1] /\ u[k] = t[k - 1]
      BY <1>2, <1>6, <1>8, <3>1, Zenon
    <3>3. QED
      BY <1>6, <2>2, <3>2
  <2>5. QED
    BY <2>3, <2>4
<1>10. v = r
  <2>1. Len(v) = Len(r)
    BY <1>2, <1>3, <1>6, <1>8
  <2>2. QED
    BY <1>6, <1>8, <1>9, <2>1, SeqEqual
<1>11. Last(u) = Last(t)
  <2>1. Len(t) \in 1 .. Len(t)
    BY <1>3
  <2>2. QED
    BY <1>2, <2>1 DEF Last
<1>12. QED
  BY <1>1, <1>5, <1>7, <1>10, <1>11, Zenon

LEMMA OneEnd ==
  ASSUME NEW S, NEW d \in S
  PROVE  /\ Front(<<d>>) = <<>> /\ Last(<<d>>) = d
         /\ <<d>> \in Seq(S) /\ <<d>> # <<>> /\ <<d>> \o <<>> = <<d>>
         /\ \A x \in S : Append(<<d>>, x) = <<d>> \o <<x>> /\ Append(<<>>, x) = <<x>>
<1>1. PICK u : u = <<d>>
  OBVIOUS
<1>2. u \in Seq(S) /\ Len(u) = 1 /\ u[1] = d /\ u # <<>>
  BY <1>1, SMT
<1>3. /\ Front(u) \in Seq(S) /\ Len(Front(u)) = 0
  <2>1. Front(u) \in Seq(S) /\ Len(Front(u)) = Len(u) - 1
    BY <1>2, WithoutLast
  <2>2. QED
    BY <1>2, <2>1
<1>4. Front(u) = <<>>
  BY <1>3, EmptySeq
<1>5. Last(u) = d
  BY <1>2 DEF Last
<1>6. u \o <<>> = u
  BY <1>2, ConcatEmptySeq
<1>7. ASSUME NEW x \in S
      PROVE  Append(u, x) = u \o <<x>> /\ Append(<<>>, x) = <<x>>
  <2>1. Append(u, x) = u \o <<x>>
    BY <1>2, AppendIsConcat
  <2>2. Append(<<>>, x) = <<x>>
    BY SMT
  <2>3. QED
    BY <2>1, <2>2
<1>8. QED
  BY <1>1, <1>2, <1>4, <1>5, <1>6, <1>7, Zenon

SameContents(a, b) ==
  /\ a.type = b.type /\ a.string = b.string /\ a.value = b.value
  /\ a.child = b.child

LEMMA SameListed ==
  ASSUME NEW item, NEW f, NEW g, SameAt(f, g, item.child), SameAt(f, g, item.next)
  PROVE  AsDocument(item, f) = AsDocument(item, g) /\ Listed(item, f) = Listed(item, g)
<1>1. From(f, item.child) = From(g, item.child) /\ From(f, item.next) = From(g, item.next)
  BY Zenon DEF From, SameAt
<1>2. QED
  BY <1>1, Zenon DEF AsDocument, Listed

LEMMA ListsExist ==
  ASSUME NEW h, Ascending(h)
  PROVE  Lists(h) = [i \in Allocated(h) |-> Listed(h[i], Lists(h))]
<1> DEFINE A == Allocated(h)
           Good(f, m) == \A i \in A : m <= i => f[i] = Listed(h[i], f)
           IsFunction(f) == f = [i \in A |-> f[i]]
           P == {m \in 1 .. MaxItems + 1 : \E f : IsFunction(f) /\ Good(f, m)}
<1>1. MaxItems \in Nat /\ A \in SUBSET Items
  BY ItemsAssumption DEF Allocated
<1>2. /\ \A i \in A : h[i].next # Null => h[i].next \in A /\ i < h[i].next
      /\ \A i \in A : h[i].child # Null => h[i].child \in A /\ i < h[i].child
  BY Zenon DEF Ascending
<1> HIDE DEF A
<1>3. ASSUME NEW m \in 1 .. MaxItems, NEW f, IsFunction(f), Good(f, m + 1)
      PROVE  \E g : IsFunction(g) /\ Good(g, m)
  <2> DEFINE g == [i \in A |-> IF i = m THEN Listed(h[m], f) ELSE f[i]]
  <2>1. IsFunction(g)
    OBVIOUS
  <2>2. \A i \in A : g[i] = IF i = m THEN Listed(h[m], f) ELSE f[i]
    OBVIOUS
  <2> HIDE DEF g
  <2>3. ASSUME NEW i \in A, m <= i
        PROVE  g[i] = Listed(h[i], g)
    <3>1. \A j \in A : i < j => j # m
      BY <1>1, <2>3 DEF Items
    <3>2. /\ h[i].child # Null => h[i].child \in A /\ i < h[i].child
          /\ h[i].next # Null => h[i].next \in A /\ i < h[i].next
      BY <1>2, Zenon
    <3>3. SameAt(f, g, h[i].child) /\ SameAt(f, g, h[i].next)
      BY <2>2, <3>1, <3>2, Zenon DEF SameAt
    <3>4. Listed(h[i], f) = Listed(h[i], g)
      BY <3>3, SameListed, Zenon
    <3>5. CASE i = m
      BY <2>2, <3>4, <3>5, Zenon
    <3>6. CASE i # m
      <4>1. m + 1 <= i
        BY <1>1, <2>3, <3>6 DEF Items
      <4>2. QED
        BY <1>3, <2>2, <3>4, <3>6, <4>1, Zenon
    <3>7. QED
      BY <3>5, <3>6
  <2>4. QED
    BY <2>1, <2>3
<1>4. \E f : IsFunction(f) /\ Good(f, MaxItems + 1)
  <2> DEFINE f == [i \in A |-> 0]
  <2>1. IsFunction(f)
    OBVIOUS
  <2>2. Good(f, MaxItems + 1)
    BY <1>1 DEF Items
  <2>3. QED
    BY <2>1, <2>2
<1>5. \E f : IsFunction(f) /\ Good(f, 1)
  <2> HIDE DEF Good, IsFunction
  <2>1. MaxItems + 1 \in P
    BY <1>1, <1>4
  <2>2. \A m \in Items : m + 1 \in P => m \in P
    BY <1>1, <1>3 DEF Items
  <2>3. 1 \in P
    BY <2>1, <2>2, CountedDown
  <2>4. QED
    BY <2>3
<1>6. \E f : f = [i \in A |-> Listed(h[i], f)]
  <2>1. PICK f : IsFunction(f) /\ Good(f, 1)
    BY <1>5
  <2>2. \A i \in A : f[i] = Listed(h[i], f)
    BY <1>1, <2>1 DEF Items
  <2>3. f = [i \in A |-> Listed(h[i], f)]
    BY <2>1, <2>2, Zenon
  <2>4. QED
    BY <2>3
<1>7. QED
  BY <1>6, Zenon DEF Lists, A

Documents(h) == {Tree(h, i) : i \in Allocated(h)}

(* Lists are sequences of documents, one for every item from the first on. *)
LEMMA ListsAre ==
  ASSUME NEW h, Ascending(h), NEW i \in Allocated(h)
  PROVE  /\ Lists(h)[i] = <<Tree(h, i)>> \o From(Lists(h), h[i].next)
         /\ From(Lists(h), h[i].next) \in Seq(Documents(h))
         /\ From(Lists(h), h[i].child) \in Seq(Documents(h))
         /\ Lists(h)[i] \in Seq(Documents(h)) /\ Lists(h)[i] # <<>>
         /\ Tree(h, i) \in Documents(h)
<1>1. PICK D : D = Documents(h)
  OBVIOUS
<1>2. \A j \in Allocated(h) : Tree(h, j) \in D
  BY <1>1 DEF Documents
<1>3. \A j \in Allocated(h) : Lists(h)[j] = <<Tree(h, j)>> \o From(Lists(h), h[j].next)
  <2>1. PICK l : l = Lists(h)
    OBVIOUS
  <2>2. l = [j \in Allocated(h) |-> Listed(h[j], l)]
    BY <2>1, ListsExist, Zenon
  <2>3. \A j \in Allocated(h) : l[j] = Listed(h[j], l)
    BY <2>2, Zenon
  <2>4. QED
    BY <2>1, <2>3, Zenon DEF Listed, Tree
<1> DEFINE P == {m \in 1 .. MaxItems + 1 : \A j \in Allocated(h) : m <= j => Lists(h)[j] \in Seq(D)}
<1>4. MaxItems \in Nat /\ Allocated(h) \subseteq Items
  BY ItemsAssumption DEF Allocated
<1>5. \A j \in Allocated(h) : Lists(h)[j] \in Seq(D)
  <2>1. MaxItems + 1 \in P
    BY <1>4 DEF Items
  <2>2. ASSUME NEW m \in Items, m + 1 \in P
        PROVE  m \in P
    <3>1. SUFFICES ASSUME NEW j \in Allocated(h), m <= j
                  PROVE  Lists(h)[j] \in Seq(D)
      BY <1>4 DEF Items
    <3>2. CASE m + 1 <= j
      BY <2>2, <3>2
    <3>3. CASE ~(m + 1 <= j)
      <4>1. m = j
        BY <1>4, <3>1, <3>3 DEF Items
      <4>2. From(Lists(h), h[j].next) \in Seq(D)
        <5>1. CASE h[j].next = Null
          BY <5>1, EmptySeq DEF From
        <5>2. CASE h[j].next # Null
          <6>1. h[j].next \in Allocated(h) /\ j < h[j].next
            BY <5>2, Zenon DEF Ascending
          <6>2. m + 1 <= h[j].next
            BY <1>4, <4>1, <6>1 DEF Items
          <6>3. Lists(h)[h[j].next] \in Seq(D)
            BY <2>2, <6>1, <6>2
          <6>4. QED
            BY <5>2, <6>3 DEF From
        <5>3. QED
          BY <5>1, <5>2
      <4>3. PICK d, t : d = Tree(h, j) /\ t = From(Lists(h), h[j].next)
        OBVIOUS
      <4>4. <<d>> \o t \in Seq(D)
        BY <1>2, <4>2, <4>3, Prepended
      <4>5. QED
        BY <1>3, <4>3, <4>4, Zenon
    <3>4. QED
      BY <3>2, <3>3
  <2>3. Items \subseteq P
    <3> HIDE DEF P
    <3>1. QED
      BY <2>1, <2>2, CountedDown
  <2>4. QED
    BY <1>4, <2>3 DEF Items
<1>6. ASSUME NEW j, j # Null => j \in Allocated(h)
      PROVE  From(Lists(h), j) \in Seq(D)
  <2>1. CASE j = Null
    BY <2>1, EmptySeq DEF From
  <2>2. CASE j # Null
    BY <1>5, <1>6, <2>2 DEF From
  <2>3. QED
    BY <2>1, <2>2
<1>7. /\ h[i].next # Null => h[i].next \in Allocated(h)
      /\ h[i].child # Null => h[i].child \in Allocated(h)
  BY Zenon DEF Ascending
<1>8. Lists(h)[i] # <<>>
  <2>1. PICK d, t : d = Tree(h, i) /\ t = From(Lists(h), h[i].next)
    OBVIOUS
  <2>2. d \in D /\ t \in Seq(D)
    BY <1>2, <1>6, <1>7, <2>1
  <2>3. Len(<<d>> \o t) = Len(t) + 1 /\ Len(t) \in Nat
    BY <2>2, Prepended, LenProperties
  <2>4. <<d>> \o t # <<>>
    <3>1. PICK u : u = <<d>> \o t
      OBVIOUS
    <3>2. Len(u) # 0
      BY <2>3, <3>1
    <3>3. QED
      BY <3>1, <3>2, EmptySeq
  <2>5. QED
    BY <1>3, <2>1, <2>4, Zenon
<1>9. QED
  BY <1>1, <1>2, <1>3, <1>5, <1>6, <1>7, <1>8, Zenon

(* What an item stands for does not depend on items that are not below it. *)
LEMMA TreesUntouched ==
  ASSUME NEW h, NEW g, Ascending(h), Ascending(g), Allocated(h) \subseteq Allocated(g),
         \A i \in Allocated(h) : g[i] = h[i]
  PROVE  \A i \in Allocated(h) : Lists(g)[i] = Lists(h)[i] /\ Tree(g, i) = Tree(h, i)
<1>1. PICK l, m : l = Lists(h) /\ m = Lists(g)
  OBVIOUS
<1>2. /\ \A i \in Allocated(h) : l[i] = Listed(h[i], l)
      /\ \A i \in Allocated(g) : m[i] = Listed(g[i], m)
  <2>1. /\ l = [i \in Allocated(h) |-> Listed(h[i], l)]
        /\ m = [i \in Allocated(g) |-> Listed(g[i], m)]
    BY <1>1, ListsExist, Zenon
  <2>2. \A i \in Allocated(h) : l[i] = Listed(h[i], l)
    BY <2>1, Zenon
  <2>3. \A i \in Allocated(g) : m[i] = Listed(g[i], m)
    BY <2>1, Zenon
  <2>4. QED
    BY <2>2, <2>3
<1> DEFINE P == {n \in 1 .. MaxItems + 1 : \A i \in Allocated(h) : n <= i => m[i] = l[i]}
<1>3. MaxItems \in Nat /\ Allocated(h) \subseteq Items
  BY ItemsAssumption DEF Allocated
<1>4. \A i \in Allocated(h) : m[i] = l[i]
  <2>1. MaxItems + 1 \in P
    BY <1>3 DEF Items
  <2>2. ASSUME NEW n \in Items, n + 1 \in P
        PROVE  n \in P
    <3>1. SUFFICES ASSUME NEW i \in Allocated(h), n <= i
                  PROVE  m[i] = l[i]
      BY <1>3 DEF Items
    <3>2. \A j \in Allocated(h) : i < j => m[j] = l[j]
      BY <1>3, <2>2, <3>1 DEF Items
    <3>3. SameAt(l, m, h[i].child) /\ SameAt(l, m, h[i].next)
      BY <3>2, Zenon DEF Ascending, SameAt
    <3>4. Listed(h[i], l) = Listed(h[i], m)
      BY <3>3, SameListed, Zenon
    <3>5. g[i] = h[i] /\ i \in Allocated(g)
      OBVIOUS
    <3>6. QED
      BY <1>2, <3>4, <3>5, Zenon
  <2>3. Items \subseteq P
    <3> HIDE DEF P
    <3>1. QED
      BY <2>1, <2>2, CountedDown
  <2>4. QED
    BY <1>3, <2>3 DEF Items
<1>5. ASSUME NEW i \in Allocated(h)
      PROVE  Tree(g, i) = Tree(h, i)
  <2>1. SameAt(l, m, h[i].child) /\ SameAt(l, m, h[i].next)
    BY <1>4, Zenon DEF Ascending, SameAt
  <2>2. QED
    BY <1>1, <2>1, SameListed, Zenon DEF Tree
<1>6. QED
  BY <1>1, <1>4, <1>5

(* The list of c with item at its end.                                     *)
Extended(h, g, c, item) ==
  LET head == h[c].child
  IN  \A j \in Items :
        /\ g[j].type = h[j].type /\ g[j].string = h[j].string /\ g[j].value = h[j].value
        /\ g[j].next = IF head # Null /\ j = h[head].prev THEN item ELSE h[j].next
        /\ g[j].child = IF head = Null /\ j = c THEN item ELSE h[j].child
        /\ g[j].prev = IF head = Null THEN IF j = item THEN item ELSE h[j].prev
                       ELSE IF j = head THEN item
                       ELSE IF j = item THEN h[head].prev ELSE h[j].prev

LEMMA AddedCells ==
  ASSUME NEW h \in [Items -> Cells], NEW owner, Linked(h, owner),
         NEW c \in Items, NEW item \in Items, owner[item] = Null
  PROVE  /\ add_item_to_array(h, c, item) \in [Items -> Cells]
         /\ Extended(h, add_item_to_array(h, c, item), c, item)
<1> DEFINE g == add_item_to_array(h, c, item)
           head == h[c].child
           last == h[head].prev
<1>1. c # Null /\ item # Null /\ item \in Pointers /\ Null \in Pointers
  BY NullIsNoItem DEF Pointers
<1>2. \A j \in Items : h[j].next \in Pointers /\ h[j].prev \in Pointers /\ h[j].child \in Pointers
  BY Cell
<1>3. h[item].next = Null
  BY DEF Linked
<1>4. CASE head = Null
  <2>1. g = [h EXCEPT ![c].child = item, ![item].prev = item, ![item].next = Null]
    BY <1>4 DEF add_item_to_array
  <2> DEFINE g1 == [h EXCEPT ![c].child = item]
             g2 == [g1 EXCEPT ![item].prev = item]
  <2>2. /\ g1 \in [Items -> Cells]
        /\ \A j \in Items : /\ g1[j].type = h[j].type /\ g1[j].string = h[j].string
                            /\ g1[j].value = h[j].value
                            /\ g1[j].next = h[j].next
                            /\ g1[j].prev = h[j].prev
                            /\ g1[j].child = IF j = c THEN item ELSE h[j].child
    BY <1>1, SetChild
  <2>3. /\ g2 \in [Items -> Cells]
        /\ \A j \in Items : /\ g2[j].type = g1[j].type /\ g2[j].string = g1[j].string
                            /\ g2[j].value = g1[j].value
                            /\ g2[j].next = g1[j].next
                            /\ g2[j].prev = IF j = item THEN item ELSE g1[j].prev
                            /\ g2[j].child = g1[j].child
    <3> HIDE DEF g1
    <3>1. QED
      BY <1>1, <2>2, SetPrev
  <2>4. g = [g2 EXCEPT ![item].next = Null]
    BY <2>1
  <2> HIDE DEF g1, g2, g
  <2>5. /\ g \in [Items -> Cells]
        /\ \A j \in Items : /\ g[j].type = g2[j].type /\ g[j].string = g2[j].string
                            /\ g[j].value = g2[j].value
                            /\ g[j].next = IF j = item THEN Null ELSE g2[j].next
                            /\ g[j].prev = g2[j].prev
                            /\ g[j].child = g2[j].child
    BY <1>1, <2>3, <2>4, SetNext
  <2>6. Extended(h, g, c, item)
    BY <1>3, <1>4, <2>2, <2>3, <2>5 DEF Extended
  <2>7. QED
    BY <2>5, <2>6 DEF g
<1>5. CASE head # Null
  <2>1. /\ head \in Items /\ last \in Items /\ owner[head] = c /\ owner[last] = c
        /\ head = h[c].child /\ last = h[head].prev
    BY <1>2, <1>5 DEF Linked, Pointers
  <2>2. head # item /\ last # item /\ last # Null
    BY <1>1, <2>1, NullIsNoItem
  <2>3. g = [h EXCEPT ![last].next = item, ![item].prev = last, ![head].prev = item]
    BY <1>5, <2>2 DEF add_item_to_array, suffix_object
  <2> HIDE DEF head, last
  <2> DEFINE g1 == [h EXCEPT ![last].next = item]
             g2 == [g1 EXCEPT ![item].prev = last]
  <2>4. last \in Pointers
    BY <2>1 DEF Pointers
  <2>5. /\ g1 \in [Items -> Cells]
        /\ \A j \in Items : /\ g1[j].type = h[j].type /\ g1[j].string = h[j].string
                            /\ g1[j].value = h[j].value
                            /\ g1[j].next = IF j = last THEN item ELSE h[j].next
                            /\ g1[j].prev = h[j].prev
                            /\ g1[j].child = h[j].child
    BY <1>1, <2>1, SetNext
  <2>6. /\ g2 \in [Items -> Cells]
        /\ \A j \in Items : /\ g2[j].type = g1[j].type /\ g2[j].string = g1[j].string
                            /\ g2[j].value = g1[j].value
                            /\ g2[j].next = g1[j].next
                            /\ g2[j].prev = IF j = item THEN last ELSE g1[j].prev
                            /\ g2[j].child = g1[j].child
    <3> HIDE DEF g1
    <3>1. QED
      BY <2>4, <2>5, SetPrev
  <2>7. g = [g2 EXCEPT ![head].prev = item]
    BY <2>3
  <2> HIDE DEF g1, g2, g
  <2>8. /\ g \in [Items -> Cells]
        /\ \A j \in Items : /\ g[j].type = g2[j].type /\ g[j].string = g2[j].string
                            /\ g[j].value = g2[j].value
                            /\ g[j].next = g2[j].next
                            /\ g[j].prev = IF j = head THEN item ELSE g2[j].prev
                            /\ g[j].child = g2[j].child
    BY <1>1, <2>1, <2>6, <2>7, SetPrev
  <2>9. Extended(h, g, c, item)
    BY <1>5, <2>1, <2>5, <2>6, <2>8 DEF Extended, head, last
  <2>10. QED
    BY <2>8, <2>9 DEF g
<1>6. QED
  BY <1>4, <1>5

(* A list has one end.                                                     *)
LastItem(h, c) == h[h[c].child].prev

LEMMA ListEnds ==
  ASSUME NEW h \in [Items -> Cells], NEW owner, Linked(h, owner),
         NEW c \in Items, h[c].child # Null
  PROVE  /\ LastItem(h, c) \in Items /\ owner[LastItem(h, c)] = c
         /\ h[LastItem(h, c)].next = Null
         /\ h[c].child \in Items /\ owner[h[c].child] = c
<1>1. h[c].child \in Items
  BY Cell DEF Pointers
<1>2. LastItem(h, c) \in Pointers
  BY <1>1, Cell DEF LastItem
<1>3. QED
  BY <1>1, <1>2 DEF Linked, LastItem, Pointers

LEMMA EndIsLast ==
  ASSUME NEW h \in [Items -> Cells], NEW owner, Linked(h, owner),
         NEW i \in Items, owner[i] # Null, h[i].next = Null
  PROVE  i = LastItem(h, owner[i])
<1>1. PICK c, last : c = owner[i] /\ last = LastItem(h, c)
  OBVIOUS
<1>2. c \in Items /\ h[c].child # Null
  BY <1>1 DEF Linked, Allocated
<1>3. last \in Items /\ owner[last] = c /\ h[last].next = Null
  BY <1>1, <1>2, ListEnds
<1>4. PICK along : along = [k \in Items |-> {h[k].next} \ {Null}]
  OBVIOUS
<1>5. along \in [Items -> SUBSET Items] /\ \A k \in Items : \A j \in along[k] : k < j
  <2>1. PICK down : down = [k \in Items |-> {h[k].child, h[k].next} \ {Null}]
    OBVIOUS
  <2>2. QED
    BY <1>4, <2>1, PointersLeadOn
<1>6. \A j : Chained(h, j) = Reached(along, j)
  BY <1>4 DEF Chained
<1> DEFINE S == {j \in Items : last \in Reached(along, j)}
<1>7. h[c].child \in S
  <2>1. Chained(h, h[c].child) = {j \in Items : owner[j] = c}
    BY <1>2, ListHolds
  <2>2. h[c].child \in Items
    BY <1>2, ListEnds
  <2>3. QED
    BY <1>3, <1>6, <2>1, <2>2
<1>8. ASSUME NEW k \in S \cap Items, h[k].next # Null
      PROVE  h[k].next \in S
  <2>1. h[k].next \in Items
    BY <1>8, Cell DEF Pointers
  <2> DEFINE R == {k} \cup Reached(along, h[k].next)
  <2>2. /\ Reached(along, h[k].next) \subseteq Items
        /\ h[k].next \in Reached(along, h[k].next)
    BY <1>5, <1>8, <2>1, ReachedStarts
  <2>3. \A j \in Reached(along, h[k].next) : along[j] \subseteq Reached(along, h[k].next)
    BY <1>5, <2>1, ReachedCloses
  <2>4. \A j \in R \cap Items : along[j] \subseteq R
    BY <1>4, <2>2, <2>3
  <2>5. Reached(along, k) \subseteq R
    <3>1. {k} \ {Null} \subseteq R
      OBVIOUS
    <3> HIDE DEF R
    <3>2. QED
      BY <1>5, <2>4, <3>1, ReachedLeast
  <2>6. last # k
    BY <1>3, <1>8
  <2>7. QED
    BY <2>1, <2>5, <2>6
<1>9. i \in S
  <2> HIDE DEF S
  <2>1. QED
    BY <1>1, <1>2, <1>7, <1>8, ListIsFollowed
<1>10. Reached(along, i) \subseteq {i}
  <2>1. \A j \in {i} \cap Items : along[j] \subseteq {i}
    BY <1>4
  <2>2. {i} \ {Null} \subseteq {i}
    OBVIOUS
  <2>3. QED
    BY <1>5, <2>1, <2>2, ReachedLeast
<1>11. QED
  BY <1>1, <1>9, <1>10

-----------------------------------------------------------------------------
(* What an item at the end of the list of c changes: the documents of c    *)
(* and of the containers around it.                                        *)

(* B are containers one inside the other, the innermost is c: one that is  *)
(* in a list is the last one of it, and the list is that of an object of B. *)
Spine(h, owner, B, c) ==
  /\ c \in B /\ B \subseteq Allocated(h)
  /\ \A b \in B : owner[b] # Null =>
       /\ owner[b] \in B \ {c} /\ h[owner[b]].type # "Array"
       /\ h[b].next = Null

(* An item whose list does not lead to a container of B.                   *)
Apart(h, owner, B, c, i) ==
  i \notin B /\ (owner[i] \in B => owner[i] # c /\ h[owner[i]].type = "Array")

Grows(h, g, owner, B, c, item) ==
  /\ h \in [Items -> Cells] /\ Linked(h, owner) /\ Ascending(g)
  /\ Spine(h, owner, B, c)
  /\ item \in Allocated(h) /\ owner[item] = Null /\ item \notin B
  /\ Extended(h, g, c, item)

LEMMA GrowsIs ==
  ASSUME NEW h, NEW g, NEW owner, NEW B, NEW c, NEW item, Grows(h, g, owner, B, c, item)
  PROVE  /\ Allocated(g) = Allocated(h) /\ Ascending(h) /\ Ascending(g)
         /\ Allocated(h) \subseteq Items
         /\ c \in Items /\ item \in Items
         /\ \A i \in Items : /\ h[i].next \in Pointers /\ h[i].child \in Pointers
                             /\ i # c => SameContents(h[i], g[i])
                             /\ owner[i] # c => g[i].next = h[i].next
                             /\ owner[i] = c => g[i].next = IF h[i].next = Null THEN item
                                                            ELSE h[i].next
<1>1. /\ h \in [Items -> Cells] /\ Linked(h, owner) /\ Ascending(g)
      /\ Spine(h, owner, B, c) /\ item \in Allocated(h) /\ owner[item] = Null
      /\ Extended(h, g, c, item)
  BY DEF Grows
<1>2. c \in Items /\ item \in Items /\ Allocated(h) \subseteq Items
  BY <1>1 DEF Spine, Allocated
<1>3. Allocated(g) = Allocated(h)
  BY <1>1 DEF Allocated, Free, Extended
<1>4. Ascending(h)
  BY <1>1, LinkedAscends
<1>5. \A i \in Items : h[i].next \in Pointers /\ h[i].child \in Pointers
  BY <1>1, Cell
<1>6. \A i \in Items : i # c => SameContents(h[i], g[i])
  BY <1>1 DEF Extended, SameContents
<1>7. ASSUME NEW i \in Items, owner[i] # c
      PROVE  g[i].next = h[i].next
  <2>1. ~(h[c].child # Null /\ i = LastItem(h, c))
    BY <1>1, <1>2, <1>7, ListEnds
  <2>2. QED
    BY <1>1, <2>1 DEF Extended, LastItem
<1>8. ASSUME NEW i \in Items, owner[i] = c
      PROVE  g[i].next = IF h[i].next = Null THEN item ELSE h[i].next
  <2>1. c # Null /\ h[c].child # Null
    BY <1>1, <1>2, <1>8, NullIsNoItem DEF Linked
  <2>2. h[i].next = Null <=> i = LastItem(h, c)
    BY <1>1, <1>2, <1>8, <2>1, ListEnds, EndIsLast
  <2>3. QED
    BY <1>1, <2>1, <2>2 DEF Extended, LastItem
<1>9. QED
  BY <1>1, <1>2, <1>3, <1>4, <1>5, <1>6, <1>7, <1>8

(* Lists are sequences of the documents of both heaps.                     *)
ListedIn(h, S, i) ==
  /\ Lists(h)[i] = <<Tree(h, i)>> \o From(Lists(h), h[i].next)
  /\ Lists(h)[i] \in Seq(S) /\ Lists(h)[i] # <<>>
  /\ Tree(h, i) \in S

LEMMA GrowingLists ==
  ASSUME NEW h, NEW g, NEW owner, NEW B, NEW c, NEW item, Grows(h, g, owner, B, c, item),
         NEW i \in Allocated(h), NEW S, S = Documents(h) \cup Documents(g)
  PROVE  ListedIn(h, S, i) /\ ListedIn(g, S, i)
<1>1. Ascending(h) /\ Ascending(g) /\ i \in Allocated(g)
  BY GrowsIs
<1>2. /\ Lists(h)[i] = <<Tree(h, i)>> \o From(Lists(h), h[i].next)
      /\ Lists(h)[i] \in Seq(Documents(h)) /\ Lists(h)[i] # <<>>
      /\ Tree(h, i) \in Documents(h)
  BY <1>1, ListsAre
<1>3. /\ Lists(g)[i] = <<Tree(g, i)>> \o From(Lists(g), g[i].next)
      /\ Lists(g)[i] \in Seq(Documents(g)) /\ Lists(g)[i] # <<>>
      /\ Tree(g, i) \in Documents(g)
  BY <1>1, ListsAre
<1>4. Seq(Documents(h)) \subseteq Seq(S) /\ Seq(Documents(g)) \subseteq Seq(S)
  <2>1. Documents(h) \subseteq S /\ Documents(g) \subseteq S
    OBVIOUS
  <2>2. QED
    BY <2>1, SMT
<1>5. Tree(h, i) \in S /\ Tree(g, i) \in S
  BY <1>2, <1>3
<1>6. QED
  BY <1>2, <1>3, <1>4, <1>5, Zenon DEF ListedIn

LEMMA ApartLeads ==
  ASSUME NEW h, NEW g, NEW owner, NEW B, NEW c, NEW item, Grows(h, g, owner, B, c, item),
         NEW i \in Allocated(h)
  PROVE  /\ i \notin B /\ h[i].child # Null => Apart(h, owner, B, c, h[i].child)
         /\ Apart(h, owner, B, c, i) /\ h[i].next # Null => Apart(h, owner, B, c, h[i].next)
<1>1. /\ h \in [Items -> Cells] /\ Linked(h, owner) /\ Spine(h, owner, B, c)
      /\ i \in Items /\ h[i].next \in Pointers /\ h[i].child \in Pointers
  BY GrowsIs DEF Grows
<1>2. ASSUME i \notin B, h[i].child # Null
      PROVE  Apart(h, owner, B, c, h[i].child)
  <2>1. h[i].child \in Items /\ owner[h[i].child] = i /\ i # Null
    BY <1>1, <1>2, ListEnds, NullIsNoItem
  <2>2. h[i].child \notin B
    BY <1>1, <1>2, <2>1 DEF Spine
  <2>3. QED
    BY <1>2, <2>1, <2>2 DEF Apart
<1>3. ASSUME Apart(h, owner, B, c, i), h[i].next # Null
      PROVE  Apart(h, owner, B, c, h[i].next)
  <2>1. /\ h[i].next \in Items /\ owner[h[i].next] = owner[i]
        /\ h[h[i].next].prev = i /\ i # Null
    BY <1>1, <1>3, NullIsNoItem DEF Linked, Pointers
  <2>2. owner[h[i].next] # Null
    BY <1>1, <2>1 DEF Linked
  <2>3. h[i].next \notin B
    BY <1>1, <1>3, <2>1, <2>2 DEF Spine, Apart
  <2>4. QED
    BY <1>3, <2>1, <2>3 DEF Apart
<1>4. QED
  BY <1>2, <1>3

LEMMA ApartStays ==
  ASSUME NEW h, NEW g, NEW owner, NEW B, NEW c, NEW item, Grows(h, g, owner, B, c, item)
  PROVE  \A i \in Allocated(h) : Apart(h, owner, B, c, i) => Lists(g)[i] = Lists(h)[i]
<1>1. PICK l, m, A : l = Lists(h) /\ m = Lists(g) /\ A = Allocated(h)
  OBVIOUS
<1>2. /\ Allocated(g) = A /\ Ascending(h) /\ Ascending(g) /\ A \subseteq Items /\ c \in B
  BY <1>1, GrowsIs DEF Grows, Spine
<1>3. /\ \A i \in A : l[i] = Listed(h[i], l)
      /\ \A i \in A : m[i] = Listed(g[i], m)
  <2>1. /\ l = [i \in A |-> Listed(h[i], l)]
        /\ m = [i \in A |-> Listed(g[i], m)]
    BY <1>1, <1>2, ListsExist, Zenon
  <2>2. \A i \in A : l[i] = Listed(h[i], l)
    BY <2>1, Zenon
  <2>3. \A i \in A : m[i] = Listed(g[i], m)
    BY <2>1, Zenon
  <2>4. QED
    BY <2>2, <2>3
<1> DEFINE P == {n \in 1 .. MaxItems + 1 :
                   \A i \in A : n <= i /\ Apart(h, owner, B, c, i) => m[i] = l[i]}
<1>4. MaxItems \in Nat
  BY ItemsAssumption
<1>5. MaxItems + 1 \in P
  BY <1>2, <1>4 DEF Items
<1>6. ASSUME NEW n \in Items, n + 1 \in P
      PROVE  n \in P
  <2>1. SUFFICES ASSUME NEW i \in A, n <= i, Apart(h, owner, B, c, i)
                PROVE  m[i] = l[i]
    BY <1>4 DEF Items
  <2>2. \A j \in A : i < j /\ Apart(h, owner, B, c, j) => m[j] = l[j]
    BY <1>2, <1>4, <1>6, <2>1 DEF Items
  <2>3. /\ h[i].child # Null => h[i].child \in A /\ i < h[i].child
        /\ h[i].next # Null => h[i].next \in A /\ i < h[i].next
    BY <1>1, <1>2, Zenon DEF Ascending
  <2>4. /\ h[i].child # Null => Apart(h, owner, B, c, h[i].child)
        /\ h[i].next # Null => Apart(h, owner, B, c, h[i].next)
    BY <1>1, <2>1, ApartLeads DEF Apart
  <2>5. SameAt(l, m, h[i].child) /\ SameAt(l, m, h[i].next)
    BY <2>2, <2>3, <2>4, Zenon DEF SameAt
  <2>6. Listed(h[i], l) = Listed(h[i], m)
    BY <2>5, SameListed, Zenon
  <2>7. i # c /\ owner[i] # c
    BY <1>2, <2>1 DEF Apart
  <2>8. SameContents(h[i], g[i]) /\ g[i].next = h[i].next
    BY <1>2, <2>7, GrowsIs
  <2>9. Listed(g[i], m) = Listed(h[i], m)
    BY <2>8, Zenon DEF Listed, AsDocument, SameContents
  <2>10. QED
    BY <1>3, <2>6, <2>9, Zenon
<1>7. Items \subseteq P
  <2> HIDE DEF P
  <2>1. QED
    BY <1>5, <1>6, CountedDown
<1>8. QED
  BY <1>1, <1>2, <1>7 DEF Items

LEMMA OutsideStays ==
  ASSUME NEW h, NEW g, NEW owner, NEW B, NEW c, NEW item, Grows(h, g, owner, B, c, item),
         NEW i \in Allocated(h), i \notin B
  PROVE  Tree(g, i) = Tree(h, i)
<1>1. PICK l, m : l = Lists(h) /\ m = Lists(g)
  OBVIOUS
<1>2. h[i].child # Null => h[i].child \in Allocated(h) /\ Apart(h, owner, B, c, h[i].child)
  BY GrowsIs, ApartLeads DEF Ascending
<1>3. h[i].child # Null => m[h[i].child] = l[h[i].child]
  BY <1>1, <1>2, ApartStays
<1>4. From(m, h[i].child) = From(l, h[i].child)
  BY <1>3, Zenon DEF From
<1>5. SameContents(h[i], g[i])
  BY GrowsIs DEF Grows, Spine
<1>6. AsDocument(g[i], m) = AsDocument(h[i], l)
  BY <1>4, <1>5, Zenon DEF AsDocument, SameContents
<1>7. QED
  BY <1>1, <1>6, Zenon DEF Tree

LEMMA ItemEnds ==
  ASSUME NEW h, NEW g, NEW owner, NEW B, NEW c, NEW item, Grows(h, g, owner, B, c, item)
  PROVE  Lists(g)[item] = <<Tree(h, item)>> /\ c # Null
<1>1. /\ h \in [Items -> Cells] /\ Linked(h, owner) /\ c \in Items /\ item \in Items
      /\ item \in Allocated(h) /\ owner[item] = Null /\ item \notin B
  BY GrowsIs DEF Grows
<1>2. c # Null /\ h[item].next = Null
  BY <1>1, NullIsNoItem DEF Linked
<1>3. g[item].next = Null
  BY <1>1, <1>2, GrowsIs
<1>4. PICK S : S = Documents(h) \cup Documents(g)
  OBVIOUS
<1>5. /\ Lists(g)[item] = <<Tree(g, item)>> \o From(Lists(g), g[item].next)
      /\ Tree(g, item) \in S
  <2>1. ListedIn(g, S, item)
    BY <1>1, <1>4, GrowingLists, Zenon
  <2>2. QED
    BY <2>1, Zenon DEF ListedIn
<1>6. Tree(g, item) = Tree(h, item)
  BY <1>1, OutsideStays
<1>7. From(Lists(g), g[item].next) = <<>>
  BY <1>3 DEF From
<1>8. <<Tree(g, item)>> \o <<>> = <<Tree(g, item)>>
  BY <1>5, OneEnd
<1>9. QED
  BY <1>2, <1>5, <1>6, <1>7, <1>8, Zenon

(* The list of c gets one more document at its end.                        *)
LEMMA ListGrows ==
  ASSUME NEW h, NEW g, NEW owner, NEW B, NEW c, NEW item, Grows(h, g, owner, B, c, item)
  PROVE  \A i \in Allocated(h) :
           owner[i] = c => Lists(g)[i] = Append(Lists(h)[i], Tree(h, item))
<1>1. PICK l, m, A, x, S : /\ l = Lists(h) /\ m = Lists(g) /\ A = Allocated(h)
                           /\ x = Tree(h, item) /\ S = Documents(h) \cup Documents(g)
  OBVIOUS
<1>2. /\ h \in [Items -> Cells] /\ Linked(h, owner) /\ Spine(h, owner, B, c)
      /\ Allocated(g) = A /\ Ascending(h) /\ A \subseteq Items /\ c \in B /\ item \in A
  BY <1>1, GrowsIs DEF Grows, Spine
<1>3. m[item] = <<x>> /\ c # Null
  BY <1>1, ItemEnds
<1>4. \A i \in A : /\ l[i] = <<Tree(h, i)>> \o From(l, h[i].next)
                   /\ m[i] = <<Tree(g, i)>> \o From(m, g[i].next)
                   /\ l[i] \in Seq(S) /\ l[i] # <<>> /\ Tree(h, i) \in S
  <2>1. \A i \in A : ListedIn(h, S, i) /\ ListedIn(g, S, i)
    BY <1>1, GrowingLists, Zenon
  <2>2. QED
    BY <1>1, <2>1, Zenon DEF ListedIn
<1>5. x \in S
  BY <1>1, <1>2, <1>4
<1> DEFINE P == {n \in 1 .. MaxItems + 1 :
                   \A i \in A : n <= i /\ owner[i] = c => m[i] = Append(l[i], x)}
<1>6. MaxItems \in Nat
  BY ItemsAssumption
<1>7. MaxItems + 1 \in P
  BY <1>2, <1>6 DEF Items
<1>8. ASSUME NEW n \in Items, n + 1 \in P
      PROVE  n \in P
  <2>1. SUFFICES ASSUME NEW i \in A, n <= i, owner[i] = c
                PROVE  m[i] = Append(l[i], x)
    BY <1>6 DEF Items
  <2>2. \A j \in A : i < j /\ owner[j] = c => m[j] = Append(l[j], x)
    BY <1>2, <1>6, <1>8, <2>1 DEF Items
  <2>3. i \notin B
    BY <1>2, <1>3, <2>1 DEF Spine
  <2>4. Tree(g, i) = Tree(h, i)
    BY <1>1, <2>3, OutsideStays
  <2>5. g[i].next = IF h[i].next = Null THEN item ELSE h[i].next
    BY <1>2, <2>1, GrowsIs
  <2>6. PICK d : d = Tree(h, i)
    OBVIOUS
  <2>7. d \in S
    BY <1>4, <2>6
  <2>8. CASE h[i].next = Null
    <3>1. From(l, h[i].next) = <<>>
      BY <2>8 DEF From
    <3>2. item # Null
      BY <1>2, NullIsNoItem
    <3>3. From(m, g[i].next) = <<x>>
      BY <1>3, <2>5, <2>8, <3>2 DEF From
    <3>4. /\ <<d>> \o <<>> = <<d>>
          /\ Append(<<d>>, x) = <<d>> \o <<x>>
      BY <1>5, <2>7, OneEnd
    <3>5. l[i] = <<d>> /\ m[i] = <<d>> \o <<x>>
      BY <1>4, <2>4, <2>6, <3>1, <3>3, <3>4, Zenon
    <3>6. QED
      BY <3>4, <3>5, Zenon
  <2>9. CASE h[i].next # Null
    <3>1. h[i].next \in A /\ i < h[i].next
      BY <1>1, <1>2, <2>9, Zenon DEF Ascending
    <3>2. owner[h[i].next] = c
      BY <1>2, <2>1, <2>9 DEF Linked
    <3>3. PICK t : t = l[h[i].next]
      OBVIOUS
    <3>4. t \in Seq(S) /\ t # <<>> /\ m[h[i].next] = Append(t, x)
      BY <1>4, <2>2, <3>1, <3>2, <3>3
    <3>5. From(l, h[i].next) = t /\ From(m, g[i].next) = Append(t, x)
      BY <2>5, <2>9, <3>3, <3>4 DEF From
    <3>6. Append(<<d>> \o t, x) = <<d>> \o Append(t, x)
      <4>1. t \in Seq(S) /\ d \in S /\ x \in S
        BY <1>5, <2>7, <3>4
      <4>2. QED
        BY <4>1, PrependedAppend
    <3>7. QED
      BY <1>4, <2>4, <2>6, <3>5, <3>6, Zenon
  <2>10. QED
    BY <2>8, <2>9
<1>9. Items \subseteq P
  <2> HIDE DEF P
  <2>1. QED
    BY <1>7, <1>8, CountedDown
<1>10. QED
  BY <1>1, <1>2, <1>9 DEF Items

(* In the list of a container around c only the last document changes.     *)
LEMMA FrontStays ==
  ASSUME NEW h, NEW g, NEW owner, NEW B, NEW c, NEW item, Grows(h, g, owner, B, c, item)
  PROVE  \A i \in Allocated(h) :
           owner[i] \in B \ {c} => Front(Lists(g)[i]) = Front(Lists(h)[i])
<1>1. PICK l, m, A, S : /\ l = Lists(h) /\ m = Lists(g) /\ A = Allocated(h)
                        /\ S = Documents(h) \cup Documents(g)
  OBVIOUS
<1>2. /\ h \in [Items -> Cells] /\ Linked(h, owner) /\ Spine(h, owner, B, c)
      /\ Allocated(g) = A /\ Ascending(h) /\ A \subseteq Items /\ B \subseteq Items
  BY <1>1, GrowsIs DEF Grows, Spine
<1>3. \A i \in A : /\ l[i] = <<Tree(h, i)>> \o From(l, h[i].next)
                   /\ m[i] = <<Tree(g, i)>> \o From(m, g[i].next)
                   /\ l[i] \in Seq(S) /\ l[i] # <<>> /\ Tree(h, i) \in S
                   /\ m[i] \in Seq(S) /\ m[i] # <<>> /\ Tree(g, i) \in S
  <2>1. \A i \in A : ListedIn(h, S, i) /\ ListedIn(g, S, i)
    BY <1>1, GrowingLists, Zenon
  <2>2. QED
    BY <1>1, <2>1, Zenon DEF ListedIn
<1> DEFINE P == {n \in 1 .. MaxItems + 1 :
                   \A i \in A : n <= i /\ owner[i] \in B \ {c} => Front(m[i]) = Front(l[i])}
<1>4. MaxItems \in Nat
  BY ItemsAssumption
<1>5. MaxItems + 1 \in P
  <2>1. \A i \in A : ~(MaxItems + 1 <= i)
    BY <1>2, <1>4 DEF Items
  <2>2. QED
    BY <1>4, <2>1
<1>6. ASSUME NEW n \in Items, n + 1 \in P
      PROVE  n \in P
  <2>1. SUFFICES ASSUME NEW i \in A, n <= i, owner[i] \in B \ {c}
                PROVE  Front(m[i]) = Front(l[i])
    BY <1>4 DEF Items
  <2>2. \A j \in A : i < j /\ owner[j] \in B \ {c} => Front(m[j]) = Front(l[j])
    BY <1>2, <1>4, <1>6, <2>1 DEF Items
  <2>3. g[i].next = h[i].next /\ owner[i] # Null
    BY <1>2, <2>1, GrowsIs, NullIsNoItem
  <2>4. PICK d, e : d = Tree(h, i) /\ e = Tree(g, i)
    OBVIOUS
  <2>5. d \in S /\ e \in S
    BY <1>3, <2>4
  <2>6. CASE h[i].next = Null
    <3>1. From(l, h[i].next) = <<>> /\ From(m, g[i].next) = <<>>
      BY <2>3, <2>6 DEF From
    <3>2. /\ <<d>> \o <<>> = <<d>> /\ Front(<<d>>) = <<>>
          /\ <<e>> \o <<>> = <<e>> /\ Front(<<e>>) = <<>>
      BY <2>5, OneEnd
    <3>3. QED
      BY <1>3, <2>4, <3>1, <3>2, Zenon
  <2>7. CASE h[i].next # Null
    <3>1. h[i].next \in A /\ i < h[i].next
      BY <1>1, <1>2, <2>7, Zenon DEF Ascending
    <3>2. owner[h[i].next] = owner[i]
      BY <1>2, <2>1, <2>7 DEF Linked
    <3>3. i \notin B
      BY <1>2, <2>3, <2>7 DEF Spine
    <3>4. d = e
      BY <1>1, <2>4, <3>3, OutsideStays
    <3>5. PICK s, t : s = l[h[i].next] /\ t = m[h[i].next]
      OBVIOUS
    <3>6. s \in Seq(S) /\ s # <<>> /\ t \in Seq(S) /\ t # <<>> /\ Front(t) = Front(s)
      BY <1>3, <2>1, <2>2, <3>1, <3>2, <3>5
    <3>7. From(l, h[i].next) = s /\ From(m, g[i].next) = t
      BY <2>3, <2>7, <3>5 DEF From
    <3>8. Front(<<d>> \o s) = <<d>> \o Front(s) /\ Front(<<d>> \o t) = <<d>> \o Front(t)
      BY <2>5, <3>6, PrependedEnd
    <3>9. QED
      BY <1>3, <2>4, <3>4, <3>6, <3>7, <3>8, Zenon
  <2>8. QED
    BY <2>6, <2>7
<1>7. Items \subseteq P
  <2> HIDE DEF P
  <2>1. QED
    BY <1>5, <1>6, CountedDown
<1>8. QED
  BY <1>1, <1>2, <1>7 DEF Items

(* The last document of a list is that of its last item.                   *)
LEMMA ListShowsLast ==
  ASSUME NEW h \in [Items -> Cells], NEW owner, Linked(h, owner),
         NEW c \in Items, h[c].child # Null
  PROVE  /\ From(Lists(h), h[c].child) \in Seq(Documents(h))
         /\ From(Lists(h), h[c].child) # <<>>
         /\ Last(From(Lists(h), h[c].child)) = Tree(h, LastItem(h, c))
<1>1. PICK l, A, S, x : /\ l = Lists(h) /\ A = Allocated(h) /\ S = Documents(h)
                        /\ x = Tree(h, LastItem(h, c))
  OBVIOUS
<1>2. Ascending(h) /\ A \subseteq Items /\ c # Null
  BY <1>1, LinkedAscends, NullIsNoItem DEF Allocated
<1>3. \A i \in A : /\ l[i] = <<Tree(h, i)>> \o From(l, h[i].next)
                   /\ l[i] \in Seq(S) /\ l[i] # <<>> /\ Tree(h, i) \in S
  BY <1>1, <1>2, ListsAre
<1> DEFINE P == {n \in 1 .. MaxItems + 1 :
                   \A i \in A : n <= i /\ owner[i] = c => Last(l[i]) = x}
<1>4. MaxItems \in Nat
  BY ItemsAssumption
<1>5. MaxItems + 1 \in P
  BY <1>2, <1>4 DEF Items
<1>6. ASSUME NEW n \in Items, n + 1 \in P
      PROVE  n \in P
  <2>1. SUFFICES ASSUME NEW i \in A, n <= i, owner[i] = c
                PROVE  Last(l[i]) = x
    BY <1>4 DEF Items
  <2>2. \A j \in A : i < j /\ owner[j] = c => Last(l[j]) = x
    BY <1>2, <1>4, <1>6, <2>1 DEF Items
  <2>3. PICK d : d = Tree(h, i)
    OBVIOUS
  <2>4. d \in S
    BY <1>3, <2>3
  <2>5. CASE h[i].next = Null
    <3>1. From(l, h[i].next) = <<>>
      BY <2>5 DEF From
    <3>2. i = LastItem(h, c)
      BY <1>2, <2>1, <2>5, EndIsLast
    <3>3. <<d>> \o <<>> = <<d>> /\ Last(<<d>>) = d
      BY <2>4, OneEnd
    <3>4. QED
      BY <1>1, <1>3, <2>3, <3>1, <3>2, <3>3, Zenon
  <2>6. CASE h[i].next # Null
    <3>1. h[i].next \in A /\ i < h[i].next
      BY <1>1, <1>2, <2>6, Zenon DEF Ascending
    <3>2. owner[h[i].next] = c
      BY <1>2, <2>1, <2>6 DEF Linked
    <3>3. PICK t : t = l[h[i].next]
      OBVIOUS
    <3>4. t \in Seq(S) /\ t # <<>> /\ Last(t) = x
      BY <1>3, <2>2, <3>1, <3>2, <3>3
    <3>5. From(l, h[i].next) = t
      BY <2>6, <3>3 DEF From
    <3>6. Last(<<d>> \o t) = Last(t)
      BY <2>4, <3>4, PrependedEnd
    <3>7. QED
      BY <1>3, <2>3, <3>4, <3>5, <3>6, Zenon
  <2>7. QED
    BY <2>5, <2>6
<1>7. Items \subseteq P
  <2> HIDE DEF P
  <2>1. QED
    BY <1>5, <1>6, CountedDown
<1>8. h[c].child \in Items /\ owner[h[c].child] = c
  BY ListEnds
<1>9. h[c].child \in A
  BY <1>1, <1>2, <1>8 DEF Linked, Allocated
<1>10. Last(l[h[c].child]) = x
  BY <1>2, <1>7, <1>8, <1>9 DEF Items
<1>11. From(l, h[c].child) = l[h[c].child]
  BY DEF From
<1>12. QED
  BY <1>1, <1>3, <1>9, <1>10, <1>11, Zenon

(* A document of the same kind with other contents.                        *)
Holding(d, s) == [d EXCEPT !.items = s]

LEMMA HoldingIs ==
  ASSUME NEW h, NEW g, NEW i, NEW j, NEW s, h[i].type = g[j].type,
         h[i].string = g[j].string, h[i].value = g[j].value,
         s = From(Lists(g), g[j].child)
  PROVE  Tree(g, j) = Holding(Tree(h, i), s)
BY DEF Tree, AsDocument, Holding

LEMMA TreeIs ==
  ASSUME NEW h, NEW i
  PROVE  /\ Tree(h, i).type = h[i].type
         /\ Tree(h, i).items = From(Lists(h), h[i].child)
BY DEF Tree, AsDocument

LEMMA HeldIs ==
  ASSUME NEW h, NEW i, NEW s, NEW t, NEW d, d = Holding(Tree(h, i), s)
  PROVE  d.items = s /\ d.type = h[i].type /\ Holding(d, t) = Holding(Tree(h, i), t)
BY DEF Tree, AsDocument, Holding

LEMMA TreesGrow ==
  ASSUME NEW h, NEW g, NEW owner, NEW B, NEW c, NEW item, Grows(h, g, owner, B, c, item)
  PROVE  /\ \A b \in B \ {c} :
              /\ h[b].type = "Array" => Tree(g, b) = Tree(h, b)
              /\ Holding(Tree(g, b), Front(Tree(g, b).items))
                   = Holding(Tree(h, b), Front(Tree(h, b).items))
         /\ Tree(g, c) = Holding(Tree(h, c), Append(Tree(h, c).items, Tree(h, item)))
<1>1. PICK l, m, x : l = Lists(h) /\ m = Lists(g) /\ x = Tree(h, item)
  OBVIOUS
<1>2. /\ h \in [Items -> Cells] /\ Linked(h, owner) /\ Spine(h, owner, B, c)
      /\ Ascending(h) /\ B \subseteq Allocated(h) /\ B \subseteq Items
      /\ c \in B /\ item \in Items /\ Extended(h, g, c, item)
  BY GrowsIs DEF Grows, Spine
<1>3. \A b \in B : h[b].child # Null => h[b].child \in Allocated(h) /\ owner[h[b].child] = b
  BY <1>2, ListEnds DEF Ascending
<1>4. \A b \in B \ {c} : g[b].child = h[b].child
  BY <1>2 DEF Extended
<1>5. \A b \in B : /\ g[b].type = h[b].type /\ g[b].string = h[b].string
                   /\ g[b].value = h[b].value
  BY <1>2 DEF Extended
<1>6. ASSUME NEW b \in B \ {c}, h[b].type = "Array"
      PROVE  Tree(g, b) = Tree(h, b)
  <2>1. From(m, g[b].child) = From(l, h[b].child)
    <3>1. CASE h[b].child = Null
      BY <1>4, <3>1 DEF From
    <3>2. CASE h[b].child # Null
      <4>1. Apart(h, owner, B, c, h[b].child)
        BY <1>2, <1>3, <1>6, <3>2, NullIsNoItem DEF Apart, Spine
      <4>2. m[h[b].child] = l[h[b].child]
        BY <1>1, <1>3, <3>2, <4>1, ApartStays
      <4>3. QED
        BY <1>4, <3>2, <4>2 DEF From
    <3>3. QED
      BY <3>1, <3>2
  <2>2. AsDocument(g[b], m) = AsDocument(h[b], l)
    BY <1>5, <2>1, Zenon DEF AsDocument
  <2>3. QED
    BY <1>1, <2>2, Zenon DEF Tree
<1>7. ASSUME NEW b \in B \ {c}
      PROVE  Holding(Tree(g, b), Front(Tree(g, b).items))
                = Holding(Tree(h, b), Front(Tree(h, b).items))
  <2>1. Front(From(m, g[b].child)) = Front(From(l, h[b].child))
    <3>1. CASE h[b].child = Null
      BY <1>4, <3>1 DEF From
    <3>2. CASE h[b].child # Null
      <4>1. Front(m[h[b].child]) = Front(l[h[b].child])
        BY <1>1, <1>3, <3>2, FrontStays
      <4>2. From(m, g[b].child) = m[h[b].child] /\ From(l, h[b].child) = l[h[b].child]
        BY <1>4, <3>2 DEF From
      <4>3. QED
        BY <4>1, <4>2
    <3>3. QED
      BY <3>1, <3>2
  <2>2. PICK s : s = From(m, g[b].child)
    OBVIOUS
  <2>3. Tree(g, b) = Holding(Tree(h, b), s)
    BY <1>1, <1>5, <2>2, HoldingIs
  <2>4. /\ Tree(g, b).items = s
        /\ Holding(Tree(g, b), Front(s)) = Holding(Tree(h, b), Front(s))
    <3>1. PICK e, d, t : e = Tree(g, b) /\ d = Tree(h, b) /\ t = Front(s)
      OBVIOUS
    <3>2. Holding(Holding(d, s), t) = Holding(d, t) /\ Holding(d, s).items = s
      BY <3>1, HeldIs
    <3>3. QED
      BY <2>3, <3>1, <3>2, Zenon
  <2>5. Tree(h, b).items = From(l, h[b].child)
    BY <1>1, TreeIs
  <2>6. QED
    BY <2>1, <2>2, <2>4, <2>5, Zenon
<1>8. From(m, g[c].child) = Append(From(l, h[c].child), x)
  <2>1. CASE h[c].child = Null
    <3>1. g[c].child = item /\ item # Null
      BY <1>2, <2>1, NullIsNoItem DEF Extended
    <3>2. From(m, g[c].child) = <<x>> /\ From(l, h[c].child) = <<>>
      <4>1. m[item] = <<x>>
        BY <1>1, ItemEnds
      <4>2. QED
        BY <2>1, <3>1, <4>1, Zenon DEF From
    <3>3. Append(<<>>, x) = <<x>>
      BY SMT
    <3>4. QED
      BY <3>2, <3>3, Zenon
  <2>2. CASE h[c].child # Null
    <3>1. g[c].child = h[c].child
      BY <1>2, <2>2 DEF Extended
    <3>2. m[h[c].child] = Append(l[h[c].child], x)
      BY <1>1, <1>2, <1>3, <2>2, ListGrows
    <3>3. QED
      BY <2>2, <3>1, <3>2 DEF From
  <2>3. QED
    BY <2>1, <2>2
<1>9. Tree(g, c) = Holding(Tree(h, c), Append(Tree(h, c).items, x))
  <2>1. PICK s : s = From(m, g[c].child)
    OBVIOUS
  <2>2. Tree(g, c) = Holding(Tree(h, c), s)
    BY <1>1, <1>2, <1>5, <2>1, HoldingIs
  <2>3. Tree(h, c).items = From(l, h[c].child)
    BY <1>1, TreeIs
  <2>4. QED
    BY <1>8, <2>1, <2>2, <2>3, Zenon
<1>10. QED
  BY <1>1, <1>6, <1>7, <1>9, Zenon

-----------------------------------------------------------------------------
(* The open blocks.                                                        *)

(* Open blocks, each inside the one before it: at the end of its list if   *)
(* that is an object, in no list yet if it is an array.                    *)
Path(h, owner, s) ==
  /\ s \in Seq(Items) /\ s # <<>>
  /\ \A k \in 1 .. Len(s) : s[k] \in Allocated(h) /\ h[s[k]].type \in {"Object", "Array"}
  /\ \A k, l \in 1 .. Len(s) : k < l => s[k] < s[l]
  /\ owner[s[1]] = Null
  /\ \A k \in 2 .. Len(s) : owner[s[k]] # Null =>
       h[s[k - 1]].type = "Object" /\ owner[s[k]] = s[k - 1] /\ h[s[k]].next = Null

LEMMA PathEnds ==
  ASSUME NEW h, NEW owner, NEW s, Path(h, owner, s), NEW n, n = Len(s)
  PROVE  /\ n \in Nat \ {0} /\ n \in 1 .. n /\ 1 \in 1 .. n
         /\ \A k \in 1 .. n : s[k] \in Items
         /\ \A k \in 1 .. n : s[k] = s[n] => k = n
<1>1. n \in Nat \ {0} /\ \A k \in 1 .. n : s[k] \in Items
  BY LenProperties, EmptySeq DEF Path
<1>2. n \in 1 .. n /\ 1 \in 1 .. n
  BY <1>1
<1>3. ASSUME NEW k \in 1 .. n, s[k] = s[n]
      PROVE  k = n
  <2>1. CASE k < n
    <3>1. s[k] < s[n]
      BY <1>2, <2>1 DEF Path
    <3>2. s[n] \in Nat
      BY <1>1, <1>2 DEF Items
    <3>3. QED
      BY <1>3, <3>1, <3>2
  <2>2. QED
    BY <1>1, <2>1
<1>4. QED
  BY <1>1, <1>2, <1>3

LEMMA PathIsSpine ==
  ASSUME NEW h, NEW owner, NEW s, Path(h, owner, s), NEW n, n = Len(s), NEW c, c = s[n],
         NEW B, B = {s[k] : k \in 1 .. n}
  PROVE  Spine(h, owner, B, c)
<1>1. /\ n \in Nat \ {0} /\ n \in 1 .. n
      /\ \A k \in 1 .. n : s[k] = c => k = n
  BY PathEnds
<1>2. B \subseteq Allocated(h) /\ c \in B
  BY <1>1 DEF Path
<1>3. ASSUME NEW b \in B, owner[b] # Null
      PROVE  owner[b] \in B \ {c} /\ h[owner[b]].type # "Array" /\ h[b].next = Null
  <2>1. PICK k \in 1 .. n : b = s[k]
    OBVIOUS
  <2>2. k # 1
    BY <1>3, <2>1 DEF Path
  <2>3. k \in 2 .. n /\ k - 1 \in 1 .. n /\ k - 1 # n
    BY <1>1, <2>2
  <2>4. h[s[k - 1]].type = "Object" /\ owner[b] = s[k - 1] /\ h[b].next = Null
    BY <1>3, <2>1, <2>3 DEF Path
  <2>5. s[k - 1] # c
    BY <1>1, <2>3
  <2>6. QED
    BY <2>3, <2>4, <2>5
<1>4. QED
  BY <1>2, <1>3 DEF Spine

LEMMA OpenTreesAre ==
  ASSUME NEW h, NEW s \in Seq(Items), NEW S, \A k \in 1 .. Len(s) : OpenTree(h, s, k) \in S
  PROVE  /\ OpenTrees(h, s) \in Seq(S) /\ Len(OpenTrees(h, s)) = Len(s)
         /\ DOMAIN OpenTrees(h, s) = 1 .. Len(s)
         /\ \A k \in 1 .. Len(s) : OpenTrees(h, s)[k] = OpenTree(h, s, k)
<1>1. PICK n : n = Len(s)
  OBVIOUS
<1>2. n \in Nat /\ DOMAIN s = 1 .. n
  BY <1>1, LenProperties
<1>3. PICK f : f = OpenTrees(h, s)
  OBVIOUS
<1>4. f = [k \in 1 .. n |-> OpenTree(h, s, k)]
  BY <1>2, <1>3 DEF OpenTrees
<1>5. \A k \in 1 .. n : f[k] \in S /\ f[k] = OpenTree(h, s, k)
  BY <1>1, <1>4
<1>6. f \in [1 .. n -> S]
  BY <1>4, <1>5
<1>7. f \in Seq(S) /\ Len(f) = n
  BY <1>2, <1>6, SMT
<1>8. QED
  BY <1>1, <1>3, <1>4, <1>5, <1>7

LEMMA OpenTreesGrow ==
  ASSUME NEW h \in [Items -> Cells], NEW owner, Linked(h, owner), NEW g, Ascending(g),
         NEW s, Path(h, owner, s), NEW item \in Allocated(h), owner[item] = Null,
         \A k \in 1 .. Len(s) : s[k] # item, Extended(h, g, Last(s), item)
  PROVE  /\ Tree(g, item) = Tree(h, item)
         /\ \A k \in 1 .. Len(s) :
              OpenTree(g, s, k) =
                IF k = Len(s)
                THEN Holding(OpenTree(h, s, k), Append(OpenTree(h, s, k).items, Tree(h, item)))
                ELSE OpenTree(h, s, k)
<1>1. PICK n, c, B : n = Len(s) /\ c = s[n] /\ B = {s[k] : k \in 1 .. n}
  OBVIOUS
<1>2. /\ Spine(h, owner, B, c) /\ n \in Nat \ {0} /\ n \in 1 .. n
      /\ \A k \in 1 .. n : s[k] = c => k = n
  <2>1. Spine(h, owner, B, c)
    BY <1>1, PathIsSpine, Zenon
  <2>2. QED
    BY <1>1, <2>1, PathEnds
<1>3. Grows(h, g, owner, B, c, item)
  <2>1. Last(s) = c /\ item \notin B
    BY <1>1 DEF Last
  <2>2. QED
    BY <1>2, <2>1 DEF Grows
<1>4. \A k \in 1 .. n : g[s[k]].type = h[s[k]].type
  <2>1. Extended(h, g, c, item) /\ \A k \in 1 .. n : s[k] \in Items
    BY <1>1, <1>3 DEF Grows, Path, Allocated
  <2>2. QED
    BY <2>1 DEF Extended
<1>5. ASSUME NEW k \in 1 .. n, k # n
      PROVE  OpenTree(g, s, k) = OpenTree(h, s, k)
  <2>1. s[k] \in B \ {c} /\ k < n
    BY <1>1, <1>2, <1>5
  <2>2. CASE h[s[k]].type = "Object"
    <3>1. /\ Tree(h, s[k]).type = "Object" /\ Tree(g, s[k]).type = "Object"
      BY <1>4, <2>2, TreeIs
    <3>2. /\ OpenTree(g, s, k) = Holding(Tree(g, s[k]), Front(Tree(g, s[k]).items))
          /\ OpenTree(h, s, k) = Holding(Tree(h, s[k]), Front(Tree(h, s[k]).items))
      BY <1>1, <2>1, <3>1 DEF OpenTree, Holding
    <3>3. QED
      BY <1>3, <2>1, <3>2, TreesGrow
  <2>3. CASE h[s[k]].type # "Object"
    <3>1. h[s[k]].type = "Array"
      BY <1>1, <2>3 DEF Path
    <3>2. Tree(h, s[k]).type # "Object" /\ Tree(g, s[k]).type # "Object"
      BY <1>4, <2>3, TreeIs
    <3>3. OpenTree(g, s, k) = Tree(g, s[k]) /\ OpenTree(h, s, k) = Tree(h, s[k])
      BY <3>2 DEF OpenTree
    <3>4. QED
      BY <1>3, <2>1, <3>1, <3>3, TreesGrow
  <2>4. QED
    BY <2>2, <2>3
<1>6. OpenTree(g, s, n) = Tree(g, c) /\ OpenTree(h, s, n) = Tree(h, c)
  BY <1>1, <1>2 DEF OpenTree
<1>7. Tree(g, c) = Holding(Tree(h, c), Append(Tree(h, c).items, Tree(h, item)))
  BY <1>3, TreesGrow
<1>8. Tree(g, item) = Tree(h, item)
  BY <1>3, OutsideStays DEF Grows
<1>9. QED
  BY <1>1, <1>5, <1>6, <1>7, <1>8

(* The blocks are containers; one in an object is the last field of it.    *)
NestedIn(h, s) ==
  /\ \A k \in 1 .. Len(s) : h[s[k]].type \in {"Object", "Array"}
  /\ \A k \in 2 .. Len(s) : h[s[k - 1]].type = "Object" =>
       h[s[k - 1]].child # Null /\ s[k] = LastItem(h, s[k - 1])

Nested == phase = "build" => NestedIn(heap, blocks)

LEMMA BlocksArePath ==
  ASSUME IInv, Nested, phase = "build", NEW owner, Constructing(owner)
  PROVE  Path(heap, owner, blocks) /\ NestedIn(heap, blocks)
<1>1. PICK n : n = Len(blocks)
  OBVIOUS
<1>2. /\ heap \in [Items -> Cells] /\ Linked(heap, owner) /\ Growing(owner)
      /\ blocks \in Seq(Items) /\ blocks # <<>> /\ blocks[1] = response
      /\ NestedIn(heap, blocks)
  BY DEF IInv, Nested, Constructing
<1>3. n \in Nat \ {0} /\ \A k \in 1 .. n : blocks[k] \in Items
  BY <1>1, <1>2, LenProperties, EmptySeq
<1>4. ASSUME NEW k \in 2 .. n, owner[blocks[k]] # Null
      PROVE  /\ heap[blocks[k - 1]].type = "Object" /\ owner[blocks[k]] = blocks[k - 1]
             /\ heap[blocks[k]].next = Null
  <2>1. k - 1 \in 1 .. n
    BY <1>3
  <2>2. ~Pending(k)
    BY <1>1, <1>2, <1>4 DEF Growing
  <2>3. heap[blocks[k - 1]].type = "Object"
    BY <1>1, <1>2, <2>1, <2>2 DEF Pending, NestedIn
  <2>4. heap[blocks[k - 1]].child # Null /\ blocks[k] = LastItem(heap, blocks[k - 1])
    BY <1>1, <1>2, <2>3 DEF NestedIn
  <2>5. QED
    BY <1>2, <1>3, <2>1, <2>3, <2>4, ListEnds
<1>5. /\ \A k \in 1 .. n : blocks[k] \in Allocated(heap)
      /\ \A k, l \in 1 .. n : k < l => blocks[k] < blocks[l]
      /\ owner[blocks[1]] = Null
  BY <1>1, <1>2 DEF Growing
<1>6. \A k \in 1 .. n : heap[blocks[k]].type \in {"Object", "Array"}
  BY <1>1, <1>2 DEF NestedIn
<1>7. QED
  BY <1>1, <1>2, <1>4, <1>5, <1>6 DEF Path

(* A new item changes no document.                                         *)
LEMMA CreatedShows ==
  ASSUME NEW h \in [Items -> Cells], NEW owner, Linked(h, owner),
         NEW s, Path(h, owner, s), NestedIn(h, s), NEW i \in Free(h),
         NEW type \in Kinds, NEW name \in Labels, NEW value \in Contents,
         NEW g, g = Stored(h, i, NewCell(type, name, value))
  PROVE  /\ g \in [Items -> Cells] /\ Linked(g, owner) /\ Path(g, owner, s) /\ NestedIn(g, s)
         /\ i \in Allocated(g) /\ owner[i] = Null /\ g[i].type = type
         /\ \A k \in 1 .. Len(s) : s[k] # i /\ g[s[k]] = h[s[k]]
         /\ \A k \in 1 .. Len(s) : OpenTree(g, s, k) = OpenTree(h, s, k)
         /\ Tree(g, i) = Value(type, name, value)
<1>1. PICK cell : cell = NewCell(type, name, value)
  OBVIOUS
<1>2. /\ cell \in Cells /\ cell.type = type /\ type # "unallocated"
      /\ cell.string = name /\ cell.value = value
      /\ cell.next = Null /\ cell.prev = Null /\ cell.child = Null
  <2>1. cell.value = value
    BY <1>1 DEF NewCell
  <2>2. QED
    BY <1>1, <2>1, NewCellIs
<1>3. /\ g \in [Items -> Cells] /\ Linked(g, owner)
      /\ Allocated(g) = Allocated(h) \cup {i} /\ owner[i] = Null
  <2>1. /\ [h EXCEPT ![i] = cell] \in [Items -> Cells]
        /\ Linked([h EXCEPT ![i] = cell], owner)
        /\ Allocated([h EXCEPT ![i] = cell]) = Allocated(h) \cup {i} /\ owner[i] = Null
    BY <1>2, CreatedLinked
  <2>2. g = [h EXCEPT ![i] = cell]
    BY <1>1 DEF Stored
  <2>3. QED
    BY <2>1, <2>2
<1>4. i \in Items /\ i \notin Allocated(h)
  BY DEF Free, Allocated
<1>5. g[i] = cell /\ \A j \in Items \ {i} : g[j] = h[j]
  BY <1>1, <1>3, <1>4 DEF Stored
<1>6. PICK n : n = Len(s)
  OBVIOUS
<1>7. /\ n \in Nat \ {0} /\ \A k \in 1 .. n : s[k] \in Items
      /\ \A k \in 1 .. n : s[k] # i /\ g[s[k]] = h[s[k]]
  <2>1. n \in Nat \ {0} /\ \A k \in 1 .. n : s[k] \in Items
    BY <1>6, PathEnds
  <2>2. \A k \in 1 .. n : s[k] # i
    BY <1>4, <1>6 DEF Path
  <2>3. QED
    BY <1>5, <2>1, <2>2
<1>8. Path(g, owner, s)
  <2>1. \A k \in 2 .. n : k \in 1 .. n /\ k - 1 \in 1 .. n
    BY <1>7
  <2>2. \A k \in 2 .. n : owner[s[k]] # Null =>
          g[s[k - 1]].type = "Object" /\ owner[s[k]] = s[k - 1] /\ g[s[k]].next = Null
    BY <1>6, <1>7, <2>1 DEF Path
  <2>3. \A k \in 1 .. n : s[k] \in Allocated(g) /\ g[s[k]].type \in {"Object", "Array"}
    BY <1>3, <1>6, <1>7 DEF Path
  <2>4. QED
    BY <1>6, <2>2, <2>3 DEF Path
<1>9. NestedIn(g, s)
  <2>1. ASSUME NEW k \in 2 .. n, g[s[k - 1]].type = "Object"
        PROVE  g[s[k - 1]].child # Null /\ s[k] = LastItem(g, s[k - 1])
    <3>1. k - 1 \in 1 .. n
      BY <1>7
    <3>2. PICK d : d = s[k - 1]
      OBVIOUS
    <3>3. d \in Items /\ g[d] = h[d] /\ h[d].type = "Object"
      BY <1>7, <2>1, <3>1, <3>2
    <3>4. h[d].child # Null /\ s[k] = LastItem(h, d)
      BY <1>6, <3>2, <3>3 DEF NestedIn
    <3>5. h[d].child \in Items /\ owner[h[d].child] = d /\ d # Null
      BY <3>3, <3>4, ListEnds, NullIsNoItem
    <3>6. g[h[d].child] = h[h[d].child]
      BY <1>3, <1>5, <3>5
    <3>7. QED
      BY <3>2, <3>3, <3>4, <3>6 DEF LastItem
  <2>2. \A k \in 1 .. n : g[s[k]].type \in {"Object", "Array"}
    BY <1>6, <1>7 DEF NestedIn
  <2>3. QED
    BY <1>6, <2>1, <2>2 DEF NestedIn
<1>10. Ascending(h) /\ Ascending(g)
  BY <1>3, LinkedAscends
<1>11. \A j \in Allocated(h) : Tree(g, j) = Tree(h, j)
  <2>1. Allocated(h) \subseteq Allocated(g) /\ \A j \in Allocated(h) : g[j] = h[j]
    BY <1>3, <1>4, <1>5 DEF Allocated
  <2>2. QED
    BY <1>10, <2>1, TreesUntouched
<1>12. ASSUME NEW k \in 1 .. n
       PROVE  OpenTree(g, s, k) = OpenTree(h, s, k)
  <2>1. Tree(g, s[k]) = Tree(h, s[k])
    BY <1>6, <1>11 DEF Path
  <2>2. QED
    BY <2>1, Zenon DEF OpenTree
<1>13. Tree(g, i) = Value(type, name, value)
  <2>1. From(Lists(g), g[i].child) = <<>>
    BY <1>2, <1>5 DEF From
  <2>2. QED
    BY <1>2, <1>5, <2>1, Zenon DEF Tree, AsDocument, Value
<1>14. QED
  BY <1>2, <1>3, <1>5, <1>6, <1>7, <1>8, <1>9, <1>12, <1>13

(* An item put at the end of the innermost block changes no other.         *)
LEMMA NestedStays ==
  ASSUME NEW h \in [Items -> Cells], NEW owner, Linked(h, owner),
         NEW s, Path(h, owner, s), NestedIn(h, s), NEW item \in Items, owner[item] = Null,
         NEW g, Extended(h, g, Last(s), item)
  PROVE  /\ NestedIn(g, s)
         /\ g[Last(s)].child # Null /\ LastItem(g, Last(s)) = item
<1>1. PICK n, c : n = Len(s) /\ c = s[n]
  OBVIOUS
<1>2. /\ n \in Nat \ {0} /\ n \in 1 .. n /\ \A k \in 1 .. n : s[k] \in Items
      /\ \A k \in 1 .. n : s[k] = c => k = n
  BY <1>1, PathEnds
<1>3. Extended(h, g, c, item) /\ Last(s) = c /\ c \in Items
  BY <1>1, <1>2 DEF Last
<1>4. \A k \in 1 .. n : g[s[k]].type = h[s[k]].type
  BY <1>2, <1>3 DEF Extended
<1>5. ASSUME NEW k \in 2 .. n, g[s[k - 1]].type = "Object"
      PROVE  g[s[k - 1]].child # Null /\ s[k] = LastItem(g, s[k - 1])
  <2>1. k - 1 \in 1 .. n /\ k - 1 # n
    BY <1>2
  <2>2. PICK d : d = s[k - 1]
    OBVIOUS
  <2>3. d \in Items /\ d # c /\ h[d].type = "Object"
    BY <1>2, <1>4, <1>5, <2>1, <2>2
  <2>4. h[d].child # Null /\ s[k] = LastItem(h, d)
    BY <1>1, <2>2, <2>3 DEF NestedIn
  <2>5. h[d].child \in Items /\ owner[h[d].child] = d /\ d # Null
    BY <2>3, <2>4, ListEnds, NullIsNoItem
  <2>6. g[d].child = h[d].child
    BY <1>3, <2>3 DEF Extended
  <2>7. h[c].child # Null => owner[h[c].child] = c
    BY <1>3, ListEnds
  <2>8. g[h[d].child].prev = h[h[d].child].prev
    BY <1>3, <2>3, <2>5, <2>7 DEF Extended
  <2>9. QED
    BY <2>2, <2>4, <2>6, <2>8 DEF LastItem
<1>6. NestedIn(g, s)
  <2>1. \A k \in 1 .. n : g[s[k]].type \in {"Object", "Array"}
    BY <1>1, <1>4 DEF NestedIn
  <2>2. QED
    BY <1>1, <1>5, <2>1 DEF NestedIn
<1>7. g[c].child # Null /\ LastItem(g, c) = item
  <2>1. item # Null
    BY NullIsNoItem
  <2>2. CASE h[c].child = Null
    <3>1. g[c].child = item
      BY <1>3, <2>2 DEF Extended
    <3>2. g[item].prev = item
      BY <1>3, <2>2 DEF Extended
    <3>3. QED
      BY <2>1, <3>1, <3>2 DEF LastItem
  <2>3. CASE h[c].child # Null
    <3>1. g[c].child = h[c].child /\ h[c].child \in Items
      BY <1>3, <2>3, ListEnds DEF Extended
    <3>2. g[h[c].child].prev = item
      BY <1>3, <2>3, <3>1 DEF Extended
    <3>3. QED
      BY <2>3, <3>1, <3>2 DEF LastItem
  <2>4. QED
    BY <2>2, <2>3
<1>8. QED
  BY <1>3, <1>6, <1>7

(* A new field is at the end of the innermost block.                       *)
LEMMA FieldAppears ==
  ASSUME NEW owner, Constructing(owner), Path(heap, owner, blocks), NestedIn(heap, blocks),
         NEW i, Fresh(heap, i),
         NEW type \in Kinds, NEW value \in Contents, NEW name \in Names,
         NEW g, g = add_item_to_object(Created(heap, i, type, value), Last(blocks), name, i)
  PROVE  /\ Ascending(g) /\ NestedIn(g, blocks)
         /\ g[Last(blocks)].child # Null /\ LastItem(g, Last(blocks)) = i
         /\ i \in Items /\ i \in Allocated(g) /\ g[i].type = type
         /\ g \in [Items -> Cells] /\ \E now : Linked(g, now)
         /\ \A k \in 1 .. Len(blocks) : blocks[k] # i /\ g[blocks[k]].type = heap[blocks[k]].type
         /\ Tree(g, i) = Value(type, name, value)
         /\ \A k \in 1 .. Len(blocks) :
              OpenTree(g, blocks, k) =
                IF k = Len(blocks)
                THEN Holding(OpenTree(heap, blocks, k),
                             Append(OpenTree(heap, blocks, k).items, Value(type, name, value)))
                ELSE OpenTree(heap, blocks, k)
<1>1. /\ heap \in [Items -> Cells] /\ Linked(heap, owner) /\ blocks \in Seq(Items)
      /\ \A a \in Allocated(heap) : \A j \in Items : j < a => j \in Allocated(heap)
  BY DEF Constructing, Growing
<1>2. i \in Free(heap) /\ i \in Items /\ name \in Labels
  BY <1>1, FreshComesLast DEF Labels
<1>3. PICK c, now : c = Last(blocks) /\ now = Owned(owner, i, c)
  OBVIOUS
<1>4. PICK h : h = Stored(heap, i, NewCell(type, name, value))
  OBVIOUS
<1>5. g = add_item_to_array(h, c, i)
  BY <1>1, <1>2, <1>3, <1>4, CreatedIs
<1>6. /\ h \in [Items -> Cells] /\ Linked(h, owner) /\ Path(h, owner, blocks)
      /\ NestedIn(h, blocks) /\ i \in Allocated(h) /\ owner[i] = Null /\ h[i].type = type
      /\ \A k \in 1 .. Len(blocks) : blocks[k] # i /\ h[blocks[k]] = heap[blocks[k]]
      /\ \A k \in 1 .. Len(blocks) : OpenTree(h, blocks, k) = OpenTree(heap, blocks, k)
      /\ Tree(h, i) = Value(type, name, value)
  BY <1>1, <1>2, <1>4, CreatedShows
<1>7. c \in Items /\ \A k \in 1 .. Len(blocks) : blocks[k] \in Items
  BY <1>3, <1>6, PathEnds DEF Last
<1>8. Extended(h, g, c, i)
  <2>1. Extended(h, add_item_to_array(h, c, i), c, i)
    BY <1>2, <1>6, <1>7, AddedCells
  <2>2. QED
    BY <1>5, <2>1
<1>9. g \in [Items -> Cells] /\ Linked(g, now)
  BY <1>3, FieldAdded DEF Path
<1>10. Ascending(g)
  BY <1>9, LinkedAscends
<1>11. /\ NestedIn(g, blocks) /\ g[c].child # Null /\ LastItem(g, c) = i
  <2>1. Extended(h, g, Last(blocks), i)
    BY <1>3, <1>8
  <2>2. QED
    BY <1>2, <1>3, <1>6, <2>1, NestedStays
<1>12. /\ Tree(g, i) = Tree(h, i)
       /\ \A k \in 1 .. Len(blocks) :
            OpenTree(g, blocks, k) =
              IF k = Len(blocks)
              THEN Holding(OpenTree(h, blocks, k),
                           Append(OpenTree(h, blocks, k).items, Tree(h, i)))
              ELSE OpenTree(h, blocks, k)
  <2>1. Extended(h, g, Last(blocks), i) /\ \A k \in 1 .. Len(blocks) : blocks[k] # i
    BY <1>3, <1>6, <1>8
  <2>2. QED
    BY <1>6, <1>10, <2>1, OpenTreesGrow
<1>13. /\ g[i].type = type
       /\ \A k \in 1 .. Len(blocks) : g[blocks[k]].type = heap[blocks[k]].type
  BY <1>2, <1>6, <1>7, <1>8 DEF Extended
<1>14. i \in Allocated(g)
  BY <1>2, <1>6, <1>8 DEF Allocated, Free, Extended
<1>15. \A k \in 1 .. Len(blocks) :
         OpenTree(g, blocks, k) =
           IF k = Len(blocks)
           THEN Holding(OpenTree(heap, blocks, k),
                        Append(OpenTree(heap, blocks, k).items, Value(type, name, value)))
           ELSE OpenTree(heap, blocks, k)
  BY <1>6, <1>12
<1>16. QED
  BY <1>2, <1>3, <1>6, <1>9, <1>10, <1>11, <1>12, <1>13, <1>14, <1>15

(* The ends of sequences.                                                  *)
LEMMA EndsAre ==
  ASSUME NEW S, NEW s \in Seq(S)
  PROVE  /\ \A v \in S : Front(Append(s, v)) = s
         /\ s # <<>> => Append(Front(s), Last(s)) = s
<1>1. ASSUME NEW v \in S
      PROVE  Front(Append(s, v)) = s
  <2>1. PICK t : t = Append(s, v)
    OBVIOUS
  <2>2. /\ t \in Seq(S) /\ Len(t) = Len(s) + 1 /\ \A k \in 1 .. Len(s) : t[k] = s[k]
        /\ Len(s) \in Nat
    BY <2>1, AppendProperties, LenProperties
  <2>3. t # <<>>
    BY <2>1, AppendProperties
  <2>4. /\ Front(t) \in Seq(S) /\ Len(Front(t)) = Len(t) - 1
        /\ \A k \in 1 .. Len(t) - 1 : Front(t)[k] = t[k]
    BY <2>2, <2>3, WithoutLast
  <2>5. Len(Front(t)) = Len(s) /\ \A k \in 1 .. Len(s) : Front(t)[k] = s[k]
    BY <2>2, <2>4
  <2>6. Front(t) = s
    BY <2>4, <2>5, SeqEqual
  <2>7. QED
    BY <2>1, <2>6
<1>2. ASSUME s # <<>>
      PROVE  Append(Front(s), Last(s)) = s
  <2>1. /\ Front(s) \in Seq(S) /\ Len(Front(s)) = Len(s) - 1
        /\ \A k \in 1 .. Len(s) - 1 : Front(s)[k] = s[k]
    BY <1>2, WithoutLast
  <2>2. Len(s) \in Nat \ {0}
    BY <1>2, LenProperties, EmptySeq
  <2>3. PICK f, x : f = Front(s) /\ x = s[Len(s)]
    OBVIOUS
  <2>4. x \in S /\ Last(s) = x
    BY <2>2, <2>3 DEF Last
  <2>5. /\ Append(f, x) \in Seq(S) /\ Len(Append(f, x)) = Len(f) + 1
        /\ \A k \in 1 .. Len(f) : Append(f, x)[k] = f[k]
        /\ Append(f, x)[Len(f) + 1] = x
    BY <2>1, <2>3, <2>4, AppendProperties
  <2>6. \A k \in 1 .. Len(s) : Append(f, x)[k] = s[k]
    <3>1. SUFFICES ASSUME NEW k \in 1 .. Len(s)
                  PROVE  Append(f, x)[k] = s[k]
      OBVIOUS
    <3>2. CASE k = Len(s)
      BY <2>1, <2>2, <2>3, <2>5, <3>2
    <3>3. CASE k # Len(s)
      <4>1. k \in 1 .. Len(s) - 1
        BY <2>2, <3>3
      <4>2. QED
        BY <2>1, <2>3, <2>5, <4>1
    <3>4. QED
      BY <3>2, <3>3
  <2>7. Append(f, x) = s
    <3>1. Len(Append(f, x)) = Len(s)
      BY <2>1, <2>2, <2>3, <2>5
    <3>2. QED
      BY <2>5, <2>6, <3>1, SeqEqual
  <2>8. QED
    BY <2>3, <2>4, <2>7
<1>3. QED
  BY <1>1, <1>2

(* The open blocks after a field, an opened block and a closed one.        *)
WithLast(f, v) == [f EXCEPT ![Len(f)] = Document!With(@, v)]

LEMMA SomeTrees ==
  ASSUME NEW h, NEW s \in Seq(Items), s # <<>>, NEW f, f = OpenTrees(h, s)
  PROVE  f # <<>> /\ Len(f) = Len(s)
<1>1. PICK S : S = {OpenTree(h, s, k) : k \in 1 .. Len(s)}
  OBVIOUS
<1>2. f \in Seq(S) /\ Len(f) = Len(s)
  BY <1>1, OpenTreesAre
<1>3. Len(s) \in Nat \ {0}
  BY LenProperties, EmptySeq
<1>4. QED
  BY <1>2, <1>3, EmptySeq

Filled(h, g, s, v) ==
  \A k \in 1 .. Len(s) :
    OpenTree(g, s, k) =
      IF k = Len(s)
      THEN Holding(OpenTree(h, s, k), Append(OpenTree(h, s, k).items, v))
      ELSE OpenTree(h, s, k)

LEMMA GrownTrees ==
  ASSUME NEW h, NEW g, NEW s \in Seq(Items), s # <<>>, NEW v, Filled(h, g, s, v),
         NEW f, f = OpenTrees(h, s)
  PROVE  OpenTrees(g, s) = WithLast(f, v)
<1>1. PICK n : n = Len(s)
  OBVIOUS
<1>2. n \in Nat \ {0} /\ DOMAIN s = 1 .. n
  BY <1>1, LenProperties, EmptySeq
<1>3. PICK S : S = {OpenTree(h, s, k) : k \in 1 .. n}
  OBVIOUS
<1>4. /\ f \in Seq(S) /\ Len(f) = n /\ DOMAIN f = 1 .. n
      /\ \A k \in 1 .. n : f[k] = OpenTree(h, s, k)
  BY <1>1, <1>3, OpenTreesAre
<1>5. [f EXCEPT ![n] = Document!With(@, v)]
        = [k \in 1 .. n |-> IF k = n THEN Document!With(f[k], v) ELSE f[k]]
  BY <1>4, Zenon
<1>6. \A d : Document!With(d, v) = Holding(d, Append(d.items, v))
  BY Zenon DEF Document!With, Holding
<1>7. \A k \in 1 .. n : OpenTree(g, s, k)
                          = IF k = n THEN Document!With(f[k], v) ELSE f[k]
  BY <1>1, <1>4, <1>6 DEF Filled
<1>8. OpenTrees(g, s) = [k \in 1 .. n |-> OpenTree(g, s, k)]
  BY <1>2 DEF OpenTrees
<1>9. QED
  BY <1>4, <1>5, <1>7, <1>8 DEF WithLast

Deepened(h, g, s, i, r, v) ==
  /\ s \in Seq(Items) /\ s # <<>> /\ i \in Items /\ r = Append(s, i)
  /\ \A k \in 1 .. Len(s) : OpenTree(g, r, k) = OpenTree(h, s, k)
  /\ OpenTree(g, r, Len(s) + 1) = v

LEMMA OpenedTrees ==
  ASSUME NEW h, NEW g, NEW s, NEW i, NEW v, NEW r, Deepened(h, g, s, i, r, v)
  PROVE  OpenTrees(g, r) = Append(OpenTrees(h, s), v)
<1>1. PICK n, f : n = Len(s) /\ f = OpenTrees(h, s)
  OBVIOUS
<1>2. s \in Seq(Items) /\ n \in Nat \ {0} /\ r \in Seq(Items) /\ Len(r) = n + 1
  BY <1>1, LenProperties, EmptySeq, AppendProperties DEF Deepened
<1>3. PICK S : S = {OpenTree(h, s, k) : k \in 1 .. n} \cup {v}
  OBVIOUS
<1>4. f \in Seq(S) /\ Len(f) = n /\ \A k \in 1 .. n : f[k] = OpenTree(h, s, k)
  <2>1. \A k \in 1 .. Len(s) : OpenTree(h, s, k) \in S
    BY <1>1, <1>3
  <2>2. QED
    BY <1>1, <1>2, <2>1, OpenTreesAre
<1>5. PICK t : t = OpenTrees(g, r)
  OBVIOUS
<1>6. \A k \in 1 .. n + 1 : OpenTree(g, r, k) = IF k = n + 1 THEN v ELSE f[k]
  BY <1>1, <1>2, <1>4 DEF Deepened
<1>7. /\ t \in Seq(S) /\ Len(t) = n + 1
      /\ \A k \in 1 .. n + 1 : t[k] = OpenTree(g, r, k)
  <2>1. \A k \in 1 .. Len(r) : OpenTree(g, r, k) \in S
    BY <1>2, <1>3, <1>4, <1>6
  <2>2. QED
    BY <1>2, <1>5, <2>1, OpenTreesAre
<1>8. /\ Append(f, v) \in Seq(S) /\ Len(Append(f, v)) = n + 1
      /\ \A k \in 1 .. n + 1 : Append(f, v)[k] = IF k = n + 1 THEN v ELSE f[k]
  BY <1>2, <1>3, <1>4, AppendProperties
<1>9. t = Append(f, v)
  BY <1>6, <1>7, <1>8, SeqEqual
<1>10. QED
  BY <1>1, <1>5, <1>9

Emptied(h, g, s, r, n) ==
  /\ s \in Seq(Items) /\ n = Len(s) /\ n > 1 /\ r = Front(s)
  /\ \A k \in 1 .. n - 1 :
       OpenTree(g, r, k) =
         IF k = n - 1
         THEN Holding(OpenTree(h, s, k), Append(OpenTree(h, s, k).items, OpenTree(h, s, n)))
         ELSE OpenTree(h, s, k)

LEMMA ClosedTrees ==
  ASSUME NEW h, NEW g, NEW s, NEW r, NEW n, Emptied(h, g, s, r, n)
  PROVE  OpenTrees(g, r) = WithLast(Front(OpenTrees(h, s)), Last(OpenTrees(h, s)))
<1>1. PICK v, f, o : v = OpenTree(h, s, n) /\ f = OpenTrees(h, s) /\ o = Front(f)
  OBVIOUS
<1>2. /\ s \in Seq(Items) /\ n = Len(s) /\ r = Front(s)
      /\ n \in Nat /\ n - 1 \in Nat \ {0} /\ s # <<>> /\ n \in 1 .. n
  BY LenProperties, EmptySeq DEF Emptied
<1>3. PICK S : S = {OpenTree(h, s, k) : k \in 1 .. n}
  OBVIOUS
<1>4. /\ f \in Seq(S) /\ Len(f) = n
      /\ \A k \in 1 .. n : f[k] = OpenTree(h, s, k)
  <2>1. \A k \in 1 .. Len(s) : OpenTree(h, s, k) \in S
    BY <1>2, <1>3
  <2>2. QED
    BY <1>1, <1>2, <2>1, OpenTreesAre
<1>5. f # <<>> /\ Last(f) = v
  BY <1>1, <1>2, <1>4, EmptySeq DEF Last
<1>6. /\ o \in Seq(S) /\ Len(o) = n - 1
      /\ \A k \in 1 .. n - 1 : o[k] = OpenTree(h, s, k)
  BY <1>1, <1>2, <1>4, <1>5, WithoutLast
<1>7. r \in Seq(Items) /\ Len(r) = n - 1
  BY <1>2, WithoutLast
<1>8. [o EXCEPT ![n - 1] = Document!With(@, v)]
        = [k \in 1 .. n - 1 |-> IF k = n - 1 THEN Document!With(o[k], v) ELSE o[k]]
  <2>1. DOMAIN o = 1 .. n - 1
    BY <1>6, LenProperties
  <2>2. QED
    BY <2>1, Zenon
<1>9. \A d : Document!With(d, v) = Holding(d, Append(d.items, v))
  BY Zenon DEF Document!With, Holding
<1>10. \A k \in 1 .. n - 1 : OpenTree(g, r, k)
                              = IF k = n - 1 THEN Document!With(o[k], v) ELSE o[k]
  BY <1>1, <1>6, <1>9 DEF Emptied
<1>11. OpenTrees(g, r) = [k \in 1 .. n - 1 |-> OpenTree(g, r, k)]
  <2>1. DOMAIN r = 1 .. n - 1
    BY <1>7, LenProperties
  <2>2. QED
    BY <2>1 DEF OpenTrees
<1>12. OpenTrees(g, r) = [o EXCEPT ![n - 1] = Document!With(@, v)]
  BY <1>8, <1>10, <1>11
<1>13. QED
  BY <1>1, <1>5, <1>6, <1>12 DEF WithLast

-----------------------------------------------------------------------------
(* Every step of the macros is a step of the document.                     *)

LEMMA NowBuilding ==
  ASSUME phase = "build"
  PROVE  OpenNow = OpenTrees(heap, blocks) /\ DocumentNow = <<>>
BY DEF OpenNow, DocumentNow, Building

LEMMA StillBuilding ==
  ASSUME phase' = "build"
  PROVE  OpenNow' = OpenTrees(heap', blocks') /\ DocumentNow' = <<>>
BY DEF OpenNow, DocumentNow, Building, OpenTrees, OpenTree, Tree, Lists, Allocated, Free

LEMMA FieldBuilds ==
  ASSUME IInv, Nested, NEW i, NEW name \in Names, NEW type \in Kinds, NEW value \in Contents,
         AddField(i, name, type, value)
  PROVE  Nested' /\ Document!Add(Value(type, name, value))
<1>1. /\ phase = "build" /\ phase' = phase /\ blocks' = blocks /\ Fresh(heap, i)
      /\ heap' = add_item_to_object(Created(heap, i, type, value), Last(blocks), name, i)
  BY DEF AddField, Building
<1>2. PICK owner : Constructing(owner)
  BY <1>1, Opened
<1>3. Path(heap, owner, blocks) /\ NestedIn(heap, blocks)
  BY <1>1, <1>2, BlocksArePath
<1>4. blocks \in Seq(Items) /\ blocks # <<>>
  BY <1>3 DEF Path
<1>5. PICK g : g = add_item_to_object(Created(heap, i, type, value), Last(blocks), name, i)
  OBVIOUS
<1>6. PICK v : v = Value(type, name, value)
  OBVIOUS
<1>7. /\ NestedIn(g, blocks)
      /\ \A k \in 1 .. Len(blocks) :
           OpenTree(g, blocks, k) =
             IF k = Len(blocks)
             THEN Holding(OpenTree(heap, blocks, k), Append(OpenTree(heap, blocks, k).items, v))
             ELSE OpenTree(heap, blocks, k)
  BY <1>1, <1>2, <1>3, <1>5, <1>6, FieldAppears
<1>8. PICK o : o = OpenTrees(heap, blocks)
  OBVIOUS
<1>9. o # <<>> /\ OpenTrees(g, blocks) = WithLast(o, v)
  <2>1. Filled(heap, g, blocks, v)
    BY <1>7 DEF Filled
  <2>2. OpenTrees(g, blocks) = WithLast(o, v)
    BY <1>4, <1>8, <2>1, GrownTrees
  <2>3. QED
    BY <1>4, <1>8, <2>2, SomeTrees
<1>10. /\ OpenNow = o /\ DocumentNow = <<>>
       /\ OpenNow' = OpenTrees(g, blocks) /\ DocumentNow' = <<>>
  BY <1>1, <1>5, <1>8, NowBuilding, StillBuilding
<1>11. Document!Add(v)
  BY <1>9, <1>10, Zenon DEF Document!Add, WithLast
<1>12. Nested'
  BY <1>1, <1>5, <1>7 DEF Nested
<1>13. QED
  BY <1>6, <1>11, <1>12

LEMMA FieldOpens ==
  ASSUME IInv, Nested, NEW i, NEW name \in Names, NEW type \in {"Object", "Array"},
         OpenField(i, name, type)
  PROVE  Nested' /\ Document!OpenBlock(Value(type, name, NoValue))
<1>1. /\ phase = "build" /\ phase' = phase /\ blocks' = Append(blocks, i) /\ Fresh(heap, i)
      /\ heap[Last(blocks)].type = "Object"
      /\ heap' = add_item_to_object(Created(heap, i, type, NoValue), Last(blocks), name, i)
  BY DEF OpenField, Building, Innermost
<1>2. PICK owner : Constructing(owner)
  BY <1>1, Opened
<1>3. Path(heap, owner, blocks) /\ NestedIn(heap, blocks)
  BY <1>1, <1>2, BlocksArePath
<1>4. /\ blocks \in Seq(Items) /\ blocks # <<>> /\ heap \in [Items -> Cells]
      /\ Linked(heap, owner)
  BY <1>2, <1>3 DEF Path, Constructing
<1>5. PICK g : g = add_item_to_object(Created(heap, i, type, NoValue), Last(blocks), name, i)
  OBVIOUS
<1>6. PICK v, n, r, c : /\ v = Value(type, name, NoValue) /\ n = Len(blocks)
                        /\ r = Append(blocks, i) /\ c = Last(blocks)
  OBVIOUS
<1>7. type \in Kinds /\ NoValue \in Contents
  BY DEF Kinds, Contents
<1>8. /\ NestedIn(g, blocks) /\ i \in Items
      /\ g[c].child # Null /\ LastItem(g, c) = i /\ g[i].type = type
      /\ \A k \in 1 .. n : g[blocks[k]].type = heap[blocks[k]].type
      /\ Tree(g, i) = v
      /\ \A k \in 1 .. n :
           OpenTree(g, blocks, k) =
             IF k = n
             THEN Holding(OpenTree(heap, blocks, k), Append(OpenTree(heap, blocks, k).items, v))
             ELSE OpenTree(heap, blocks, k)
  BY <1>1, <1>2, <1>3, <1>5, <1>6, <1>7, FieldAppears
<1>9. /\ n \in Nat \ {0} /\ n \in 1 .. n /\ c = blocks[n] /\ c \in Allocated(heap)
      /\ r \in Seq(Items) /\ Len(r) = n + 1 /\ r[n + 1] = i
      /\ \A k \in 1 .. n : r[k] = blocks[k]
  <2>1. n \in Nat \ {0} /\ n \in 1 .. n /\ c = blocks[n]
    BY <1>3, <1>6, PathEnds DEF Last
  <2>2. c \in Allocated(heap)
    BY <1>3, <1>6, <2>1 DEF Path
  <2>3. QED
    BY <1>4, <1>6, <1>8, <2>1, <2>2, AppendProperties
<1>10. \A k \in 1 .. n - 1 : OpenTree(g, r, k) = OpenTree(heap, blocks, k)
  <2>1. SUFFICES ASSUME NEW k \in 1 .. n - 1
                PROVE  OpenTree(g, r, k) = OpenTree(heap, blocks, k)
    OBVIOUS
  <2>2. k \in 1 .. n /\ k # n /\ k < n /\ k < n + 1
    BY <1>9
  <2>3. r[k] = blocks[k] /\ k < Len(r) /\ k < Len(blocks)
    BY <1>6, <1>9, <2>2
  <2>4. OpenTree(g, r, k) = OpenTree(g, blocks, k)
    BY <2>3, Zenon DEF OpenTree
  <2>5. QED
    BY <1>8, <2>2, <2>4
<1>11. OpenTree(g, r, n) = OpenTree(heap, blocks, n)
  <2>1. PICK t, s : t = Tree(heap, c) /\ s = Tree(heap, c).items
    OBVIOUS
  <2>2. OpenTree(heap, blocks, n) = t /\ OpenTree(g, blocks, n) = Tree(g, c)
    BY <1>6, <1>9, <2>1 DEF OpenTree
  <2>3. Tree(g, c) = Holding(t, Append(s, v))
    BY <1>8, <1>9, <2>1, <2>2
  <2>4. g[c].type = "Object"
    BY <1>1, <1>6, <1>8, <1>9
  <2>5. OpenTree(g, r, n) = Holding(Tree(g, c), Front(Tree(g, c).items))
    <3>1. Tree(g, r[n]).type = "Object" /\ n < Len(r) /\ r[n] = c
      BY <1>9, <2>4, TreeIs
    <3>2. QED
      BY <3>1 DEF OpenTree, Holding
  <2>6. Tree(g, c).items = Append(s, v) /\ Holding(Tree(g, c), s) = Holding(t, s)
    <3>1. PICK d, u : d = Tree(g, c) /\ u = Append(s, v)
      OBVIOUS
    <3>2. d = Holding(Tree(heap, c), u)
      BY <2>1, <2>3, <3>1
    <3>3. d.items = u /\ Holding(d, s) = Holding(Tree(heap, c), s)
      BY <3>2, HeldIs
    <3>4. QED
      BY <2>1, <3>1, <3>3
  <2>7. Front(Append(s, v)) = s
    <3>1. s \in Seq(Documents(heap))
      <4>1. Ascending(heap)
        BY <1>4, LinkedAscends
      <4>2. From(Lists(heap), heap[c].child) \in Seq(Documents(heap))
        BY <1>9, <4>1, ListsAre
      <4>3. QED
        BY <2>1, <4>2, TreeIs
    <3>2. s \in Seq(Documents(heap) \cup {v})
      BY <3>1
    <3>3. QED
      BY <3>2, EndsAre
  <2>8. t = Holding(t, s)
    BY <2>1, HoldingIs, TreeIs
  <2>9. QED
    BY <2>2, <2>5, <2>6, <2>7, <2>8
<1>12. OpenTree(g, r, n + 1) = v
  <2>1. ~(n + 1 < Len(r))
    BY <1>9
  <2>2. QED
    BY <1>8, <1>9, <2>1 DEF OpenTree
<1>13. PICK o : o = OpenTrees(heap, blocks)
  OBVIOUS
<1>14. o # <<>> /\ OpenTrees(g, r) = Append(o, v)
  <2>1. \A k \in 1 .. n : OpenTree(g, r, k) = OpenTree(heap, blocks, k)
    BY <1>9, <1>10, <1>11
  <2>2. QED
    <3>1. Deepened(heap, g, blocks, i, r, v)
      BY <1>4, <1>6, <1>8, <1>12, <2>1, Zenon DEF Deepened
    <3>2. OpenTrees(g, r) = Append(o, v)
      BY <1>13, <3>1, OpenedTrees
    <3>3. QED
      BY <1>4, <1>13, <3>2, SomeTrees
<1>15. /\ OpenNow = o /\ DocumentNow = <<>>
       /\ OpenNow' = OpenTrees(g, r) /\ DocumentNow' = <<>>
  BY <1>1, <1>5, <1>6, <1>13, NowBuilding, StillBuilding
<1>16. Document!OpenBlock(v)
  BY <1>14, <1>15, Zenon DEF Document!OpenBlock
<1>17. NestedIn(g, r)
  <2>1. ASSUME NEW k \in 1 .. n + 1
        PROVE  g[r[k]].type \in {"Object", "Array"}
    <3>1. CASE k = n + 1
      BY <1>8, <1>9, <3>1
    <3>2. CASE k # n + 1
      <4>1. k \in 1 .. n
        BY <1>9, <3>2
      <4>2. QED
        BY <1>6, <1>8, <1>9, <4>1 DEF NestedIn
    <3>3. QED
      BY <3>1, <3>2
  <2>2. ASSUME NEW k \in 2 .. n + 1, g[r[k - 1]].type = "Object"
        PROVE  g[r[k - 1]].child # Null /\ r[k] = LastItem(g, r[k - 1])
    <3>1. CASE k = n + 1
      <4>1. r[k] = i /\ r[k - 1] = c
        BY <1>9, <3>1
      <4>2. QED
        BY <1>8, <4>1
    <3>2. CASE k # n + 1
      <4>1. k \in 2 .. n /\ k \in 1 .. n /\ k - 1 \in 1 .. n
        BY <1>9, <3>2
      <4>2. r[k] = blocks[k] /\ r[k - 1] = blocks[k - 1]
        BY <1>9, <4>1
      <4>3. QED
        BY <1>6, <1>8, <2>2, <4>1, <4>2 DEF NestedIn
    <3>3. QED
      BY <3>1, <3>2
  <2>3. QED
    BY <1>9, <2>1, <2>2 DEF NestedIn
<1>18. Nested'
  BY <1>1, <1>5, <1>6, <1>17 DEF Nested
<1>19. QED
  BY <1>6, <1>16, <1>18

LEMMA ElementOpens ==
  ASSUME IInv, Nested, NEW i, OpenElement(i)
  PROVE  Nested' /\ Document!OpenBlock(Value("Object", NoName, NoValue))
<1>1. /\ phase = "build" /\ phase' = phase /\ blocks' = Append(blocks, i) /\ Fresh(heap, i)
      /\ heap[Last(blocks)].type = "Array"
      /\ heap' = Created(heap, i, "Object", NoValue)
  BY DEF OpenElement, Building, Innermost
<1>2. PICK owner : Constructing(owner)
  BY <1>1, Opened
<1>3. Path(heap, owner, blocks) /\ NestedIn(heap, blocks)
  BY <1>1, <1>2, BlocksArePath
<1>4. /\ blocks \in Seq(Items) /\ blocks # <<>> /\ heap \in [Items -> Cells]
      /\ Linked(heap, owner)
      /\ \A a \in Allocated(heap) : \A j \in Items : j < a => j \in Allocated(heap)
  BY <1>2, <1>3 DEF Path, Constructing, Growing
<1>5. i \in Free(heap) /\ i \in Items
  BY <1>1, <1>4, FreshComesLast
<1>6. PICK type, v, n, r, c : /\ type = "Object" /\ v = Value(type, NoName, NoValue)
                              /\ n = Len(blocks)
                              /\ r = Append(blocks, i) /\ c = Last(blocks)
  OBVIOUS
<1>7. type \in Kinds /\ NoName \in Labels /\ NoValue \in Contents
  BY <1>6 DEF Kinds, Labels, Contents
<1>8. PICK g : g = Stored(heap, i, NewCell(type, NoName, NoValue))
  OBVIOUS
<1>9. heap' = g
  BY <1>1, <1>4, <1>5, <1>6, <1>7, <1>8, CreatedIs
<1>10. /\ NestedIn(g, blocks) /\ g[i].type = type
       /\ \A k \in 1 .. n : g[blocks[k]] = heap[blocks[k]]
       /\ \A k \in 1 .. n : OpenTree(g, blocks, k) = OpenTree(heap, blocks, k)
       /\ Tree(g, i) = v
  BY <1>3, <1>4, <1>5, <1>6, <1>7, <1>8, CreatedShows
<1>11. /\ n \in Nat \ {0} /\ n \in 1 .. n /\ c = blocks[n]
       /\ r \in Seq(Items) /\ Len(r) = n + 1 /\ r[n + 1] = i
       /\ \A k \in 1 .. n : r[k] = blocks[k]
  <2>1. n \in Nat \ {0} /\ n \in 1 .. n /\ c = blocks[n]
    BY <1>3, <1>6, PathEnds DEF Last
  <2>2. QED
    BY <1>4, <1>5, <1>6, <2>1, AppendProperties
<1>12. g[c].type = "Array"
  BY <1>1, <1>6, <1>10, <1>11
<1>13. ASSUME NEW k \in 1 .. n
       PROVE  OpenTree(g, r, k) = OpenTree(heap, blocks, k)
  <2>1. r[k] = blocks[k]
    BY <1>11
  <2>2. CASE k = n
    <3>1. Tree(g, r[k]).type # "Object" /\ Tree(g, blocks[k]).type # "Object"
      BY <1>11, <1>12, <2>1, <2>2, TreeIs
    <3>2. OpenTree(g, r, k) = OpenTree(g, blocks, k)
      BY <2>1, <3>1 DEF OpenTree
    <3>3. QED
      BY <1>10, <3>2
  <2>3. CASE k # n
    <3>1. k < Len(r) /\ k < Len(blocks)
      BY <1>6, <1>11, <2>3
    <3>2. OpenTree(g, r, k) = OpenTree(g, blocks, k)
      BY <2>1, <3>1, Zenon DEF OpenTree
    <3>3. QED
      BY <1>10, <3>2
  <2>4. QED
    BY <2>2, <2>3
<1>14. OpenTree(g, r, n + 1) = v
  <2>1. ~(n + 1 < Len(r))
    BY <1>11
  <2>2. QED
    BY <1>10, <1>11, <2>1 DEF OpenTree
<1>15. PICK o : o = OpenTrees(heap, blocks)
  OBVIOUS
<1>16. o # <<>> /\ OpenTrees(g, r) = Append(o, v)
  <2>1. Deepened(heap, g, blocks, i, r, v)
    BY <1>4, <1>5, <1>6, <1>13, <1>14, Zenon DEF Deepened
  <2>2. OpenTrees(g, r) = Append(o, v)
    BY <1>15, <2>1, OpenedTrees
  <2>3. QED
    BY <1>4, <1>15, <2>2, SomeTrees
<1>17. /\ OpenNow = o /\ DocumentNow = <<>>
       /\ OpenNow' = OpenTrees(g, r) /\ DocumentNow' = <<>>
  BY <1>1, <1>6, <1>9, <1>15, NowBuilding, StillBuilding
<1>18. Document!OpenBlock(v)
  BY <1>16, <1>17, Zenon DEF Document!OpenBlock
<1>19. NestedIn(g, r)
  <2>1. ASSUME NEW k \in 1 .. n + 1
        PROVE  g[r[k]].type \in {"Object", "Array"}
    <3>1. CASE k = n + 1
      BY <1>6, <1>10, <1>11, <3>1
    <3>2. CASE k # n + 1
      <4>1. k \in 1 .. n
        BY <1>11, <3>2
      <4>2. QED
        BY <1>6, <1>10, <1>11, <4>1 DEF NestedIn
    <3>3. QED
      BY <3>1, <3>2
  <2>2. ASSUME NEW k \in 2 .. n + 1, g[r[k - 1]].type = "Object"
        PROVE  g[r[k - 1]].child # Null /\ r[k] = LastItem(g, r[k - 1])
    <3>1. k # n + 1
      <4>1. k = n + 1 => r[k - 1] = c
        BY <1>11
      <4>2. QED
        BY <1>12, <2>2, <4>1
    <3>2. k \in 2 .. n /\ k \in 1 .. n /\ k - 1 \in 1 .. n
      BY <1>11, <3>1
    <3>3. r[k] = blocks[k] /\ r[k - 1] = blocks[k - 1]
      BY <1>11, <3>2
    <3>4. QED
      BY <1>6, <1>10, <2>2, <3>2, <3>3 DEF NestedIn
  <2>3. QED
    BY <1>11, <2>1, <2>2 DEF NestedIn
<1>20. Nested'
  BY <1>1, <1>6, <1>9, <1>19 DEF Nested
<1>21. QED
  BY <1>6, <1>18, <1>20

(* The blocks around the innermost one.                                    *)
Outer(s, r, n) == n = Len(s) /\ n > 1 /\ r = Front(s)

LEMMA OuterBlocks ==
  ASSUME NEW h, NEW owner, NEW s, Path(h, owner, s), NestedIn(h, s),
         NEW n, NEW r, Outer(s, r, n)
  PROVE  /\ Path(h, owner, r) /\ NestedIn(h, r) /\ Len(r) = n - 1 /\ Last(r) = s[n - 1]
         /\ n \in Nat /\ n - 1 \in 1 .. n - 1
         /\ \A k \in 1 .. n - 1 : r[k] = s[k] /\ r[k] # s[n]
<1>0. n = Len(s) /\ n > 1 /\ r = Front(s)
  BY DEF Outer
<1>1. s \in Seq(Items) /\ s # <<>> /\ n \in Nat \ {0}
  BY <1>0, LenProperties, EmptySeq DEF Path
<1>2. /\ r \in Seq(Items) /\ Len(r) = n - 1
      /\ \A k \in 1 .. n - 1 : r[k] = s[k]
  BY <1>0, <1>1, WithoutLast
<1>3. n - 1 \in 1 .. n - 1 /\ 1 \in 1 .. n - 1 /\ n \in 1 .. n
  BY <1>0, <1>1
<1>4. \A k \in 1 .. n - 1 : k \in 1 .. n /\ k # n
  BY <1>0, <1>1
<1>5. \A k \in 2 .. n - 1 : k \in 2 .. n /\ k \in 1 .. n - 1 /\ k - 1 \in 1 .. n - 1
  BY <1>0, <1>1
<1>6. r # <<>>
  BY <1>0, <1>1, <1>2, EmptySeq
<1>7. Path(h, owner, r)
  <2>1. \A k \in 1 .. n - 1 : r[k] \in Allocated(h) /\ h[r[k]].type \in {"Object", "Array"}
    BY <1>0, <1>2, <1>4 DEF Path
  <2>2. \A k, l \in 1 .. n - 1 : k < l => r[k] < r[l]
    BY <1>0, <1>2, <1>4 DEF Path
  <2>3. owner[r[1]] = Null
    BY <1>0, <1>2, <1>3 DEF Path
  <2>4. \A k \in 2 .. n - 1 : owner[r[k]] # Null =>
          h[r[k - 1]].type = "Object" /\ owner[r[k]] = r[k - 1] /\ h[r[k]].next = Null
    BY <1>0, <1>2, <1>5 DEF Path
  <2>5. QED
    BY <1>0, <1>2, <1>6, <2>1, <2>2, <2>3, <2>4 DEF Path
<1>8. NestedIn(h, r)
  <2>1. \A k \in 1 .. n - 1 : h[r[k]].type \in {"Object", "Array"}
    BY <1>0, <1>2, <1>4 DEF NestedIn
  <2>2. \A k \in 2 .. n - 1 : h[r[k - 1]].type = "Object" =>
          h[r[k - 1]].child # Null /\ r[k] = LastItem(h, r[k - 1])
    BY <1>0, <1>2, <1>5 DEF NestedIn
  <2>3. QED
    BY <1>0, <1>2, <2>1, <2>2 DEF NestedIn
<1>9. \A k \in 1 .. n : s[k] = s[n] => k = n
  BY <1>0, PathEnds
<1>10. Last(r) = s[n - 1]
  BY <1>0, <1>2, <1>3 DEF Last
<1>11. QED
  BY <1>0, <1>1, <1>2, <1>3, <1>4, <1>7, <1>8, <1>9, <1>10

(* An element joins its array when its block ends; a field is there.       *)
LEMMA ElementJoins ==
  ASSUME NEW owner, Constructing(owner), Path(heap, owner, blocks), NestedIn(heap, blocks),
         NEW n, n = Len(blocks), n > 1, NEW r, r = Front(blocks),
         heap[blocks[n - 1]].type = "Array",
         NEW g, g = add_item_to_array(heap, blocks[n - 1], blocks[n])
  PROVE  NestedIn(g, r) /\ Emptied(heap, g, blocks, r, n)
<1>1. PICK c, item : c = blocks[n - 1] /\ item = blocks[n]
  OBVIOUS
<1>2. /\ heap \in [Items -> Cells] /\ Linked(heap, owner) /\ blocks \in Seq(Items)
      /\ Growing(owner)
  BY DEF Constructing
<1>3. /\ Path(heap, owner, r) /\ NestedIn(heap, r) /\ Len(r) = n - 1 /\ Last(r) = c
      /\ n \in Nat /\ n - 1 \in 1 .. n - 1
      /\ \A k \in 1 .. n - 1 : r[k] = blocks[k] /\ r[k] # item
  <2>1. Outer(blocks, r, n)
    BY DEF Outer
  <2>2. /\ Path(heap, owner, r) /\ NestedIn(heap, r) /\ Len(r) = n - 1
        /\ Last(r) = blocks[n - 1] /\ n \in Nat /\ n - 1 \in 1 .. n - 1
        /\ \A k \in 1 .. n - 1 : r[k] = blocks[k] /\ r[k] # blocks[n]
    BY <2>1, OuterBlocks
  <2>3. QED
    BY <1>1, <2>2
<1>4. n \in 2 .. n /\ n \in 1 .. n /\ n - 1 \in 1 .. n
  BY <1>3
<1>5. /\ c \in Items /\ item \in Items /\ item \in Allocated(heap)
      /\ heap[c].type = "Array"
  BY <1>1, <1>4 DEF Path, Allocated
<1>6. owner[item] = Null
  BY <1>1, <1>2, <1>4, <1>5 DEF Growing, Pending
<1>7. g \in [Items -> Cells] /\ Extended(heap, g, Last(r), item)
  <2>1. /\ add_item_to_array(heap, c, item) \in [Items -> Cells]
        /\ Extended(heap, add_item_to_array(heap, c, item), c, item)
    BY <1>2, <1>5, <1>6, AddedCells
  <2>2. g = add_item_to_array(heap, c, item)
    BY <1>1
  <2>3. QED
    BY <1>3, <2>1, <2>2
<1>8. Ascending(g)
  <2>1. g = IF heap[blocks[n - 1]].type = "Array"
            THEN add_item_to_array(heap, blocks[n - 1], blocks[n]) ELSE heap
    OBVIOUS
  <2>2. PICK now : Linked(g, now)
    BY <2>1, ElementAdded
  <2>3. QED
    BY <1>7, <2>2, LinkedAscends
<1>9. NestedIn(g, r)
  BY <1>2, <1>3, <1>5, <1>6, <1>7, NestedStays
<1>10. \A k \in 1 .. n - 1 :
         OpenTree(g, r, k) =
           IF k = n - 1
           THEN Holding(OpenTree(heap, r, k), Append(OpenTree(heap, r, k).items, Tree(heap, item)))
           ELSE OpenTree(heap, r, k)
  <2>1. \A k \in 1 .. Len(r) : r[k] # item
    BY <1>3
  <2>2. \A k \in 1 .. Len(r) :
          OpenTree(g, r, k) =
            IF k = Len(r)
            THEN Holding(OpenTree(heap, r, k),
                         Append(OpenTree(heap, r, k).items, Tree(heap, item)))
            ELSE OpenTree(heap, r, k)
    BY <1>2, <1>3, <1>5, <1>6, <1>7, <1>8, <2>1, OpenTreesGrow
  <2>3. QED
    BY <1>3, <2>2
<1>11. ASSUME NEW k \in 1 .. n - 1
       PROVE  OpenTree(heap, r, k) = OpenTree(heap, blocks, k)
  <2>1. r[k] = blocks[k] /\ k < Len(blocks)
    BY <1>3
  <2>2. CASE k = n - 1
    <3>1. Tree(heap, r[k]).type # "Object" /\ Tree(heap, blocks[k]).type # "Object"
      BY <1>1, <1>5, <2>1, <2>2, TreeIs
    <3>2. QED
      BY <2>1, <3>1 DEF OpenTree
  <2>3. CASE k # n - 1
    <3>1. k < Len(r)
      BY <1>3, <2>3
    <3>2. QED
      BY <2>1, <3>1, Zenon DEF OpenTree
  <2>4. QED
    BY <2>2, <2>3
<1>12. OpenTree(heap, blocks, n) = Tree(heap, item)
  <2>1. ~(n < Len(blocks))
    BY <1>3
  <2>2. QED
    BY <1>1, <2>1 DEF OpenTree
<1>13. Emptied(heap, g, blocks, r, n)
  BY <1>2, <1>10, <1>11, <1>12 DEF Emptied
<1>14. QED
  BY <1>9, <1>13

LEMMA FieldIsThere ==
  ASSUME NEW owner, Constructing(owner), Path(heap, owner, blocks), NestedIn(heap, blocks),
         NEW n, n = Len(blocks), n > 1, NEW r, r = Front(blocks),
         heap[blocks[n - 1]].type = "Object"
  PROVE  NestedIn(heap, r) /\ Emptied(heap, heap, blocks, r, n)
<1>1. PICK c, item : c = blocks[n - 1] /\ item = blocks[n]
  OBVIOUS
<1>2. heap \in [Items -> Cells] /\ Linked(heap, owner) /\ blocks \in Seq(Items)
  BY DEF Constructing
<1>3. /\ NestedIn(heap, r) /\ Len(r) = n - 1
      /\ n \in Nat /\ n - 1 \in 1 .. n - 1
      /\ \A k \in 1 .. n - 1 : r[k] = blocks[k]
  <2>1. Outer(blocks, r, n)
    BY DEF Outer
  <2>2. QED
    BY <2>1, OuterBlocks
<1>4. n \in 2 .. n /\ n \in 1 .. n /\ n - 1 \in 1 .. n
  BY <1>3
<1>5. c \in Items /\ c \in Allocated(heap) /\ heap[c].type = "Object"
  BY <1>1, <1>4 DEF Path, Allocated
<1>6. heap[c].child # Null /\ item = LastItem(heap, c)
  BY <1>1, <1>4, <1>5 DEF NestedIn
<1>7. PICK s, d, t : s = From(Lists(heap), heap[c].child) /\ d = Tree(heap, item)
                     /\ t = Tree(heap, c)
  OBVIOUS
<1>8. Append(Front(s), d) = s
  <2>1. s \in Seq(Documents(heap)) /\ s # <<>> /\ Last(s) = Tree(heap, LastItem(heap, c))
    BY <1>2, <1>5, <1>6, <1>7, ListShowsLast
  <2>2. Append(Front(s), Last(s)) = s
    BY <2>1, EndsAre
  <2>3. QED
    BY <1>6, <1>7, <2>1, <2>2
<1>9. t.type = "Object" /\ t.items = s
  BY <1>5, <1>7, TreeIs
<1>10. PICK f : f = OpenTree(heap, blocks, n - 1)
  OBVIOUS
<1>11. f = Holding(t, Front(s))
  <2>1. n - 1 < Len(blocks)
    BY <1>3
  <2>2. f = [t EXCEPT !.items = Front(@)]
    BY <1>1, <1>7, <1>9, <1>10, <2>1 DEF OpenTree
  <2>3. QED
    BY <1>9, <2>2 DEF Holding
<1>12. f.items = Front(s) /\ Holding(f, s) = Holding(t, s)
  <2>1. PICK u : u = Front(s)
    OBVIOUS
  <2>2. f = Holding(Tree(heap, c), u)
    BY <1>7, <1>11, <2>1
  <2>3. f.items = u /\ Holding(f, s) = Holding(Tree(heap, c), s)
    BY <2>2, HeldIs
  <2>4. QED
    BY <1>7, <2>1, <2>3
<1>13. Holding(t, s) = t
  BY <1>7, HoldingIs
<1>14. OpenTree(heap, r, n - 1) = t
  <2>1. ~(n - 1 < Len(r)) /\ r[n - 1] = c
    BY <1>1, <1>3
  <2>2. QED
    BY <1>7, <2>1 DEF OpenTree
<1>15. OpenTree(heap, blocks, n) = d
  <2>1. ~(n < Len(blocks))
    BY <1>3
  <2>2. QED
    BY <1>1, <1>7, <2>1 DEF OpenTree
<1>16. OpenTree(heap, r, n - 1) = Holding(f, Append(f.items, OpenTree(heap, blocks, n)))
  BY <1>8, <1>12, <1>13, <1>14, <1>15
<1>17. ASSUME NEW k \in 1 .. n - 1, k # n - 1
       PROVE  OpenTree(heap, r, k) = OpenTree(heap, blocks, k)
  <2>1. r[k] = blocks[k] /\ k < Len(blocks) /\ k < Len(r)
    BY <1>3, <1>17
  <2>2. QED
    BY <2>1, Zenon DEF OpenTree
<1>18. Emptied(heap, heap, blocks, r, n)
  BY <1>2, <1>10, <1>16, <1>17 DEF Emptied
<1>19. QED
  BY <1>3, <1>18

LEMMA BlockCloses ==
  ASSUME IInv, Nested, CloseBlock
  PROVE  Nested' /\ Document!CloseBlock
<1>1. PICK n, r, o, g : /\ n = Len(blocks) /\ r = Front(blocks)
                        /\ o = OpenTrees(heap, blocks) /\ g = heap'
  OBVIOUS
<1>2. /\ phase = "build" /\ phase' = phase /\ n > 1 /\ blocks' = r
      /\ g = IF heap[blocks[n - 1]].type = "Array"
             THEN add_item_to_array(heap, blocks[n - 1], blocks[n]) ELSE heap
  BY <1>1 DEF CloseBlock, Building, Last
<1>3. PICK owner : Constructing(owner)
  BY <1>2, Opened
<1>4. Path(heap, owner, blocks) /\ NestedIn(heap, blocks)
  BY <1>2, <1>3, BlocksArePath
<1>5. NestedIn(g, r) /\ Emptied(heap, g, blocks, r, n)
  <2>1. CASE heap[blocks[n - 1]].type = "Array"
    <3>1. g = add_item_to_array(heap, blocks[n - 1], blocks[n])
      BY <1>2, <2>1
    <3>2. QED
      BY <1>1, <1>2, <1>3, <1>4, <2>1, <3>1, ElementJoins
  <2>2. CASE heap[blocks[n - 1]].type # "Array"
    <3>1. n - 1 \in 1 .. n
      BY <1>1, <1>2, <1>4, LenProperties DEF Path
    <3>2. heap[blocks[n - 1]].type = "Object"
      BY <1>1, <1>4, <2>2, <3>1 DEF Path
    <3>3. NestedIn(heap, r) /\ Emptied(heap, heap, blocks, r, n)
      BY <1>1, <1>2, <1>3, <1>4, <3>2, FieldIsThere
    <3>4. g = heap
      BY <1>2, <2>2
    <3>5. QED
      BY <3>3, <3>4
  <2>3. QED
    BY <2>1, <2>2
<1>6. OpenTrees(g, r) = WithLast(Front(o), Last(o))
  BY <1>1, <1>5, ClosedTrees
<1>7. Len(o) = n
  <2>1. blocks \in Seq(Items) /\ blocks # <<>>
    BY <1>4 DEF Path
  <2>2. QED
    BY <1>1, <2>1, SomeTrees
<1>8. /\ OpenNow = o /\ DocumentNow = <<>>
      /\ OpenNow' = OpenTrees(g, r) /\ DocumentNow' = <<>>
  BY <1>1, <1>2, NowBuilding, StillBuilding
<1>9. Document!CloseBlock
  <2>1. Len(OpenNow) > 1
    BY <1>2, <1>7, <1>8
  <2>2. OpenNow' = LET outer == Document!Front(OpenNow)
                   IN  [outer EXCEPT ![Len(outer)] = Document!With(@, Document!Last(OpenNow))]
    <3>1. Document!Front(o) = Front(o) /\ Document!Last(o) = Last(o)
      BY Zenon DEF Document!Front, Document!Last, Front, Last
    <3>2. QED
      BY <1>6, <1>8, <3>1, Zenon DEF WithLast
  <2>3. DocumentNow' = DocumentNow
    BY <1>8
  <2>4. QED
    BY <2>1, <2>2, <2>3, Zenon DEF Document!CloseBlock
<1>10. Nested'
  BY <1>1, <1>2, <1>5 DEF Nested
<1>11. QED
  BY <1>9, <1>10

LEMMA OneTree ==
  ASSUME NEW h, NEW s \in Seq(Items), Len(s) = 1, NEW i, i = s[1]
  PROVE  OpenTrees(h, s) = <<Tree(h, i)>>
<1>1. PICK S : S = {Tree(h, i)}
  OBVIOUS
<1>2. OpenTree(h, s, 1) = Tree(h, i)
  <2>1. ~(1 < Len(s))
    OBVIOUS
  <2>2. QED
    BY <2>1 DEF OpenTree
<1>3. \A k \in 1 .. Len(s) : k = 1 /\ OpenTree(h, s, k) \in S
  BY <1>1, <1>2
<1>4. PICK t : t = OpenTrees(h, s)
  OBVIOUS
<1>5. t \in Seq(S) /\ Len(t) = 1 /\ t[1] = OpenTree(h, s, 1)
  <2>1. \A k \in 1 .. Len(s) : OpenTree(h, s, k) \in S
    BY <1>3
  <2>2. /\ OpenTrees(h, s) \in Seq(S) /\ Len(OpenTrees(h, s)) = Len(s)
        /\ \A k \in 1 .. Len(s) : OpenTrees(h, s)[k] = OpenTree(h, s, k)
    BY <2>1, OpenTreesAre
  <2>3. QED
    BY <1>4, <2>2
<1>6. PICK u : u = Tree(h, i)
  OBVIOUS
<1>7. <<u>> \in Seq(S) /\ Len(<<u>>) = 1 /\ <<u>>[1] = u
  BY <1>1, <1>6
<1>8. t = <<u>>
  BY <1>2, <1>5, <1>6, <1>7, SeqEqual
<1>9. QED
  BY <1>4, <1>6, <1>8

LEMMA RootBegins ==
  ASSUME IInv, NEW i, CreateResponse(i)
  PROVE  Nested' /\ Document!Begin(Value("Object", NoName, NoValue))
<1>1. /\ phase = "idle" /\ phase' = "build" /\ Fresh(heap, i) /\ blocks' = <<i>>
      /\ heap' = Created(heap, i, "Object", NoValue) /\ heap \in [Items -> Cells]
  BY DEF CreateResponse, IInv, TypeOK
<1>2. i \in Items
  BY <1>1 DEF Fresh, Free
<1>3. PICK g, type, v, s : /\ g = heap' /\ type = "Object"
                           /\ v = Value(type, NoName, NoValue) /\ s = <<i>>
  OBVIOUS
<1>4. type \in Kinds /\ NoName \in Labels /\ NoValue \in Contents
  BY <1>3 DEF Kinds, Labels, Contents
<1>5. PICK cell : cell = NewCell(type, NoName, NoValue)
  OBVIOUS
<1>6. g = Stored(heap, i, cell)
  BY <1>1, <1>2, <1>3, <1>4, <1>5, CreatedIs
<1>7. g[i] = cell
  BY <1>1, <1>2, <1>6 DEF Stored
<1>8. /\ cell.type = type /\ cell.string = NoName /\ cell.value = NoValue
      /\ cell.child = Null
  BY <1>5 DEF NewCell
<1>9. Tree(g, i) = v
  <2>1. From(Lists(g), g[i].child) = <<>>
    BY <1>7, <1>8 DEF From
  <2>2. QED
    BY <1>3, <1>7, <1>8, <2>1, Zenon DEF Tree, AsDocument, Value
<1>10. s \in Seq(Items) /\ Len(s) = 1 /\ s[1] = i
  BY <1>2, <1>3
<1>11. OpenTrees(g, s) = <<v>>
  BY <1>9, <1>10, OneTree
<1>12. OpenNow = <<>> /\ DocumentNow = <<>>
  BY <1>1 DEF OpenNow, DocumentNow, Building
<1>13. OpenNow' = <<v>> /\ DocumentNow' = <<>>
  BY <1>1, <1>3, <1>11, StillBuilding
<1>14. Document!Begin(v)
  BY <1>12, <1>13, Zenon DEF Document!Begin
<1>15. NestedIn(g, s)
  <2>1. g[i].type = "Object"
    BY <1>3, <1>7, <1>8
  <2>2. \A k \in 1 .. Len(s) : s[k] = i
    BY <1>10
  <2>3. \A k \in 2 .. Len(s) : FALSE
    BY <1>10
  <2>4. QED
    BY <2>1, <2>2, <2>3 DEF NestedIn
<1>16. Nested'
  BY <1>1, <1>3, <1>15 DEF Nested
<1>17. QED
  BY <1>3, <1>14, <1>16

LEMMA DocumentFinishes ==
  ASSUME IInv, EndJson
  PROVE  Nested' /\ Document!Finish
<1>1. /\ phase = "build" /\ phase' = "built" /\ Len(blocks) = 1
      /\ heap' = heap /\ response' = response
      /\ blocks[1] = response
  BY DEF EndJson, Building, IInv
<1>2. blocks \in Seq(Items)
  BY BoundedBlocks DEF IInv, TypeOK
<1>3. OpenTrees(heap, blocks) = <<Tree(heap, response)>>
  BY <1>1, <1>2, OneTree
<1>4. PICK o, v : o = OpenNow /\ v = Tree(heap, response)
  OBVIOUS
<1>5. o = <<v>>
  BY <1>1, <1>3, <1>4, NowBuilding
<1>6. OpenNow' = <<>> /\ DocumentNow' = <<v>>
  BY <1>1, <1>4 DEF OpenNow, DocumentNow, Building, Tree, Lists, Allocated, Free
<1>7. Len(<<v>>) = 1
  OBVIOUS
<1>8. Len(OpenNow) = 1 /\ DocumentNow' = OpenNow
  BY <1>4, <1>5, <1>6, <1>7
<1>9. Document!Finish
  BY <1>6, <1>8, Zenon DEF Document!Finish
<1>10. Nested'
  BY <1>1 DEF Nested
<1>11. QED
  BY <1>9, <1>10

LEMMA DocumentGoes ==
  ASSUME phase' \in {"idle", "failed", "aborted"}
  PROVE  Nested' /\ Document!Discard
<1>1. OpenNow' = <<>> /\ DocumentNow' = <<>>
  BY DEF OpenNow, DocumentNow, Building
<1>2. Document!Discard
  BY <1>1, Zenon DEF Document!Discard
<1>3. Nested'
  BY DEF Nested
<1>4. QED
  BY <1>2, <1>3

LEMMA DocumentStays ==
  ASSUME Nested, UNCHANGED vars
  PROVE  Nested' /\ UNCHANGED <<OpenNow, DocumentNow>>
<1>1. phase' = phase /\ heap' = heap /\ response' = response /\ blocks' = blocks
  BY DEF vars
<1>2. OpenNow' = OpenNow /\ DocumentNow' = DocumentNow
  BY <1>1 DEF OpenNow, DocumentNow, Building, OpenTrees, OpenTree, Tree, Lists, Allocated, Free
<1>3. Nested'
  BY <1>1 DEF Nested, NestedIn, LastItem
<1>4. QED
  BY <1>2, <1>3

LEMMA NestedInit == Init => Nested /\ Document!Init
<1> SUFFICES ASSUME Init
             PROVE  Nested /\ Document!Init
  OBVIOUS
<1>1. phase = "idle"
  BY DEF Init
<1>2. OpenNow = <<>> /\ DocumentNow = <<>>
  BY <1>1 DEF OpenNow, DocumentNow, Building
<1>3. Nested
  BY <1>1 DEF Nested
<1>4. QED
  BY <1>2, <1>3, Zenon DEF Document!Init

LEMMA NestedNext ==
  ASSUME IInv, Nested, [Next]_vars
  PROVE  Nested' /\ [Document!Next]_<<OpenNow, DocumentNow>>
<1>1. /\ \A type \in {"Object", "Array"} : \A name \in Names \cup {NoName} :
           Value(type, name, NoValue) \in Containers
      /\ \A name \in Names, value \in Strings : Value("String", name, value) \in Elements
      /\ \A name \in Names, value \in Numbers : Value("Number", name, value) \in Elements
      /\ \A type \in {"True", "False"} : \A name \in Names :
           Value(type, name, NoValue) \in Elements
  BY DEF Containers, Elements
<1>2. /\ "String" \in Kinds /\ "Number" \in Kinds /\ "True" \in Kinds /\ "False" \in Kinds
      /\ NoValue \in Contents /\ Strings \subseteq Contents /\ Numbers \subseteq Contents
  BY DEF Kinds, Contents
<1>3. Value("Object", NoName, NoValue) \in Containers
  BY <1>1
<1>4. ASSUME NEW v \in Elements, Document!Add(v)
      PROVE  Document!Next
  BY <1>4, Zenon DEF Document!Next
<1>5. ASSUME NEW c \in Containers, Document!Begin(c) \/ Document!OpenBlock(c)
      PROVE  Document!Next
  BY <1>5, Zenon DEF Document!Next
<1>6. ASSUME NEW i \in Items, CreateResponse(i)
      PROVE  Nested' /\ Document!Next
  BY <1>3, <1>5, <1>6, RootBegins
<1>7. ASSUME NEW i \in Items, NEW name \in Names, NEW value \in Strings,
             AddField(i, name, "String", value)
      PROVE  Nested' /\ Document!Next
  <2>1. PICK v : v = Value("String", name, value)
    OBVIOUS
  <2>2. Nested' /\ Document!Add(v)
    BY <1>2, <1>7, <2>1, FieldBuilds
  <2>3. QED
    BY <1>1, <1>4, <2>1, <2>2
<1>8. ASSUME NEW i \in Items, NEW name \in Names, NEW value \in Numbers,
             AddField(i, name, "Number", value)
      PROVE  Nested' /\ Document!Next
  <2>1. PICK v : v = Value("Number", name, value)
    OBVIOUS
  <2>2. Nested' /\ Document!Add(v)
    BY <1>2, <1>8, <2>1, FieldBuilds
  <2>3. QED
    BY <1>1, <1>4, <2>1, <2>2
<1>9. ASSUME NEW i \in Items, NEW name \in Names, NEW type \in {"True", "False"},
             AddField(i, name, type, NoValue)
      PROVE  Nested' /\ Document!Next
  <2>1. PICK v : v = Value(type, name, NoValue)
    OBVIOUS
  <2>2. type \in Kinds
    BY <1>2
  <2>3. Nested' /\ Document!Add(v)
    BY <1>2, <1>9, <2>1, <2>2, FieldBuilds
  <2>4. QED
    BY <1>1, <1>4, <2>1, <2>3
<1>10. ASSUME NEW i \in Items, NEW name \in Names, NEW type \in {"Object", "Array"},
              OpenField(i, name, type)
       PROVE  Nested' /\ Document!Next
  <2>1. Nested' /\ Document!OpenBlock(Value(type, name, NoValue))
    BY <1>10, FieldOpens
  <2>2. QED
    BY <1>1, <1>5, <2>1
<1>11. ASSUME NEW i \in Items, OpenElement(i)
       PROVE  Nested' /\ Document!Next
  BY <1>3, <1>5, <1>11, ElementOpens
<1>12. ASSUME CloseBlock
       PROVE  Nested' /\ Document!Next
  BY <1>12, BlockCloses DEF Document!Next
<1>13. ASSUME EndJson
       PROVE  Nested' /\ Document!Next
  BY <1>13, DocumentFinishes DEF Document!Next
<1>14. ASSUME \/ NoMemoryForItem \/ \E i \in Items : NoMemoryForName(i)
              \/ DeleteResponse \/ Abort
       PROVE  Nested' /\ Document!Next
  <2>1. phase' \in {"idle", "failed", "aborted"}
    BY <1>14 DEF NoMemoryForItem, NoMemoryForName, Fail, DeleteResponse, Abort
  <2>2. QED
    BY <2>1, DocumentGoes DEF Document!Next
<1>15. CASE Build
  BY <1>6, <1>7, <1>8, <1>9, <1>10, <1>11, <1>12, <1>13, <1>14, <1>15 DEF Build
<1>16. CASE UNCHANGED vars
  BY <1>16, DocumentStays
<1>17. QED
  BY <1>14, <1>15, <1>16 DEF Next, Stopped

(* The items that the macros of util.h link are the document that the      *)
(* handler describes: every field and element at the end of its block, in  *)
(* order, whole when the macro ends, and gone when memory ran out halfway. *)
THEOREM BuildersImplementDocument == Spec => ImplementsDocument
<1>1. IInv /\ Nested /\ [Next]_vars => Nested' /\ [Document!Next]_(Document!vars)
  BY NestedNext DEF Document!vars
<1>2. Init => Nested /\ Document!Init
  BY NestedInit
<1>3. QED
  BY <1>1, <1>2, InvariantHolds, PTL DEF Spec, ImplementsDocument, Document!Spec
=============================================================================
