----------------------------- MODULE Containers ------------------------------
(***************************************************************************)
(* List, SortedList, HashTable and Bitmap (lib/list.cc, lib/hash.cc,       *)
(* lib/bitmap.cc), on which the ready list, the wait queues, the pending   *)
(* interrupts, the mailboxes and the free maps are built: the lists of     *)
(* module List; a table of such lists that is rebuilt when it has grown    *)
(* too full; an array of words of which every bit is a member.  One        *)
(* collection of any of the four kinds is used, put through its self-test, *)
(* deleted and made anew; the bucket 0 of a list is the list itself.       *)
(***************************************************************************)
EXTENDS List, SequencesExt, FiniteSetsExt, Bitwise

CONSTANTS InitialBuckets, ResizeRatio, IncreaseSizeBy,
          NumBits, BitsInWord,             \* of a bitmap and of its words
          listTestVector, hashTestVector   \* what the self-tests put in

ASSUME ContainersAssumption ==
  /\ {InitialBuckets, ResizeRatio, IncreaseSizeBy, NumBits, BitsInWord} \subseteq Nat \ {0}
  /\ listTestVector \in Seq(Items) /\ IsInjective(listTestVector)
  /\ hashTestVector \in Seq(Items)
  /\ IsInjective([i \in DOMAIN hashTestVector |-> Key(hashTestVector[i])])

VARIABLES
  kind,        \* the class of the collection
  heap,        \* ListElement: next and item of each cell, and those in use
  buckets,     \* the lists, each [first, last, numInList]
  numBuckets,
  numItems,    \* HashTable::numItems
  map,         \* Bitmap::map: the words
  result,      \* what the last operation returned
  failed       \* an ASSERT has failed

vars == <<kind, heap, buckets, numBuckets, numItems, map, result, failed>>

-----------------------------------------------------------------------------
(* The hash table *)

\* The hash function of lib/libtest.cc takes the key as unsigned: a key here is
\* never negative.
HashInt(k) == k
HashValue(k, n) == HashInt(k) % n

\* InitBuckets.
InitBuckets(n) == [b \in 0 .. n - 1 |-> EmptyList]

\* A hash table: its cells, its buckets, its counters, and whether the ASSERTs
\* of what was done to it hold.
Table == [heap |-> heap, buckets |-> buckets, numBuckets |-> numBuckets,
          numItems |-> numItems, ok |-> TRUE]

\* FindInBucket: the first item with the key, or NULL.
FindInBucket(t, b, k) ==
  LET l == Listed(t.heap, t.buckets[b])
      found == {i \in DOMAIN l : Key(l[i]) = k}
  IN  IF found = {} THEN NoItem ELSE l[CHOOSE i \in found : \A j \in found : i <= j]
Find(t, k) == FindInBucket(t, HashValue(k, t.numBuckets), k)
IsInTable(t, k) == Find(t, k) # NoItem

\* Mutant of Rehashed: an item keeps the number of its bucket.
RehashedInPlace(s, b) ==
  LET front == s.heap.item[s.old[b].first]
      out == RemoveFront(s.heap, s.old[b])
      in == Append_(out.heap, s.new[b], front)
  IN  [heap |-> in.heap, old |-> [s.old EXCEPT ![b] = out.list],
       new |-> [s.new EXCEPT ![b] = in.list], ok |-> s.ok /\ out.ok /\ in.ok]

\* One item moves from the front of bucket b of the old table to the new one.
Rehashed(s, b) ==
  LET front == s.heap.item[s.old[b].first]
      out == RemoveFront(s.heap, s.old[b])
      to == HashValue(Key(front), Cardinality(DOMAIN s.new))
      in == Append_(out.heap, s.new[to], front)
  IN  [heap |-> in.heap, old |-> [s.old EXCEPT ![b] = out.list],
       new |-> [s.new EXCEPT ![to] = in.list], ok |-> s.ok /\ out.ok /\ in.ok]

\* ReHash: every item of every bucket in turn, then the old table is deleted.
ReHash(h, old, size) ==
  LET moves == FoldLeft(LAMBDA s, b : s \o [i \in 1 .. old[b - 1].numInList |-> b - 1],
                        <<>>, [b \in 1 .. Cardinality(DOMAIN old) |-> b])
  IN  FoldLeft(Rehashed, [heap |-> h, old |-> old, new |-> InitBuckets(size), ok |-> TRUE],
               moves)

\* HashTable::Insert: the table grows first when it is too full.
InsertItem(t, x) ==
  LET grow == t.numItems \div t.numBuckets >= ResizeRatio
      size == IF grow THEN t.numBuckets * IncreaseSizeBy ELSE t.numBuckets
      g == IF grow THEN ReHash(t.heap, t.buckets, size)
           ELSE [heap |-> t.heap, new |-> t.buckets, ok |-> TRUE]
      b == HashValue(Key(x), size)
      e == Append_(g.heap, g.new[b], x)
      u == [heap |-> e.heap, buckets |-> [g.new EXCEPT ![b] = e.list],
            numBuckets |-> size, numItems |-> t.numItems + 1, ok |-> t.ok]
  IN  [u EXCEPT !.ok = @ /\ ~IsInTable(t, Key(x)) /\ g.ok /\ e.ok /\ IsInTable(u, Key(x))]

\* HashTable::Remove, of an item that is there.
RemoveKey(t, k) ==
  LET b == HashValue(k, t.numBuckets)
      e == Remove_(t.heap, t.buckets[b], FindInBucket(t, b, k))
      u == [t EXCEPT !.heap = e.heap, !.buckets[b] = e.list, !.numItems = @ - 1]
  IN  [u EXCEPT !.ok = t.ok /\ e.ok /\ ~IsInTable(u, k)]

\* HashTable::Apply: every bucket in turn.
Applied == FoldLeft(LAMBDA l, b : l \o Listed(heap, buckets[b - 1]), <<>>,
                    [b \in 1 .. numBuckets |-> b])

\* HashIterator: from full bucket to full bucket.
FindNextFullBucket(b) ==
  LET full == {i \in b .. numBuckets - 1 : ~IsEmpty(buckets[i])}
  IN  IF full = {} THEN numBuckets ELSE CHOOSE i \in full : \A j \in full : i <= j

Iterated ==
  LET visit[b \in 0 .. numBuckets] ==
        IF b = numBuckets THEN <<>>
        ELSE Listed(heap, buckets[b]) \o visit[FindNextFullBucket(b + 1)]
  IN  visit[FindNextFullBucket(0)]

-----------------------------------------------------------------------------
(* What SanityCheck asserts *)

\* SanityCheck is virtual.
SanityCheck(h, l) == SanityList(h, l) /\ (kind = "sorted" => SanitySorted(h, l))

\* HashTable::SanityCheck: every item is counted and in the bucket of its key.
SanityHash(t) ==
  /\ t.numItems = MapThenSumSet(LAMBDA b : t.buckets[b].numInList, DOMAIN t.buckets)
  /\ \A b \in DOMAIN t.buckets :
       LET l == Listed(t.heap, t.buckets[b])
       IN  /\ SanityList(t.heap, t.buckets[b])
           /\ \A i \in DOMAIN l : HashValue(Key(l[i]), t.numBuckets) = b

-----------------------------------------------------------------------------
(* The bitmap *)

\* The constructor: enough words for the bits, all clear.
NumWords == (NumBits + BitsInWord - 1) \div BitsInWord
ClearMap == [w \in 0 .. NumWords - 1 |-> 0]

Bit(which) == 2 ^ (which % BitsInWord)
AllOnes == 2 ^ BitsInWord - 1

Test(m, which) == m[which \div BitsInWord] & Bit(which) # 0
Mark(m, which) == [m EXCEPT ![which \div BitsInWord] = @ | Bit(which)]
Clear(m, which) == [m EXCEPT ![which \div BitsInWord] = @ & (AllOnes - Bit(which))]

\* What Print prints.
Marked(m) == {i \in 0 .. NumBits - 1 : Test(m, i)}
NumClear(m) == Cardinality({i \in 0 .. NumBits - 1 : ~Test(m, i)})

\* The bit that FindAndSet finds, -1 if none is clear, and the map it leaves.
FindAndSet(m) ==
  LET clear == {i \in 0 .. NumBits - 1 : ~Test(m, i)}
      i == CHOOSE j \in clear : \A k \in clear : j <= k
  IN  IF clear = {} THEN [found |-> -1, map |-> m] ELSE [found |-> i, map |-> Mark(m, i)]

-----------------------------------------------------------------------------
(* The self-tests: what they leave, and whether all they assert holds *)

\* An item of the vector is put in; Append of a sorted list is Insert.
PutTested(s, e, x) ==
  Effect(e.heap, e.list, s.ok /\ e.ok /\ IsInList(e.heap, e.list, x) /\ ~IsEmpty(e.list))
TestPut(s, x) ==
  PutTested(s, IF kind = "sorted" THEN Insert(s.heap, s.list, x) ELSE Append_(s.heap, s.list, x),
            x)

\* The effect e takes the item out again.
TakeTested(s, e, x) == Effect(e.heap, e.list, s.ok /\ e.ok /\ ~IsInList(e.heap, e.list, x))
TestTake(s, x) == TakeTested(s, Remove_(s.heap, s.list, x), x)

Filled(s) == FoldLeft(TestPut, s, listTestVector)
Emptied(full) == FoldLeft(TestTake, full, listTestVector)

\* A list that was empty, filled and emptied.
ListTested(s, full, empty) ==
  Effect(empty.heap, empty.list,
         /\ IsEmpty(s.list) /\ Chain(s.heap, s.list) = <<>> /\ SanityCheck(s.heap, s.list)
         /\ SanityCheck(full.heap, full.list)
         /\ empty.ok /\ IsEmpty(empty.list) /\ SanityCheck(empty.heap, empty.list))
ListSelfTest(s) == ListTested(s, Filled(s), Emptied(Filled(s)))

\* After the test of a list: in with Insert, out from the front, in order.
TestFront(o, x) ==
  LET front == o.s.heap.item[o.s.list.first]
  IN  [q |-> Append(o.q, front),
       s |-> TakeTested(o.s, RemoveFront(o.s.heap, o.s.list), front)]
SortedTested(full, out) ==
  Effect(out.s.heap, out.s.list,
         /\ SanityCheck(full.heap, full.list)
         /\ out.s.ok /\ IsEmpty(out.s.list) /\ SanityCheck(out.s.heap, out.s.list)
         /\ \A i \in 1 .. Len(out.q) - 1 : ~Goes(out.q[i + 1], out.q[i]))
SortedOut(full) ==
  SortedTested(full, FoldLeft(TestFront, [q |-> <<>>, s |-> full], listTestVector))
SortedSelfTest(s) == SortedOut(Filled(ListSelfTest(s)))

InTested(u, x) == [u EXCEPT !.ok = @ /\ IsInTable(u, Key(x)) /\ u.numItems # 0]
HashTested(t, out) ==
  [out EXCEPT !.ok = @ /\ SanityHash(t) /\ t.numItems = 0
                       /\ out.numItems = 0 /\ SanityHash(out)]
HashSelfTest(t) ==
  LET In(u, x) == InTested(InsertItem(u, x), x)
      Out(u, x) == [RemoveKey(u, Key(x)) EXCEPT !.ok = @ /\ Find(u, Key(x)) = x]
  IN  HashTested(t, FoldLeft(Out, FoldLeft(In, t, hashTestVector), hashTestVector))

\* Bit 31 is the last one of the first word.
BitmapSelfTest(m) ==
  LET one == FindAndSet(m)
      last == Mark(one.map, BitsInWord - 1)
      two == FindAndSet(last)
      none == Clear(Clear(Clear(two.map, 0), 1), BitsInWord - 1)
      bits == [i \in 1 .. NumBits |-> i - 1]
      full == FoldLeft(Mark, none, bits)
  IN  [map |-> FoldLeft(Clear, full, bits),
       ok |-> /\ NumBits >= BitsInWord /\ NumClear(m) = NumBits
              /\ one.found = 0 /\ Test(last, 0) /\ Test(last, BitsInWord - 1)
              /\ two.found = 1 /\ FindAndSet(full).found = -1]

-----------------------------------------------------------------------------
(* Operations *)

Init ==
  /\ kind \in {"list", "sorted", "hash", "bitmap"}
  /\ heap = [next |-> [c \in Cells |-> c], item |-> [c \in Cells |-> NoItem], used |-> {}]
  /\ numBuckets = IF kind = "hash" THEN InitialBuckets ELSE 1
  /\ buckets = InitBuckets(numBuckets)
  /\ numItems = 0 /\ map = ClearMap /\ result = NoItem /\ failed = FALSE

\* The collection is a list and e is the effect of an operation on it.
ListStep(e, r) ==
  /\ heap' = e.heap /\ buckets' = [buckets EXCEPT ![0] = e.list]
  /\ failed' = ~e.ok /\ result' = r
  /\ UNCHANGED <<kind, numBuckets, numItems, map>>

Lists == {"list", "sorted"}

\* The callers put an item on a list only once, and take out what is there.
Absent(x) == ~IsInList(heap, buckets[0], x) /\ heap.used # Cells
Present(x) == IsInList(heap, buckets[0], x)

ListAppend(x) ==
  kind = "list" /\ Absent(x) /\ ListStep(Append_(heap, buckets[0], x), NoItem)
ListPrepend(x) ==
  kind = "list" /\ Absent(x) /\ ListStep(Prepend(heap, buckets[0], x), NoItem)
SortedInsert(x) ==
  kind = "sorted" /\ Absent(x) /\ ListStep(Insert(heap, buckets[0], x), NoItem)
ListRemoveFront ==
  /\ kind \in Lists /\ ~IsEmpty(buckets[0])
  /\ ListStep(RemoveFront(heap, buckets[0]), heap.item[buckets[0].first])
ListRemove(x) ==
  kind \in Lists /\ Present(x) /\ ListStep(Remove_(heap, buckets[0], x), x)

\* The collection is a hash table and becomes t.
HashStep(t, r) ==
  /\ kind = "hash"
  /\ heap' = t.heap /\ buckets' = t.buckets /\ numBuckets' = t.numBuckets
  /\ numItems' = t.numItems /\ failed' = ~t.ok /\ result' = r
  /\ UNCHANGED <<kind, map>>

HashInsert(x) ==
  ~IsInTable(Table, Key(x)) /\ heap.used # Cells /\ HashStep(InsertItem(Table, x), NoItem)
HashRemove(k) == IsInTable(Table, k) /\ HashStep(RemoveKey(Table, k), Find(Table, k))
HashFind(k) == HashStep(Table, Find(Table, k))

\* The collection is a bitmap and becomes m.
BitmapStep(m, r) ==
  /\ kind = "bitmap"
  /\ map' = m /\ result' = r
  /\ UNCHANGED <<kind, heap, buckets, numBuckets, numItems>>

\* Mark and Clear assert that they have had their effect.
BitmapMark(i) == BitmapStep(Mark(map, i), NoItem) /\ failed' = ~Test(map', i)
BitmapClear(i) == BitmapStep(Clear(map, i), NoItem) /\ failed' = Test(map', i)
BitmapTest(i) == BitmapStep(map, IF Test(map, i) THEN 1 ELSE 0) /\ UNCHANGED failed
BitmapFindAndSet ==
  LET f == FindAndSet(map) IN BitmapStep(f.map, f.found) /\ UNCHANGED failed
BitmapNumClear == BitmapStep(map, NumClear(map)) /\ UNCHANGED failed

\* LibSelfTest: the self-test of the kind, of a collection that is empty.
SelfTest ==
  /\ heap.used = {} /\ Marked(map) = {}
  /\ LET list == Effect(heap, buckets[0], TRUE)
         bits == BitmapSelfTest(map)
     IN  \/ kind = "list" /\ ListStep(ListSelfTest(list), NoItem)
         \/ kind = "sorted" /\ ListStep(SortedSelfTest(list), NoItem)
         \/ HashStep(HashSelfTest(Table), NoItem)
         \/ BitmapStep(bits.map, NoItem) /\ failed' = ~bits.ok

\* An empty table is deleted, which asserts that it is empty, with its buckets,
\* and a new one is made.
RenewTable ==
  /\ kind = "hash" /\ heap.used = {}
  /\ numBuckets' = InitialBuckets /\ buckets' = InitBuckets(InitialBuckets)
  /\ failed' = (numItems # 0)
  /\ numItems' = 0 /\ result' = NoItem
  /\ UNCHANGED <<kind, heap, map>>

\* A bitmap is deleted, whatever is in it, and a new one is made.
RenewBitmap == BitmapStep(ClearMap, NoItem) /\ UNCHANGED failed

Next ==
  \/ \E x \in Items :
       ListAppend(x) \/ ListPrepend(x) \/ SortedInsert(x) \/ ListRemove(x) \/ HashInsert(x)
  \/ ListRemoveFront
  \/ \E k \in {Key(x) : x \in Items} : HashRemove(k) \/ HashFind(k)
  \/ \E i \in 0 .. NumBits - 1 : BitmapMark(i) \/ BitmapClear(i) \/ BitmapTest(i)
  \/ BitmapFindAndSet \/ BitmapNumClear
  \/ SelfTest \/ RenewTable \/ RenewBitmap

Spec == Init /\ [][Next]_vars

-----------------------------------------------------------------------------
(* Properties. *)

Contents == {heap.item[c] : c \in heap.used}

\* The SanityCheck of every bucket, of the sorted list and of the hash table
\* holds after every sequence of operations, and no self-test fails whatever
\* was done before it; besides, no cell is lost or in two lists, the iterator
\* and Apply come by every item exactly once, and the bits of the last word
\* that belong to nobody stay clear.
Sound ==
  /\ ~failed
  /\ \A b \in DOMAIN buckets : SanityCheck(heap, buckets[b])
  /\ kind = "hash" => SanityHash(Table)
  /\ Len(Iterated) = Cardinality(heap.used)
  /\ {Iterated[i] : i \in DOMAIN Iterated} = Contents
  /\ IsInjective(Iterated)
  /\ Applied = Iterated
  /\ \A i \in NumBits .. NumWords * BitsInWord - 1 : ~Test(map, i)

Abstract == INSTANCE AbstractCollection WITH
  members <- IF kind = "bitmap" THEN Marked(map) ELSE Contents,
  order <- IF kind \in Lists THEN Listed(heap, buckets[0]) ELSE <<>>

\* The chains, tables and words do what a sequence, a sorted sequence with
\* first come first served among equals, a set with unique keys, and a set of
\* numbers that hands out the smallest free one do.
ImplementsCollection == Abstract!Spec
=============================================================================
