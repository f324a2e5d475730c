------------------------- MODULE AbstractCollection --------------------------
(***************************************************************************)
(* What the containers of lib/ promise: a List is a sequence without       *)
(* repetitions, a SortedList one that is kept in order and serves equal    *)
(* keys in the order of their arrival, a HashTable a set with at most one  *)
(* item per key, a Bitmap a set of numbers that hands out the smallest one *)
(* that is not in it.                                                      *)
(***************************************************************************)
EXTENDS Integers, Sequences, SequencesExt, FiniteSets

CONSTANTS Items, Key(_), NoItem, NumBits

VARIABLES kind,     \* "list", "sorted", "hash" or "bitmap"
          members,  \* what is in the collection
          order,    \* in which order, of a list
          result    \* what the last operation returned

vars == <<kind, members, order, result>>

Init == /\ kind \in {"list", "sorted", "hash", "bitmap"}
        /\ members = {} /\ order = <<>> /\ result = NoItem

\* An item is put at place i.
Put(x, i) ==
  /\ x \notin members
  /\ members' = members \cup {x}
  /\ order' = InsertAt(order, i, x)
  /\ result' = NoItem
  /\ UNCHANGED kind

Append_(x) == kind = "list" /\ Put(x, Len(order) + 1)
Prepend(x) == kind = "list" /\ Put(x, 1)

SortedInsert(x) ==
  /\ kind = "sorted"
  /\ \E i \in 1 .. Len(order) + 1 :
       /\ \A j \in 1 .. i - 1 : Key(order[j]) <= Key(x)
       /\ \A j \in i .. Len(order) : Key(order[j]) > Key(x)
       /\ Put(x, i)

HashInsert(x) ==
  /\ kind = "hash"
  /\ \A y \in members : Key(y) # Key(x)
  /\ members' = members \cup {x}
  /\ result' = NoItem
  /\ UNCHANGED <<kind, order>>

\* An item is taken out and returned.
Take(x) ==
  /\ kind # "bitmap" /\ x \in members
  /\ members' = members \ {x}
  /\ order' = SelectSeq(order, LAMBDA y : y # x)
  /\ result' = x
  /\ UNCHANGED kind

RemoveFront == order # <<>> /\ Take(Head(order))

Find(k) ==
  /\ kind = "hash"
  /\ \/ \E x \in members : Key(x) = k /\ result' = x
     \/ (\A x \in members : Key(x) # k) /\ result' = NoItem
  /\ UNCHANGED <<kind, members, order>>

Bits == 0 .. NumBits - 1

\* A bitmap becomes m and r is returned.
Become(m, r) ==
  kind = "bitmap" /\ members' = m /\ result' = r /\ UNCHANGED <<kind, order>>

Mark(i) == Become(members \cup {i}, NoItem)
Clear(i) == Become(members \ {i}, NoItem)
Test(i) == Become(members, IF i \in members THEN 1 ELSE 0)
FindAndSet ==
  \/ \E i \in Bits \ members :
       0 .. i - 1 \subseteq members /\ Become(members \cup {i}, i)
  \/ Bits \subseteq members /\ Become(members, -1)
NumClear == Become(members, Cardinality(Bits \ members))
Renew == Become({}, NoItem)

\* A self-test leaves an empty collection empty, and a table is only deleted
\* and made anew when it is empty.
SelfTest == members = {} /\ result' = NoItem /\ UNCHANGED <<kind, members, order>>

Next ==
  \/ \E x \in Items : Append_(x) \/ Prepend(x) \/ SortedInsert(x) \/ HashInsert(x) \/ Take(x)
  \/ RemoveFront
  \/ \E x \in Items : Find(Key(x))
  \/ \E i \in Bits : Mark(i) \/ Clear(i) \/ Test(i)
  \/ FindAndSet \/ NumClear \/ Renew \/ SelfTest

Spec == Init /\ [][Next]_vars
=============================================================================
