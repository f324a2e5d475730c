-------------------------------- MODULE List --------------------------------
(***************************************************************************)
(* List and SortedList of lib/list.cc, cell by cell: a list is a record of *)
(* first, last and a count kept beside a chain of cells on a heap that it  *)
(* shares with other lists.  An operation gives the heap and the list that *)
(* it leaves and whether its ASSERTs hold.                                 *)
(***************************************************************************)
EXTENDS Integers, Sequences, FiniteSets

CONSTANTS Items,           \* what can be put on a list
          Key(_),          \* what compare compares
          NoItem,          \* NULL as a result
          MaxCells         \* size of the heap

ASSUME ListAssumption ==
  /\ NoItem \notin Items
  /\ \A x \in Items : Key(x) \in Nat
  /\ MaxCells \in Nat \ {0}

NULL == 0
Cells == 1 .. MaxCells

EmptyList == [first |-> NULL, last |-> NULL, numInList |-> 0]

\* Where an iterator is after n times Next.
Walk(h, l) ==
  LET cell[n \in 0 .. MaxCells] ==
        IF n = 0 THEN l.first
        ELSE IF cell[n - 1] = NULL THEN NULL ELSE h.next[cell[n - 1]]
  IN  cell

\* The cells that it comes by.
Chain(h, l) ==
  LET cell == Walk(h, l)
  IN  [i \in 1 .. Cardinality({n \in 0 .. MaxCells : cell[n] # NULL}) |-> cell[i - 1]]

Listed(h, l) == LET ch == Chain(h, l) IN [i \in 1 .. Len(ch) |-> h.item[ch[i]]]

IsInList(h, l, x) == \E i \in DOMAIN Listed(h, l) : Listed(h, l)[i] = x
IsEmpty(l) == l.numInList = 0

\* new ListElement.
Fresh(h) == CHOOSE c \in Cells \ h.used : \A d \in Cells \ h.used : c <= d
NewCell(h, x) ==
  LET c == Fresh(h)
  IN  [used |-> h.used \cup {c}, item |-> [h.item EXCEPT ![c] = x],
       next |-> [h.next EXCEPT ![c] = NULL]]

\* The next of cell c is set to d.
Link(h, c, d) == [used |-> h.used, item |-> h.item, next |-> [h.next EXCEPT ![c] = d]]

\* A deleted cell holds nothing that could be used: who follows it stays there.
Delete(h, c) == [used |-> h.used \ {c}, item |-> [h.item EXCEPT ![c] = NoItem],
                 next |-> [h.next EXCEPT ![c] = c]]

\* An operation on a list gives the heap, the list and whether its ASSERTs hold.
Effect(h, l, ok) == [heap |-> h, list |-> l, ok |-> ok]

Append_(h, l, x) ==
  LET c == Fresh(h)
      n == NewCell(h, x)
      ok == ~IsInList(h, l, x)
  IN  IF IsEmpty(l)
      THEN Effect(n, [first |-> c, last |-> c, numInList |-> 1], ok)
      ELSE Effect(Link(n, l.last, c),
                  [first |-> l.first, last |-> c, numInList |-> l.numInList + 1], ok)

Prepend(h, l, x) ==
  LET c == Fresh(h)
      n == NewCell(h, x)
      ok == ~IsInList(h, l, x)
  IN  IF IsEmpty(l)
      THEN Effect(n, [first |-> c, last |-> c, numInList |-> 1], ok)
      ELSE Effect(Link(n, c, l.first),
                  [first |-> c, last |-> l.last, numInList |-> l.numInList + 1], ok)

RemoveFront(h, l) ==
  Effect(Delete(h, l.first),
         IF l.first = l.last
         THEN [first |-> NULL, last |-> NULL, numInList |-> l.numInList - 1]
         ELSE [first |-> h.next[l.first], last |-> l.last, numInList |-> l.numInList - 1],
         ~IsEmpty(l))

\* Mutant of Unlink: last is not moved when the last cell goes.
UnlinkKeepsLast(h, l, prev, ptr) ==
  Effect(Delete(Link(h, prev, h.next[ptr]), ptr),
         [first |-> l.first, last |-> l.last, numInList |-> l.numInList - 1], TRUE)

\* The cell ptr behind prev is taken out of the chain.
Unlink(h, l, prev, ptr) ==
  Effect(Delete(Link(h, prev, h.next[ptr]), ptr),
         [first |-> l.first, last |-> IF h.next[ptr] = NULL THEN prev ELSE l.last,
          numInList |-> l.numInList - 1], TRUE)

Remove_(h, l, x) ==
  IF h.item[l.first] = x THEN RemoveFront(h, l)
  ELSE LET ch == Chain(h, l)
           i == CHOOSE j \in 2 .. Len(ch) : h.item[ch[j]] = x
       IN  Unlink(h, l, ch[i - 1], ch[i])

\* Mutant of Goes: an item goes before those with the same key.
GoesFirst(x, y) == Key(x) <= Key(y)

\* compare(x, y) < 0.
Goes(x, y) == Key(x) < Key(y)

\* SortedList::Insert: at the front, before the first larger item, or last.
Insert(h, l, x) ==
  LET c == Fresh(h)
      n == NewCell(h, x)
      ch == Chain(h, l)
      ok == ~IsInList(h, l, x)
      larger == {i \in 2 .. Len(ch) : Goes(x, h.item[ch[i]])}
      i == CHOOSE j \in larger : \A k \in larger : j <= k
  IN  IF IsEmpty(l) \/ Goes(x, h.item[l.first]) THEN Prepend(h, l, x)
      ELSE IF larger = {} THEN Append_(h, l, x)
      ELSE Effect(Link(Link(n, c, ch[i]), ch[i - 1], c),
                  [first |-> l.first, last |-> l.last, numInList |-> l.numInList + 1], ok)

\* List::SanityCheck: last is reached from first, the count is right, and
\* nothing comes behind last.
SanityList(h, l) ==
  LET ch == Chain(h, l)
  IN  /\ Len(ch) = l.numInList
      /\ (l.first = NULL) = (l.last = NULL)
      /\ l.first # NULL => ch # <<>> /\ l.last = ch[Len(ch)] /\ h.next[l.last] = NULL

\* SortedList::SanityCheck.
SanitySorted(h, l) ==
  LET s == Listed(h, l) IN \A i \in 2 .. Len(s) : ~Goes(s[i], s[i - 1])
=============================================================================
