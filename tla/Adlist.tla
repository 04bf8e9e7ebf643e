------------------------------- MODULE Adlist -------------------------------
(***************************************************************************)
(* adlist.c: the doubly linked list the server keeps its clients, replies, *)
(* replicas and watched keys in, and the iterator that walks it while its  *)
(* nodes are removed.  A node is a cell; a removed cell is free and may be *)
(* allocated again at once.  The ghost wrong says that the iterator has    *)
(* returned a cell that was free, or one that was not in the list when the *)
(* walk began.                                                             *)
(***************************************************************************)
EXTENDS Integers, Sequences, FiniteSets, SequencesExt

CONSTANTS Cells, NoCell

VARIABLES list,     \* head, tail, len and the cells' links
          listIter  \* a walk through it

adlistVars == <<list, listIter>>

listCreate == [head |-> NoCell, tail |-> NoCell, len |-> 0, used |-> {},
               prev |-> [c \in Cells |-> NoCell], next |-> [c \in Cells |-> NoCell]]

\* f with the value at c replaced, unless c is NULL.
Link(f, c, d) == IF c = NoCell THEN f ELSE [f EXCEPT ![c] = d]

listAddNodeHead(l, c) ==
  [l EXCEPT !.head = c, !.tail = IF l.len = 0 THEN c ELSE @,
            !.prev = [Link(@, l.head, c) EXCEPT ![c] = NoCell], !.next[c] = l.head,
            !.len = @ + 1, !.used = @ \cup {c}]

listAddNodeTail(l, c) ==
  [l EXCEPT !.tail = c, !.head = IF l.len = 0 THEN c ELSE @,
            !.next = [Link(@, l.tail, c) EXCEPT ![c] = NoCell], !.prev[c] = l.tail,
            !.len = @ + 1, !.used = @ \cup {c}]

listInsertNode(l, old, c, after) ==
  LET p == IF after THEN old ELSE l.prev[old]
      n == IF after THEN l.next[old] ELSE old
  IN  [l EXCEPT !.tail = IF after /\ @ = old THEN c ELSE @,
                !.head = IF ~after /\ @ = old THEN c ELSE @,
                !.next = [Link(@, p, c) EXCEPT ![c] = n],
                !.prev = [Link(@, n, c) EXCEPT ![c] = p],
                !.len = @ + 1, !.used = @ \cup {c}]

\* Mutant: the tail is not moved when the last node goes.
DelNodeKeepsTail(l, c) ==
  [l EXCEPT !.head = IF l.prev[c] = NoCell THEN l.next[c] ELSE @,
            !.next = Link(@, l.prev[c], l.next[c]), !.prev = Link(@, l.next[c], l.prev[c]),
            !.len = @ - 1, !.used = @ \ {c}]

listDelNode(l, c) ==
  [l EXCEPT !.head = IF l.prev[c] = NoCell THEN l.next[c] ELSE @,
            !.tail = IF l.next[c] = NoCell THEN l.prev[c] ELSE @,
            !.next = Link(@, l.prev[c], l.next[c]), !.prev = Link(@, l.next[c], l.prev[c]),
            !.len = @ - 1, !.used = @ \ {c}]

listRotate(l) ==
  LET t == l.tail
      last == l.prev[t]
  IN  IF l.len <= 1 THEN l
      ELSE [l EXCEPT !.tail = last, !.head = t,
                     !.next = [@ EXCEPT ![last] = NoCell, ![t] = l.head],
                     !.prev = [@ EXCEPT ![l.head] = t, ![t] = NoCell]]

\* The cells met by following links from c.
Walk(link, c) ==
  LET go[n \in 0..Cardinality(Cells), x \in Cells \cup {NoCell}] ==
        IF x = NoCell \/ n = 0 THEN <<>> ELSE <<x>> \o go[n - 1, link[x]]
  IN  go[Cardinality(Cells), c]

listIndex(l, i) ==
  LET w == IF i < 0 THEN Walk(l.prev, l.tail) ELSE Walk(l.next, l.head)
      k == IF i < 0 THEN -i ELSE i + 1
  IN  IF k <= Len(w) THEN w[k] ELSE NoCell

\* Mutant: the link is read when the next node is asked for, not before.
listNextLate(it, l) ==
  [it EXCEPT !.at = IF it.at = NoCell THEN it.next ELSE l.next[it.at]]

\* The link of the node returned is saved before the caller sees the node.
listNext(it, l) ==
  [it EXCEPT !.at = it.next,
             !.next = IF it.next = NoCell THEN NoCell
                      ELSE IF it.fromHead THEN l.next[it.next] ELSE l.prev[it.next]]

-----------------------------------------------------------------------------
NoWalk == [on |-> FALSE, fromHead |-> TRUE, next |-> NoCell, at |-> NoCell,
           must |-> {}, got |-> {}, again |-> {}, wrong |-> FALSE]

AdlistInit == list = listCreate /\ listIter = NoWalk

Free == Cells \ list.used

\* While a walk is on, the nodes added are added at the ends.
AdlistAdd ==
  /\ \E c \in Free :
       \/ list' = listAddNodeHead(list, c)
       \/ list' = listAddNodeTail(list, c)
       \/ ~listIter.on /\ \E old \in list.used, after \in BOOLEAN : list' = listInsertNode(list, old, c, after)
  /\ UNCHANGED listIter

\* "It's valid to remove the currently returned element using listDelNode(),
\* but not to remove other elements."
AdlistDel ==
  \E c \in list.used :
     /\ listIter.on => c = listIter.at
     /\ list' = listDelNode(list, c)
     /\ listIter' = [listIter EXCEPT !.must = @ \ {c}]

AdlistRotate == ~listIter.on /\ list' = listRotate(list) /\ UNCHANGED listIter

\* listGetIterator, listRewind, listRewindTail.
AdlistWalk ==
  /\ ~listIter.on
  /\ \E fromHead \in BOOLEAN :
       listIter' = [NoWalk EXCEPT !.on = TRUE, !.fromHead = fromHead, !.must = list.used,
                                  !.next = IF fromHead THEN list.head ELSE list.tail]
  /\ UNCHANGED list

AdlistStep ==
  /\ listIter.on
  /\ LET it == listNext(listIter, list) IN
     listIter' = [it EXCEPT !.on = it.at # NoCell,
                            !.again = @ \cup ({it.at} \cap listIter.got),
                            !.got = @ \cup ({it.at} \ {NoCell}),
                            !.wrong = @ \/ (it.at # NoCell /\ it.at \notin list.used)]
  /\ UNCHANGED list

AdlistNext == AdlistAdd \/ AdlistDel \/ AdlistRotate \/ AdlistWalk \/ AdlistStep

-----------------------------------------------------------------------------
\* Head and tail are the ends of one chain through exactly the nodes in use,
\* the same in both directions, and len counts it.
ListIsOneChain ==
  LET w == Walk(list.next, list.head) IN
  /\ Walk(list.prev, list.tail) = Reverse(w)
  /\ Len(w) = list.len /\ ToSet(w) = list.used /\ Cardinality(list.used) = list.len
  /\ \A i \in 1..list.len : listIndex(list, i - 1) = listIndex(list, i - 1 - list.len)

\* A walk whose caller removes only the node it was just given meets every
\* node that stays, each once, and never one that was freed.
WalkSurvivesRemoval ==
  /\ ~listIter.wrong
  /\ listIter.must \cap listIter.again = {}
  /\ ~listIter.on => listIter.must \subseteq listIter.got
=============================================================================
