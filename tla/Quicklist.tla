----------------------------- MODULE Quicklist -----------------------------
(***************************************************************************)
(* quicklist.c: a list as a chain of ziplists.  A node holds up to Fill    *)
(* items; the nodes deeper than compress from both ends are kept           *)
(* compressed, and a node that was opened for a single use is marked so    *)
(* that it is compressed again.                                            *)
(*                                                                         *)
(* A node is a record: its items, lzf (it is compressed) and re (its       *)
(* recompress mark).  The links are the neighbours in the sequence of      *)
(* nodes.  A value in Packable compresses well; a node with another value  *)
(* does not compress.  Positions and nodes count from 1.  unread says that *)
(* compressed bytes were taken for a ziplist.                              *)
(***************************************************************************)
EXTENDS Integers, Sequences, FiniteSets, SequencesExt, FiniteSetsExt

CONSTANTS Fill,         \* list-max-ziplist-size
          Depths,       \* values of list-compress-depth
          ListValues,   \* the values
          Packable,     \* those that compress
          MaxItems,     \* bound on the items
          LeavesOpen    \* calls that leave a node open are followed, too

ASSUME QuicklistConstants ==
  /\ Fill \in Nat \ {0} /\ Depths \subseteq Nat /\ Packable \subseteq ListValues
  /\ MaxItems \in Nat /\ LeavesOpen \in BOOLEAN

VARIABLES ql,      \* the quicklist
          qlCmd    \* the last command on it

quicklistVars == <<ql, qlCmd>>

-----------------------------------------------------------------------------
(* Compression.                                                            *)

quicklistCreateNode(items) == [items |-> items, lzf |-> FALSE, re |-> FALSE]

\* A node that does not get smaller stays as it is, its mark included.
quicklistCompressNode(n) ==
  IF ~n.lzf /\ ToSet(n.items) \subseteq Packable THEN [n EXCEPT !.lzf = TRUE, !.re = FALSE] ELSE n
quicklistDecompressNode(n) == [n EXCEPT !.lzf = FALSE]
quicklistDecompressNodeForUse(n) == IF n.lzf THEN [n EXCEPT !.lzf = FALSE, !.re = TRUE] ELSE n

At(q, i, F(_)) == IF i \in DOMAIN q.nodes THEN [q EXCEPT !.nodes[i] = F(@)] ELSE q

\* Mutant: nodes within the depth are left as they are.
CompressOnly(q, len, i) ==
  IF q.compress = 0 \/ len < 2 * q.compress \/ i = 0 THEN q ELSE At(q, i, quicklistCompressNode)

\* len is the length field, which callers update later; i is the node, 0 for
\* none.  With a depth of 2 or more the nodes just beyond the walks from both
\* ends are compressed, wherever the walks have come to.
__quicklistCompress(q, len, i) ==
  LET C == q.compress
      n == Len(q.nodes)
      within == {j \in 1..n : j <= C \/ j > n - C}
      opened == FoldSet(LAMBDA j, r : At(r, j, quicklistDecompressNode), q, within)
      packed == IF i \in within THEN opened ELSE At(opened, i, quicklistCompressNode)
      met == \E d \in 1..C : 2 * d = n + 1
  IN  IF C = 0 \/ len < 2 * C THEN q
      ELSE IF met THEN opened
      ELSE IF C < 2 THEN packed
      ELSE At(At(packed, C + 1, quicklistCompressNode), n - C, quicklistCompressNode)

quicklistCompress(q, len, i) ==
  IF q.nodes[i].re THEN At(q, i, quicklistCompressNode) ELSE __quicklistCompress(q, len, i)

quicklistRecompressOnly(q, i) == IF q.nodes[i].re THEN At(q, i, quicklistCompressNode) ELSE q

-----------------------------------------------------------------------------
(* Nodes.                                                                  *)

\* Mutant: a full node takes one more item.
AllowOneMore(q, i) == i \in DOMAIN q.nodes /\ Len(q.nodes[i].items) <= Fill

_quicklistNodeAllowInsert(q, i) == i \in DOMAIN q.nodes /\ Len(q.nodes[i].items) < Fill
_quicklistNodeAllowMerge(q, i) ==
  /\ i \in DOMAIN q.nodes /\ i + 1 \in DOMAIN q.nodes
  /\ Len(q.nodes[i].items) + Len(q.nodes[i + 1].items) <= Fill

\* The old node is looked after before the length is counted up.
__quicklistInsertNode(q, i, node, after) ==
  LET linked == [q EXCEPT !.nodes = InsertAt(@, IF after THEN i + 1 ELSE i, node)]
  IN  IF i = 0 THEN [q EXCEPT !.nodes = <<node>>]
      ELSE quicklistCompress(linked, Len(q.nodes), IF after THEN i ELSE i + 1)

\* count is what the node still counts for.
__quicklistDelNode(q, i, count) ==
  __quicklistCompress([q EXCEPT !.nodes = RemoveAt(@, i), !.count = @ - count], Len(q.nodes), 0)

\* Of an open node: the bytes of a compressed one are not a ziplist.
quicklistDelIndex(q, i, off) ==
  LET deleted == At(q, i, LAMBDA n : [n EXCEPT !.items = RemoveAt(@, off)])
      less == [deleted EXCEPT !.count = @ - 1]
  IN  IF q.nodes[i].lzf THEN [q EXCEPT !.unread = TRUE]
      ELSE IF deleted.nodes[i].items = <<>> THEN __quicklistDelNode(less, i, 0) ELSE less

\* The list with more entries is extended, and its node is the one kept.
_quicklistZiplistMerge(q, i) ==
  LET a == q.nodes[i]
      b == q.nodes[i + 1]
      keep == [items |-> a.items \o b.items, lzf |-> FALSE,
               re |-> IF Len(a.items) >= Len(b.items) THEN a.re ELSE b.re]
      gone == __quicklistDelNode([q EXCEPT !.nodes[i] = keep], i + 1, 0)
  IN  quicklistCompress(gone, Len(gone.nodes), i)

MergeAt(q, i) == IF _quicklistNodeAllowMerge(q, i) THEN _quicklistZiplistMerge(q, i) ELSE q

\* c is the center's place; every merge before it moves it one to the left.
_quicklistMergeNodes(q, c) ==
  LET q1 == MergeAt(q, c - 2)
      c1 == c - (Len(q.nodes) - Len(q1.nodes))
      q2 == MergeAt(q1, c1 + 1)
      q3 == MergeAt(q2, c1 - 1)
      target == c1 - (Len(q2.nodes) - Len(q3.nodes))
  IN  MergeAt(q3, target)

\* Mutant: the new node keeps the entry at the offset in both directions, as
\* the comment of the function says.
SplitIncluding(items, off, after) ==
  LET left == SubSeq(items, 1, off)
      right == SubSeq(items, off + 1, Len(items))
  IN  IF after THEN [old |-> left, new |-> right] ELSE [old |-> right, new |-> left]

\* The new node, and what the old one keeps.
_quicklistSplitNode(items, off, after) ==
  LET cut == IF after THEN off ELSE off - 1
      left == SubSeq(items, 1, cut)
      right == SubSeq(items, cut + 1, Len(items))
  IN  IF after THEN [old |-> left, new |-> right] ELSE [old |-> right, new |-> left]

-----------------------------------------------------------------------------
(* Operations.                                                             *)

Items(q) == FoldLeft(LAMBDA s, n : s \o n.items, <<>>, q.nodes)

PushInto(q, i, v, head) ==
  IF q.nodes[i].lzf THEN [q EXCEPT !.unread = TRUE]
  ELSE At([q EXCEPT !.count = @ + 1], i,
          LAMBDA n : [n EXCEPT !.items = IF head THEN <<v>> \o @ ELSE Append(@, v)])

quicklistPush(q, v, head) ==
  LET end == IF head /\ q.nodes # <<>> THEN 1 ELSE Len(q.nodes)
  IN  IF _quicklistNodeAllowInsert(q, end) THEN PushInto(q, end, v, head)
      ELSE __quicklistInsertNode([q EXCEPT !.count = @ + 1], end, quicklistCreateNode(<<v>>), ~head)

quicklistPop(q, head) ==
  LET end == IF head THEN 1 ELSE Len(q.nodes)
  IN  quicklistDelIndex(q, end, IF head THEN 1 ELSE Len(q.nodes[end].items))

\* Node and offset of the p-th item.
Place(q, p) ==
  LET before(i) == Len(Items([q EXCEPT !.nodes = SubSeq(@, 1, i - 1)]))
      i == CHOOSE j \in DOMAIN q.nodes : before(j) < p /\ p <= before(j) + Len(q.nodes[j].items)
  IN  [node |-> i, off |-> p - before(i)]

\* Leaves the node open.
quicklistIndex(q, p) == At(q, Place(q, p).node, quicklistDecompressNodeForUse)

\* A walk from the head to node i: every node is opened, and closed when the
\* walk leaves it; node i stays open.
quicklistNext(q, i) ==
  LET step(s, j) == quicklistCompress(At(s, j, quicklistDecompressNodeForUse), Len(s.nodes), j)
  IN  At(FoldLeft(step, q, [j \in 1..(i - 1) |-> j]), i, quicklistDecompressNodeForUse)

quicklistReplaceAtIndex(q, p, v) ==
  LET at == Place(q, p)
      open == quicklistIndex(q, p)
  IN  quicklistCompress(At(open, at.node, LAMBDA n : [n EXCEPT !.items[at.off] = v]),
                        Len(q.nodes), at.node)

\* LINSERT: the walk finds the entry, then the value goes into its node, or
\* to the end of the previous one, or into a node of its own, or the node is
\* split.  The test for the tail compares an offset with a count and is never
\* true.
_quicklistInsert(walked, p, v, after) ==
  LET at == Place(walked, p)
      i == at.node
      q == [walked EXCEPT !.count = @ + 1]
      atHead == ~after /\ at.off = 1
      put(n) == [n EXCEPT !.items = InsertAt(@, IF after THEN at.off + 1 ELSE at.off, v)]
      split == _quicklistSplitNode(q.nodes[i].items, at.off, after)
      new == quicklistCreateNode(IF after THEN <<v>> \o split.new ELSE Append(split.new, v))
      halved == At(q, i, LAMBDA n : [n EXCEPT !.items = split.old])
  IN  IF _quicklistNodeAllowInsert(q, i) THEN quicklistRecompressOnly(At(q, i, put), i)
      ELSE IF atHead /\ _quicklistNodeAllowInsert(q, i - 1)
      THEN quicklistRecompressOnly(
             At(At(q, i - 1, quicklistDecompressNodeForUse), i - 1,
                LAMBDA n : [n EXCEPT !.items = Append(@, v)]), i - 1)
      ELSE IF atHead /\ i > 1 THEN __quicklistInsertNode(q, i, quicklistCreateNode(<<v>>), after)
      ELSE _quicklistMergeNodes(__quicklistInsertNode(halved, i, new, after),
                                IF after THEN i ELSE i + 1)

\* LREM of one item: the node it is in may be left open.
quicklistDelEntry(walked, p) == quicklistDelIndex(walked, Place(walked, p).node, Place(walked, p).off)

\* One node of quicklistDelRange, as LTRIM calls it: n items from an end.
DelFromNode(q, i, n, head) ==
  LET m == Len(q.nodes[i].items)
      rest(s) == IF head THEN SubSeq(s, n + 1, m) ELSE SubSeq(s, 1, m - n)
      cut == At(At(q, i, quicklistDecompressNodeForUse), i, LAMBDA x : [x EXCEPT !.items = rest(@)])
  IN  IF n >= m THEN __quicklistDelNode(q, i, m)
      ELSE quicklistRecompressOnly([cut EXCEPT !.count = @ - n], i)

\* From the head node by node; towards the tail the walk begins at the node
\* where the range begins, which may lose a part of its items.
quicklistDelRange(q, n, head) ==
  LET first == IF head THEN 1 ELSE Place(q, Len(Items(q)) - n + 1).node
      step(s, k) ==
        LET i == IF head THEN 1 ELSE s.at
            m == Len(s.q.nodes[i].items)
            part == IF head THEN (IF s.left < m THEN s.left ELSE m)
                    ELSE s.left - Len(Items([s.q EXCEPT !.nodes = SubSeq(@, i + 1, Len(@))]))
        IN  IF s.left = 0 THEN s
            ELSE [q |-> DelFromNode(s.q, i, part, head), left |-> s.left - part,
                  at |-> IF part = m THEN i ELSE i + 1]
  IN  FoldLeft(step, [q |-> q, left |-> n, at |-> first], [k \in 1..Len(q.nodes) |-> k]).q

\* The value is pushed before the tail entry is removed.
quicklistRotate(q) ==
  IF q.count <= 1 THEN q
  ELSE IF Last(q.nodes).lzf THEN [q EXCEPT !.unread = TRUE]
  ELSE quicklistPop(quicklistPush(q, Last(Items(q)), TRUE), FALSE)

-----------------------------------------------------------------------------
QuicklistInit ==
  /\ \E C \in Depths : ql = [nodes |-> <<>>, count |-> 0, compress |-> C, unread |-> FALSE]
  /\ qlCmd = [op |-> "Read"]

\* Unless LeavesOpen, only the calls are followed that close what they open.
Perform(cmd, q) ==
  /\ LeavesOpen \/ \A i \in DOMAIN q.nodes : ~q.nodes[i].re
  /\ ql' = q
  /\ qlCmd' = cmd

ListPush == \E v \in ListValues :
          /\ ql.count < MaxItems
          /\ \/ Perform([op |-> "PushHead", v |-> v], quicklistPush(ql, v, TRUE))
             \/ Perform([op |-> "PushTail", v |-> v], quicklistPush(ql, v, FALSE))
ListPop == /\ ql.count > 0
       /\ \/ Perform([op |-> "PopHead"], quicklistPop(ql, TRUE))
          \/ Perform([op |-> "PopTail"], quicklistPop(ql, FALSE))
ListRotate == ql.count > 1 /\ Perform([op |-> "Rotate"], quicklistRotate(ql))
ListSet == \E p \in 1..ql.count, v \in ListValues :
         Perform([op |-> "Set", i |-> p, v |-> v], quicklistReplaceAtIndex(ql, p, v))
ListInsert ==
  \E p \in 1..ql.count, v \in ListValues :
    LET walked == quicklistNext(ql, Place(ql, p).node) IN
    /\ ql.count < MaxItems
    /\ \/ Perform([op |-> "InsertBefore", i |-> p, v |-> v], _quicklistInsert(walked, p, v, FALSE))
       \/ Perform([op |-> "InsertAfter", i |-> p, v |-> v], _quicklistInsert(walked, p, v, TRUE))
ListRemove == \E p \in 1..ql.count :
            Perform([op |-> "Remove", i |-> p],
                    quicklistDelEntry(quicklistNext(ql, Place(ql, p).node), p))
ListTrim == \E n \in 1..ql.count :
          \/ Perform([op |-> "TrimHead", n |-> n], quicklistDelRange(ql, n, TRUE))
          \/ Perform([op |-> "TrimTail", n |-> n], quicklistDelRange(ql, n, FALSE))

\* LINDEX; LRANGE and a search with LREM that stop at the p-th item.
ListPeek == \E p \in 1..ql.count : Perform([op |-> "Read"], quicklistIndex(ql, p))
ListWalkTo == \E p \in 1..ql.count : Perform([op |-> "Read"], quicklistNext(ql, Place(ql, p).node))

QuicklistNext ==
  /\ ~ql.unread
  /\ ListPush \/ ListPop \/ ListRotate \/ ListSet \/ ListInsert \/ ListRemove \/ ListTrim \/ ListPeek \/ ListWalkTo

-----------------------------------------------------------------------------
(* Properties.                                                             *)

Contract == INSTANCE ListSpec WITH list <- Items(ql), cmd <- qlCmd

\* Every command acts as it would on a plain sequence, whatever was split,
\* merged, opened and closed for it.
QuicklistIsAList == Contract!ListBehaviour

\* The cached count is the number of items and no node is empty or too full.
CountsAgree ==
  /\ ql.count = Len(Items(ql))
  /\ \A i \in DOMAIN ql.nodes : Len(ql.nodes[i].items) \in 1..Fill

\* Head and tail are never compressed (_ql_verify checks it of every node
\* within the depth), so that the operations on the ends, which do not look,
\* read a ziplist.
EndNodesAreRaw ==
  /\ ~ql.unread
  /\ ql.nodes # <<>> => ~Head(ql.nodes).lzf /\ ~Last(ql.nodes).lzf
=============================================================================
