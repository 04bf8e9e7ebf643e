------------------------------ MODULE Skiplist ------------------------------
(***************************************************************************)
(* t_zset.c: the skiplist of a sorted set.  RedisZset takes its operations *)
(* as operations on the sorted sequence of the elements; this module is    *)
(* the structure itself, with its levels, its spans and its back links.    *)
(*                                                                         *)
(* An element stands for a pair of score and object, ordered as the code   *)
(* orders those pairs.  The levels are numbered from 1.                    *)
(***************************************************************************)
EXTENDS Integers, Sequences, FiniteSets, SequencesExt

CONSTANTS Elements,              \* the elements, numbers in their order
          ZSKIPLIST_MAXLEVEL

ASSUME SkiplistConstants ==
  Elements \subseteq Nat \ {0} /\ ZSKIPLIST_MAXLEVEL \in Nat \ {0}

VARIABLE zsl

Header == 0
Nil == -1
Levels == 1..ZSKIPLIST_MAXLEVEL
Nodes == Elements \cup {Header}

zslCreate ==
  [level |-> 1, length |-> 0, tail |-> Nil,
   forward |-> [i \in Levels |-> [x \in Nodes |-> Nil]],
   span |-> [i \in Levels |-> [x \in Nodes |-> 0]],
   backward |-> [x \in Nodes |-> Nil]]

\* Along level i from x as long as the next node is one of before, counting spans.
Along(z, i, x, r, before) ==
  LET go[y \in Nodes] ==
        LET n == z.forward[i][y] IN
        IF n \in before
        THEN [go[n] EXCEPT !.rank = @ + z.span[i][y]] ELSE [node |-> y, rank |-> 0]
  IN  [go[x] EXCEPT !.rank = @ + r]

\* The walk from the top level down; above the list's level it is at the header.
Descent(z, before) ==
  LET at[i \in 1..(ZSKIPLIST_MAXLEVEL + 1)] ==
        IF i > z.level THEN [node |-> Header, rank |-> 0]
        ELSE Along(z, i, at[i + 1].node, at[i + 1].rank, before)
  IN  at

\* Mutant: the levels above the new node's keep their spans.
UntouchedSpanKept(z, i, x, level) == z.span[i][x]

\* Spans of the levels the new node does not reach.
UntouchedSpan(z, i, x, level) == IF i > level /\ i <= z.level THEN z.span[i][x] + 1 ELSE z.span[i][x]

zslInsert(z, e, level) ==
  LET update == Descent(z, {n \in Elements : n < e})
      rank0 == update[1].rank
      after(i) == z.forward[i][update[i].node]
      spanBefore(i) == IF i > z.level THEN z.length ELSE z.span[i][update[i].node]
      steps(i) == rank0 - update[i].rank
  IN  [z EXCEPT
        !.level = IF level > @ THEN level ELSE @,
        !.length = @ + 1,
        !.forward = [i \in Levels |->
          IF i > level THEN z.forward[i] ELSE [z.forward[i] EXCEPT ![e] = after(i), ![update[i].node] = e]],
        !.span = [i \in Levels |->
          IF i > level
          THEN [z.span[i] EXCEPT ![update[i].node] = UntouchedSpan(z, i, update[i].node, level)]
          ELSE [z.span[i] EXCEPT ![e] = spanBefore(i) - steps(i), ![update[i].node] = steps(i) + 1]],
        !.backward = [x \in Nodes |->
          IF x = e THEN IF update[1].node = Header THEN Nil ELSE update[1].node
          ELSE IF x = after(1) THEN e ELSE z.backward[x]],
        !.tail = IF after(1) = Nil THEN e ELSE @]

SpanAfterRemoval(z, i, u, e) ==
  IF z.forward[i][u] = e THEN z.span[i][u] + z.span[i][e] - 1 ELSE z.span[i][u] - 1

\* Mutant: the node after the removed one keeps its back link.
BackLinksKept(z, e) == [z.backward EXCEPT ![e] = Nil]

BackLinksAfterRemoval(z, e) ==
  [x \in Nodes |-> IF x = e THEN Nil
                   ELSE IF x = z.forward[1][e] THEN z.backward[e] ELSE z.backward[x]]

zslDeleteNode(z, e, update) ==
  LET u(i) == update[i].node
      unlinked(i) == z.forward[i][u(i)] = e
      forward == [i \in Levels |-> IF i <= z.level /\ unlinked(i)
                                   THEN [z.forward[i] EXCEPT ![u(i)] = z.forward[i][e], ![e] = Nil]
                                   ELSE z.forward[i]]
      empty == {l \in 1..z.level : \A i \in l..z.level : forward[i][Header] = Nil}
  IN  [z EXCEPT
        !.level = IF empty = {} THEN @
                  ELSE LET l == CHOOSE l \in empty : \A m \in empty : l <= m
                       IN  IF l > 1 THEN l - 1 ELSE 1,
        !.length = @ - 1,
        !.forward = forward,
        !.span = [i \in Levels |-> IF i <= z.level
                                   THEN [z.span[i] EXCEPT ![u(i)] = SpanAfterRemoval(z, i, u(i), e), ![e] = 0]
                                   ELSE z.span[i]],
        !.backward = BackLinksAfterRemoval(z, e),
        !.tail = IF z.forward[1][e] = Nil THEN z.backward[e] ELSE @]

\* zslDelete, and the step of the three deletions by range.
zslDelete(z, e) ==
  LET update == Descent(z, {n \in Elements : n < e})
  IN  IF z.forward[1][update[1].node] = e THEN zslDeleteNode(z, e, update) ELSE z

\* From the first element not below min on: the update vector is found once
\* and used for every element removed.
zslDeleteRangeByScore(z, min, max) ==
  LET update == Descent(z, {n \in Elements : n < min})
      doomed == SetToSortSeq({n \in Elements : \E x \in Nodes : z.forward[1][x] = n /\ min <= n /\ n <= max},
                             LAMBDA a, b : a < b)
  IN  FoldLeft(LAMBDA s, e : zslDeleteNode(s, e, update), z, doomed)

zslGetRank(z, e) ==
  LET at == Descent(z, {n \in Elements : n <= e})
      hit == {i \in 1..z.level : at[i].node = e}
  IN  IF hit = {} THEN 0 ELSE at[CHOOSE i \in hit : \A j \in hit : j <= i].rank

\* The spans are added up as long as they do not pass the rank.
zslGetElementByRank(z, rank) ==
  LET go[i \in Levels, x \in Nodes, r \in 0..Cardinality(Elements)] ==
        IF z.forward[i][x] # Nil /\ r + z.span[i][x] <= rank
        THEN go[i, z.forward[i][x], r + z.span[i][x]]
        ELSE IF r = rank THEN x
        ELSE IF i = 1 THEN Nil ELSE go[i - 1, x, r]
  IN  go[z.level, Header, 0]

-----------------------------------------------------------------------------
Chain(z) == LET next[x \in Nodes] == IF z.forward[1][x] = Nil THEN <<>>
                                     ELSE <<z.forward[1][x]>> \o next[z.forward[1][x]]
            IN  next[Header]
InList(z) == ToSet(Chain(z))

SkiplistInit == zsl = zslCreate

\* zslRandomLevel is any level.
SkiplistInsert == \E e \in Elements \ InList(zsl), level \in Levels : zsl' = zslInsert(zsl, e, level)
SkiplistDelete == \E e \in Elements : zsl' = zslDelete(zsl, e)
SkiplistDeleteRange == \E min \in Elements, max \in Elements :
                          min < max /\ zsl' = zslDeleteRangeByScore(zsl, min, max)

SkiplistNext == SkiplistInsert \/ SkiplistDelete \/ SkiplistDeleteRange

-----------------------------------------------------------------------------
(* Properties.                                                             *)

\* Whatever levels the nodes have drawn and in whatever order they came and
\* went, the spans add up: the rank of every element is its place in the
\* order, and looking up that rank gives the element back.
RanksAreExact ==
  LET in == Chain(zsl) IN
  /\ zsl.length = Len(in)
  /\ \A i \in DOMAIN in : zslGetRank(zsl, in[i]) = i /\ zslGetElementByRank(zsl, i) = in[i]
  /\ \A e \in Elements \ InList(zsl) : zslGetRank(zsl, e) = 0

\* The list of level 1 is sorted, the back links run through it in reverse
\* from the tail, and every higher level is a part of the one below.
LevelsAreSublists ==
  LET in == Chain(zsl) IN
  /\ \A i \in 1..(Len(in) - 1) : in[i] < in[i + 1]
  /\ zsl.tail = IF in = <<>> THEN Nil ELSE Last(in)
  /\ \A i \in DOMAIN in : zsl.backward[in[i]] = IF i = 1 THEN Nil ELSE in[i - 1]
  /\ \A i \in 2..ZSKIPLIST_MAXLEVEL : \A x \in Nodes :
       LET n == zsl.forward[i][x] IN
       n # Nil => /\ n > x /\ n \in InList(zsl)
                  /\ \E y \in Nodes : zsl.forward[i - 1][y] = n
  /\ \A i \in (zsl.level + 1)..ZSKIPLIST_MAXLEVEL : zsl.forward[i][Header] = Nil
=============================================================================
