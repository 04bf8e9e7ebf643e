------------------------------ MODULE Ziplist ------------------------------
(***************************************************************************)
(* ziplist.c: a list in one block of memory.  Every entry holds the length *)
(* of the entry before it, in 1 byte or in 5, so that a change to one      *)
(* entry's length can grow the next one, and the one after it in turn.     *)
(*                                                                         *)
(* An entry is a record: psize and prev, the width and the value of its    *)
(* prevlen field, and its payload, of which only the length matters (the   *)
(* encoding byte is counted in raw).  A pointer into the block is its      *)
(* offset.  zlRef is the list the ziplist should hold; damaged says that   *)
(* bytes were cut off before they had been moved.                          *)
(***************************************************************************)
EXTENDS Integers, Sequences, FiniteSets, SequencesExt

CONSTANTS ZIP_BIGLEN,      \* least length that takes a 5-byte prevlen
          ZIPLIST_HEADER_SIZE,
          UINT16_MAX,      \* length field that means: count the entries
          PayloadLens,     \* lengths of the payloads pushed
          MaxEntries       \* bound on the entries

ASSUME ZiplistConstants ==
  /\ ZIP_BIGLEN \in Nat /\ UINT16_MAX \in Nat /\ ZIPLIST_HEADER_SIZE \in Nat \ {0}
  /\ PayloadLens \subseteq Nat /\ MaxEntries \in Nat

VARIABLES zl,       \* the ziplist
          zlRef     \* the list it stands for

ziplistVars == <<zl, zlRef>>

NULL == -1

zipPrevEncodeLength(len) == IF len < ZIP_BIGLEN THEN 1 ELSE 5
raw(e) == e.psize + 1 + e.len
Entry(prev, len) == [psize |-> zipPrevEncodeLength(prev), prev |-> prev, len |-> len]

\* Offset of the i-th entry; the one after the last is the end mark.
Offset(es, i) ==
  FoldLeft(LAMBDA n, e : n + raw(e), ZIPLIST_HEADER_SIZE, SubSeq(es, 1, i - 1))
EndOffset(es) == Offset(es, Len(es) + 1)
AtOffset(es, p) == CHOOSE i \in 1..(Len(es) + 1) : Offset(es, i) = p
IsEntry(es, p) == \E i \in 1..Len(es) : Offset(es, i) = p
EntryAt(es, p) == es[AtOffset(es, p)]

ziplistNew == [es |-> <<>>, bytes |-> ZIPLIST_HEADER_SIZE + 1, tail |-> ZIPLIST_HEADER_SIZE,
               length |-> 0, damaged |-> FALSE]

\* ZIPLIST_INCR_LENGTH: a saturated length is left as it is.
IncrLength(n, incr) == IF n < UINT16_MAX THEN n + incr ELSE n

\* One turn of the loop, at the i-th entry.  A field that is too small is
\* grown and the loop goes on; one that is too large stays large.
CascadeStep(s, i) ==
  LET z == s.z
      rawlen == raw(z.es[i])
      next == z.es[i + 1]
      extra == zipPrevEncodeLength(rawlen) - next.psize
      isTail == z.tail = Offset(z.es, i + 1)
  IN  IF s.done \/ i = Len(z.es) \/ next.prev = rawlen THEN [s EXCEPT !.done = TRUE]
      ELSE IF extra > 0
      THEN [s EXCEPT !.z = [z EXCEPT !.es[i + 1].psize = @ + extra, !.es[i + 1].prev = rawlen,
                                     !.bytes = @ + extra,
                                     !.tail = IF isTail THEN @ ELSE @ + extra]]
      ELSE [z |-> [z EXCEPT !.es[i + 1].prev = rawlen], done |-> TRUE]

\* Mutant: only the next entry is looked at.
CascadeOnce(z, i) == CascadeStep([z |-> z, done |-> FALSE], i).z

__ziplistCascadeUpdate(z, i) ==
  FoldLeft(CascadeStep, [z |-> z, done |-> FALSE], [j \in 1..(Len(z.es) + 1 - i) |-> i + j - 1]).z

\* Entries i .. i + num - 1 are removed; the next one takes over the prevlen
\* of the first, in as many bytes as that needs now.
__ziplistDelete(z, i, num) ==
  LET last == IF i + num - 1 < Len(z.es) THEN i + num - 1 ELSE Len(z.es)
      deleted == last - i + 1
      first == z.es[i]
      totlen == Offset(z.es, last + 1) - Offset(z.es, i)
      toEnd == last = Len(z.es)
      next == z.es[last + 1]
      nextdiff == IF toEnd THEN 0 ELSE zipPrevEncodeLength(first.prev) - next.psize
      rest == IF toEnd THEN <<>>
              ELSE <<Entry(first.prev, next.len)>>
                   \o SubSeq(z.es, last + 2, Len(z.es))
      removed ==
        [z EXCEPT !.es = SubSeq(@, 1, i - 1) \o rest,
                  !.bytes = @ - totlen + nextdiff,
                  !.length = IncrLength(@, -deleted),
                  !.tail = IF toEnd THEN Offset(z.es, i) - first.prev
                           ELSE @ - totlen + (IF last + 1 < Len(z.es) THEN nextdiff ELSE 0)]
  IN  IF nextdiff # 0 THEN __ziplistCascadeUpdate(removed, i) ELSE removed

\* Mutant: the growth of the next entry's prevlen is left out.
TailWithoutDiff(z, i, reqlen, nextdiff) ==
  IF i > Len(z.es) THEN Offset(z.es, i) ELSE z.tail + reqlen

\* nextdiff moves the tail unless the next entry is the tail.
TailAfterInsert(z, i, reqlen, nextdiff) ==
  IF i > Len(z.es) THEN Offset(z.es, i)
  ELSE z.tail + reqlen + (IF i < Len(z.es) THEN nextdiff ELSE 0)

\* The block is resized first: when the next entry's prevlen shrinks by more
\* than the new entry takes, the last bytes are gone before they are moved.
__ziplistInsert(z, i, len) ==
  LET atEnd == i = Len(z.es) + 1
      prev == IF ~atEnd THEN z.es[i].prev
              ELSE IF z.es = <<>> THEN 0 ELSE raw(EntryAt(z.es, z.tail))
      new == Entry(prev, len)
      nextdiff == IF atEnd THEN 0 ELSE zipPrevEncodeLength(raw(new)) - z.es[i].psize
      rest == IF atEnd THEN <<>>
              ELSE <<Entry(raw(new), z.es[i].len)>> \o SubSeq(z.es, i + 1, Len(z.es))
      moved ==
        [z EXCEPT !.es = SubSeq(@, 1, i - 1) \o <<new>> \o rest,
                  !.bytes = @ + raw(new) + nextdiff,
                  !.length = IncrLength(@, 1),
                  !.tail = TailAfterInsert(z, i, raw(new), nextdiff),
                  !.damaged = raw(new) + nextdiff < 0]
  IN  IF nextdiff # 0 THEN __ziplistCascadeUpdate(moved, i + 1) ELSE moved

\* The result is the same whichever of the two blocks is extended.
ziplistMerge(a, b) ==
  LET n == a.length + b.length
      seam == AtOffset(a.es, a.tail)
      joined == [es |-> a.es \o b.es,
                 bytes |-> a.bytes + b.bytes - ZIPLIST_HEADER_SIZE - 1,
                 length |-> IF n < UINT16_MAX THEN n ELSE UINT16_MAX,
                 tail |-> a.bytes - 1 + b.tail - ZIPLIST_HEADER_SIZE,
                 damaged |-> FALSE]
  IN  __ziplistCascadeUpdate(joined, seam)

\* The pointer after a walk of n steps over the prevlen fields from the tail,
\* or over the entries from the head.
ziplistIndex(z, index) ==
  LET back[n \in Nat] == IF n = 0 THEN z.tail
                         ELSE LET p == back[n - 1] IN
                              IF p # NULL /\ IsEntry(z.es, p) /\ EntryAt(z.es, p).prev > 0
                              THEN p - EntryAt(z.es, p).prev ELSE NULL
  IN  IF index < 0 THEN (IF z.es = <<>> THEN NULL ELSE back[(-index) - 1])
      ELSE IF index < Len(z.es) THEN Offset(z.es, index + 1) ELSE NULL

ziplistNext(z, p) ==
  LET q == p + raw(EntryAt(z.es, p)) IN
  IF p = EndOffset(z.es) \/ q = EndOffset(z.es) THEN NULL ELSE q

ziplistPrev(z, p) ==
  IF p = EndOffset(z.es) THEN (IF z.tail = p THEN NULL ELSE z.tail)
  ELSE IF p = ZIPLIST_HEADER_SIZE THEN NULL ELSE p - EntryAt(z.es, p).prev

ziplistGet(z, p) == IF p = NULL \/ p = EndOffset(z.es) THEN NULL ELSE EntryAt(z.es, p).len

\* First entry with the payload, skip entries being passed between two compared.
ziplistFind(z, len, skip) ==
  LET hits == {i \in 1..Len(z.es) : (i - 1) % (skip + 1) = 0 /\ z.es[i].len = len}
  IN  IF hits = {} THEN NULL
      ELSE Offset(z.es, CHOOSE i \in hits : \A j \in hits : i <= j)

\* The entries are counted when the length is saturated; a length that fits
\* again is stored.
ziplistLen(z) == IF z.length < UINT16_MAX THEN z.length ELSE Len(z.es)

-----------------------------------------------------------------------------
Pushed(z, len) == __ziplistInsert(z, Len(z.es) + 1, len)
Tails == {FoldLeft(Pushed, ziplistNew, s) : s \in {<<a>> : a \in PayloadLens}
                                                 \cup {<<a, b>> : a, b \in PayloadLens}}

ZiplistInit == zl = ziplistNew /\ zlRef = <<>>

\* ziplistPush, ziplistInsert.
ZiplistInsert ==
  /\ Len(zl.es) < MaxEntries
  /\ \E i \in 1..(Len(zl.es) + 1), len \in PayloadLens :
       zl' = __ziplistInsert(zl, i, len) /\ zlRef' = InsertAt(zlRef, i, len)

\* ziplistDelete, ziplistDeleteRange.
ZiplistDelete ==
  \E i \in 1..Len(zl.es), num \in {1, 2} :
     /\ zl' = __ziplistDelete(zl, i, num)
     /\ zlRef' = SubSeq(zlRef, 1, i - 1) \o SubSeq(zlRef, i + num, Len(zlRef))

ZiplistMerge ==
  \E b \in Tails :
     /\ zl.es # <<>> /\ Len(zl.es) + Len(b.es) <= MaxEntries
     /\ zl' = ziplistMerge(zl, b)
     /\ zlRef' = zlRef \o [i \in DOMAIN b.es |-> b.es[i].len]

ZiplistLen ==
  /\ zl' = [zl EXCEPT !.length = IF ziplistLen(zl) < UINT16_MAX THEN ziplistLen(zl) ELSE @]
  /\ UNCHANGED zlRef

\* What a damaged block does next is undefined.
ZiplistNext ==
  /\ ~zl.damaged
  /\ ZiplistInsert \/ ZiplistDelete \/ ZiplistMerge \/ ZiplistLen

-----------------------------------------------------------------------------
(* Properties.                                                             *)

\* The header and the prevlen fields tell the truth after every cascade, so
\* that a walk from the tail visits the list backwards and a walk from the
\* head forwards, to the end in both directions.
ZiplistWalksBothWays ==
  ~zl.damaged =>
    LET n == Len(zlRef) IN
    /\ zl.bytes = EndOffset(zl.es) + 1
    /\ \A i \in 1..n :
         /\ ziplistGet(zl, ziplistIndex(zl, i - 1)) = zlRef[i]
         /\ ziplistIndex(zl, i - 1 - n) = ziplistIndex(zl, i - 1)
         /\ LET p == ziplistIndex(zl, i - 1) IN
            /\ ziplistNext(zl, p) # NULL => ziplistPrev(zl, ziplistNext(zl, p)) = p
            /\ (ziplistNext(zl, p) = NULL) = (i = n)
    /\ ziplistIndex(zl, n) = NULL /\ ziplistIndex(zl, -n - 1) = NULL

\* Every entry knows the length of the one before it, in a field that can
\* hold it, however far a change of length had to cascade; and the length is
\* exact, also where the field for it is saturated.
ZiplistFieldsFit ==
  ~zl.damaged =>
    /\ \A i \in DOMAIN zl.es :
         /\ zl.es[i].prev = IF i = 1 THEN 0 ELSE raw(zl.es[i - 1])
         /\ zl.es[i].psize >= zipPrevEncodeLength(zl.es[i].prev)
    /\ ziplistLen(zl) = Len(zlRef)

\* What the stress test at the end of ziplist.c asserts of every sequence of
\* operations: the ziplist holds what the reference list holds.
ZiplistHoldsWhatWasPut ==
  ~zl.damaged /\ zlRef = [i \in DOMAIN zl.es |-> zl.es[i].len]
=============================================================================
