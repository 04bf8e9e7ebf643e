------------------------------- MODULE Intset -------------------------------
(***************************************************************************)
(* intset.c: a sorted array of integers, all in the narrowest of three     *)
(* encodings that held every integer the set ever had.  The widths are     *)
(* scaled: Reach(enc) is the largest integer an encoding holds.            *)
(***************************************************************************)
EXTENDS Integers, Sequences, FiniteSets, SequencesExt

CONSTANTS Reach,      \* largest value of each of the three encodings
          Integers3   \* the integers added and removed

ASSUME IntsetConstants ==
  /\ Reach \in [1..3 -> Nat] /\ Reach[1] < Reach[2] /\ Reach[2] < Reach[3]
  /\ \A v \in Integers3 : v \in Int /\ -Reach[3] - 1 <= v /\ v <= Reach[3]

VARIABLES is,       \* the intset: encoding and contents
          isRef     \* the set it stands for

intsetVars == <<is, isRef>>

Holds(enc, v) == -Reach[enc] - 1 <= v /\ v <= Reach[enc]
_intsetValueEncoding(v) == CHOOSE e \in 1..3 : Holds(e, v) /\ \A d \in 1..(e - 1) : ~Holds(d, v)

\* A value stored in an encoding too narrow for it keeps its low bits.
Stored(enc, v) == LET m == 2 * (Reach[enc] + 1) IN ((v + Reach[enc] + 1) % m) - Reach[enc] - 1

intsetNew == [encoding |-> 1, contents |-> <<>>]

Halve(c, v, min, max) == LET mid == (min + max) \div 2
                         IN  IF v > c[mid + 1] THEN <<mid + 1, max>> ELSE <<min, mid - 1>>

\* Position, from 0, of the value or of where it goes.
intsetSearch(s, v) ==
  LET c == s.contents
      find[r \in (0..Len(c)) \X (-2..Len(c))] ==
        LET mid == (r[1] + r[2]) \div 2 IN
        IF r[2] < r[1] THEN [found |-> FALSE, pos |-> r[1]]
        ELSE IF v = c[mid + 1] THEN [found |-> TRUE, pos |-> mid] ELSE find[Halve(c, v, r[1], r[2])]
  IN  IF c = <<>> THEN [found |-> FALSE, pos |-> 0]
      ELSE IF v > Last(c) THEN [found |-> FALSE, pos |-> Len(c)]
      ELSE IF v < c[1] THEN [found |-> FALSE, pos |-> 0]
      ELSE find[<<0, Len(c) - 1>>]

\* Mutant: the new value always goes to the end.
UpgradeAppends(s, v) == [encoding |-> _intsetValueEncoding(v), contents |-> Append(s.contents, v)]

\* The value is outside the old encoding, so it goes to one of the ends.
intsetUpgradeAndAdd(s, v) ==
  [encoding |-> _intsetValueEncoding(v),
   contents |-> IF v < 0 THEN <<v>> \o s.contents ELSE Append(s.contents, v)]

intsetAdd(s, v) ==
  LET at == intsetSearch(s, v) IN
  IF _intsetValueEncoding(v) > s.encoding THEN intsetUpgradeAndAdd(s, v)
  ELSE IF at.found THEN s
  ELSE [s EXCEPT !.contents = InsertAt(@, at.pos + 1, Stored(s.encoding, v))]

intsetFind(s, v) == _intsetValueEncoding(v) <= s.encoding /\ intsetSearch(s, v).found

intsetRemove(s, v) ==
  IF intsetFind(s, v) THEN [s EXCEPT !.contents = RemoveAt(@, intsetSearch(s, v).pos + 1)] ELSE s

-----------------------------------------------------------------------------
IntsetInit == is = intsetNew /\ isRef = {}
IntsetAdd == \E v \in Integers3 : is' = intsetAdd(is, v) /\ isRef' = isRef \cup {v}
IntsetRemove == \E v \in Integers3 : is' = intsetRemove(is, v) /\ isRef' = isRef \ {v}
IntsetNext == IntsetAdd \/ IntsetRemove

-----------------------------------------------------------------------------
\* Through every upgrade the array is strictly sorted and holds the set, and
\* the binary search answers for members and strangers alike, those too wide
\* for the encoding included.
IntsetIsTheSet ==
  /\ \A i \in 1..(Len(is.contents) - 1) : is.contents[i] < is.contents[i + 1]
  /\ ToSet(is.contents) = isRef
  /\ \A v \in Integers3 : intsetFind(is, v) = (v \in isRef)
=============================================================================
