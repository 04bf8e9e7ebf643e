---------------------------- MODULE MCStructures ----------------------------
(***************************************************************************)
(* Instances of the data structures, one at a time: the initial state      *)
(* chooses the structure, and only that one takes steps.                   *)
(***************************************************************************)
EXTENDS Dict, Ziplist, Intset, Quicklist, Skiplist, Adlist, Bitops

CONSTANT Structures      \* the structures to look at

VARIABLE structure

MCReach == <<1, 3, 7>>
MCIntegers == {-8, -3, -1, 0, 1, 2, 5}

(***************************************************************************)
(* BITFIELD commands: every single operation on fields of 2, of 3 and of   *)
(* all bits of an integer, a SET followed by an operation on a later field,*)
(* and a write followed by one that does not reach as far.                 *)
(***************************************************************************)
FieldOps ==
  {o \in [op : {"get", "set", "incrby"}, sign : BOOLEAN, bits : {2, 3}, offset : {0, 3},
          i64 : {-8, -3, -1, 0, 1, 4, 7}, ow : {"wrap", "sat", "fail"}] :
     o.op = "get" => o.i64 = 0 /\ o.ow = "wrap"}

MCBitCommands ==
  {<<o>> : o \in FieldOps}
  \cup {<<o>> : o \in [op : {"get", "set", "incrby"}, sign : {TRUE}, bits : {INT_BITS}, offset : {1},
                       i64 : {-8, 1, 7}, ow : {"wrap", "sat", "fail"}]}
  \cup {<<o, p>> : o \in {o \in FieldOps : o.op = "set" /\ o.i64 = 7 /\ o.ow = "sat"},
                  p \in {p \in FieldOps : /\ p.op # "set" /\ p.offset = 3 /\ p.bits = 3
                                          /\ p.i64 \in {-8, 0, 1}}}
  \cup {<<o, p>> : o \in {o \in FieldOps : o.op # "get" /\ o.i64 = 1 /\ o.offset = 3 /\ o.bits = 3},
                  p \in {p \in FieldOps : /\ p.op = "set" /\ p.i64 = 1 /\ p.offset < 3 /\ p.ow = "sat"
                                          /\ ~p.sign}}

\* The other strings of BITOP: an empty one, one that ends within a block, and
\* two that hold more.
MCSources == {<<>>, <<1, 1>>, <<0, 1, 1, 0, 1, 0>>, <<1, 0, 1, 1, 0, 0, 1, 1>>}

vars == <<structure, dictVars, ziplistVars, intsetVars, quicklistVars, zsl, adlistVars,
          bitVars>>

Init ==
  /\ structure \in Structures
  /\ DictInit /\ ZiplistInit /\ IntsetInit /\ QuicklistInit /\ SkiplistInit /\ AdlistInit
  /\ BitopsInit
  /\ structure # "quicklist" => \A C \in Depths : ql.compress <= C
  /\ structure # "bitops" => bshift = CHOOSE n \in FullShift : TRUE

DictStep == structure = "dict" /\ DictNext
            /\ UNCHANGED <<ziplistVars, intsetVars, quicklistVars, zsl, adlistVars, bitVars>>
ZiplistStep == structure = "ziplist" /\ ZiplistNext
               /\ UNCHANGED <<dictVars, intsetVars, quicklistVars, zsl, adlistVars, bitVars>>
IntsetStep == structure = "intset" /\ IntsetNext
              /\ UNCHANGED <<dictVars, ziplistVars, quicklistVars, zsl, adlistVars, bitVars>>
QuicklistStep == structure = "quicklist" /\ QuicklistNext
                 /\ UNCHANGED <<dictVars, ziplistVars, intsetVars, zsl, adlistVars, bitVars>>
SkiplistStep == structure = "skiplist" /\ SkiplistNext
                /\ UNCHANGED <<dictVars, ziplistVars, intsetVars, quicklistVars, adlistVars, bitVars>>
AdlistTurn == structure = "adlist" /\ AdlistNext
               /\ UNCHANGED <<dictVars, ziplistVars, intsetVars, quicklistVars, zsl, bitVars>>
BitopsStep == structure = "bitops" /\ BitopsNext
              /\ UNCHANGED <<dictVars, ziplistVars, intsetVars, quicklistVars, zsl, adlistVars>>

Next ==
  /\ \/ DictStep \/ ZiplistStep \/ IntsetStep \/ QuicklistStep
     \/ SkiplistStep \/ AdlistTurn \/ BitopsStep
  /\ UNCHANGED structure

Spec == Init /\ [][Next]_vars

\* The bit commands on every string they can make: BITFIELD (bitops.c:903-1113)
\* leaves and replies what arithmetic on integers would, and BITPOS
\* (bitops.c:101-179, 807-882) finds the first such bit of the range; BITOP
\* (584-755) works bit by bit, and BITCOUNT (40-92, 758-804) counts every one.
BitCommandsAreExact ==
  structure = "bitops" => BitfieldIsArithmetic /\ BitposIsFirst /\ BitopIsBitwise /\ BitcountIsExact

\* The structures that are one block of memory: a ziplist's entries can be
\* walked from both ends, and its fields hold their values (ziplist.c:464-863);
\* an intset is the set of what was put in (intset.c:115-257).
CompactEncodingsAreSound == ZiplistWalksBothWays /\ ZiplistFieldsFit /\ IntsetIsTheSet

\* The structures that are nodes with links: a quicklist's counts and its raw
\* ends (quicklist.c:178-661), a skiplist's levels and spans (t_zset.c:110-407),
\* and a list that is changed while it is walked (adlist.c).
LinkedStructuresAreSound ==
  /\ CountsAgree /\ EndNodesAreRaw
  /\ RanksAreExact /\ LevelsAreSublists
  /\ ListIsOneChain /\ WalkSurvivesRemoval
=============================================================================
