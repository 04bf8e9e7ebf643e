--------------------------- MODULE ShardProgress ---------------------------
(***************************************************************************)
(* What the Kinesis client promises about one shard, without processes or  *)
(* messages (checkpointer.js:21-23): a checkpoint marks a point up to      *)
(* which every record has been handed to a record processor, and after a   *)
(* failure another instance resumes right after it.  Records are numbered  *)
(* 1 .. LastRecord in shard order.                                         *)
(***************************************************************************)
EXTENDS Naturals

CONSTANT LastRecord  \* the number of records the shard will ever hold

VARIABLES
  handed,       \* the records given to some record processor so far
  checkpointed  \* the durable checkpoint: a record number, 0 for TRIM_HORIZON

Init == handed = {} /\ checkpointed = 0

\* A batch first+1 .. last is handed over; it never starts beyond a record
\* that nobody has been given.
Hand == \E first, last \in 0 .. LastRecord :
          /\ 1 .. first \subseteq handed
          /\ handed' = handed \union (first + 1 .. last)
          /\ UNCHANGED checkpointed

\* The checkpoint moves forward over records that were handed over.
Commit == \E n \in 0 .. LastRecord :
            /\ n > checkpointed
            /\ 1 .. n \subseteq handed
            /\ checkpointed' = n
            /\ UNCHANGED handed

Next == Hand \/ Commit

Spec == Init /\ [][Next]_<<handed, checkpointed>>
=============================================================================
