------------------------------ MODULE ListSpec ------------------------------
(***************************************************************************)
(* What a Redis list promises: every command acts on one sequence of       *)
(* values.  cmd is the last command.                                       *)
(***************************************************************************)
EXTENDS Integers, Sequences, SequencesExt

VARIABLES list, cmd

\* The effect of a command.  Positions count from 1.
Apply(c, s) ==
  CASE c.op = "PushHead" -> <<c.v>> \o s
    [] c.op = "PushTail" -> Append(s, c.v)
    [] c.op = "PopHead" -> Tail(s)
    [] c.op = "PopTail" -> Front(s)
    [] c.op = "Set" -> [s EXCEPT ![c.i] = c.v]
    [] c.op = "InsertBefore" -> InsertAt(s, c.i, c.v)
    [] c.op = "InsertAfter" -> InsertAt(s, c.i + 1, c.v)
    [] c.op = "Remove" -> RemoveAt(s, c.i)
    [] c.op = "TrimHead" -> SubSeq(s, c.n + 1, Len(s))
    [] c.op = "TrimTail" -> SubSeq(s, 1, Len(s) - c.n)
    [] c.op = "Rotate" -> <<Last(s)>> \o Front(s)
    [] c.op = "Read" -> s

ListInit == list = <<>>
ListNext == list' = Apply(cmd', list)

ListBehaviour == ListInit /\ [][ListNext]_<<list, cmd>>
=============================================================================
