--------------------------- MODULE MCSocketServer ---------------------------
(***************************************************************************)
(* What web clients are served from, one part at a time: SocketServer,     *)
(* with one client query per shape the parser tells apart and observations *)
(* that meet some of the filters, and the two windows of observations that *)
(* are kept for them, of the last hour and of the last day.                *)
(***************************************************************************)
EXTENDS SocketServer, LastHourCache, Summarizer, TLC

CONSTANTS n1, n2, f1, f2, s1, c1, c2, c3

VARIABLE part

Absent         == [form |-> "absent", names |-> {}]
PlainList(n)       == [form |-> "plain", names |-> {n}]
Bracketed(n)   == [form |-> "bracketed", names |-> {n}]

Query(nodes, features, network) ==
  [nodes |-> nodes, features |-> features, sensors |-> Absent,
   network |-> network]

AllQueries ==
  {Query(Absent, Absent, "none"),
   Query(PlainList(n1), Absent, "none"),
   Query(PlainList(n1), PlainList(f2), "Other"),
   Query(Bracketed(n1), Absent, "none"),
   Query(Absent, [form |-> "object", names |-> {}], "none")}

PlainQueries == {q \in AllQueries : Plain(q)}

Obs(n, f) == [node |-> n, feature |-> f, sensor |-> s1]
AllData == {Obs(n1, f1), Obs(n1, f2), Obs(n2, f2)}

AllSockets == {c1, c2, c3}
Symmetry == Permutations(AllSockets)

WebInit == part \in {"sockets", "hour", "day"} /\ Init /\ CacheInit /\ SummaryInit

SocketsStep == part = "sockets" /\ Next /\ UNCHANGED <<cacheVars, summaryVars>>
HourStep == part = "hour" /\ CacheNext /\ UNCHANGED <<vars, summaryVars>>
DayStep == part = "day" /\ SummaryNext /\ UNCHANGED <<vars, cacheVars>>

WebNext == (SocketsStep \/ HourStep \/ DayStep) /\ UNCHANGED part

WebSpec == WebInit /\ [][WebNext]_<<part, vars, cacheVars, summaryVars>>

\* The two windows of observations (redis_pull.js:25-49, materialize.js:28-60)
\* hold what belongs in them: of the last hour unless two updates overlapped or
\* the GET of a later one failed, of the last day with an average that is theirs.
WindowsAreExact == LossHasACause /\ SummaryIsTheDay
=============================================================================
