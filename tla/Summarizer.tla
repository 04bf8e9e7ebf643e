----------------------------- MODULE Summarizer -----------------------------
(***************************************************************************)
(* The summary of a node's last day that summarizer/materialize.js keeps:  *)
(* for each observation type the observations and their average.           *)
(* An event is [id, time, val]; the average is the pair of the sum and the *)
(* number it is divided by.                                                *)
(***************************************************************************)
EXTENDS Naturals, Sequences, SequencesExt, FiniteSets, Functions

CONSTANTS ObTypes,     \* observation types
          DAY,         \* the length of the window
          LastDay,     \* bound: the clock stops
          MaxEvents    \* bound: events in all

ASSUME SummarizerAssumption == DAY \in Nat \ {0} /\ LastDay \in Nat /\ MaxEvents \in Nat

VARIABLES table,    \* the sensors' summaries: [observations, average]; partial
          today,    \* Date.now()/1000
          given,    \* history: for each type, the events of its summary: <<id, time, val>>
          events    \* history: the number of events so far

summaryVars == <<table, today, given, events>>

SumVals(s) == FoldLeft(LAMBDA a, o : a + o.val, 0, s)

\* make_sensor_summary
MakeSensorSummary(news) == [observations |-> news, average |-> <<SumVals(news), Len(news)>>]

InWindow(o) == o.time + DAY >= today

\* Mutant: the loop runs forwards, and skips the element after a removed one.
PrunedForwards(s) ==
  FoldLeft(LAMBDA w, o : IF w.skip \/ InWindow(o) THEN [kept |-> Append(w.kept, o), skip |-> FALSE]
                         ELSE [w EXCEPT !.skip = TRUE],
           [kept |-> <<>>, skip |-> FALSE], s).kept

\* The loop that deletes values outside the window, from the last to the first.
Pruned(s) == SelectSeq(s, InWindow)

\* update_node_summary for the types of the node's metadata; make_node_summary
\* is the same on an empty table.
UpdateNodeSummary(types, news) ==
  LET Updated(t) ==
        LET all == Pruned(table[t].observations) \o news
        IN  [observations |-> all, average |-> <<SumVals(all), Len(all)>>]
  IN  /\ events + Len(news) <= MaxEvents /\ events' = events + Len(news)
      /\ table' = [t \in DOMAIN table \cup types |->
                     IF t \notin types THEN table[t]
                     ELSE IF t \in DOMAIN table THEN Updated(t) ELSE MakeSensorSummary(news)]
      /\ given' = [t \in ObTypes |->
                     IF t \in types
                     THEN {g \in given[t] : g[2] + DAY >= today} \cup {<<o.id, o.time, o.val>> : o \in Range(news)}
                     ELSE given[t]]
      /\ UNCHANGED today

SummaryTick == today < LastDay /\ today' = today + 1 /\ UNCHANGED <<table, given, events>>

SummaryInit ==
  /\ table = [t \in {} |-> MakeSensorSummary(<<>>)]
  /\ today = 0 /\ given = [t \in ObTypes |-> {}] /\ events = 0

SummaryNext ==
  \/ \E types \in SUBSET ObTypes \ {{}}, n \in 0..2 :
       \E times \in [1..n -> 0..today] :
         UpdateNodeSummary(types, [i \in 1..n |-> [id |-> events + i, time |-> times[i], val |-> events + i]])
  \/ SummaryTick

(***************************************************************************)
(* Properties.                                                             *)
(***************************************************************************)
\* update_node_summary (materialize.js:28-62): what a sensor's summary holds is
\* what it was given within a day of its last update and in that update itself,
\* each once, and its average is that of what it holds.
SummaryIsTheDay ==
  \A t \in DOMAIN table :
    LET s == table[t].observations
    IN  /\ {<<o.id, o.time, o.val>> : o \in Range(s)} = given[t]
        /\ Len(s) = Cardinality(given[t])
        /\ table[t].average = <<SumVals(s), Len(s)>>
=============================================================================
