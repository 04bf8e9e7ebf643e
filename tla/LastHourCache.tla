---------------------------- MODULE LastHourCache ----------------------------
(***************************************************************************)
(* The list of a node's observations of the last hour, which redis_pull.js *)
(* keeps as one string in Redis and the socket server reads: update_node   *)
(* gets it, drops what is old, appends, and sets it.  Each update has a    *)
(* connection of its own, so two of them overtake each other; errors of    *)
(* the two commands are ignored.                                           *)
(***************************************************************************)
EXTENDS Naturals, Sequences, SequencesExt

CONSTANTS Updates,     \* the calls of update_node
          CacheNodes,  \* node ids
          HOUR,        \* the length of the window
          MaxTime      \* bound: the clock stops

ASSUME CacheAssumption == CacheNodes # {} /\ HOUR \in Nat \ {0} /\ MaxTime \in Nat

VARIABLES cache,    \* Redis: each node's list of <<update, time>>; <<>> for no value
          calls,    \* the calls: [stage, node, time, list]
          clock,    \* Date.now()/1000
          running,  \* the process did not end in an exception
          exposed,  \* history: updates whose SET came between another's GET and SET
          wiped     \* history: updates whose list was set by one whose GET had failed

cacheVars == <<cache, calls, clock, running, exposed, wiped>>

NoCall == [stage |-> "new", node |-> CHOOSE n \in CacheNodes : TRUE, time |-> 0, list |-> <<>>]

CacheInit ==
  /\ cache = [n \in CacheNodes |-> <<>>]
  /\ calls = [u \in Updates |-> NoCall]
  /\ clock = 0 /\ running = TRUE /\ exposed = {} /\ wiped = {}

To(u, call) == calls' = [calls EXCEPT ![u] = call]

\* An observation of any time arrives: createClient, and GET is on its way.
UpdateNode(u, n, time) ==
  /\ running /\ calls[u].stage = "new" /\ time <= clock
  /\ To(u, [NoCall EXCEPT !.stage = "get", !.node = n, !.time = time])
  /\ UNCHANGED <<cache, clock, running, exposed, wiped>>

\* Redis executes GET.
CacheGet(u) ==
  /\ calls[u].stage = "get"
  /\ To(u, [calls[u] EXCEPT !.stage = "got", !.list = cache[calls[u].node]])
  /\ UNCHANGED <<cache, clock, running, exposed, wiped>>

\* GET ends in an error: the callback looks at the value alone, which is null as
\* for a node that has no list.
CacheGetFails(u) ==
  /\ calls[u].stage = "get"
  /\ To(u, [calls[u] EXCEPT !.stage = "blind"])
  /\ UNCHANGED <<cache, clock, running, exposed, wiped>>

\* Mutant: an observation of exactly an hour ago is old.
OldAtTheHour(o) == o[2] + HOUR <= clock

\* The test of the loop that drops the first observations.
Old(o) == o[2] + HOUR < clock

\* The callback of GET: the loop drops the first observations that are old and
\* the new one is appended.  When all are old, it looks at the first element of
\* a list that has none left, and throws.  Without a value the new list has only
\* the new observation, whatever Redis has.
CacheGotValue(u) ==
  LET list == calls[u].list
      own == <<u, calls[u].time>>
      Keeps(kept) == /\ To(u, [calls[u] EXCEPT !.stage = "set", !.list = Append(kept, own)])
                     /\ UNCHANGED running
  IN  /\ running
      /\ \/ calls[u].stage = "got" /\ list = <<>> /\ Keeps(<<>>)
         \/ /\ calls[u].stage = "got"
            /\ \E first \in 1..Len(list) :
                 /\ ~Old(list[first]) /\ \A i \in 1..(first - 1) : Old(list[i])
                 /\ Keeps(SubSeq(list, first, Len(list)))
         \/ /\ calls[u].stage = "got"
            /\ list # <<>> /\ \A i \in 1..Len(list) : Old(list[i])
            /\ running' = FALSE /\ UNCHANGED calls
         \/ /\ calls[u].stage = "blind"
            /\ To(u, [calls[u] EXCEPT !.stage = "overwrite", !.list = <<own>>])
            /\ UNCHANGED running
      /\ UNCHANGED <<cache, clock, exposed, wiped>>

SameNode(u, v) == calls[v].node = calls[u].node

\* Redis executes SET; between GET and here another update may have.
CacheSet(u) ==
  /\ calls[u].stage \in {"set", "overwrite"}
  /\ cache' = [cache EXCEPT ![calls[u].node] = calls[u].list]
  /\ exposed' = IF \E v \in Updates \ {u} : calls[v].stage \in {"got", "set"} /\ SameNode(u, v)
                THEN exposed \cup {u} ELSE exposed
  /\ wiped' = IF calls[u].stage = "overwrite"
              THEN wiped \cup {v \in Updates : calls[v].stage = "done" /\ SameNode(u, v)} ELSE wiped
  /\ To(u, [calls[u] EXCEPT !.stage = "done", !.list = <<>>])
  /\ UNCHANGED <<clock, running>>

\* SET ends in an error: the promise is fulfilled as if it had not.
CacheSetFails(u) ==
  /\ calls[u].stage \in {"set", "overwrite"}
  /\ To(u, [calls[u] EXCEPT !.stage = "failed", !.list = <<>>])
  /\ UNCHANGED <<cache, clock, running, exposed, wiped>>

CacheTick == clock < MaxTime /\ clock' = clock + 1 /\ UNCHANGED <<cache, calls, running, exposed, wiped>>

UnderWay == {"get", "got", "blind", "set", "overwrite"}

\* The process is started again; the calls that Redis did not get are gone.
CacheRestart ==
  /\ ~running /\ running' = TRUE
  /\ calls' = [u \in Updates |-> IF calls[u].stage \in UnderWay
                                 THEN [calls[u] EXCEPT !.stage = "lost", !.list = <<>>] ELSE calls[u]]
  /\ UNCHANGED <<cache, clock, exposed, wiped>>

CacheNext ==
  \/ \E u \in Updates :
       \/ \E n \in CacheNodes, time \in 0..MaxTime : UpdateNode(u, n, time)
       \/ CacheGet(u) \/ CacheGetFails(u) \/ CacheGotValue(u)
       \/ CacheSet(u) \/ CacheSetFails(u)
  \/ CacheTick \/ CacheRestart

CacheSpec == CacheInit /\ [][CacheNext]_cacheVars

(***************************************************************************)
(* Properties.                                                             *)
(***************************************************************************)
\* update_node (redis_pull.js:25-49): an observation of the last hour that Redis
\* was given is missing only for one of two reasons: another update of its node
\* read before it was written and wrote after, or a later update's GET ended in
\* an error and its SET put a list of one in the place of all (28, 40-41).  The
\* pruning loop, observations that come late, exceptions, restarts and the SETs
\* that fail lose nothing that was written.
LossHasACause ==
  \A u \in Updates :
    calls[u].stage = "done" /\ calls[u].time + HOUR >= clock
      => \/ Contains(cache[calls[u].node], <<u, calls[u].time>>)
         \/ u \in exposed \cup wiped
=============================================================================
