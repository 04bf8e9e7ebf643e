------------------------------ MODULE Clients ------------------------------
(***************************************************************************)
(* The clients of one server (networking.c, multi.c, blocked.c, pubsub.c,  *)
(* the blocking part of t_list.c, and processCommand in server.c): their   *)
(* pipelined input, transactions and WATCH, blocking list operations,      *)
(* subscriptions, CLIENT PAUSE and CLIENT KILL, and the lists in which the *)
(* server keeps them.                                                      *)
(*                                                                         *)
(* Keys hold nothing, a string or a list.  A read of a client's socket     *)
(* brings a script: commands that are processed one after the other until  *)
(* the client blocks, is paused or is to be closed.  Expiry is not here.   *)
(***************************************************************************)
EXTENDS Integers, Sequences, FiniteSets, SequencesExt

CONSTANT ClientSetups   \* what is sent and may happen, see below

(***************************************************************************)
(* A setup is a record: scripts (client |-> set of sequences of commands), *)
(* reads (how many scripts are read), and can, a subset of                 *)
(*   {"timeout", "demote"}.                                                *)
(* Commands: <<"rpush", k, v>>, <<"set", k>>, <<"del", k>>, <<"get", k>>,  *)
(* <<"rename", k, k2>>, <<"sort", k, k2>> (SORT k BY nosort STORE k2),     *)
(* <<"flushall">>,                                                         *)
(* <<"blpop", ks>>, <<"brpoplpush", k, k2>>, <<"multi">>, <<"exec">>,      *)
(* <<"discard">>, <<"watch", k>>, <<"unwatch">>, <<"bad">> (an error       *)
(* before it is queued), <<"sub", ch>>, <<"unsub">>, <<"psub", p>>,        *)
(* <<"punsub">>, <<"publish", ch>>, <<"kill", c>>, <<"quit">>,               *)
(* <<"pause", "yes">> and <<"pause", "over">> (for no time at all).        *)
(***************************************************************************)
ASSUME ClientsAssumption ==
  \A s \in ClientSetups : s.reads \in Nat /\ s.can \subseteq {"timeout", "demote"}

VARIABLES cset,    \* the setup; it never changes
          sys,     \* the server
          reads    \* how many scripts were read

clientVars == <<cset, sys, reads>>

Names == DOMAIN cset.scripts
Keys == {"a", "b"}
Channels == {"x", "y"}
Matches(p, ch) == p = "*" \/ p = ch

None0 == <<"none">>
Str == <<"str">>
List(s) == <<"list", s>>

\* A client: its flags, what it is queueing, watching (with the value of the
\* key at that time), blocked on and subscribed to, and its unread input.
NewClient ==
  [alive |-> TRUE, multi |-> FALSE, cas |-> FALSE, dexec |-> FALSE, queue |-> <<>>, watched |-> <<>>,
   blocked |-> FALSE, bkeys |-> <<>>, target |-> "", last |-> "", unb |-> FALSE, closing |-> FALSE,
   pubsub |-> FALSE, chans |-> {}, pats |-> <<>>, input |-> <<>>]

Without(s, c) == SelectSeq(s, LAMBDA d : d # c)

(***************************************************************************)
(* Signals.                                                                *)
(***************************************************************************)
\* Mutant: only the client that has watched the key first is told.
TouchFirst(w, k) ==
  [w EXCEPT !.cl = [c \in Names |-> IF w.watchers[k] # <<>> /\ c = Head(w.watchers[k])
                                    THEN [w.cl[c] EXCEPT !.cas = TRUE] ELSE w.cl[c]]]

\* touchWatchedKey
TouchWatchedKey(w, k) ==
  [w EXCEPT !.cl = [c \in Names |-> IF Contains(w.watchers[k], c)
                                    THEN [w.cl[c] EXCEPT !.cas = TRUE] ELSE w.cl[c]]]

\* signalModifiedKey
SignalModified(w, k) == TouchWatchedKey(w, k)

\* signalListAsReady
SignalListAsReady(w, k) ==
  IF w.blockers[k] = <<>> \/ Contains(w.ready, k) THEN w ELSE [w EXCEPT !.ready = Append(@, k)]

\* dbAdd; dbOverwrite does not signal.
DbAdd(w, k, val) ==
  LET w1 == [w EXCEPT !.db[k] = val] IN IF val[1] = "list" THEN SignalListAsReady(w1, k) ELSE w1
SetKey(w, k, val) ==
  SignalModified(IF w.db[k] = None0 THEN DbAdd(w, k, val) ELSE [w EXCEPT !.db[k] = val], k)

\* touchWatchedKeysOnFlush and flushallCommand
FlushAll(w) ==
  LET was == {k \in Keys : w.db[k] # None0}
  IN  [w EXCEPT !.db = [k \in Keys |-> None0],
                !.cl = [c \in Names |->
                   [w.cl[c] EXCEPT !.cas = @ \/ \E i \in 1..Len(w.cl[c].watched) :
                                                  w.cl[c].watched[i][1] \in was]]]

\* Mutant: the push side of BRPOPLPUSH is not propagated.
LoggedWithoutPush(w, cmd) == IF cmd[1] = "lpush" THEN w ELSE [w EXCEPT !.log = Append(@, cmd)]

\* propagate
Logged(w, cmd) == [w EXCEPT !.log = Append(@, cmd)]

(***************************************************************************)
(* Blocking.                                                               *)
(***************************************************************************)
\* blockForKeys, blockClient
BlockForKeys(w, c, ks, target) ==
  LET new == ToSet(ks)
  IN  [w EXCEPT !.cl[c] = [@ EXCEPT !.blocked = TRUE, !.bkeys = ks, !.target = target],
                !.blockers = [k \in Keys |-> IF k \in new THEN Append(w.blockers[k], c)
                                             ELSE w.blockers[k]]]

\* unblockClientWaitingData
UnblockClientWaitingData(w, c) ==
  [w EXCEPT !.blockers = [k \in Keys |-> Without(w.blockers[k], c)],
            !.cl[c] = [@ EXCEPT !.bkeys = <<>>, !.target = ""]]

\* Mutant: a client is not put in the list of those to be processed again.
UnblockOnly(w, c) ==
  LET w1 == UnblockClientWaitingData(w, c) IN [w1 EXCEPT !.cl[c].blocked = FALSE]

\* unblockClient
UnblockClient(w, c) ==
  LET w1 == UnblockClientWaitingData(w, c)
      w2 == [w1 EXCEPT !.cl[c] = [@ EXCEPT !.blocked = FALSE, !.unb = TRUE]]
  IN  IF w.cl[c].unb THEN w2 ELSE [w2 EXCEPT !.unblocked = Append(@, c)]

\* rpoplpushHandlePush
HandlePush(w, k, v) ==
  LET w1 == IF w.db[k] = None0 THEN DbAdd(w, k, List(<<v>>))
            ELSE [w EXCEPT !.db[k] = List(<<v>> \o @[2])]
  IN  SignalModified(w1, k)

DeleteIfEmpty(w, k) == IF w.db[k] = List(<<>>) THEN [w EXCEPT !.db[k] = None0] ELSE w

\* serveClientBlockedOnList, for the first client blocked on k, which is not
\* empty.  BRPOPLPUSH to a key of another type: the pop is undone.
ServeClient(w, k) ==
  LET c == Head(w.blockers[k])
      items == w.db[k][2]
      head == w.cl[c].last = "blpop"
      v == IF head THEN Head(items) ELSE Last(items)
      dst == w.cl[c].target
      popped == [w EXCEPT !.db[k] = List(IF head THEN Tail(items) ELSE Front(items))]
      w1 == UnblockClient(popped, c)
  IN  IF dst = "" THEN Logged(w1, IF head THEN <<"lpop", k>> ELSE <<"rpop", k>>)
      ELSE IF w1.db[dst] = Str THEN [w1 EXCEPT !.db[k] = w.db[k]]
      ELSE Logged(HandlePush(Logged(w1, <<"rpop", k>>), dst, v), <<"lpush", dst, v>>)

RECURSIVE ServeClients(_, _, _)
ServeClients(w, k, n) ==
  IF n = 0 \/ w.db[k][2] = <<>> THEN w ELSE ServeClients(ServeClient(w, k), k, n - 1)

\* Mutant: one client is served for each key that is ready.
ServeOneOnly(w, k) ==
  IF w.db[k][1] # "list" \/ w.blockers[k] = <<>> THEN w
  ELSE DeleteIfEmpty(ServeClients(w, k, 1), k)

\* One key of handleClientsBlockedOnLists.
ServeKey(w, k) ==
  IF w.db[k][1] # "list" THEN w
  ELSE DeleteIfEmpty(ServeClients(w, k, Len(w.blockers[k])), k)

\* handleClientsBlockedOnLists: again as long as pushes make keys ready.
RECURSIVE HandleClientsBlockedOnLists(_)
HandleClientsBlockedOnLists(w) ==
  IF w.ready = <<>> THEN w
  ELSE HandleClientsBlockedOnLists(ServeKey([w EXCEPT !.ready = Tail(@)], Head(w.ready)))

(***************************************************************************)
(* Transactions, subscriptions, and the end of a client.                   *)
(***************************************************************************)
\* watchForKey
WatchForKey(w, c, k) ==
  IF \E i \in 1..Len(w.cl[c].watched) : w.cl[c].watched[i][1] = k THEN w
  ELSE [w EXCEPT !.watchers[k] = Append(@, c), !.cl[c].watched = Append(@, <<k, w.db[k]>>)]

\* unwatchAllKeys
UnwatchAllKeys(w, c) ==
  [w EXCEPT !.watchers = [k \in Keys |-> Without(w.watchers[k], c)], !.cl[c].watched = <<>>]

\* discardTransaction
DiscardTransaction(w, c) ==
  UnwatchAllKeys([w EXCEPT !.cl[c] = [@ EXCEPT !.queue = <<>>, !.multi = FALSE, !.cas = FALSE,
                                               !.dexec = FALSE]], c)

FlagTransaction(w, c) == [w EXCEPT !.cl[c].dexec = @ \/ w.cl[c].multi]

\* pubsubSubscribeChannel and subscribeCommand
SubscribeCommand(w, c, ch) ==
  LET w1 == IF ch \in w.cl[c].chans THEN w
            ELSE [w EXCEPT !.channels[ch] = Append(@, c), !.cl[c].chans = @ \cup {ch}]
  IN  [w1 EXCEPT !.cl[c].pubsub = TRUE]

\* pubsubUnsubscribeAllChannels
UnsubscribeAllChannels(w, c) ==
  [w EXCEPT !.channels = [ch \in Channels |-> Without(w.channels[ch], c)], !.cl[c].chans = {}]

PsubscribeCommand(w, c, p) ==
  LET w1 == IF Contains(w.cl[c].pats, p) THEN w
            ELSE [w EXCEPT !.patterns = Append(@, <<c, p>>), !.cl[c].pats = Append(@, p)]
  IN  [w1 EXCEPT !.cl[c].pubsub = TRUE]

\* Mutant: the client forgets its patterns, the server does not.
ForgetsPatterns(w, c) == [w EXCEPT !.cl[c].pats = <<>>]

\* pubsubUnsubscribeAllPatterns
UnsubscribeAllPatterns(w, c) ==
  [w EXCEPT !.patterns = SelectSeq(@, LAMBDA x : x[1] # c), !.cl[c].pats = <<>>]

\* The flag is cleared when nothing is left.
StillSubscribed(w, c) ==
  [w EXCEPT !.cl[c].pubsub = @ /\ (w.cl[c].chans # {} \/ w.cl[c].pats # <<>>)]

\* pubsubPublishMessage and publishCommand: who receives it, and whether these
\* are the clients that believe they are subscribed.
Receivers(w, ch) ==
  w.channels[ch] \o [i \in 1..Len(SelectSeq(w.patterns, LAMBDA x : Matches(x[2], ch))) |->
                       SelectSeq(w.patterns, LAMBDA x : Matches(x[2], ch))[i][1]]
PublishCommand(w, ch) ==
  LET Expected(c) == (IF ch \in w.cl[c].chans THEN 1 ELSE 0)
                     + Len(SelectSeq(w.cl[c].pats, LAMBDA p : Matches(p, ch)))
      right == \A c \in Names : Len(SelectSeq(Receivers(w, ch), LAMBDA d : d = c)) = Expected(c)
  IN  Logged([w EXCEPT !.astray = @ \/ ~right], <<"publish", ch>>)

\* unlinkClient: one entry of the unblocked list.
UnlinkClient(w, c) ==
  [w EXCEPT !.unblocked = IF w.cl[c].unb /\ Contains(@, c) THEN RemoveFirst(@, c) ELSE @,
            !.cl[c] = [@ EXCEPT !.alive = FALSE, !.unb = FALSE, !.input = <<>>]]

\* freeClient
FreeClient(w, c) ==
  LET w1 == IF w.cl[c].blocked THEN UnblockClient(w, c) ELSE w
      w2 == UnsubscribeAllPatterns(UnsubscribeAllChannels(UnwatchAllKeys(w1, c), c), c)
  IN  UnlinkClient(w2, c)

\* clientCommand, KILL: a client that kills itself is closed after the reply.
KillCommand(w, c, d) ==
  IF d = c THEN [w EXCEPT !.cl[c].closing = TRUE]
  ELSE IF w.cl[d].alive THEN FreeClient(w, d) ELSE w

(***************************************************************************)
(* Commands.                                                               *)
(***************************************************************************)
PopHead(w, k) == SignalModified(DeleteIfEmpty([w EXCEPT !.db[k] = List(Tail(@[2]))], k), k)

\* blockingPopGenericCommand, for BLPOP.
RECURSIVE BlockingPop(_, _, _, _)
BlockingPop(w, c, ks, i) ==
  IF i > Len(ks) THEN (IF w.cl[c].multi THEN w ELSE BlockForKeys(w, c, ks, ""))
  ELSE IF w.db[ks[i]] = None0 THEN BlockingPop(w, c, ks, i + 1)
  ELSE IF w.db[ks[i]] = Str THEN w
  ELSE Logged(PopHead(w, ks[i]), <<"lpop", ks[i]>>)

\* brpoplpushCommand and rpoplpushCommand
Brpoplpush(w, c, k, d) ==
  LET items == w.db[k][2]
      w1 == HandlePush([w EXCEPT !.db[k] = List(Front(items))], d, Last(items))
  IN  IF w.db[k] = None0 THEN (IF w.cl[c].multi THEN w ELSE BlockForKeys(w, c, <<k>>, d))
      ELSE IF w.db[k] = Str \/ w.db[d] = Str THEN w
      ELSE Logged(SignalModified(DeleteIfEmpty(w1, k), k), <<"rpoplpush", k, d>>)

\* Commands on keys.  Each change is logged: it is propagated by call.
DataCommand(w, x) ==
  CASE x[1] = "rpush" ->
         IF w.db[x[2]] = Str THEN w
         ELSE Logged(SignalModified(IF w.db[x[2]] = None0 THEN DbAdd(w, x[2], List(<<x[3]>>))
                                    ELSE [w EXCEPT !.db[x[2]] = List(Append(@[2], x[3]))], x[2]), x)
    [] x[1] = "set" -> Logged(SetKey(w, x[2], Str), x)
    [] x[1] = "del" ->
         IF w.db[x[2]] = None0 THEN w
         ELSE Logged(SignalModified([w EXCEPT !.db[x[2]] = None0], x[2]), x)
    [] x[1] = "rename" ->
         IF w.db[x[2]] = None0 \/ x[2] = x[3] THEN w
         ELSE LET w1 == DbAdd([w EXCEPT !.db[x[3]] = None0], x[3], w.db[x[2]])
              IN  Logged(SignalModified(SignalModified([w1 EXCEPT !.db[x[2]] = None0], x[2]), x[3]), x)
    [] x[1] = "sort" ->
         CASE w.db[x[2]] = Str -> w
           [] w.db[x[2]] = None0 /\ w.db[x[3]] = None0 -> w
           [] w.db[x[2]] = None0 -> Logged(SignalModified([w EXCEPT !.db[x[3]] = None0], x[3]), x)
           [] OTHER -> Logged(SetKey(w, x[3], w.db[x[2]]), x)
    [] x[1] = "flushall" -> Logged(FlushAll(w), x)
    [] OTHER -> w

\* call
CallCommand(w, c, x) ==
  CASE x[1] = "blpop" -> BlockingPop(w, c, x[2], 1)
    [] x[1] = "brpoplpush" -> Brpoplpush(w, c, x[2], x[3])
    [] x[1] = "unwatch" -> [UnwatchAllKeys(w, c) EXCEPT !.cl[c].cas = FALSE]
    [] x[1] = "sub" -> SubscribeCommand(w, c, x[2])
    [] x[1] = "unsub" -> StillSubscribed(UnsubscribeAllChannels(w, c), c)
    [] x[1] = "psub" -> PsubscribeCommand(w, c, x[2])
    [] x[1] = "punsub" -> StillSubscribed(UnsubscribeAllPatterns(w, c), c)
    [] x[1] = "publish" -> PublishCommand(w, x[2])
    [] x[1] = "kill" -> KillCommand(w, c, x[2])
    [] x[1] = "pause" -> [w EXCEPT !.paused = IF @ = "yes" THEN "yes" ELSE x[2]]   \* pauseClients
    [] OTHER -> DataCommand(w, x)

\* execCommand.  MULTI is propagated before the first command that may write.
ReadOnly(x) == x[1] = "get"
ExecQueue(w, c, q) ==
  LET first == SelectInSeq(q, LAMBDA x : ~ReadOnly(x))
      Step(v, i) == CallCommand(IF i = first THEN Logged(v, <<"multi">>) ELSE v, c, q[i])
      w1 == FoldLeft(Step, w, [i \in 1..Len(q) |-> i])
  IN  IF first = 0 THEN w1 ELSE Logged(w1, <<"exec">>)

ExecCommand(w, c) ==
  LET me == w.cl[c]
      stale == \E i \in 1..Len(me.watched) : w.db[me.watched[i][1]] # me.watched[i][2]
  IN  IF ~me.multi THEN w
      ELSE IF me.cas \/ me.dexec THEN DiscardTransaction(w, c)
      ELSE DiscardTransaction(ExecQueue(UnwatchAllKeys([w EXCEPT !.stale = @ \/ stale], c), c, me.queue), c)

\* processCommand.  A slave refuses writes, and does not flag the transaction.
Writes == {"rpush", "set", "del", "rename", "sort", "flushall", "blpop", "brpoplpush"}
ProcessCommand(w0, c, x) ==
  LET w == [w0 EXCEPT !.cl[c].last = x[1]]
      me == w.cl[c]
  IN  CASE x[1] = "quit" -> [w0 EXCEPT !.cl[c].closing = TRUE]
        [] x[1] = "bad" -> FlagTransaction(w, c)
        [] w.slave /\ x[1] \in Writes -> w
        [] me.pubsub /\ x[1] \notin {"sub", "unsub", "psub", "punsub", "quit", "bad"} -> w
        [] me.multi /\ x[1] \notin {"exec", "discard", "multi", "watch", "quit", "bad"} ->
             [w EXCEPT !.cl[c].queue = Append(@, x)]
        [] OTHER ->
             HandleClientsBlockedOnLists(
               CASE x[1] = "multi" -> [w EXCEPT !.cl[c].multi = TRUE]
                 [] x[1] = "discard" -> IF me.multi THEN DiscardTransaction(w, c) ELSE w
                 [] x[1] = "watch" -> IF me.multi THEN w ELSE WatchForKey(w, c, x[2])
                 [] x[1] = "exec" -> ExecCommand(w, c)
                 [] OTHER -> CallCommand(w, c, x))

\* clientsArePaused: at the end of the pause every client that is not blocked
\* is put in the list, whether or not it is there.
ClientsArePaused(w) ==
  IF w.paused # "over" THEN w
  ELSE LET again == {c \in Names : w.cl[c].alive /\ ~w.cl[c].blocked}
       IN  [w EXCEPT !.paused = "no", !.unblocked = @ \o SetToSeq(again),
                     !.cl = [c \in Names |-> IF c \in again THEN [w.cl[c] EXCEPT !.unb = TRUE]
                                             ELSE w.cl[c]]]

\* processInputBuffer
RECURSIVE ProcessInputBuffer(_, _)
ProcessInputBuffer(w0, c) ==
  LET w == IF w0.cl[c].input = <<>> THEN w0 ELSE ClientsArePaused(w0)
      me == w.cl[c]
  IN  IF me.input = <<>> \/ w.paused = "yes" \/ me.blocked \/ me.closing THEN w
      ELSE ProcessInputBuffer(ProcessCommand([w EXCEPT !.cl[c].input = Tail(@)], c, Head(me.input)), c)

\* processUnblockedClients
RECURSIVE ProcessUnblockedClients(_)
ProcessUnblockedClients(w) ==
  IF w.unblocked = <<>> THEN w
  ELSE LET c == Head(w.unblocked)
           w1 == [w EXCEPT !.unblocked = Tail(@), !.cl[c].unb = FALSE]
       IN  ProcessUnblockedClients(IF w.cl[c].blocked THEN w1 ELSE ProcessInputBuffer(w1, c))

(***************************************************************************)
(* Events.  In one turn of the event loop sockets are served, then          *)
(* serverCron may run, then beforeSleep.                                   *)
(***************************************************************************)
\* readQueryFromClient
ReadQueryFromClient(c, script) ==
  /\ ~sys.cron /\ sys.cl[c].alive /\ ~sys.cl[c].closing /\ reads < cset.reads
  /\ Len(sys.cl[c].input) < 3
  /\ sys' = ProcessInputBuffer([sys EXCEPT !.cl[c].input = @ \o script], c)
  /\ reads' = reads + 1 /\ UNCHANGED cset

\* readQueryFromClient finds the connection closed.
ClientCloses(c) ==
  /\ ~sys.cron /\ sys.cl[c].alive /\ reads < cset.reads
  /\ sys' = FreeClient(sys, c) /\ reads' = reads + 1 /\ UNCHANGED cset

\* beforeSleep: processUnblockedClients, then handleClientsWithPendingWrites,
\* where writeToClient frees those to be closed.
BeforeSleepClients ==
  LET w == ProcessUnblockedClients(sys)
      closing == {c \in Names : w.cl[c].alive /\ w.cl[c].closing}
  IN  /\ sys.cron \/ sys.unblocked # <<>> \/ \E c \in Names : sys.cl[c].alive /\ sys.cl[c].closing
      /\ sys' = [FoldLeft(FreeClient, w, SetToSeq(closing)) EXCEPT !.cron = FALSE]
      /\ UNCHANGED <<cset, reads>>

\* serverCron: clientsCronHandleTimeout for some of the blocked clients, then
\* clientsArePaused, with a clock that is only updated here.
ServerCronClients ==
  \E out \in SUBSET {c \in Names : sys.cl[c].alive /\ sys.cl[c].blocked}, over \in BOOLEAN :
    LET w == [FoldLeft(UnblockClient, sys, SetToSeq(out)) EXCEPT !.cron = TRUE]
    IN  /\ ~sys.cron
        /\ out # {} => "timeout" \in cset.can
        /\ over => sys.paused = "yes"
        /\ out # {} \/ over \/ sys.paused = "over"
        /\ sys' = ClientsArePaused(IF over THEN [w EXCEPT !.paused = "over"] ELSE w)
        /\ UNCHANGED <<cset, reads>>

\* disconnectAllBlockedClients: the server becomes a slave.
DisconnectAllBlockedClients ==
  LET blocked == {c \in Names : sys.cl[c].alive /\ sys.cl[c].blocked}
      Out(w, c) == [UnblockClient(w, c) EXCEPT !.cl[c].closing = TRUE]
  IN  /\ "demote" \in cset.can /\ ~sys.slave /\ ~sys.cron
      /\ sys' = [FoldLeft(Out, sys, SetToSeq(blocked)) EXCEPT !.slave = TRUE]
      /\ UNCHANGED <<cset, reads>>

ClientsInit ==
  /\ cset \in ClientSetups
  /\ sys = [cl |-> [c \in Names |-> NewClient], db |-> [k \in Keys |-> None0],
            watchers |-> [k \in Keys |-> <<>>], blockers |-> [k \in Keys |-> <<>>], ready |-> <<>>,
            channels |-> [ch \in Channels |-> <<>>], patterns |-> <<>>, unblocked |-> <<>>,
            log |-> <<>>, paused |-> "no", cron |-> FALSE, slave |-> FALSE, stale |-> FALSE, astray |-> FALSE]
  /\ reads = 0

ClientsNext ==
  \/ \E c \in Names :
       \/ \E script \in cset.scripts[c] : ReadQueryFromClient(c, script)
       \/ ClientCloses(c)
  \/ BeforeSleepClients \/ ServerCronClients \/ DisconnectAllBlockedClients

(***************************************************************************)
(* Properties.                                                             *)
(***************************************************************************)
\* EXEC runs only if every key that the client watches has the value it had at
\* WATCH, whatever command, transaction or served client may have changed it.
ExecMeansUnchanged == ~sys.stale

\* No client waits for a list that has elements: whatever makes a list appear
\* makes the clients blocked on it be served, the lists that BRPOPLPUSH fills
\* on the way included.
NobodyWaitsForData ==
  \A k \in Keys : sys.db[k][1] = "list" => sys.db[k][2] # <<>> /\ sys.blockers[k] = <<>>

\* The server's lists are the mirror of the clients': who watches, is blocked or
\* subscribed is listed once, a client that is gone is in no list, and messages
\* went to the clients that were subscribed.
ListsMirrorClients ==
  /\ ~sys.astray
  /\ \A c \in Names, k \in Keys :
       LET me == sys.cl[c]
       IN  /\ Contains(sys.watchers[k], c) <=> \E i \in 1..Len(me.watched) : me.watched[i][1] = k
           /\ Contains(sys.blockers[k], c) <=> (me.blocked /\ Contains(me.bkeys, k))
  /\ \A c \in Names, ch \in Channels : Contains(sys.channels[ch], c) <=> ch \in sys.cl[c].chans
  /\ \A c \in Names : SelectSeq(sys.patterns, LAMBDA x : x[1] = c) =
                      [i \in 1..Len(sys.cl[c].pats) |-> <<c, sys.cl[c].pats[i]>>]
  /\ \A k \in Keys : IsInjective(sys.watchers[k]) /\ IsInjective(sys.blockers[k])
  /\ IsInjective(sys.unblocked)
  /\ \A c \in Names : Contains(sys.unblocked, c) => (sys.cl[c].alive /\ sys.cl[c].unb)
  /\ \A c \in Names : ~sys.cl[c].alive =>
       sys.cl[c].watched = <<>> /\ sys.cl[c].chans = {} /\ ~sys.cl[c].blocked

\* Input that has arrived is not forgotten: a client that could go on is in the
\* list of those to be processed, or the server is paused.
InputIsProcessed ==
  \A c \in Names :
    (sys.cl[c].alive /\ ~sys.cl[c].blocked /\ ~sys.cl[c].closing /\ sys.cl[c].input # <<>>)
      => Contains(sys.unblocked, c) \/ sys.paused # "no"

\* What is propagated, applied to nothing, is the data: the pops and pushes made
\* on behalf of blocked clients, and transactions, in the order they happened.
Applied(d, x) ==
  CASE x[1] = "lpush" -> [d EXCEPT ![x[2]] = IF @ = None0 THEN List(<<x[3]>>) ELSE List(<<x[3]>> \o @[2])]
    [] x[1] = "lpop" -> [d EXCEPT ![x[2]] = IF Len(@[2]) = 1 THEN None0 ELSE List(Tail(@[2]))]
    [] x[1] = "rpop" -> [d EXCEPT ![x[2]] = IF Len(@[2]) = 1 THEN None0 ELSE List(Front(@[2]))]
    [] x[1] = "rpush" -> [d EXCEPT ![x[2]] = IF @ = None0 THEN List(<<x[3]>>) ELSE List(Append(@[2], x[3]))]
    [] x[1] = "set" -> [d EXCEPT ![x[2]] = Str]
    [] x[1] = "del" -> [d EXCEPT ![x[2]] = None0]
    [] x[1] = "rename" -> [d EXCEPT ![x[3]] = d[x[2]], ![x[2]] = None0]
    [] x[1] = "sort" -> [d EXCEPT ![x[3]] = d[x[2]]]
    [] x[1] = "flushall" -> [k \in Keys |-> None0]
    [] x[1] = "rpoplpush" ->
         LET v == Last(d[x[2]][2])
             d1 == [d EXCEPT ![x[2]] = List(Front(@[2]))]
             d2 == [d1 EXCEPT ![x[3]] = IF @ = None0 THEN List(<<v>>) ELSE List(<<v>> \o @[2])]
         IN  [d2 EXCEPT ![x[2]] = IF @ = List(<<>>) THEN None0 ELSE @]
    [] OTHER -> d
PropagationRebuilds == FoldLeft(Applied, [k \in Keys |-> None0], sys.log) = sys.db

\* Clients between two reads of theirs (blocked.c:109-153, networking.c:1259-1304,
\* 1881-1905, t_list.c:616-868): none is blocked on a key that has data, none has input that nobody
\* will look at, and the server's lists name exactly those that are in them.
NobodyIsForgotten == NobodyWaitsForData /\ InputIsProcessed /\ ListsMirrorClients

\* Transactions (multi.c:106-182, 202-305): EXEC runs only when no watched key
\* was touched since, and what is propagated rebuilds the same dataset,
\* whatever blocked clients are served and killed in between.
TransactionsAreSound == ExecMeansUnchanged /\ PropagationRebuilds
=============================================================================
