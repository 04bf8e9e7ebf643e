--------------------------- MODULE SentinelLinks ---------------------------
(***************************************************************************)
(* How a sentinel keeps its connections to the other sentinels             *)
(* (sentinel.c, instanceLink): every monitored master has an entry of its  *)
(* own for a sentinel, the entries of one physical sentinel share a link,  *)
(* and a hello from a new address replaces the entry and breaks the link.  *)
(* A pending command remembers the entry its answer is for.                *)
(***************************************************************************)
EXTENDS Naturals, FiniteSets

CONSTANTS Masters,       \* the masters the sentinel monitors
          Others,        \* the other sentinels (run ids)
          Addresses,     \* where they may be
          Unreachable,   \* an address with port 0
          MaxPending,    \* bound: commands pending for an entry
          NoEntry        \* no entry

VARIABLES entry,      \* entry[m][o]: [addr, link], or NoEntry
          links,      \* links[l]: [refcount, up, pending], see NoLink
          died,       \* a NULL entry was dereferenced
          misled      \* an answer was handed to an entry that is gone

linkVars == <<entry, links, died, misled>>

LinkIds == 1..(Cardinality(Masters) * Cardinality(Others) + 1)

Entries == [addr : Addresses \cup {Unreachable}, link : LinkIds]

ASSUME LinksAssumption ==
  /\ MaxPending \in Nat /\ Unreachable \notin Addresses /\ NoEntry \notin Entries
  /\ IsFiniteSet(Masters) /\ IsFiniteSet(Others)

Empty == [refcount |-> 0, up |-> FALSE, pending |-> [m \in Masters |->
                                         [o \in Others |-> 0]]]

FreshLink(L) == CHOOSE l \in LinkIds : /\ L[l].refcount = 0
                                       /\ \A k \in 1..(l - 1) : L[k].refcount # 0

\* A link k on which n commands are pending for the entry of o under m.
PendingFor(k, m, o, n) ==
  [k EXCEPT !.pending = [k.pending EXCEPT ![m] = [k.pending[m] EXCEPT ![o] = n]]]

\* instanceLinkCloseConnection: nothing is pending on a closed connection.
CloseConnection(L, l) ==
  [L EXCEPT ![l] = [Empty EXCEPT !.refcount = L[l].refcount]]

\* createInstanceLink
CreateInstanceLink(L, l) == [L EXCEPT ![l] = [Empty EXCEPT !.refcount = 1]]

\* releaseInstanceLink: the last user frees the link; otherwise the pending
\* commands of the entry are bound to a callback that ignores the answer.
ReleaseInstanceLink(L, l, m, o) ==
  IF L[l].refcount > 1
  THEN [L EXCEPT ![l] = [PendingFor(L[l], m, o, 0) EXCEPT !.refcount = L[l].refcount - 1]]
  ELSE [L EXCEPT ![l] = Empty]

\* Mutant: the entry shares the link without being counted.
ShareUncounted(E, L, m, o) ==
  LET match == {k \in Masters \ {m} : E[k][o] # NoEntry} IN
  IF match = {} THEN [e |-> E, l |-> L]
  ELSE LET k == CHOOSE x \in match : TRUE IN
       [e |-> [E EXCEPT ![m][o].link = E[k][o].link],
        l |-> ReleaseInstanceLink(L, E[m][o].link, m, o)]

\* sentinelTryConnectionSharing, for the new entry of o under m.
TryConnectionSharing(E, L, m, o) ==
  LET match == {k \in Masters \ {m} : E[k][o] # NoEntry} IN
  IF match = {} THEN [e |-> E, l |-> L]
  ELSE LET k == CHOOSE x \in match : TRUE
           L1 == ReleaseInstanceLink(L, E[m][o].link, m, o)
       IN  [e |-> [E EXCEPT ![m][o].link = E[k][o].link],
            l |-> [L1 EXCEPT ![E[k][o].link].refcount = @ + 1]]

\* sentinelUpdateSentinelAddressInAllMasters: every master is expected to know
\* the sentinel; where one does not, NULL is dereferenced.
UpdateInAllMasters(E, L, m, o) ==
  [e |-> [k \in Masters |-> [E[k] EXCEPT ![o] =
            IF @ = NoEntry THEN @ ELSE [@ EXCEPT !.addr = E[m][o].addr]]],
   l |-> [l \in LinkIds |->
            IF \E k \in Masters : E[k][o] # NoEntry /\ E[k][o].link = l
            THEN CloseConnection(L, l)[l] ELSE L[l]],
   dies |-> \E k \in Masters : E[k][o] = NoEntry]

\* createSentinelRedisInstance for a sentinel.
CreateEntry(E, L, m, o, a) ==
  LET l == FreshLink(L)
  IN  [e |-> [E EXCEPT ![m] = [@ EXCEPT ![o] = [addr |-> a, link |-> l]]],
       l |-> CreateInstanceLink(L, l)]

\* sentinelProcessHelloMessage, of sentinel o at address a under master m.
HelloFrom(m, o, a) ==
  /\ ~(entry[m][o] # NoEntry /\ entry[m][o].addr = a)
  /\ LET removed == entry[m][o] # NoEntry
         taken == {p \in Others \ {o} : /\ entry[m][p] # NoEntry
                                        /\ entry[m][p].addr = a}
         E0 == IF removed THEN [entry EXCEPT ![m] = [@ EXCEPT ![o] = NoEntry]]
               ELSE IF taken = {} THEN entry
               ELSE [entry EXCEPT ![m] = [@ EXCEPT
                       ![CHOOSE p \in taken : TRUE].addr = Unreachable]]
         L0 == IF removed THEN ReleaseInstanceLink(links, entry[m][o].link, m, o)
               ELSE links
         moved == IF removed \/ taken = {} THEN [e |-> E0, l |-> L0, dies |-> FALSE]
                  ELSE UpdateInAllMasters(E0, L0, m, CHOOSE p \in taken : TRUE)
         made == CreateEntry(moved.e, moved.l, m, o, a)
         shared == TryConnectionSharing(made.e, made.l, m, o)
         last == IF removed THEN UpdateInAllMasters(shared.e, shared.l, m, o)
                 ELSE [e |-> shared.e, l |-> shared.l, dies |-> FALSE]
         dies == moved.dies \/ last.dies
     IN  /\ died' = dies
         /\ entry' = IF dies THEN entry ELSE last.e
         /\ links' = IF dies THEN links ELSE last.l
  /\ UNCHANGED misled

\* sentinelReconnectInstance, through any of the entries of the link.
ReconnectInstance(m, o) ==
  /\ entry[m][o] # NoEntry /\ entry[m][o].addr # Unreachable
  /\ ~links[entry[m][o].link].up
  /\ links' = [links EXCEPT ![entry[m][o].link] =
                 [PendingFor(links[entry[m][o].link], m, o, 1) EXCEPT !.up = TRUE]]
  /\ UNCHANGED <<entry, died, misled>>

\* sentinelSendPeriodicCommands and sentinelAskMasterStateToOtherSentinels.
SendCommand(m, o) ==
  /\ entry[m][o] # NoEntry /\ links[entry[m][o].link].up
  /\ links[entry[m][o].link].pending[m][o] < MaxPending
  /\ links' = [links EXCEPT ![entry[m][o].link] = PendingFor(links[entry[m][o].link], m, o,
                 links[entry[m][o].link].pending[m][o] + 1)]
  /\ UNCHANGED <<entry, died, misled>>

\* An answer arrives: it goes to the entry the command was sent for.
ReceiveAnswer(l, m, o) ==
  /\ links[l].pending[m][o] > 0
  /\ links' = [links EXCEPT ![l] = PendingFor(links[l], m, o, links[l].pending[m][o] - 1)]
  /\ misled' = (misled \/ entry[m][o] = NoEntry)
  /\ UNCHANGED <<entry, died>>

\* instanceLinkConnectionError
ConnectionError(l) ==
  /\ links[l].up
  /\ links' = CloseConnection(links, l)
  /\ UNCHANGED <<entry, died, misled>>

\* The entries of m that use link l.
UsersOf(m, l) == {o \in Others : entry[m][o] # NoEntry /\ entry[m][o].link = l}

\* Mutant: a link that others use keeps the callbacks of the released entries.
ReleaseKeepsCallbacks(m) ==
  [l \in LinkIds |->
     IF UsersOf(m, l) = {} THEN links[l]
     ELSE IF links[l].refcount <= Cardinality(UsersOf(m, l)) THEN Empty
     ELSE [links[l] EXCEPT !.refcount = @ - Cardinality(UsersOf(m, l))]]

\* releaseInstanceLink for every entry of the master, one after the other.
ReleaseLinksOf(m) ==
  [l \in LinkIds |->
     IF UsersOf(m, l) = {} THEN links[l]
     ELSE IF links[l].refcount <= Cardinality(UsersOf(m, l)) THEN Empty
     ELSE [links[l] EXCEPT !.refcount = links[l].refcount - Cardinality(UsersOf(m, l)),
             !.pending = [links[l].pending EXCEPT ![m] =
                [o \in Others |-> IF o \in UsersOf(m, l) THEN 0 ELSE links[l].pending[m][o]]]]]

\* SENTINEL RESET or REMOVE releases every entry of the master.
ReleaseAll(m) ==
  /\ \E o \in Others : entry[m][o] # NoEntry
  /\ links' = ReleaseLinksOf(m)
  /\ entry' = [entry EXCEPT ![m] = [o \in Others |-> NoEntry]]
  /\ UNCHANGED <<died, misled>>

LinksInit ==
  /\ entry = [m \in Masters |-> [o \in Others |-> NoEntry]]
  /\ links = [l \in LinkIds |-> Empty]
  /\ died = FALSE /\ misled = FALSE

LinksNext ==
  /\ ~died
  /\ \/ \E m \in Masters, o \in Others :
          \/ ReconnectInstance(m, o) \/ SendCommand(m, o)
          \/ \E a \in Addresses : HelloFrom(m, o, a)
          \/ \E l \in LinkIds : ReceiveAnswer(l, m, o)
     \/ \E l \in LinkIds : ConnectionError(l)
     \/ \E m \in Masters : ReleaseAll(m)

(***************************************************************************)
(* Properties.                                                             *)
(***************************************************************************)
\* releaseInstanceLink and sentinelTryConnectionSharing keep refcount right: a
\* link in use is never freed and one that nobody uses is.
LinksAreCounted ==
  \A l \in LinkIds :
    links[l].refcount = Cardinality({p \in Masters \X Others :
                          /\ entry[p[1]][p[2]] # NoEntry
                          /\ entry[p[1]][p[2]].link = l})

\* releaseInstanceLink: "avoid processing replies for an instance that no
\* longer exists" (sentinel.c:973).
NoAnswerForTheDead == ~misled

\* sentinelUpdateSentinelAddressInAllMasters: "update all the matching
\* Sentinels in the context of other masters as well" (sentinel.c:1049), which
\* must not presume that there is one.
AddressSwitchSurvives == ~died
=============================================================================
