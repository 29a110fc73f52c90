----------------------------- MODULE Directory ------------------------------
(***************************************************************************)
(* a17/dispatch/directory: the service directories of several nodes, which *)
(* find each other's topics over UDP multicast.  Every directory runs on   *)
(* the event loop of its node, so one handler is one step; what interleaves*)
(* are the handlers of different nodes, the messages, and the completions  *)
(* queued on one event loop (a posted call, an expired timer).             *)
(***************************************************************************)
EXTENDS Integers, FiniteSets

CONSTANTS
    Guids,              \* my_guid_ of each directory; a restart is a new guid
    Topics,             \* topic names
    AllTopics,          \* the name "", which observes every topic
    Addrs,              \* addresses a server socket may be bound to
    OffNetwork,         \* addresses OwnAddress::onNetwork refuses
    None,
    Refs,               \* references of observers
    Serving,            \* bound: the nodes that open servers
    Observing,          \* bound: the nodes that open clients
    QueryInterval,      \* QUERY_INTERVAL
    QueryIntervalMax,   \* QUERY_INTERVAL_MAX
    SearchGroup,        \* topics in one DISCOVERY_SEARCH packet, at most
    InboxSize,          \* bound: packets a socket buffers before it drops
    Loopback,           \* are a node's own packets delivered to it?
    Duplication         \* may the network deliver a packet twice?

ASSUME DirectoryAssumption ==
    /\ AllTopics \notin Topics
    /\ None \notin Addrs
    /\ OffNetwork \subseteq Addrs
    /\ QueryInterval \in Nat \ {0}
    /\ QueryIntervalMax \in Nat
    /\ QueryInterval <= QueryIntervalMax
    /\ SearchGroup \in Nat \ {0}
    /\ Serving \subseteq Guids
    /\ Observing \subseteq Guids
    /\ InboxSize \in Nat
    /\ Loopback \in BOOLEAN
    /\ Duplication \in BOOLEAN

VARIABLES
    status,      \* has the directory been constructed, destroyed?
    local,       \* local_topics_: the address of each topic served here
    names,       \* the keys of network_topics_
    entry,       \* network_topics_[topic][guid].address
    observers,   \* observers: who observes which topic
    posted,      \* callImmediate calls posted to the event loop
    seen,        \* what each observer's handler was last told, per topic
    active,      \* queryTimerActive_
    armed,       \* a wait on queryTimer_ is pending
    fired,       \* a wait on queryTimer_ has expired, its handler is queued
    interval,    \* queryInterval_
    inbox        \* packets on their way to each directory

storeVars == <<local, names, entry, observers, seen>>
timerVars == <<active, armed, fired, interval>>
vars == <<status, storeVars, posted, timerVars, inbox>>

NoEntries == [t \in Topics |-> [h \in Guids |-> None]]
Observer == [ref : Refs, topic : Topics \cup {AllTopics}]

Available(g, t, a) == [type |-> "A", guid |-> g, topic |-> t, addr |-> a]
Remove(g, t) == [type |-> "R", guid |-> g, topic |-> t]
Search(g, ts) == [type |-> "S", guid |-> g, topics |-> ts]
Exit(g) == [type |-> "X", guid |-> g]

Messages ==
    {Available(g, t, a) : g \in Guids, t \in Topics, a \in Addrs}
    \cup {Remove(g, t) : g \in Guids, t \in Topics}
    \cup {Search(g, ts) : g \in Guids, ts \in SUBSET (Topics \cup {AllTopics})}
    \cup {Exit(g) : g \in Guids}

Up(g) == status[g] = "up"

Init ==
    /\ status = [g \in Guids |-> "new"]
    /\ local = [g \in Guids |-> [t \in Topics |-> None]]
    /\ names = [g \in Guids |-> {}]
    /\ entry = [g \in Guids |-> NoEntries]
    /\ observers = [g \in Guids |-> {}]
    /\ posted = [g \in Guids |-> {}]
    /\ seen = [r \in Refs |-> NoEntries]
    /\ active = [g \in Guids |-> FALSE]
    /\ armed = [g \in Guids |-> FALSE]
    /\ fired = [g \in Guids |-> FALSE]
    /\ interval = [g \in Guids |-> QueryInterval]
    /\ inbox = [g \in Guids |-> {}]

-----------------------------------------------------------------------------
(* The network.  A multicast reaches the inbox of every live directory     *)
(* that has room; packets are taken out of an inbox in any order, and may  *)
(* be lost or duplicated.                                                  *)
Multicast(box, g, ms) ==
    [h \in Guids |->
        IF Up(h) /\ (h # g \/ Loopback) /\ Cardinality(box[h] \cup ms) <= InboxSize
          THEN box[h] \cup ms
          ELSE box[h]]

Lose(g, m) ==
    /\ inbox' = [inbox EXCEPT ![g] = @ \ {m}]
    /\ UNCHANGED <<status, storeVars, posted, timerVars>>

-----------------------------------------------------------------------------
(* DirectoryTopicStore.  e is the network_topics_ of directory g after the *)
(* change, called the topics for which callObservers runs.                 *)
callObservers(g, called, e) ==
    seen' = [r \in Refs |-> [t \in Topics |->
                IF t \in called /\ \E o \in observers[g] :
                                      o.ref = r /\ o.topic \in {t, AllTopics}
                  THEN e[t]
                  ELSE seen[r][t]]]

(* variant: a changed address is stored without a report *)
storeAddQuietRebind(g, t, h, a) ==
    LET others == IF t \in names[g] THEN entry[g][t] ELSE [x \in Guids |-> None]
        e == [entry[g] EXCEPT ![t] = [others EXCEPT ![h] = a]]
    IN  /\ entry' = [entry EXCEPT ![g] = e]
        /\ names' = [names EXCEPT ![g] = @ \cup {t}]
        /\ callObservers(g, IF others[h] = None THEN {t} ELSE {}, e)

storeAdd(g, t, h, a) ==
    LET known == t \in names[g]
        others == IF known THEN entry[g][t] ELSE [x \in Guids |-> None]
        changed == ~known \/ others[h] # a
        e == [entry[g] EXCEPT ![t] = [others EXCEPT ![h] = a]]
    IN  /\ entry' = [entry EXCEPT ![g] = e]
        /\ names' = [names EXCEPT ![g] = @ \cup {t}]
        /\ callObservers(g, IF changed THEN {t} ELSE {}, e)

(* variant: the name stays when its last entry goes *)
storeEraseKeepsName(g, h, ts) ==
    LET erased == {t \in ts \cap names[g] : entry[g][t][h] # None}
        e == [t \in Topics |->
                IF t \in erased THEN [entry[g][t] EXCEPT ![h] = None] ELSE entry[g][t]]
    IN  /\ entry' = [entry EXCEPT ![g] = e]
        /\ UNCHANGED names
        /\ callObservers(g, erased, e)

(* remove() of one topic and evict() of all topics of a guid *)
storeErase(g, h, ts) ==
    LET erased == {t \in ts \cap names[g] : entry[g][t][h] # None}
        e == [t \in Topics |->
                IF t \in erased THEN [entry[g][t] EXCEPT ![h] = None] ELSE entry[g][t]]
        empty == {t \in ts \cap names[g] : \A x \in Guids : e[t][x] = None}
    IN  /\ entry' = [entry EXCEPT ![g] = e]
        /\ names' = [names EXCEPT ![g] = @ \ empty]
        /\ callObservers(g, erased, e)

getMissing(g) == {o.topic : o \in observers[g]} \ names[g]

-----------------------------------------------------------------------------
(* variant: the interval is not reset *)
startQueryTimerBackedOff(g) ==
    /\ active' = [active EXCEPT ![g] = TRUE]
    /\ armed' = [armed EXCEPT ![g] = TRUE]
    /\ UNCHANGED <<fired, interval>>

(* queryTimer_.  Arming it again aborts a pending wait, never a wait whose *)
(* handler is already queued.                                              *)
startQueryTimer(g) ==
    /\ active' = [active EXCEPT ![g] = TRUE]
    /\ armed' = [armed EXCEPT ![g] = TRUE]
    /\ interval' = [interval EXCEPT ![g] = QueryInterval]
    /\ UNCHANGED fired

TimerExpires(g) ==
    /\ armed[g]
    /\ ~fired[g]
    /\ armed' = [armed EXCEPT ![g] = FALSE]
    /\ fired' = [fired EXCEPT ![g] = TRUE]
    /\ UNCHANGED <<status, storeVars, posted, active, interval, inbox>>

(* How the missing topics are grouped into packets; long names make a      *)
(* packet hold fewer than SearchGroup of them.                             *)
SearchPackets(g, missing) ==
    {p \in SUBSET ((SUBSET missing) \ {{}}) :
        /\ UNION p = missing
        /\ \A x, y \in p : x # y => x \cap y = {}
        /\ \A x \in p : Cardinality(x) <= SearchGroup}

NextInterval(i) ==
    LET doubled == IF i < QueryIntervalMax THEN i * 2 ELSE i
    IN  IF doubled > QueryIntervalMax THEN QueryIntervalMax ELSE doubled

(* variant: one search, and no further one *)
queryMissingTopicsOnce(g) ==
    /\ fired[g]
    /\ fired' = [fired EXCEPT ![g] = FALSE]
    /\ active' = [active EXCEPT ![g] = armed[g]]
    /\ \E p \in SearchPackets(g, getMissing(g)) :
          inbox' = Multicast(inbox, g, {Search(g, ts) : ts \in p})
    /\ UNCHANGED <<status, storeVars, posted, armed, interval>>

queryMissingTopics(g) ==
    /\ fired[g]
    /\ fired' = [fired EXCEPT ![g] = FALSE]
    /\ IF getMissing(g) # {}
         THEN /\ armed' = [armed EXCEPT ![g] = TRUE]
              /\ interval' = [interval EXCEPT ![g] = NextInterval(@)]
              /\ \E p \in SearchPackets(g, getMissing(g)) :
                    inbox' = Multicast(inbox, g, {Search(g, ts) : ts \in p})
              /\ UNCHANGED active
         ELSE /\ active' = [active EXCEPT ![g] = FALSE]
              /\ UNCHANGED <<armed, interval, inbox>>
    /\ UNCHANGED <<status, storeVars, posted>>

-----------------------------------------------------------------------------
(* Operations of the node: its servers, its clients, its own life. *)
Construct(g) ==
    /\ status[g] = "new"
    /\ status' = [status EXCEPT ![g] = "up"]
    /\ UNCHANGED <<storeVars, posted, timerVars, inbox>>

(* add() for a server of this node; a second server of the same topic      *)
(* throws before anything changes.                                         *)
add(g, t, a) ==
    /\ Up(g)
    /\ g \in Serving
    /\ local[g][t] = None
    /\ local' = [local EXCEPT ![g][t] = a]
    /\ storeAdd(g, t, g, a)
    /\ inbox' = Multicast(inbox, g, {Available(g, t, a)})
    /\ UNCHANGED <<status, observers, posted, timerVars>>

remove(g, t) ==
    /\ Up(g)
    /\ local[g][t] # None
    /\ local' = [local EXCEPT ![g][t] = None]
    /\ storeErase(g, g, {t})
    /\ inbox' = Multicast(inbox, g, {Remove(g, t)})
    /\ UNCHANGED <<status, observers, posted, timerVars>>

(* A reference is a fresh uuid: here one that nothing refers to any more.  *)
observe(g, r, t) ==
    LET o == [ref |-> r, topic |-> t] IN
    /\ Up(g)
    /\ g \in Observing
    /\ \A h \in Guids : \A x \in observers[h] \cup posted[h] : x.ref # r
    /\ observers' = [observers EXCEPT ![g] = @ \cup {o}]
    /\ posted' = [posted EXCEPT ![g] = @ \cup {o}]
    /\ seen' = [seen EXCEPT ![r] = NoEntries]
    /\ startQueryTimer(g)
    /\ UNCHANGED <<status, local, names, entry, inbox>>

unobserve(g, o) ==
    /\ o \in observers[g]
    /\ observers' = [observers EXCEPT ![g] = @ \ {o}]
    /\ startQueryTimer(g)
    /\ UNCHANGED <<status, local, names, entry, seen, posted, inbox>>

callImmediate(g, o) ==
    /\ o \in posted[g]
    /\ posted' = [posted EXCEPT ![g] = @ \ {o}]
    /\ seen' = IF o.topic \in names[g]
                 THEN [seen EXCEPT ![o.ref][o.topic] = entry[g][o.topic]]
                 ELSE seen
    /\ UNCHANGED <<status, local, names, entry, observers, timerVars, inbox>>

Gone(g) ==
    /\ status' = [status EXCEPT ![g] = "gone"]
    /\ local' = [local EXCEPT ![g] = [t \in Topics |-> None]]
    /\ names' = [names EXCEPT ![g] = {}]
    /\ entry' = [entry EXCEPT ![g] = NoEntries]
    /\ observers' = [observers EXCEPT ![g] = {}]
    /\ posted' = [posted EXCEPT ![g] = {}]
    /\ active' = [active EXCEPT ![g] = FALSE]
    /\ armed' = [armed EXCEPT ![g] = FALSE]
    /\ fired' = [fired EXCEPT ![g] = FALSE]
    /\ interval' = [interval EXCEPT ![g] = QueryInterval]
    /\ UNCHANGED seen

Destruct(g) ==
    /\ Up(g)
    /\ Gone(g)
    /\ inbox' = [Multicast(inbox, g, {Exit(g)}) EXCEPT ![g] = {}]

Crash(g) ==
    /\ Up(g)
    /\ Gone(g)
    /\ inbox' = [inbox EXCEPT ![g] = {}]

-----------------------------------------------------------------------------
(* event() and handleEvent(): one packet. *)
discoveryAvailable(g, m) ==
    /\ IF m.addr \in OffNetwork
         THEN UNCHANGED <<names, entry, seen>>
         ELSE storeAdd(g, m.topic, m.guid, m.addr)
    /\ UNCHANGED <<local, observers, timerVars>>

discoveryRemove(g, m) ==
    /\ storeErase(g, m.guid, {m.topic})
    /\ startQueryTimer(g)
    /\ UNCHANGED <<local, observers>>

discoveryExit(g, m) ==
    /\ storeErase(g, m.guid, Topics)
    /\ startQueryTimer(g)
    /\ UNCHANGED <<local, observers>>

(* variant: only the wildcard query is answered *)
discoverySearchUnanswered(g, m) == {}

(* the replies to a search; the empty name is skipped by the tokenizer *)
discoverySearch(g, m) ==
    {Available(g, t, local[g][t]) : t \in {x \in m.topics \cap Topics : local[g][x] # None}}

(* variant: the directory listens to its own packets *)
handleEventOwn(g, m) ==
    \/ m.type = "A" /\ discoveryAvailable(g, m)
    \/ m.type = "R" /\ discoveryRemove(g, m)
    \/ m.type = "X" /\ discoveryExit(g, m)
    \/ m.type = "S" /\ UNCHANGED <<storeVars, timerVars>>

handleEvent(g, m) ==
    IF m.guid = g
      THEN UNCHANGED <<storeVars, timerVars>>
      ELSE \/ m.type = "A" /\ discoveryAvailable(g, m)
           \/ m.type = "R" /\ discoveryRemove(g, m)
           \/ m.type = "X" /\ discoveryExit(g, m)
           \/ m.type = "S" /\ UNCHANGED <<storeVars, timerVars>>

Receive(g, m) ==
    /\ m \in inbox[g]
    /\ handleEvent(g, m)
    /\ \E dup \in {FALSE, Duplication} :
         inbox' = Multicast(IF dup THEN inbox ELSE [inbox EXCEPT ![g] = @ \ {m}], g,
                            IF m.type = "S" /\ m.guid # g THEN discoverySearch(g, m) ELSE {})
    /\ UNCHANGED <<status, posted>>

Next ==
    \E g \in Guids :
       \/ Construct(g) \/ Destruct(g) \/ Crash(g)
       \/ \E t \in Topics, a \in Addrs : add(g, t, a)
       \/ \E t \in Topics : remove(g, t)
       \/ \E r \in Refs, t \in Topics \cup {AllTopics} : observe(g, r, t)
       \/ \E o \in observers[g] : unobserve(g, o)
       \/ \E o \in posted[g] : callImmediate(g, o)
       \/ TimerExpires(g) \/ queryMissingTopics(g)
       \/ \E m \in inbox[g] : Receive(g, m) \/ Lose(g, m)

Spec == Init /\ [][Next]_vars

(* Every event loop keeps running, so a timer expires and its handler runs *)
(* (at most one of the two is enabled); and the network does not lose or   *)
(* drop every single search, or every single answer, of infinitely many.   *)
Fairness ==
    \A g \in Guids :
       /\ WF_vars(TimerExpires(g) \/ queryMissingTopics(g))
       /\ SF_vars(\E m \in inbox[g] : m.type = "S" /\ Receive(g, m))
       /\ SF_vars(\E m \in inbox[g] : m.type = "A" /\ Receive(g, m))

FairSpec == Spec /\ Fairness

-----------------------------------------------------------------------------
(* Type invariant. *)
TypeOK ==
    /\ status \in [Guids -> {"new", "up", "gone"}]
    /\ local \in [Guids -> [Topics -> Addrs \cup {None}]]
    /\ names \in [Guids -> SUBSET Topics]
    /\ entry \in [Guids -> [Topics -> [Guids -> Addrs \cup {None}]]]
    /\ observers \in [Guids -> SUBSET Observer]
    /\ posted \in [Guids -> SUBSET Observer]
    /\ seen \in [Refs -> [Topics -> [Guids -> Addrs \cup {None}]]]
    /\ active \in [Guids -> BOOLEAN]
    /\ armed \in [Guids -> BOOLEAN]
    /\ fired \in [Guids -> BOOLEAN]
    /\ interval \in [Guids -> QueryInterval..QueryIntervalMax]
    /\ inbox \in [Guids -> SUBSET Messages]

(* A directory's own rows of network_topics_ are its local_topics_, no     *)
(* matter what packets the other nodes, or its own loopback, bring in.     *)
OwnTopicsAgree ==
    \A g \in Guids, t \in Topics : entry[g][t][g] = local[g][t]

(* A topic name is a key of network_topics_ exactly while some node offers *)
(* it: a name left behind by the last removal would never be searched for. *)
NamesHaveOffers ==
    \A g \in Guids, t \in Topics :
        t \in names[g] <=> \E h \in Guids : entry[g][t][h] # None

(* While queryTimerActive_ is set, a wait is pending or its handler is     *)
(* queued, however cancellation, expiry and re-arming interleave.          *)
TimerLive == \A g \in Guids : active[g] => armed[g] \/ fired[g]

(* Once its posted first call has run, an observer's handler has been told *)
(* exactly what the directory knows of its topic.                          *)
ObserversInformed ==
    \A g \in Guids : \A o \in observers[g] \ posted[g] :
        o.topic # AllTopics => seen[o.ref][o.topic] = entry[g][o.topic]

(* On a node that opens no servers, a topic that is observed and not known *)
(* is being searched for at any time.                                      *)
MissingIsSearched ==
    \A g \in Guids \ Serving : getMissing(g) # {} => armed[g] \/ fired[g]

(* The same of every node: "the directory sends a DISCOVERY_SEARCH on a    *)
(* repeater until a DISCOVERY_AVAILABLE with the topic info is received".  *)
MissingIsSearchedEverywhere ==
    \A g \in Guids : getMissing(g) # {} => armed[g] \/ fired[g]

(* On a node that opens no servers a topic that becomes missing is         *)
(* searched for at the first interval, not at the one that earlier         *)
(* fruitless searches had backed off to.                                   *)
NewlyMissingSearchedAtOnce ==
    [][\A g \in Guids \ Serving :
          ~(getMissing(g)' \subseteq getMissing(g))
              => armed'[g] /\ interval'[g] = QueryInterval]_vars

Offers(h, t) == Up(h) /\ local[h][t] \notin OffNetwork \cup {None}
Observes(g, t) == \E o \in observers[g] : o.topic = t

(* A topic that some node keeps offering and another keeps observing is    *)
(* found, in spite of lost and late packets.                               *)
ObservedTopicIsFound ==
    \A g, h \in Guids, t \in Topics :
        g # h => (<>[](Offers(h, t) /\ Observes(g, t)) => <>[](t \in names[g]))
=============================================================================
