--------------------------- MODULE DirectoryProofs --------------------------
(***************************************************************************)
(* Proofs about Directory for any number of nodes, topics, addresses and   *)
(* observers, over a network that may lose, reorder and duplicate packets. *)
(***************************************************************************)
EXTENDS Directory, TLAPS

Row == [Guids -> Addrs \cup {None}]
NoRow == [h \in Guids |-> None]

(* The fields of a packet, by its type. *)
LEMMA MessageFields ==
    ASSUME NEW m \in Messages
    PROVE  /\ m.guid \in Guids
           /\ m.type \in {"A", "R", "S", "X"}
           /\ m.type = "A" => m.topic \in Topics /\ m.addr \in Addrs
           /\ m.type = "R" => m.topic \in Topics
           /\ m.type = "S" => m.topics \in SUBSET (Topics \cup {AllTopics})
BY DEF Messages, Available, Remove, Search, Exit

(* A multicast keeps the inboxes well typed. *)
LEMMA MulticastType ==
    ASSUME NEW box \in [Guids -> SUBSET Messages], NEW g \in Guids,
           NEW ms \in SUBSET Messages
    PROVE  Multicast(box, g, ms) \in [Guids -> SUBSET Messages]
BY DEF Multicast

(* What a change of the topic store does to directory g: its observers are *)
(* told of exactly the topics whose entries have changed.                  *)
StoreEffect(g) ==
    /\ names' \in [Guids -> SUBSET Topics]
    /\ entry' \in [Guids -> [Topics -> Row]]
    /\ seen' \in [Refs -> [Topics -> Row]]
    /\ \A x \in Guids : x # g => entry'[x] = entry[x] /\ names'[x] = names[x]
    /\ \A r \in Refs, t \in Topics :
          seen'[r][t] = IF /\ entry'[g][t] # entry[g][t]
                           /\ \E o \in observers[g] : o.ref = r /\ o.topic \in {t, AllTopics}
                          THEN entry'[g][t]
                          ELSE seen[r][t]
    /\ NamesHaveOffers'

(* DirectoryTopicStore::add *)
LEMMA StoreAddEffect ==
    ASSUME TypeOK, NamesHaveOffers, NEW g \in Guids, NEW t \in Topics, NEW h \in Guids,
           NEW a \in Addrs, storeAdd(g, t, h, a)
    PROVE  /\ StoreEffect(g)
           /\ names'[g] = names[g] \cup {t}
           /\ \A u \in Topics, x \in Guids :
                 entry'[g][u][x] = IF u = t /\ x = h THEN a ELSE entry[g][u][x]
<1> DEFINE known == t \in names[g]
           others == IF known THEN entry[g][t] ELSE [x \in Guids |-> None]
           changed == ~known \/ others[h] # a
           row == [others EXCEPT ![h] = a]
           e == [entry[g] EXCEPT ![t] = row]
<1>0. /\ entry' = [entry EXCEPT ![g] = e]
      /\ names' = [names EXCEPT ![g] = @ \cup {t}]
      /\ callObservers(g, IF changed THEN {t} ELSE {}, e)
    BY DEF storeAdd
<1>1. others \in Row /\ others = entry[g][t]
    <2>1. entry[g][t] \in Row
        BY DEF TypeOK, Row
    <2>2. CASE ~known
        <3>1. \A x \in Guids : entry[g][t][x] = None
            BY <2>2 DEF NamesHaveOffers
        <3> QED BY <2>1, <2>2, <3>1 DEF Row
    <2> QED BY <2>1, <2>2
<1>2. row \in Row /\ e \in [Topics -> Row]
    BY <1>1 DEF TypeOK, Row
<1>3. entry' \in [Guids -> [Topics -> Row]] /\ names' \in [Guids -> SUBSET Topics]
    BY <1>0, <1>2 DEF TypeOK, Row
<1>4. /\ \A x \in Guids : entry'[x] = IF x = g THEN e ELSE entry[x]
      /\ \A x \in Guids : names'[x] = IF x = g THEN names[x] \cup {t} ELSE names[x]
    BY ZenonT(30), <1>0 DEF TypeOK
<1>5. \A u \in Topics, x \in Guids :
         entry'[g][u][x] = IF u = t /\ x = h THEN a ELSE entry[g][u][x]
    BY <1>1, <1>4 DEF TypeOK, Row
<1>6. changed <=> e[t] # entry[g][t]
    <2>1. e[t] = row /\ row[h] = a
        BY ZenonT(30), <1>1 DEF TypeOK, Row
    <2>2. CASE known /\ others[h] = a
        BY <1>1, <2>1, <2>2 DEF Row
    <2>3. CASE known /\ others[h] # a
        BY <1>1, <2>1, <2>3
    <2>4. CASE ~known
        BY <1>1, <2>1, <2>4, DirectoryAssumption
    <2> QED BY <2>2, <2>3, <2>4
<1>7. \A u \in Topics : u \in (IF changed THEN {t} ELSE {}) <=> e[u] # entry[g][u]
    BY ZenonT(30), <1>6 DEF TypeOK
<1>8. \A r \in Refs, u \in Topics :
          seen'[r][u] = IF /\ e[u] # entry[g][u]
                           /\ \E o \in observers[g] : o.ref = r /\ o.topic \in {u, AllTopics}
                          THEN e[u]
                          ELSE seen[r][u]
    BY <1>0, <1>7 DEF callObservers
<1>9. seen' \in [Refs -> [Topics -> Row]]
    BY <1>0, <1>2 DEF callObservers, TypeOK, Row
<1> HIDE DEF known, others, changed, row, e
<1>10. NamesHaveOffers'
    <2> SUFFICES ASSUME NEW x \in Guids, NEW u \in Topics
                 PROVE  u \in names'[x] <=> \E y \in Guids : entry'[x][u][y] # None
        BY DEF NamesHaveOffers
    <2>0. u \in names[x] <=> \E y \in Guids : entry[x][u][y] # None
        BY DEF NamesHaveOffers
    <2>1. CASE x # g
        BY ZenonT(30), <1>4, <2>0, <2>1
    <2>2. CASE x = g /\ u # t
        BY ZenonT(30), <1>4, <1>5, <2>0, <2>2
    <2>3. CASE x = g /\ u = t
        <3>1. entry'[x][u][h] = a /\ a # None
            BY <1>5, <2>3, DirectoryAssumption
        <3> QED BY ZenonT(30), <1>4, <2>3, <3>1
    <2> QED BY <2>1, <2>2, <2>3
<1>11. e = entry'[g]
    BY <1>4
<1>12. StoreEffect(g)
    BY <1>3, <1>4, <1>8, <1>9, <1>10, <1>11 DEF StoreEffect
<1> QED BY ZenonT(30), <1>4, <1>5, <1>12

(* DirectoryTopicStore::remove and evict *)
LEMMA StoreEraseEffect ==
    ASSUME TypeOK, NamesHaveOffers, NEW g \in Guids, NEW h \in Guids,
           NEW ts \in SUBSET Topics, storeErase(g, h, ts)
    PROVE  /\ StoreEffect(g)
           /\ \A u \in Topics, x \in Guids :
                 entry'[g][u][x] = IF u \in ts /\ x = h THEN None ELSE entry[g][u][x]
<1> DEFINE erased == {t \in ts \cap names[g] : entry[g][t][h] # None}
           e == [t \in Topics |->
                   IF t \in erased THEN [entry[g][t] EXCEPT ![h] = None] ELSE entry[g][t]]
           empty == {t \in ts \cap names[g] : \A x \in Guids : e[t][x] = None}
<1>0. /\ entry' = [entry EXCEPT ![g] = e]
      /\ names' = [names EXCEPT ![g] = @ \ empty]
      /\ callObservers(g, erased, e)
    BY DEF storeErase
<1>1. \A u \in Topics : entry[g][u] \in Row
    BY DEF TypeOK, Row
<1>2. \A u \in Topics : u \in erased <=> u \in ts /\ entry[g][u][h] # None
    BY DEF NamesHaveOffers
<1>3. \A u \in Topics : e[u] \in Row
    BY <1>1 DEF Row
<1>4. \A u \in Topics, x \in Guids :
         e[u][x] = IF u \in ts /\ x = h THEN None ELSE entry[g][u][x]
    BY <1>1, <1>2 DEF Row
<1>5. \A u \in Topics : u \in erased <=> e[u] # entry[g][u]
    <2> SUFFICES ASSUME NEW u \in Topics PROVE u \in erased <=> e[u] # entry[g][u]
        OBVIOUS
    <2>1. CASE u \in erased
        <3>1. e[u][h] # entry[g][u][h]
            BY <1>2, <1>4, <2>1
        <3> QED BY <2>1, <3>1
    <2>2. CASE u \notin erased
        BY <2>2
    <2> QED BY <2>1, <2>2
<1>6. \A u \in Topics : u \in names[g] \ empty <=> \E x \in Guids : e[u][x] # None
    <2> SUFFICES ASSUME NEW u \in Topics
                 PROVE  u \in names[g] \ empty <=> \E x \in Guids : e[u][x] # None
        OBVIOUS
    <2>1. CASE u \in ts
        BY <1>4, <2>1 DEF NamesHaveOffers
    <2>2. CASE u \notin ts
        BY <1>4, <2>2 DEF NamesHaveOffers
    <2> QED BY <2>1, <2>2
<1>7. e \in [Topics -> Row]
    BY <1>3
<1>8. \A r \in Refs, u \in Topics :
          seen'[r][u] = IF /\ e[u] # entry[g][u]
                           /\ \E o \in observers[g] : o.ref = r /\ o.topic \in {u, AllTopics}
                          THEN e[u]
                          ELSE seen[r][u]
    BY <1>0, <1>5 DEF callObservers
<1>9. seen' \in [Refs -> [Topics -> Row]]
    BY <1>0, <1>7 DEF callObservers, TypeOK, Row
<1> HIDE DEF erased, e, empty
<1>10. /\ entry' \in [Guids -> [Topics -> Row]]
       /\ names' \in [Guids -> SUBSET Topics]
       /\ \A x \in Guids : entry'[x] = IF x = g THEN e ELSE entry[x]
       /\ \A x \in Guids : names'[x] = IF x = g THEN names[x] \ empty ELSE names[x]
    BY ZenonT(30), <1>0, <1>7 DEF TypeOK, Row
<1>11. NamesHaveOffers'
    <2> SUFFICES ASSUME NEW x \in Guids, NEW u \in Topics
                 PROVE  u \in names'[x] <=> \E y \in Guids : entry'[x][u][y] # None
        BY DEF NamesHaveOffers
    <2>1. CASE x # g
        BY <1>10, <2>1 DEF NamesHaveOffers
    <2>2. CASE x = g
        BY <1>6, <1>10, <2>2
    <2> QED BY <2>1, <2>2
<1>12. e = entry'[g]
    BY <1>10
<1>13. StoreEffect(g)
    BY <1>8, <1>9, <1>10, <1>11, <1>12 DEF StoreEffect
<1> QED BY <1>4, <1>12, <1>13

-----------------------------------------------------------------------------
(* Only the nodes that open servers have local topics. *)
ServersOnly == \A g \in Guids \ Serving, t \in Topics : local[g][t] = None

(* A reference belongs to one observer of one directory. *)
RefsUnique ==
    \A g, h \in Guids : \A o \in observers[g] \cup posted[g], x \in observers[h] \cup posted[h] :
        o.ref = x.ref => g = h /\ o = x

(* An observer knows what its directory knows, or has not been told        *)
(* anything and its first call is still posted.                            *)
Told ==
    \A g \in Guids : \A o \in observers[g] : o.topic # AllTopics =>
        \/ seen[o.ref][o.topic] = entry[g][o.topic]
        \/ o \in posted[g] /\ seen[o.ref][o.topic] = NoRow

StoreInv == OwnTopicsAgree /\ NamesHaveOffers /\ ServersOnly
TimerInv == TimerLive /\ MissingIsSearched
ObserverInv == RefsUnique /\ Told

(* The inductive invariant. *)
DirInv == TypeOK /\ StoreInv /\ TimerInv /\ ObserverInv

(* What a step leaves alone. *)
LEMMA StoreKept ==
    ASSUME StoreInv, UNCHANGED <<local, names, entry>>
    PROVE  StoreInv'
<1>1. OwnTopicsAgree'
    BY DEF StoreInv, OwnTopicsAgree
<1>2. NamesHaveOffers'
    BY DEF StoreInv, NamesHaveOffers
<1>3. ServersOnly'
    BY DEF StoreInv, ServersOnly
<1> QED BY <1>1, <1>2, <1>3 DEF StoreInv

(* A step that leaves entries, observers and their records alone. *)
LEMMA ObserverKept ==
    ASSUME ObserverInv, UNCHANGED <<observers, posted, seen, entry>>
    PROVE  ObserverInv'
<1>1. RefsUnique'
    BY DEF ObserverInv, RefsUnique
<1>2. Told'
    BY DEF ObserverInv, Told, NoRow
<1> QED BY <1>1, <1>2 DEF ObserverInv

(* A change of the store keeps the observers informed. *)
LEMMA ToldByStore ==
    ASSUME TypeOK, ObserverInv, NEW g \in Guids, StoreEffect(g), UNCHANGED <<observers, posted>>
    PROVE  ObserverInv'
<1>1. RefsUnique'
    BY DEF ObserverInv, RefsUnique
<1>2. Told'
    <2> SUFFICES ASSUME NEW x \in Guids, NEW o \in observers[x], o.topic # AllTopics
                 PROVE  \/ seen'[o.ref][o.topic] = entry'[x][o.topic]
                        \/ o \in posted[x] /\ seen'[o.ref][o.topic] = NoRow
        BY DEF Told, NoRow
    <2>1. o.ref \in Refs /\ o.topic \in Topics
        BY DEF TypeOK, Observer
    <2>2. \/ seen[o.ref][o.topic] = entry[x][o.topic]
          \/ o \in posted[x] /\ seen[o.ref][o.topic] = NoRow
        BY DEF ObserverInv, Told
    <2>3. CASE x = g
        BY <2>1, <2>2, <2>3 DEF StoreEffect
    <2>4. CASE x # g
        <3>1. \A y \in observers[g] : y.ref # o.ref
            BY <2>4 DEF ObserverInv, RefsUnique
        <3>2. \A r \in Refs, t \in Topics :
                 (\A y \in observers[g] : y.ref # r) => seen'[r][t] = seen[r][t]
            BY DEF StoreEffect
        <3>3. entry'[x] = entry[x]
            BY <2>4 DEF StoreEffect
        <3> QED BY <2>1, <2>2, <3>1, <3>2, <3>3
    <2> QED BY <2>3, <2>4
<1> QED BY <1>1, <1>2 DEF ObserverInv

(* All directories start empty. *)
LEMMA InitDirInv == Init => DirInv
<1> SUFFICES ASSUME Init PROVE DirInv
    OBVIOUS
<1>1. TypeOK
    BY DirectoryAssumption DEF Init, TypeOK, NoEntries
<1>2. StoreInv
    BY DEF Init, StoreInv, OwnTopicsAgree, NamesHaveOffers, ServersOnly, NoEntries
<1>3. TimerInv
    BY DEF Init, TimerInv, TimerLive, MissingIsSearched, getMissing
<1>4. ObserverInv
    BY DEF Init, ObserverInv, RefsUnique, Told
<1> QED BY <1>1, <1>2, <1>3, <1>4 DEF DirInv

(* startQueryTimer() leaves the timer running whatever is missing, ...     *)
LEMMA TimerStarted ==
    ASSUME TypeOK, TimerInv, NEW g \in Guids, startQueryTimer(g),
           \A x \in Guids : x # g => UNCHANGED <<observers[x], names[x]>>
    PROVE  /\ TimerInv'
           /\ active' \in [Guids -> BOOLEAN]
           /\ armed' \in [Guids -> BOOLEAN]
           /\ fired' \in [Guids -> BOOLEAN]
           /\ interval' \in [Guids -> QueryInterval..QueryIntervalMax]
BY DirectoryAssumption
   DEF TypeOK, TimerInv, TimerLive, MissingIsSearched, getMissing, startQueryTimer

(* ... and a step that leaves the timer alone may only make less missing.  *)
LEMMA TimerKept ==
    ASSUME TypeOK, TimerInv, UNCHANGED timerVars,
           \A x \in Guids \ Serving : getMissing(x)' \subseteq getMissing(x)
    PROVE  TimerInv'
BY DEF TimerInv, TimerLive, MissingIsSearched, timerVars

(* What a packet does to the store and the timer of the directory that     *)
(* handles it.                                                             *)
LEMMA HandleEventInv ==
    ASSUME DirInv, NEW g \in Guids, NEW m \in Messages, handleEvent(g, m),
           UNCHANGED <<status, posted>>, inbox' \in [Guids -> SUBSET Messages]
    PROVE  DirInv'
<1>1. CASE UNCHANGED <<storeVars, timerVars>>
    BY SMTT(60), <1>1 DEF DirInv, storeVars, timerVars, TypeOK, StoreInv, OwnTopicsAgree,
                NamesHaveOffers, ServersOnly, TimerInv, TimerLive, MissingIsSearched,
                getMissing, ObserverInv, RefsUnique, Told
<1>2. ASSUME NEW h \in Guids \ {g}, NEW t \in Topics, NEW a \in Addrs,
             storeAdd(g, t, h, a), UNCHANGED <<local, observers, timerVars>>
      PROVE  DirInv'
    <2>1. /\ StoreEffect(g)
          /\ names'[g] = names[g] \cup {t}
          /\ \A u \in Topics, x \in Guids :
                entry'[g][u][x] = IF u = t /\ x = h THEN a ELSE entry[g][u][x]
        BY SMTT(60), <1>2, StoreAddEffect DEF DirInv, StoreInv
    <2>2. TypeOK'
        BY <1>2, <2>1 DEF DirInv, TypeOK, StoreEffect, Row, timerVars
    <2>3. OwnTopicsAgree'
        BY SMTT(60), <1>2, <2>1 DEF DirInv, StoreInv, OwnTopicsAgree, StoreEffect
    <2>4. ServersOnly' /\ NamesHaveOffers'
        BY <1>2, <2>1 DEF DirInv, StoreInv, ServersOnly, StoreEffect
    <2>5. TimerInv'
        <3>1. \A x \in Guids : names[x] \subseteq names'[x]
            BY <2>1 DEF StoreEffect
        <3>2. \A x \in Guids : getMissing(x)' \subseteq getMissing(x)
            BY <1>2, <3>1 DEF getMissing
        <3> QED BY <1>2, <3>2, TimerKept DEF DirInv
    <2>6. ObserverInv'
        BY <1>2, <2>1, ToldByStore DEF DirInv
    <2> QED BY <2>2, <2>3, <2>4, <2>5, <2>6 DEF DirInv, StoreInv
<1>3. ASSUME NEW h \in Guids \ {g}, NEW ts \in SUBSET Topics,
             storeErase(g, h, ts), startQueryTimer(g), UNCHANGED <<local, observers>>
      PROVE  DirInv'
    <2>1. /\ StoreEffect(g)
          /\ \A u \in Topics, x \in Guids :
                entry'[g][u][x] = IF u \in ts /\ x = h THEN None ELSE entry[g][u][x]
        BY <1>3, StoreEraseEffect DEF DirInv, StoreInv
    <2>2. /\ TimerInv'
          /\ active' \in [Guids -> BOOLEAN]
          /\ armed' \in [Guids -> BOOLEAN]
          /\ fired' \in [Guids -> BOOLEAN]
          /\ interval' \in [Guids -> QueryInterval..QueryIntervalMax]
        BY <1>3, <2>1, TimerStarted DEF DirInv, StoreEffect
    <2>3. TypeOK'
        BY <1>3, <2>1, <2>2 DEF DirInv, TypeOK, StoreEffect, Row
    <2>4. OwnTopicsAgree'
        BY SMTT(60), <1>3, <2>1 DEF DirInv, StoreInv, OwnTopicsAgree, StoreEffect
    <2>5. ServersOnly' /\ NamesHaveOffers'
        BY <1>3, <2>1 DEF DirInv, StoreInv, ServersOnly, StoreEffect
    <2>6. ObserverInv'
        BY <1>3, <2>1, ToldByStore DEF DirInv
    <2> QED BY <2>2, <2>3, <2>4, <2>5, <2>6 DEF DirInv, StoreInv
<1>4. CASE m.guid = g
    BY <1>1, <1>4 DEF handleEvent
<1>5. CASE m.guid # g /\ m.type = "A" /\ discoveryAvailable(g, m)
    <2>1. CASE m.addr \in OffNetwork
        BY <1>1, <1>5, <2>1 DEF discoveryAvailable, storeVars
    <2>2. CASE m.addr \notin OffNetwork
        BY <1>2, <1>5, <2>2, MessageFields DEF discoveryAvailable
    <2> QED BY <2>1, <2>2
<1>6. CASE m.guid # g /\ m.type = "R" /\ discoveryRemove(g, m)
    BY <1>3, <1>6, MessageFields DEF discoveryRemove
<1>7. CASE m.guid # g /\ m.type = "X" /\ discoveryExit(g, m)
    BY <1>3, <1>7, MessageFields DEF discoveryExit
<1> QED BY <1>1, <1>4, <1>5, <1>6, <1>7 DEF handleEvent

(* Every step of every directory, and of the network, keeps the invariant. *)
LEMMA NextDirInv == DirInv /\ [Next]_vars => DirInv'
<1> SUFFICES ASSUME DirInv, [Next]_vars PROVE DirInv'
    OBVIOUS
<1> USE DEF DirInv
<1>1. ASSUME NEW g \in Guids, Construct(g) PROVE DirInv'
    <2>1. TypeOK' BY <1>1 DEF Construct, TypeOK, storeVars, timerVars
    <2>2. StoreInv'
        <3>1. UNCHANGED <<local, names, entry>>
            BY <1>1 DEF Construct, storeVars
        <3> QED BY <3>1, StoreKept
    <2>3. TimerInv'
        BY <1>1 DEF Construct, storeVars, timerVars, TimerInv, TimerLive, MissingIsSearched, getMissing
    <2>4. ObserverInv'
        <3>1. UNCHANGED <<observers, posted, seen, entry>>
            BY <1>1 DEF Construct, storeVars
        <3> QED BY <3>1, ObserverKept
    <2> QED BY <2>1, <2>2, <2>3, <2>4
<1>2. ASSUME NEW g \in Guids, Gone(g), inbox' \in [Guids -> SUBSET Messages] PROVE DirInv'
    <2>1. TypeOK' BY <1>2, DirectoryAssumption DEF Gone, TypeOK, NoEntries
    <2>2. StoreInv'
        BY <1>2 DEF Gone, TypeOK, NoEntries, StoreInv, OwnTopicsAgree, NamesHaveOffers, ServersOnly
    <2>3. TimerInv'
        BY <1>2 DEF Gone, TypeOK, TimerInv, TimerLive, MissingIsSearched, getMissing
    <2>4. \A x \in Guids : /\ observers'[x] = IF x = g THEN {} ELSE observers[x]
                           /\ posted'[x] = IF x = g THEN {} ELSE posted[x]
                           /\ x # g => entry'[x] = entry[x]
        BY <1>2 DEF Gone, TypeOK
    <2>5. ObserverInv'
        BY SMTT(60), <1>2, <2>4 DEF Gone, ObserverInv, RefsUnique, Told
    <2> QED BY <2>1, <2>2, <2>3, <2>5
<1>3. ASSUME NEW g \in Guids, Destruct(g) PROVE DirInv'
    <2>1. Exit(g) \in Messages BY DEF Messages
    <2>2. Multicast(inbox, g, {Exit(g)}) \in [Guids -> SUBSET Messages]
        BY ZenonT(30), <2>1, MulticastType DEF TypeOK
    <2> QED BY <1>2, <1>3, <2>2 DEF Destruct
<1>4. ASSUME NEW g \in Guids, Crash(g) PROVE DirInv'
    BY <1>2, <1>4 DEF Crash, TypeOK
<1>5. ASSUME NEW g \in Guids, NEW t \in Topics, NEW a \in Addrs, add(g, t, a) PROVE DirInv'
    <2>1. /\ StoreEffect(g)
          /\ names'[g] = names[g] \cup {t}
          /\ \A u \in Topics, x \in Guids :
                entry'[g][u][x] = IF u = t /\ x = g THEN a ELSE entry[g][u][x]
        BY <1>5, StoreAddEffect DEF add, StoreInv
    <2>2. inbox' \in [Guids -> SUBSET Messages]
        <3>1. Available(g, t, a) \in Messages BY DEF Messages
        <3> QED BY ZenonT(30), <1>5, <3>1, MulticastType DEF add, TypeOK
    <2>3. TypeOK' BY ZenonT(30), <1>5, <2>1, <2>2 DEF add, TypeOK, StoreEffect, Row, timerVars
    <2>4. \A x \in Guids, u \in Topics :
             local'[x][u] = IF x = g /\ u = t THEN a ELSE local[x][u]
        BY <1>5 DEF add, TypeOK
    <2>5. StoreInv'
        BY <1>5, <2>1, <2>4 DEF add, StoreInv, OwnTopicsAgree, ServersOnly, StoreEffect
    <2>6. TimerInv'
        <3>1. \A x \in Guids : names[x] \subseteq names'[x] BY ZenonT(30), <2>1 DEF StoreEffect
        <3>2. \A x \in Guids : getMissing(x)' \subseteq getMissing(x)
            BY <1>5, <3>1 DEF add, getMissing
        <3> QED BY <1>5, <3>2, TimerKept DEF add
    <2>7. ObserverInv' BY <1>5, <2>1, ToldByStore DEF add
    <2> QED BY <2>3, <2>5, <2>6, <2>7
<1>6. ASSUME NEW g \in Guids, NEW t \in Topics, remove(g, t) PROVE DirInv'
    <2>1. /\ StoreEffect(g)
          /\ \A u \in Topics, x \in Guids :
                entry'[g][u][x] = IF u = t /\ x = g THEN None ELSE entry[g][u][x]
        BY <1>6, StoreEraseEffect DEF remove, StoreInv
    <2>2. inbox' \in [Guids -> SUBSET Messages]
        <3>1. Remove(g, t) \in Messages BY DEF Messages
        <3> QED BY ZenonT(30), <1>6, <3>1, MulticastType DEF remove, TypeOK
    <2>3. TypeOK' BY ZenonT(30), <1>6, <2>1, <2>2 DEF remove, TypeOK, StoreEffect, Row, timerVars
    <2>4. \A x \in Guids, u \in Topics :
             local'[x][u] = IF x = g /\ u = t THEN None ELSE local[x][u]
        BY <1>6 DEF remove, TypeOK
    <2>5. StoreInv'
        BY <1>6, <2>1, <2>4 DEF remove, StoreInv, OwnTopicsAgree, ServersOnly, StoreEffect
    <2>6. TimerInv'
        <3>1. g \in Serving BY <1>6 DEF remove, StoreInv, ServersOnly
        <3>2. \A x \in Guids \ Serving : names'[x] = names[x] BY <2>1, <3>1 DEF StoreEffect
        <3>3. \A x \in Guids \ Serving : getMissing(x)' \subseteq getMissing(x)
            BY <1>6, <3>2 DEF remove, getMissing
        <3> QED BY <1>6, <3>3, TimerKept DEF remove
    <2>7. ObserverInv' BY <1>6, <2>1, ToldByStore DEF remove
    <2> QED BY <2>3, <2>5, <2>6, <2>7
<1>7. ASSUME NEW g \in Guids, NEW r \in Refs, NEW t \in Topics \cup {AllTopics}, observe(g, r, t)
      PROVE  DirInv'
    <2> DEFINE obs == [ref |-> r, topic |-> t]
    <2>0. obs \in Observer /\ obs.ref = r /\ obs.topic = t BY DEF Observer
    <2>1. \A x \in Guids : /\ observers'[x] = IF x = g THEN observers[x] \cup {obs} ELSE observers[x]
                           /\ posted'[x] = IF x = g THEN posted[x] \cup {obs} ELSE posted[x]
        BY ZenonT(30), <1>7 DEF observe, TypeOK
    <2>2. /\ TimerInv'
          /\ active' \in [Guids -> BOOLEAN]
          /\ armed' \in [Guids -> BOOLEAN]
          /\ fired' \in [Guids -> BOOLEAN]
          /\ interval' \in [Guids -> QueryInterval..QueryIntervalMax]
        BY <1>7, <2>1, TimerStarted DEF observe
    <2>3. TypeOK' BY ZenonT(30), <1>7, <2>0, <2>2 DEF observe, TypeOK, NoEntries
    <2>4. StoreInv'
        <3>1. UNCHANGED <<local, names, entry>>
            BY <1>7 DEF observe
        <3> QED BY <3>1, StoreKept
    <2>5. \A x \in Guids : \A y \in observers[x] \cup posted[x] : y.ref # r
        BY <1>7 DEF observe
    <2> HIDE DEF obs
    <2>6. RefsUnique'
        <3> SUFFICES ASSUME NEW x \in Guids, NEW y \in Guids,
                            NEW p \in observers'[x] \cup posted'[x],
                            NEW q \in observers'[y] \cup posted'[y], p.ref = q.ref
                     PROVE  x = y /\ p = q
            BY DEF RefsUnique
        <3>1. p \in observers[x] \cup posted[x] \/ (x = g /\ p = obs)
            BY ZenonT(30), <2>1
        <3>2. q \in observers[y] \cup posted[y] \/ (y = g /\ q = obs)
            BY ZenonT(30), <2>1
        <3> QED BY <2>0, <2>5, <3>1, <3>2 DEF ObserverInv, RefsUnique
    <2>7. \A q \in Refs : seen'[q] = IF q = r THEN NoEntries ELSE seen[q]
        BY <1>7 DEF observe, TypeOK
    <2>8. Told'
        <3> SUFFICES ASSUME NEW x \in Guids, NEW y \in observers'[x], y.topic # AllTopics
                     PROVE  \/ seen'[y.ref][y.topic] = entry[x][y.topic]
                            \/ y \in posted'[x] /\ seen'[y.ref][y.topic] = NoRow
            BY <1>7 DEF Told, NoRow, observe
        <3>0. y.ref \in Refs /\ y.topic \in Topics
            BY <2>3 DEF TypeOK, Observer
        <3>1. CASE x = g /\ y = obs
            <4>1. seen'[y.ref][y.topic] = NoRow
                BY <2>0, <2>7, <3>0, <3>1 DEF NoEntries, NoRow
            <4> QED BY ZenonT(30), <2>1, <3>1, <4>1
        <3>2. CASE ~(x = g /\ y = obs)
            <4>1. y \in observers[x] BY ZenonT(30), <2>1, <3>2
            <4>2. seen'[y.ref] = seen[y.ref] BY <2>5, <2>7, <3>0, <4>1
            <4>3. \/ seen[y.ref][y.topic] = entry[x][y.topic]
                  \/ y \in posted[x] /\ seen[y.ref][y.topic] = NoRow
                BY <4>1 DEF ObserverInv, Told
            <4> QED BY ZenonT(30), <2>1, <4>2, <4>3
        <3> QED BY <3>1, <3>2
    <2> QED BY <2>2, <2>3, <2>4, <2>6, <2>8 DEF ObserverInv
<1>8. ASSUME NEW g \in Guids, NEW o \in observers[g], unobserve(g, o) PROVE DirInv'
    <2>1. \A x \in Guids : observers'[x] = IF x = g THEN observers[x] \ {o} ELSE observers[x]
        BY ZenonT(30), <1>8 DEF unobserve, TypeOK
    <2>2. /\ TimerInv'
          /\ active' \in [Guids -> BOOLEAN]
          /\ armed' \in [Guids -> BOOLEAN]
          /\ fired' \in [Guids -> BOOLEAN]
          /\ interval' \in [Guids -> QueryInterval..QueryIntervalMax]
        BY <1>8, <2>1, TimerStarted DEF unobserve
    <2>3. TypeOK' BY ZenonT(30), <1>8, <2>2 DEF unobserve, TypeOK
    <2>4. StoreInv'
        <3>1. UNCHANGED <<local, names, entry>>
            BY <1>8 DEF unobserve
        <3> QED BY <3>1, StoreKept
    <2>5. /\ posted' = posted /\ seen' = seen /\ entry' = entry
          /\ \A x \in Guids : observers'[x] \subseteq observers[x]
        BY <1>8, <2>1 DEF unobserve
    <2>6. RefsUnique'
        BY SMTT(60), <2>5 DEF ObserverInv, RefsUnique
    <2>7. Told'
        BY <2>5 DEF ObserverInv, Told, NoRow
    <2> QED BY <2>2, <2>3, <2>4, <2>6, <2>7 DEF ObserverInv
<1>9. ASSUME NEW g \in Guids, NEW o \in posted[g], callImmediate(g, o) PROVE DirInv'
    <2>0. o \in Observer /\ o.ref \in Refs /\ o.topic \in Topics \cup {AllTopics}
        BY DEF TypeOK, Observer
    <2>1. names[g] \subseteq Topics /\ entry[g] \in [Topics -> Row] /\ AllTopics \notin Topics
        BY DirectoryAssumption DEF TypeOK, Row
    <2>2. seen' \in [Refs -> [Topics -> Row]]
        BY <1>9, <2>0, <2>1 DEF callImmediate, TypeOK, Row
    <2>3. TypeOK' BY <1>9, <2>2 DEF callImmediate, TypeOK, timerVars, Row
    <2>4. StoreInv'
        <3>1. UNCHANGED <<local, names, entry>>
            BY <1>9 DEF callImmediate
        <3> QED BY <3>1, StoreKept
    <2>5. TimerInv'
        BY <1>9 DEF callImmediate, timerVars, TimerInv, TimerLive, MissingIsSearched, getMissing
    <2>6. \A x \in Guids : posted'[x] = IF x = g THEN posted[x] \ {o} ELSE posted[x]
        BY ZenonT(30), <1>9 DEF callImmediate, TypeOK
    <2>7. RefsUnique' BY <1>9, <2>6 DEF callImmediate, ObserverInv, RefsUnique
    <2>8. \A r \in Refs, t \in Topics :
             seen'[r][t] = IF r = o.ref /\ t = o.topic /\ t \in names[g]
                             THEN entry[g][t] ELSE seen[r][t]
        BY <1>9, <2>0, <2>1 DEF callImmediate, TypeOK
    <2>9. Told'
        <3> SUFFICES ASSUME NEW x \in Guids, NEW y \in observers[x], y.topic # AllTopics
                     PROVE  \/ seen'[y.ref][y.topic] = entry[x][y.topic]
                            \/ y \in posted'[x] /\ seen'[y.ref][y.topic] = NoRow
            BY <1>9 DEF Told, NoRow, callImmediate
        <3>1. y.ref \in Refs /\ y.topic \in Topics
            BY DEF TypeOK, Observer
        <3>2. \/ seen[y.ref][y.topic] = entry[x][y.topic]
              \/ y \in posted[x] /\ seen[y.ref][y.topic] = NoRow
            BY ZenonT(30) DEF ObserverInv, Told
        <3>3. y.ref = o.ref => x = g /\ y = o
            BY DEF ObserverInv, RefsUnique
        <3>4. CASE y.ref # o.ref
            BY ZenonT(30), <2>6, <2>8, <3>1, <3>2, <3>4
        <3>5. CASE x = g /\ y = o /\ y.topic \in names[g]
            BY <2>8, <3>1, <3>5
        <3>6. CASE x = g /\ y = o /\ y.topic \notin names[g]
            <4>1. \A h \in Guids : entry[g][y.topic][h] = None
                BY <3>1, <3>6 DEF StoreInv, NamesHaveOffers
            <4>2. entry[g][y.topic] = NoRow
                BY <2>1, <3>1, <4>1 DEF Row, NoRow
            <4>3. seen'[y.ref][y.topic] = seen[y.ref][y.topic]
                BY <2>8, <3>1, <3>6
            <4> QED BY <3>2, <3>6, <4>2, <4>3
        <3> QED BY <3>3, <3>4, <3>5, <3>6
    <2> QED BY <2>3, <2>4, <2>5, <2>7, <2>9 DEF ObserverInv
<1>10. ASSUME NEW g \in Guids, TimerExpires(g) PROVE DirInv'
    <2>1. TypeOK' BY <1>10 DEF TimerExpires, TypeOK, storeVars
    <2>2. StoreInv'
        <3>1. UNCHANGED <<local, names, entry>>
            BY <1>10 DEF TimerExpires, storeVars
        <3> QED BY <3>1, StoreKept
    <2>3. TimerInv'
        BY <1>10 DEF TimerExpires, storeVars, TypeOK, TimerInv, TimerLive, MissingIsSearched, getMissing
    <2>4. ObserverInv'
        <3>1. UNCHANGED <<observers, posted, seen, entry>>
            BY <1>10 DEF TimerExpires, storeVars
        <3> QED BY <3>1, ObserverKept
    <2> QED BY <2>1, <2>2, <2>3, <2>4
<1>11. ASSUME NEW g \in Guids, queryMissingTopics(g) PROVE DirInv'
    <2>1. inbox' \in [Guids -> SUBSET Messages]
        <3>1. CASE getMissing(g) = {}
            BY <1>11, <3>1 DEF queryMissingTopics, TypeOK
        <3>2. CASE getMissing(g) # {}
            <4>1. PICK p \in SearchPackets(g, getMissing(g)) :
                     inbox' = Multicast(inbox, g, {Search(g, ts) : ts \in p})
                BY ZenonT(30), <1>11, <3>2 DEF queryMissingTopics
            <4>2. getMissing(g) \subseteq Topics \cup {AllTopics}
                BY DEF getMissing, TypeOK, Observer
            <4>3. {Search(g, ts) : ts \in p} \subseteq Messages
                BY <4>2 DEF SearchPackets, Messages
            <4> QED BY ZenonT(30), <4>1, <4>3, MulticastType DEF TypeOK
        <3> QED BY <3>1, <3>2
    <2>2. interval' \in [Guids -> QueryInterval..QueryIntervalMax]
        <3> DEFINE D == QueryInterval..QueryIntervalMax
        <3>1. \A i \in D : NextInterval(i) \in D
            BY DirectoryAssumption DEF NextInterval
        <3>2. interval \in [Guids -> D] BY DEF TypeOK
        <3> HIDE DEF D
        <3>3. \/ interval' = [interval EXCEPT ![g] = NextInterval(@)]
              \/ interval' = interval
            BY <1>11 DEF queryMissingTopics
        <3>4. interval' \in [Guids -> D] BY <3>1, <3>2, <3>3
        <3> QED BY <3>4 DEF D
    <2>3. TypeOK' BY ZenonT(30), <1>11, <2>1, <2>2 DEF queryMissingTopics, TypeOK, storeVars
    <2>4. StoreInv'
        <3>1. UNCHANGED <<local, names, entry>>
            BY <1>11 DEF queryMissingTopics, storeVars
        <3> QED BY <3>1, StoreKept
    <2>5. TimerInv'
        BY ZenonT(30), <1>11 DEF queryMissingTopics, storeVars, TypeOK, TimerInv, TimerLive, MissingIsSearched, getMissing
    <2>6. ObserverInv'
        <3>1. UNCHANGED <<observers, posted, seen, entry>>
            BY <1>11 DEF queryMissingTopics, storeVars
        <3> QED BY <3>1, ObserverKept
    <2> QED BY <2>3, <2>4, <2>5, <2>6
<1>12. ASSUME NEW g \in Guids, NEW m \in inbox[g], Receive(g, m) PROVE DirInv'
    <2>1. m \in Messages BY DEF TypeOK
    <2>2. m.type = "S" => discoverySearch(g, m) \subseteq Messages
        <3>1. local[g] \in [Topics -> Addrs \cup {None}] BY DEF TypeOK
        <3>2. \A t \in Topics : local[g][t] # None => local[g][t] \in Addrs BY <3>1
        <3>3. \A t \in Topics, a \in Addrs : Available(g, t, a) \in Messages
            BY DEF Messages
        <3> QED BY <3>2, <3>3 DEF discoverySearch
    <2>3. PICK dup \in {FALSE, Duplication} :
             inbox' = Multicast(IF dup THEN inbox ELSE [inbox EXCEPT ![g] = @ \ {m}], g,
                                IF m.type = "S" /\ m.guid # g THEN discoverySearch(g, m) ELSE {})
        BY ZenonT(30), <1>12 DEF Receive
    <2>4. (IF dup THEN inbox ELSE [inbox EXCEPT ![g] = @ \ {m}]) \in [Guids -> SUBSET Messages]
        BY DEF TypeOK
    <2>5. inbox' \in [Guids -> SUBSET Messages]
        BY ZenonT(30), <2>2, <2>3, <2>4, MulticastType
    <2> QED BY ZenonT(30), <1>12, <2>1, <2>5, HandleEventInv DEF Receive
<1>13. ASSUME NEW g \in Guids, NEW m \in inbox[g], Lose(g, m) PROVE DirInv'
    <2>1. TypeOK' BY <1>13 DEF Lose, TypeOK, storeVars, timerVars
    <2>2. StoreInv'
        <3>1. UNCHANGED <<local, names, entry>>
            BY <1>13 DEF Lose, storeVars
        <3> QED BY <3>1, StoreKept
    <2>3. TimerInv'
        BY ZenonT(30), <1>13 DEF Lose, storeVars, timerVars, TimerInv, TimerLive, MissingIsSearched, getMissing
    <2>4. ObserverInv'
        <3>1. UNCHANGED <<observers, posted, seen, entry>>
            BY <1>13 DEF Lose, storeVars
        <3> QED BY ZenonT(30), <3>1, ObserverKept
    <2> QED BY <2>1, <2>2, <2>3, <2>4
<1>14. CASE UNCHANGED vars
    <2>1. TypeOK' BY <1>14 DEF vars, TypeOK, storeVars, timerVars
    <2>2. StoreInv'
        <3>1. UNCHANGED <<local, names, entry>>
            BY <1>14 DEF vars, storeVars
        <3> QED BY <3>1, StoreKept
    <2>3. TimerInv'
        BY <1>14 DEF vars, storeVars, timerVars, TimerInv, TimerLive, MissingIsSearched, getMissing
    <2>4. ObserverInv'
        <3>1. UNCHANGED <<observers, posted, seen, entry>>
            BY <1>14 DEF vars, storeVars
        <3> QED BY <3>1, ObserverKept
    <2> QED BY <2>1, <2>2, <2>3, <2>4
<1> QED BY ZenonT(30), <1>1, <1>3, <1>4, <1>5, <1>6, <1>7, <1>8, <1>9, <1>10, <1>11, <1>12, <1>13, <1>14 DEF Next

-----------------------------------------------------------------------------
(* The invariant holds throughout every run. *)
THEOREM DirectoryInvariant == Spec => []DirInv
BY InitDirInv, NextDirInv, PTL DEF Spec

(* The members of every directory keep their types; in particular the      *)
(* search interval stays within its bounds.                                *)
THEOREM DirectoryTypeCorrect == Spec => []TypeOK
<1>1. DirInv => TypeOK BY DEF DirInv
<1> QED BY <1>1, DirectoryInvariant, PTL

(* No packet, its own included, changes what a directory says of the       *)
(* topics it serves itself.                                                *)
THEOREM DirectoryOwnTopicsAgree == Spec => []OwnTopicsAgree
<1>1. DirInv => OwnTopicsAgree BY DEF DirInv, StoreInv
<1> QED BY <1>1, DirectoryInvariant, PTL

(* A name is a key of network_topics_ exactly while somebody offers it.    *)
THEOREM DirectoryNamesHaveOffers == Spec => []NamesHaveOffers
<1>1. DirInv => NamesHaveOffers BY DEF DirInv, StoreInv
<1> QED BY <1>1, DirectoryInvariant, PTL

(* queryTimerActive_ never outlives the timer. *)
THEOREM DirectoryTimerLive == Spec => []TimerLive
<1>1. DirInv => TimerLive BY DEF DirInv, TimerInv
<1> QED BY <1>1, DirectoryInvariant, PTL

(* A node that opens no servers never stops searching for what it misses.  *)
THEOREM DirectoryMissingIsSearched == Spec => []MissingIsSearched
<1>1. DirInv => MissingIsSearched BY DEF DirInv, TimerInv
<1> QED BY <1>1, DirectoryInvariant, PTL

(* After its first call an observer of a topic always knows exactly what   *)
(* its directory knows, over any network and with any number of observers. *)
THEOREM DirectoryObserversInformed == Spec => []ObserversInformed
<1>1. DirInv => ObserversInformed
    BY DEF DirInv, ObserverInv, Told, ObserversInformed
<1> QED BY <1>1, DirectoryInvariant, PTL

(* Whatever a packet makes missing, it also makes searched for.            *)
LEMMA HandleEventSearches ==
    ASSUME DirInv, NEW g \in Guids, NEW m \in Messages, handleEvent(g, m), NEW x \in Guids
    PROVE  \/ getMissing(x)' \subseteq getMissing(x)
           \/ armed'[x] /\ interval'[x] = QueryInterval
<1>1. CASE UNCHANGED <<storeVars, timerVars>>
    BY <1>1 DEF storeVars, getMissing
<1>2. ASSUME NEW h \in Guids, NEW t \in Topics, NEW a \in Addrs,
             storeAdd(g, t, h, a), UNCHANGED observers
      PROVE  getMissing(x)' \subseteq getMissing(x)
    BY <1>2, StoreAddEffect DEF DirInv, StoreInv, StoreEffect, getMissing
<1>3. ASSUME NEW h \in Guids, NEW ts \in SUBSET Topics,
             storeErase(g, h, ts), startQueryTimer(g), UNCHANGED observers
      PROVE  \/ getMissing(x)' \subseteq getMissing(x)
             \/ armed'[x] /\ interval'[x] = QueryInterval
    <2>1. x # g => names'[x] = names[x]
        BY ZenonT(30), <1>3, StoreEraseEffect DEF DirInv, StoreInv, StoreEffect
    <2>2. CASE x # g
        BY ZenonT(30), <1>3, <2>1, <2>2 DEF getMissing
    <2>3. CASE x = g
        BY <1>3, <2>3 DEF startQueryTimer, DirInv, TypeOK
    <2> QED BY <2>2, <2>3
<1>4. CASE m.guid = g
    BY <1>1, <1>4 DEF handleEvent
<1>5. CASE m.type = "A" /\ discoveryAvailable(g, m)
    <2>1. CASE m.addr \in OffNetwork
        BY <1>1, <1>5, <2>1 DEF discoveryAvailable, storeVars
    <2>2. CASE m.addr \notin OffNetwork
        BY <1>2, <1>5, <2>2, MessageFields DEF discoveryAvailable
    <2> QED BY <2>1, <2>2
<1>6. CASE m.type = "R" /\ discoveryRemove(g, m)
    BY <1>3, <1>6, MessageFields DEF discoveryRemove
<1>7. CASE m.type = "X" /\ discoveryExit(g, m)
    BY <1>3, <1>7, MessageFields DEF discoveryExit
<1> QED BY <1>1, <1>4, <1>5, <1>6, <1>7 DEF handleEvent

(* Whenever a node that opens no servers comes to miss a topic, its search *)
(* starts again from the first interval.                                   *)
THEOREM DirectoryNewlyMissing == Spec => NewlyMissingSearchedAtOnce
<1> DEFINE A == \A g \in Guids \ Serving :
                   ~(getMissing(g)' \subseteq getMissing(g))
                       => armed'[g] /\ interval'[g] = QueryInterval
<1>1. DirInv /\ [Next]_vars => [A]_vars
    <2> SUFFICES ASSUME DirInv, Next, NEW x \in Guids \ Serving
                 PROVE  \/ getMissing(x)' \subseteq getMissing(x)
                        \/ armed'[x] /\ interval'[x] = QueryInterval
        OBVIOUS
    <2> USE DEF DirInv
    <2>1. CASE UNCHANGED <<observers, names>>
        BY <2>1 DEF getMissing
    <2>2. ASSUME NEW g \in Guids, Gone(g) PROVE getMissing(x)' \subseteq getMissing(x)
        BY <2>2 DEF Gone, TypeOK, getMissing
    <2>3. ASSUME NEW g \in Guids, NEW t \in Topics, NEW a \in Addrs, add(g, t, a)
          PROVE  getMissing(x)' \subseteq getMissing(x)
        <3>1. g # x BY <2>3 DEF add
        <3> QED BY <2>3, <3>1, StoreAddEffect DEF add, StoreInv, StoreEffect, getMissing
    <2>4. ASSUME NEW g \in Guids, NEW t \in Topics, remove(g, t)
          PROVE  getMissing(x)' \subseteq getMissing(x)
        <3>1. g # x BY <2>4 DEF remove, StoreInv, ServersOnly
        <3>2. StoreEffect(g) BY <2>4, StoreEraseEffect DEF remove, StoreInv
        <3> QED BY <2>4, <3>1, <3>2 DEF remove, StoreEffect, getMissing
    <2>5. ASSUME NEW g \in Guids, startQueryTimer(g), UNCHANGED names,
                 x # g => observers'[x] = observers[x]
          PROVE  \/ getMissing(x)' \subseteq getMissing(x)
                 \/ armed'[x] /\ interval'[x] = QueryInterval
        BY <2>5 DEF startQueryTimer, TypeOK, getMissing
    <2>6. ASSUME NEW g \in Guids, NEW m \in inbox[g], Receive(g, m)
          PROVE  \/ getMissing(x)' \subseteq getMissing(x)
                 \/ armed'[x] /\ interval'[x] = QueryInterval
        BY ZenonT(30), <2>6, HandleEventSearches DEF Receive, TypeOK
    <2>7. PICK g \in Guids :
             \/ Construct(g) \/ Destruct(g) \/ Crash(g)
             \/ \E t \in Topics, a \in Addrs : add(g, t, a)
             \/ \E t \in Topics : remove(g, t)
             \/ \E r \in Refs, t \in Topics \cup {AllTopics} : observe(g, r, t)
             \/ \E o \in observers[g] : unobserve(g, o)
             \/ \E o \in posted[g] : callImmediate(g, o)
             \/ TimerExpires(g) \/ queryMissingTopics(g)
             \/ \E m \in inbox[g] : Receive(g, m) \/ Lose(g, m)
        BY ZenonT(30) DEF Next
    <2>8. CASE Construct(g) \/ TimerExpires(g) \/ queryMissingTopics(g)
               \/ (\E m \in inbox[g] : Lose(g, m)) \/ (\E o \in posted[g] : callImmediate(g, o))
        BY ZenonT(30), <2>1, <2>8 DEF Construct, TimerExpires, queryMissingTopics, Lose, callImmediate, storeVars
    <2>9. CASE Destruct(g) \/ Crash(g)
        BY <2>2, <2>9 DEF Destruct, Crash
    <2>10. CASE \E r \in Refs, t \in Topics \cup {AllTopics} : observe(g, r, t)
        BY ZenonT(30), <2>5, <2>10 DEF observe, TypeOK
    <2>11. CASE \E o \in observers[g] : unobserve(g, o)
        BY ZenonT(30), <2>5, <2>11 DEF unobserve, TypeOK
    <2> QED BY ZenonT(30), <2>3, <2>4, <2>6, <2>7, <2>8, <2>9, <2>10, <2>11
<1>2. Spec => [][A]_vars
    BY <1>1, DirectoryInvariant, PTL DEF Spec
<1> QED BY <1>2 DEF NewlyMissingSearchedAtOnce
=============================================================================
