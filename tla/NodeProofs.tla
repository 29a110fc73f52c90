---------------------------- MODULE NodeProofs -----------------------------
(***************************************************************************)
(* Proofs about what runs on the event loop of a node: the two kinds of    *)
(* clients of a topic, Client, for any number of nodes and addresses, and  *)
(* RequestClient with ReplyServer, for any number of requests and server   *)
(* incarnations; and NodeTimers, for any intervals, timeout and bounds.    *)
(***************************************************************************)
EXTENDS NodeTimers, Client, RequestClient, SequenceLemmas, TLAPS

(* The inductive invariant: the properties, and no connection before the   *)
(* client observes.                                                        *)
ClientInv ==
    /\ ClientTypeOK
    /\ OffersAreConnected
    /\ StaleAreDisconnected
    /\ phase = "new" => addresses = {}

(* No offers, no client. *)
LEMMA InitClientInv == ClientInit => ClientInv
BY ZenonT(30) DEF ClientInit, ClientInv, ClientTypeOK, OffersAreConnected, StaleAreDisconnected

(* When one node's offer changes, the only address that may no longer be   *)
(* offered is the one that this node offered before.                       *)
LEMMA OneOfferChanges ==
    ASSUME NEW os, NEW g \in Guids, NEW a, NEW x \in Offered(os),
           os \in [Guids -> Addrs \cup {NoAddr}],
           x \notin Offered([os EXCEPT ![g] = a])
    PROVE  x = os[g]
<1>1. PICK h \in Guids : x = os[h]
    BY DEF Offered
<1>2. CASE h # g
    <2>1. [os EXCEPT ![g] = a][h] = x
        BY <1>1, <1>2
    <2> QED BY <2>1 DEF Offered
<1> QED BY <1>1, <1>2

(* The handler keeps the invariant when at most one address is stale.      *)
LEMMA ClientHandlerInv ==
    ASSUME ClientTypeOK, NEW os \in [Guids -> Addrs \cup {NoAddr}], NEW old,
           clientOnDirectoryTopicsChanged(os),
           \A x \in addresses \ Offered(os) : x = old
    PROVE  /\ addresses' = Offered(os)
           /\ phase' \in {phase, "crashed"}
           /\ Offered(os) \subseteq Addrs
<1>1. Offered(os) \subseteq Addrs
    BY DEF Offered
<1> HIDE DEF Offered
<1> DEFINE connected == addresses \cup Offered(os)
           stale == connected \ Offered(os)
<1>2. \A x \in stale : x = old
    OBVIOUS
<1>3. CASE stale = {} /\ addresses' = connected /\ UNCHANGED phase
    BY <1>1, <1>3
<1>4. CASE /\ \E erased \in (SUBSET stale) \ {{}} : addresses' = connected \ erased
           /\ phase' \in {phase, "crashed"}
    <2>1. PICK erased \in (SUBSET stale) \ {{}} : addresses' = connected \ erased
        BY <1>4
    <2>2. PICK y \in erased : TRUE
        BY <2>1
    <2>3. y = old /\ erased \subseteq stale
        BY <1>2, <2>1, <2>2
    <2>4. erased = stale
        <3> HIDE DEF stale
        <3> QED BY <1>2, <2>2, <2>3
    <2> QED BY <1>1, <1>4, <2>1, <2>4
<1> QED BY <1>3, <1>4 DEF clientOnDirectoryTopicsChanged

(* Every step keeps the invariant, and no address that is still offered    *)
(* loses its connection.                                                   *)
LEMMA NextClientInv ==
    ASSUME ClientInv, [ClientNext]_clientVars
    PROVE  /\ ClientInv'
           /\ phase' = "observing" => addresses \cap Offered(offers') \subseteq addresses'
<1> USE DEF ClientInv, ClientTypeOK
<1> USE DEF OffersAreConnected, StaleAreDisconnected
<1>1. CASE Construct
    BY <1>1 DEF Construct
<1>2. CASE PostedCall
    <2>1. CASE Offered(offers) # {}
        <3>1. clientOnDirectoryTopicsChanged(offers) /\ \A x \in addresses \ Offered(offers) : x = NoAddr
            BY <1>2, <2>1 DEF PostedCall
        <3>2. /\ addresses' = Offered(offers)
              /\ phase' \in {phase, "crashed"}
              /\ Offered(offers) \subseteq Addrs
            BY <3>1, ClientHandlerInv
        <3> QED BY ZenonT(30), <1>2, <3>2 DEF PostedCall
    <2>2. CASE Offered(offers) = {}
        BY ZenonT(30), <1>2, <2>2 DEF PostedCall
    <2> QED BY <2>1, <2>2
<1>3. CASE ClientDestruct
    BY ZenonT(30), <1>3 DEF ClientDestruct
<1>4. ASSUME NEW g \in Guids, NEW a \in Addrs \cup {NoAddr}, DirectoryChange(g, a)
      PROVE  /\ ClientInv'
             /\ phase' = "observing" => addresses \cap Offered(offers') \subseteq addresses'
    <2>0. offers' = [offers EXCEPT ![g] = a] /\ offers' \in [Guids -> Addrs \cup {NoAddr}]
        BY <1>4 DEF DirectoryChange
    <2>1. CASE phase = "observing"
        <3>1. \A x \in addresses \ Offered(offers') : x = offers[g]
            BY ZenonT(30), <2>0, <2>1, OneOfferChanges
        <3>2. clientOnDirectoryTopicsChanged(offers')
            BY <1>4, <2>1 DEF DirectoryChange
        <3>3. /\ addresses' = Offered(offers')
              /\ phase' \in {phase, "crashed"}
              /\ Offered(offers') \subseteq Addrs
            BY ZenonT(30), <2>0, <3>1, <3>2, ClientHandlerInv
        <3> QED BY ZenonT(30), <1>4, <2>0, <2>1, <3>3 DEF DirectoryChange
    <2>2. CASE phase # "observing"
        BY <1>4, <2>0, <2>2 DEF DirectoryChange
    <2> QED BY <2>1, <2>2
<1>5. CASE UNCHANGED clientVars
    BY <1>5 DEF clientVars
<1> QED BY <1>1, <1>2, <1>3, <1>4, <1>5 DEF ClientNext

(* The invariant holds throughout. *)
THEOREM ClientInvariant == ClientSpec => []ClientInv
<1> QED BY InitClientInv, NextClientInv, PTL DEF ClientSpec

(* Every variable of the client keeps its type. *)
THEOREM ClientTypeCorrect == ClientSpec => []ClientTypeOK
<1>1. ClientInv => ClientTypeOK BY DEF ClientInv
<1> QED BY <1>1, ClientInvariant, PTL

(* onDirectoryTopicsChanged(): the client is connected to every address    *)
(* that the directory knows for its topic.                                 *)
THEOREM ClientOffersAreConnected == ClientSpec => []OffersAreConnected
<1>1. ClientInv => OffersAreConnected BY DEF ClientInv
<1> QED BY <1>1, ClientInvariant, PTL

(* onDirectoryTopicsChanged(): in spite of its loop over a set that it     *)
(* changes, a client that survives is connected to no other address.       *)
THEOREM ClientStaleAreDisconnected == ClientSpec => []StaleAreDisconnected
<1>1. ClientInv => StaleAreDisconnected BY DEF ClientInv
<1> QED BY <1>1, ClientInvariant, PTL

(* disconnect() is never called for an address that is still offered.      *)
THEOREM ClientOfferedStaysConnected == ClientSpec => OfferedStaysConnected
<1>1. ClientInv /\ [ClientNext]_clientVars =>
         [phase' = "observing" => addresses \cap Offered(offers') \subseteq addresses']_clientVars
    BY NextClientInv
<1> QED BY <1>1, ClientInvariant, PTL DEF ClientSpec, OfferedStaysConnected

-----------------------------------------------------------------------------
(* A server that owes a reply is up, with room for the receive it will stage. *)
StagedHasRoom ==
    \A s \in Servers : serving[s] # None => life[s] = "up" /\ staged[s] < MaxStaged

(* With a polite user the handler is that of the request that waits. *)
HandlerIsOfSent == Polite /\ sent # None => handler = sent

ServerInv == ServerTypeOK /\ ServerListens /\ StagedHasRoom

(* The inductive invariant. *)
RequestInv ==
    /\ RequestTypeOK
    /\ ServerInv
    /\ NextRequestCanBeSent
    /\ HandlerIsOfSent
    /\ Polite => RepliesReachTheirRequest

(* No servers, no requests. *)
LEMMA InitRequestInv == RequestInit => RequestInv
<1> SUFFICES ASSUME RequestInit PROVE RequestInv
    OBVIOUS
<1>1. ServerInv
    <2>1. 0 \in 0..MaxStaged BY ServerAssumption
    <2> QED BY <2>1 DEF RequestInit, ServerInit, ServerInv, ServerTypeOK, ServerListens, StagedHasRoom
<1>2. RequestTypeOK
    <2>1. ServerTypeOK BY <1>1 DEF ServerInv
    <2>2. known \in Seq(Servers) BY DEF RequestInit
    <2>3. answered \in [Requests -> SUBSET Requests] BY DEF RequestInit
    <2> QED BY ZenonT(30), <2>1, <2>2, <2>3 DEF RequestInit, RequestTypeOK
<1>3. NextRequestCanBeSent /\ HandlerIsOfSent /\ RepliesReachTheirRequest
    BY DEF RequestInit, NextRequestCanBeSent, HandlerIsOfSent, RepliesReachTheirRequest
<1> QED BY <1>1, <1>2, <1>3 DEF RequestInv

(* Staging or consuming a receive at one server. *)
LEMMA StagedType ==
    ASSUME staged \in [Servers -> 0..MaxStaged], NEW s \in Servers, NEW n \in 0..MaxStaged,
           staged' = [staged EXCEPT ![s] = n]
    PROVE  /\ staged' \in [Servers -> 0..MaxStaged]
           /\ \A x \in Servers : staged'[x] = IF x = s THEN n ELSE staged[x]
<1> DEFINE D == 0..MaxStaged
<1>1. staged \in [Servers -> D] /\ n \in D OBVIOUS
<1> HIDE DEF D
<1>2. /\ staged' \in [Servers -> D]
      /\ \A x \in Servers : staged'[x] = IF x = s THEN n ELSE staged[x]
    BY <1>1
<1> QED BY <1>2 DEF D

(* A server keeps its invariant, whatever its handlers do. *)
LEMMA ServerNextInv == ServerInv /\ ServerNext => ServerInv'
<1> SUFFICES ASSUME ServerInv, NEW s \in Servers,
                    \/ ServerStart(s) \/ ServerStop(s) \/ RepliesLater(s) \/ onReceiveError(s)
                    \/ \E k \in queue[s] :
                          \/ onRequestReplies(s, k) \/ onRequestKeeps(s, k)
                          \/ onRequestThrows(s, k) \/ onRequestRepliesThrows(s, k)
             PROVE  ServerInv'
    BY DEF ServerNext
<1>0. /\ staged \in [Servers -> 0..MaxStaged] /\ staged[s] \in Nat /\ staged[s] <= MaxStaged
      /\ MaxStaged \in Nat /\ MaxStaged > 0
    BY ServerAssumption DEF ServerInv, ServerTypeOK
<1>1. ASSUME NEW n \in 0..MaxStaged,
             staged' = [staged EXCEPT ![s] = n],
             life' \in [Servers -> {"new", "up", "gone"}],
             queue' \in [Servers -> SUBSET Requests],
             serving' \in [Servers -> Requests \cup {None}],
             answers' \in SUBSET Requests,
             failed' \in SUBSET Servers, failed \subseteq failed',
             \A x \in Servers : x # s => life'[x] = life[x] /\ serving'[x] = serving[x],
             life'[s] = "up" /\ serving'[s] = None /\ s \notin failed' => n > 0,
             serving'[s] # None => life'[s] = "up" /\ n < MaxStaged
      PROVE  ServerInv'
    <2>1. /\ staged' \in [Servers -> 0..MaxStaged]
          /\ \A x \in Servers : staged'[x] = IF x = s THEN n ELSE staged[x]
        BY <1>0, <1>1, StagedType
    <2> QED BY <1>1, <2>1 DEF ServerInv, ServerTypeOK, ServerListens, StagedHasRoom
<1> USE DEF ServerInv, ServerTypeOK
<1>2. CASE ServerStart(s)
    <2>1. serving[s] = None /\ 1 \in 0..MaxStaged
        BY <1>0, <1>2 DEF ServerStart, StagedHasRoom
    <2>2. /\ life' \in [Servers -> {"new", "up", "gone"}]
          /\ \A x \in Servers : x # s => life'[x] = life[x]
        BY <1>2 DEF ServerStart
    <2>3. /\ queue' \in [Servers -> SUBSET Requests]
          /\ serving' \in [Servers -> Requests \cup {None}] /\ serving' = serving
          /\ answers' \in SUBSET Requests
          /\ failed' \in SUBSET Servers /\ failed' = failed
          /\ staged' = [staged EXCEPT ![s] = 1]
        BY <1>2 DEF ServerStart
    <2>4. PICK n \in 0..MaxStaged : n = 1 /\ n > 0
        BY <2>1
    <2>5. staged' = [staged EXCEPT ![s] = n] /\ n > 0
        BY <2>3, <2>4
    <2> HIDE DEF ServerInv, ServerTypeOK
    <2> QED BY ZenonT(30), <1>1, <2>1, <2>2, <2>3, <2>5
<1>3. CASE ServerStop(s)
    <2>1. 0 \in 0..MaxStaged BY <1>0
    <2>2. /\ life' \in [Servers -> {"new", "up", "gone"}]
          /\ life'[s] = "gone"
          /\ \A x \in Servers : x # s => life'[x] = life[x]
        BY <1>3 DEF ServerStop
    <2>3. /\ serving' \in [Servers -> Requests \cup {None}]
          /\ serving'[s] = None
          /\ \A x \in Servers : x # s => serving'[x] = serving[x]
        BY <1>3 DEF ServerStop
    <2>4. queue' \in [Servers -> SUBSET Requests]
        BY <1>3 DEF ServerStop
    <2> QED BY ZenonT(30), <1>1, <1>3, <2>1, <2>2, <2>3, <2>4 DEF ServerStop
<1>4. CASE RepliesLater(s)
    <2>1. staged[s] - 0 + 1 \in 0..MaxStaged /\ staged[s] - 0 + 1 > 0
        BY <1>0, <1>4 DEF RepliesLater, StagedHasRoom
    <2> QED BY ZenonT(30), <1>1, <1>4, <2>1, ServerAssumption DEF RepliesLater, sendReply
<1>5. ASSUME NEW k \in queue[s], onRequestReplies(s, k) \/ onRequestThrows(s, k)
      PROVE  ServerInv'
    <2>1. staged[s] - 1 + 1 \in 0..MaxStaged /\ staged[s] - 1 + 1 > 0
        BY <1>0, <1>5 DEF onRequestReplies, onRequestThrows, Delivered
    <2> QED BY <1>1, <1>5, <2>1 DEF onRequestReplies, onRequestThrows, Delivered, sendReply
<1>6. ASSUME NEW k \in queue[s], onRequestKeeps(s, k) PROVE ServerInv'
    <2>1. staged[s] - 1 \in 0..MaxStaged /\ staged[s] - 1 < MaxStaged /\ k # None
        BY <1>0, <1>6, ServerAssumption DEF onRequestKeeps, Delivered
    <2> QED BY ZenonT(30), <1>1, <1>6, <2>1 DEF onRequestKeeps, Delivered
<1>7. ASSUME NEW k \in queue[s], onRequestRepliesThrows(s, k) PROVE ServerInv'
    <2>1. staged[s] + 1 \in 0..MaxStaged /\ staged[s] + 1 > 0
        BY <1>0, <1>7 DEF onRequestRepliesThrows
    <2> QED BY ZenonT(30), <1>1, <1>7, <2>1 DEF onRequestRepliesThrows, Delivered
<1>8. CASE onReceiveError(s)
    <2>1. staged[s] - 1 \in 0..MaxStaged /\ staged[s] - 1 < MaxStaged
        BY <1>0, <1>8 DEF onReceiveError
    <2>2. failed' \in SUBSET Servers /\ failed \subseteq failed' /\ s \in failed'
        BY <1>8 DEF onReceiveError
    <2>3. serving[s] # None => life[s] = "up"
        BY DEF StagedHasRoom
    <2> QED BY ZenonT(30), <1>1, <1>8, <2>1, <2>2, <2>3 DEF onReceiveError
<1> QED BY <1>2, <1>3, <1>4, <1>5, <1>6, <1>7, <1>8

(* The directory's map stays a sequence of servers. *)
LEMMA KnownType ==
    ASSUME known \in Seq(Servers)
    PROVE  /\ \A s \in Servers : Append(known, s) \in Seq(Servers)
           /\ \A i \in 1..Len(known) : Without(i) \in Seq(Servers)
<1>1. \A s \in Servers : Append(known, s) \in Seq(Servers) OBVIOUS
<1>2. ASSUME NEW i \in 1..Len(known) PROVE Without(i) \in Seq(Servers)
    <2>1. SubSeq(known, 1, i - 1) \in Seq(Servers) OBVIOUS
    <2>2. SubSeq(known, i + 1, Len(known)) \in Seq(Servers) OBVIOUS
    <2> QED BY <2>1, <2>2 DEF Without
<1> QED BY <1>1, <1>2
(* Every step keeps the invariant.  The steps of the servers leave the     *)
(* client alone, and the client's own leave the servers' invariant alone.  *)
LEMMA NextRequestInv == RequestInv /\ [RequestStep]_requestVars => RequestInv'
<1> SUFFICES ASSUME RequestInv, [RequestStep]_requestVars PROVE RequestInv'
    OBVIOUS
<1>0. RequestTypeOK /\ ServerInv /\ NextRequestCanBeSent /\ HandlerIsOfSent
    BY DEF RequestInv
<1>1. ASSUME ServerInv', known' \in Seq(Servers), socket' \in Servers \cup {None},
             {sent', handler', timer', expired'} \subseteq Requests \cup {None},
             receiving' \in BOOLEAN, waiting' \in BOOLEAN, requested' \in Nat,
             answered' \in [Requests -> SUBSET Requests], timedOut' \subseteq Requests,
             NextRequestCanBeSent', HandlerIsOfSent', Polite => RepliesReachTheirRequest'
      PROVE  RequestInv'
    BY <1>1 DEF RequestInv, RequestTypeOK, ServerInv
<1>2. ASSUME UNCHANGED <<life, serving, staged, failed>>,
             queue' \in [Servers -> SUBSET Requests], answers' \in SUBSET Requests
      PROVE  ServerInv'
    BY <1>0, <1>2 DEF ServerInv, ServerTypeOK, ServerListens, StagedHasRoom
<1>3. ASSUME answered' = answered PROVE Polite => RepliesReachTheirRequest'
    BY <1>3 DEF RequestInv, RepliesReachTheirRequest
<1>4. CASE /\ ServerNext
           /\ UNCHANGED <<linkVars, sent, receiving, waiting, handler, timer, expired, callVars>>
    <2>1. ServerInv' BY <1>0, <1>4, ServerNextInv
    <2> QED BY <1>0, <1>1, <1>3, <1>4, <2>1
            DEF RequestTypeOK, linkVars, callVars, NextRequestCanBeSent, HandlerIsOfSent
<1>5. ASSUME NEW k \in Requests, requestRefused(k) PROVE RequestInv'
    <2>1. ServerInv'
        BY <1>0, <1>2, <1>5 DEF requestRefused, Call, RequestTypeOK, ServerTypeOK
    <2>2. NextRequestCanBeSent' /\ HandlerIsOfSent'
        BY <1>0, <1>5 DEF requestRefused, Call, NextRequestCanBeSent, HandlerIsOfSent
    <2>3. requested' \in Nat
        BY <1>5, ServerAssumption DEF requestRefused, Call
    <2> QED BY <1>0, <1>1, <1>3, <1>5, <2>1, <2>2, <2>3
            DEF requestRefused, Call, RequestTypeOK, linkVars
<1>6. ASSUME NEW k \in Requests, NEW timed \in BOOLEAN, requestSent(k, timed)
      PROVE  RequestInv'
    <2>1. queue' \in [Servers -> SUBSET Requests]
        BY <1>0, <1>6 DEF requestSent, RequestTypeOK, ServerTypeOK
    <2>2. ServerInv'
        BY <1>0, <1>2, <1>6, <2>1 DEF requestSent, Call, RequestTypeOK, ServerTypeOK
    <2>3. NextRequestCanBeSent' /\ HandlerIsOfSent'
        BY <1>6 DEF requestSent, Call, NextRequestCanBeSent, HandlerIsOfSent
    <2>4. requested' \in Nat
        BY <1>6, ServerAssumption DEF requestSent, Call
    <2> QED BY <1>0, <1>1, <1>3, <1>6, <2>2, <2>3, <2>4
            DEF requestSent, Call, RequestTypeOK, linkVars
<1>7. ASSUME NEW k \in answers, sendReplyToHandler(k) PROVE RequestInv'
    <2>0. k \in Requests /\ k # None /\ None \notin Requests
        BY <1>0, ServerAssumption DEF RequestTypeOK, ServerTypeOK
    <2>1. ServerInv'
        BY <1>0, <1>2, <1>7 DEF sendReplyToHandler, RequestTypeOK, ServerTypeOK
    <2>2. CASE sent = k /\ receiving
        <3>1. answered' = [answered EXCEPT ![handler] = @ \cup {k}]
            BY <1>7, <2>2 DEF sendReplyToHandler
        <3>2. answered' \in [Requests -> SUBSET Requests]
            BY ZenonT(30), <1>0, <2>0, <3>1 DEF RequestTypeOK
        <3>3. ASSUME Polite PROVE RepliesReachTheirRequest'
            <4>1. handler = k /\ RepliesReachTheirRequest
                BY <1>0, <2>0, <2>2, <3>3 DEF HandlerIsOfSent, RequestInv
            <4> QED BY <1>0, <2>0, <3>1, <4>1 DEF RepliesReachTheirRequest, RequestTypeOK
        <3>4. NextRequestCanBeSent' /\ HandlerIsOfSent'
            BY <1>7, <2>2 DEF sendReplyToHandler, NextRequestCanBeSent, HandlerIsOfSent
        <3> QED BY ZenonT(30), <1>0, <1>1, <1>7, <2>1, <2>2, <3>2, <3>3, <3>4
                DEF sendReplyToHandler, RequestTypeOK, linkVars
    <2>3. CASE ~(sent = k /\ receiving)
        BY <1>0, <1>1, <1>3, <1>7, <2>1, <2>3
        DEF sendReplyToHandler, RequestTypeOK, linkVars, NextRequestCanBeSent, HandlerIsOfSent
    <2> QED BY <2>2, <2>3
<1>8. CASE TimeoutExpires
    <2>1. ServerInv'
        BY <1>0, <1>2, <1>8 DEF TimeoutExpires, serverVars, RequestTypeOK, ServerTypeOK
    <2> QED BY <1>0, <1>1, <1>3, <1>8, <2>1
            DEF TimeoutExpires, RequestTypeOK, linkVars, callVars, NextRequestCanBeSent, HandlerIsOfSent
<1>9. CASE onTimeout
    <2>1. ServerInv'
        BY <1>0, <1>2, <1>9 DEF onTimeout, serverVars, RequestTypeOK, ServerTypeOK
    <2>2. timedOut' \subseteq Requests
        BY <1>0, <1>9 DEF onTimeout, RequestTypeOK
    <2> QED BY ZenonT(30), <1>0, <1>1, <1>3, <1>9, <2>1, <2>2
            DEF onTimeout, RequestTypeOK, linkVars, NextRequestCanBeSent, HandlerIsOfSent
<1>10. ASSUME NEW ss \in Seq(Servers), onDirectoryTopicsChanged(ss) PROVE RequestInv'
    <2>1. ServerInv'
        BY <1>0, <1>2, <1>10 DEF onDirectoryTopicsChanged, serverVars, RequestTypeOK, ServerTypeOK
    <2>2. ss # <<>> => Newest(ss) \in Servers
        BY DEF Newest
    <2>3. /\ socket' \in Servers \cup {None} /\ sent' \in {sent, None}
          /\ receiving' \in BOOLEAN
        BY ZenonT(30), <1>0, <1>10, <2>2 DEF onDirectoryTopicsChanged, RequestTypeOK
    <2> HIDE DEF Newest
    <2>4. NextRequestCanBeSent' /\ HandlerIsOfSent'
        BY <1>0, <1>10, <2>3
        DEF onDirectoryTopicsChanged, callVars, NextRequestCanBeSent, HandlerIsOfSent
    <2> QED BY <1>0, <1>1, <1>3, <1>10, <2>1, <2>3, <2>4
            DEF onDirectoryTopicsChanged, RequestTypeOK, callVars
<1>11. CASE UNCHANGED requestVars
    <2>1. ServerInv'
        BY <1>0, <1>2, <1>11 DEF requestVars, serverVars, RequestTypeOK, ServerTypeOK
    <2> QED BY <1>0, <1>1, <1>3, <1>11, <2>1
            DEF requestVars, RequestTypeOK, linkVars, callVars, NextRequestCanBeSent, HandlerIsOfSent
<1>12. known \in Seq(Servers)
    BY <1>0 DEF RequestTypeOK
<1>13. CASE onReplyError
    <2>1. ServerInv'
        BY <1>0, <1>2, <1>13 DEF onReplyError, serverVars, RequestTypeOK, ServerTypeOK
    <2> QED BY ZenonT(30), <1>0, <1>1, <1>3, <1>13, <2>1
            DEF onReplyError, RequestTypeOK, linkVars, callVars, NextRequestCanBeSent, HandlerIsOfSent
<1> QED BY ZenonT(30), <1>4, <1>5, <1>6, <1>7, <1>8, <1>9, <1>10, <1>11, <1>12, <1>13, KnownType
        DEF RequestStep, RequestNext

(* The invariant holds throughout. *)
THEOREM RequestInvariant == RequestSpec => []RequestInv
<1> QED BY InitRequestInv, NextRequestInv, PTL DEF RequestSpec

(* Every variable of the client and its servers keeps its type; the staged *)
(* receives stay within their bound.                                       *)
THEOREM RequestTypeCorrect == RequestSpec => []RequestTypeOK
<1>1. RequestInv => RequestTypeOK BY DEF RequestInv
<1> QED BY <1>1, RequestInvariant, PTL

(* onRequest() and sendReply(): a live server that owes no reply, and      *)
(* whose receives have not failed, always has a receive staged, whatever   *)
(* its handlers do.                                                        *)
THEOREM ServersListen == RequestSpec => []ServerListens
<1>1. RequestInv => ServerListens BY DEF RequestInv, ServerInv
<1> QED BY <1>1, RequestInvariant, PTL

(* request(), cleanupRequest(), reconnect(): when waiting_for_receive_ is  *)
(* clear, the REQ socket awaits no reply and accepts the next request.     *)
THEOREM RequestNextCanBeSent == RequestSpec => []NextRequestCanBeSent
<1>1. RequestInv => NextRequestCanBeSent BY DEF RequestInv
<1> QED BY <1>1, RequestInvariant, PTL

(* With a user that waits for each request to end, sendReplyToHandler()    *)
(* gives every reply to the handler of the request it answers.             *)
THEOREM RequestRepliesReachTheirs == Polite => (RequestSpec => []RepliesReachTheirRequest)
<1> SUFFICES ASSUME Polite PROVE RequestSpec => []RepliesReachTheirRequest
    OBVIOUS
<1>1. RequestInv => RepliesReachTheirRequest BY DEF RequestInv
<1> QED BY <1>1, RequestInvariant, PTL

-----------------------------------------------------------------------------
Repeaters ==
    [running : BOOLEAN, interval : Intervals, waiting : BOOLEAN, left : Int, threw : BOOLEAN]

(* Whatever a user calls, a repeater that runs has a wait pending, or it   *)
(* ran already and nothing was done.                                       *)
LEMMA CallsArm ==
    ASSUME NEW r \in Repeaters, NEW s \in UserCalls(r)
    PROVE  /\ s \in Repeaters
           /\ s.running /\ ~s.threw => s.waiting \/ s = r
<1>0. Intervals \subseteq Int
    BY RepeaterAssumption
<1>1. ASSUME NEW q \in Repeaters
      PROVE  /\ startTimer(q) \in Repeaters
             /\ startTimer(q).waiting \/ startTimer(q) = q
             /\ ~q.running => startTimer(q).waiting
    <2>1. CASE q.running
        BY <2>1 DEF startTimer
    <2>2. CASE ~q.running
        <3>1. startTimer(q) = [q EXCEPT !.left = q.interval, !.waiting = TRUE, !.running = TRUE]
            BY <2>2 DEF startTimer
        <3>2. q.interval \in Int
            BY ZenonT(30), <1>0 DEF Repeaters
        <3> QED BY ZenonT(30), <3>1, <3>2 DEF Repeaters
    <2> QED BY <2>1, <2>2
<1>2. ASSUME NEW q \in Repeaters
      PROVE  stopTimer(q) \in Repeaters /\ ~stopTimer(q).running
    BY ZenonT(30) DEF stopTimer, Repeaters
<1>3. startTimer(stopTimer(r)) \in Repeaters
         /\ (startTimer(stopTimer(r)).running => startTimer(stopTimer(r)).waiting)
    <2> DEFINE q == stopTimer(r)
    <2>1. q \in Repeaters /\ ~q.running
        BY <1>2
    <2> HIDE DEF q
    <2>2. startTimer(q) \in Repeaters /\ startTimer(q).waiting
        BY <1>1, <2>1
    <2> QED BY <2>2 DEF q
<1>4. ASSUME NEW i \in Intervals
      PROVE  /\ setInterval(r, i) \in Repeaters
             /\ setInterval(r, i).running => setInterval(r, i).waiting
    <2> DEFINE p == [r EXCEPT !.interval = i]
               q == stopTimer(p)
    <2>1. p \in Repeaters /\ p.running = r.running
        BY DEF Repeaters
    <2>2. q \in Repeaters /\ ~q.running
        <3> HIDE DEF p
        <3> QED BY <1>2, <2>1
    <2>3. startTimer(q) \in Repeaters /\ startTimer(q).waiting
        <3> HIDE DEF q
        <3> QED BY <1>1, <2>2
    <2>4. setInterval(r, i) = IF r.running THEN startTimer(q) ELSE p
        BY DEF setInterval
    <2> HIDE DEF p, q
    <2> QED BY <2>1, <2>3, <2>4 DEF Repeaters
<1>5. \/ s = startTimer(r) \/ s = stopTimer(r) \/ s = startTimer(stopTimer(r))
      \/ \E i \in Intervals : s = setInterval(r, i)
    BY DEF UserCalls
<1> QED BY <1>1, <1>2, <1>3, <1>4, <1>5

(* repeat() waits again or leaves the repeater stopped. *)
LEMMA RepeatArms ==
    ASSUME NEW r \in Repeaters, NEW goOn \in BOOLEAN
    PROVE  repeat(r, goOn) \in Repeaters /\ (repeat(r, goOn).running => repeat(r, goOn).waiting)
<1>1. Intervals \subseteq Int
    BY RepeaterAssumption
<1>2. r.interval \in Intervals /\ r.left \in Int
    BY DEF Repeaters
<1>3. r.interval \in Int
    BY ZenonT(30), <1>1, <1>2
<1>4. CASE goOn
    <2>1. PICK t \in Int :
             repeat(r, goOn) = [r EXCEPT !.left = t, !.waiting = TRUE, !.threw = FALSE]
        <3>1. (IF -r.left > r.interval \div 2 THEN 0 ELSE r.left) + r.interval \in Int
            BY <1>2, <1>3
        <3> QED BY ZenonT(30), <1>4, <3>1 DEF repeat, rearm
    <2> QED BY ZenonT(30), <2>1 DEF Repeaters
<1>5. CASE ~goOn
    <2>1. repeat(r, goOn) = [r EXCEPT !.running = FALSE, !.threw = FALSE]
        BY <1>5 DEF repeat
    <2> QED BY ZenonT(30), <2>1 DEF Repeaters
<1> QED BY <1>4, <1>5

-----------------------------------------------------------------------------
(* The parts of the type invariant. *)
NodeType ==
    /\ ready \in Seq(Completions)
    /\ stopped \in BOOLEAN
    /\ loop \in {"none", "running", "ended"}
    /\ owner \in {"up", "destroying", "gone"}
    /\ signals \in BOOLEAN

RepeaterType == rep \in Repeaters /\ since \in 0..MaxLateness

WatchdogType ==
    /\ dog \in [left : 0..Timeout, waiting : BOOLEAN]
    /\ silence \in 0..Timeout
    /\ lapses \in Int

(* the callbacks that are queued *)
Barks == Count(ready, "watchdog")

(* The watchdog's timer tells the time since the last mark(), and every    *)
(* timeout that was not answered is in the timer or in the queue.          *)
WatchdogInv ==
    /\ dog.waiting => dog.left = Timeout - silence
    /\ ~dog.waiting => silence = Timeout
    /\ lapses = Barks + (IF dog.waiting /\ silence = Timeout THEN 1 ELSE 0)

Armed == rep.running /\ ~rep.threw => rep.waiting \/ Places(ready, "repeater") # {}

(* The inductive invariant. *)
Inv ==
    /\ NodeType
    /\ RepeaterType
    /\ WatchdogType
    /\ calls \in 0..MaxCalls
    /\ Armed
    /\ GoneIsQuiet
    /\ WatchdogInv

(* What each of its operations does to the watchdog's part. *)
LEMMA WatchdogSteps ==
    ASSUME WatchdogType, WatchdogInv, Barks \in Nat
    PROVE  /\ mark /\ Barks' = Barks => WatchdogType' /\ WatchdogInv'
           /\ WatchdogTick /\ Barks' = Barks => WatchdogType' /\ WatchdogInv'
           /\ UNCHANGED watchdogVars /\ Barks' = Barks => WatchdogType' /\ WatchdogInv'
           /\ WatchdogExpires /\ Barks' = Barks + 1 => WatchdogType' /\ WatchdogInv'
           /\ callback /\ Barks' = Barks - 1 => WatchdogType' /\ WatchdogInv'
<1> USE WatchdogAssumption DEF WatchdogType, WatchdogInv
<1> HIDE DEF Barks
<1>1. ASSUME mark, Barks' = Barks PROVE WatchdogType' /\ WatchdogInv'
    BY <1>1 DEF mark
<1>2. ASSUME WatchdogTick, Barks' = Barks PROVE WatchdogType' /\ WatchdogInv'
    <2>1. dog' \in [left : 0..Timeout, waiting : BOOLEAN]
        BY SMTT(60), <1>2 DEF WatchdogTick
    <2>2. /\ dog'.waiting = dog.waiting
          /\ dog'.left = IF dog.left > 0 THEN dog.left - 1 ELSE dog.left
          /\ dog.left \in 0..Timeout
        BY <1>2 DEF WatchdogTick
    <2>3. silence' \in 0..Timeout /\ lapses' \in Int
        BY <1>2 DEF WatchdogTick
    <2>4. CASE dog.waiting
        <3>1. dog'.waiting /\ dog'.left = Timeout - silence'
            BY <1>2, <2>2, <2>4 DEF WatchdogTick
        <3>2. lapses' = Barks + (IF silence' = Timeout THEN 1 ELSE 0)
            BY <1>2, <2>4 DEF WatchdogTick
        <3> QED BY <1>2, <2>1, <2>3, <3>1, <3>2
    <2>5. CASE ~dog.waiting
        <3>1. ~dog'.waiting /\ silence' = Timeout /\ lapses' = Barks
            BY <1>2, <2>2, <2>5 DEF WatchdogTick
        <3> QED BY <1>2, <2>1, <2>3, <3>1
    <2> QED BY <2>4, <2>5
<1>3. ASSUME UNCHANGED watchdogVars, Barks' = Barks PROVE WatchdogType' /\ WatchdogInv'
    BY <1>3 DEF watchdogVars
<1>4. ASSUME WatchdogExpires, Barks' = Barks + 1 PROVE WatchdogType' /\ WatchdogInv'
    <2>1. /\ dog' \in [left : 0..Timeout, waiting : BOOLEAN]
          /\ ~dog'.waiting
        BY ZenonT(30), <1>4 DEF WatchdogExpires
    <2>2. dog.waiting /\ silence = Timeout /\ silence' = silence /\ lapses' = lapses
        BY <1>4 DEF WatchdogExpires
    <2> QED BY <1>4, <2>1, <2>2
<1>5. ASSUME callback, Barks' = Barks - 1 PROVE WatchdogType' /\ WatchdogInv'
    BY <1>5 DEF callback
<1> QED BY <1>1, <1>2, <1>3, <1>4, <1>5

(* What the steps of the queue do to it. *)
LEMMA QueueSteps ==
    ASSUME ready \in Seq(Completions)
    PROVE  /\ Barks \in Nat
           /\ UNCHANGED ready => Barks' = Barks /\ UNCHANGED Places(ready, "repeater")
           /\ \A c \in Completions :
                 ready' = Append(ready, c) =>
                    /\ ready' \in Seq(Completions)
                    /\ Barks' = Barks + (IF c = "watchdog" THEN 1 ELSE 0)
                    /\ Places(ready, "repeater") # {} \/ c = "repeater" =>
                          Places(ready', "repeater") # {}
           /\ \A c \in Completions :
                 Runs(c) =>
                    /\ ready' \in Seq(Completions)
                    /\ Barks' = Barks - (IF c = "watchdog" THEN 1 ELSE 0)
                    /\ Places(ready, "repeater") # {} /\ c # "repeater" =>
                          Places(ready', "repeater") # {}
<1>1. {"watchdog", "repeater"} \subseteq Completions
    BY DEF Completions
<1>2. Barks \in Nat
    BY CountType DEF Barks
<1>3. UNCHANGED ready => Barks' = Barks /\ UNCHANGED Places(ready, "repeater")
    BY DEF Barks, Places
<1>4. ASSUME NEW c \in Completions, ready' = Append(ready, c)
      PROVE  /\ ready' \in Seq(Completions)
             /\ Barks' = Barks + (IF c = "watchdog" THEN 1 ELSE 0)
             /\ Places(ready, "repeater") # {} \/ c = "repeater" =>
                   Places(ready', "repeater") # {}
    <2>1. ready' \in Seq(Completions)
        BY <1>4
    <2>2. Barks' = Barks + (IF c = "watchdog" THEN 1 ELSE 0)
        BY <1>2, <1>4, CountAppend DEF Barks
    <2>3. Places(ready, "repeater") # {} \/ c = "repeater" => Places(ready', "repeater") # {}
        <3>1. Places(ready', "repeater") =
                 IF "repeater" = c THEN Places(ready, "repeater") \cup {Len(ready) + 1}
                 ELSE Places(ready, "repeater")
            BY <1>4, QueueAppend
        <3> QED BY <3>1
    <2> QED BY <2>1, <2>2, <2>3
<1>5. ASSUME NEW c \in Completions, Runs(c)
      PROVE  /\ ready' \in Seq(Completions)
             /\ Barks' = Barks - (IF c = "watchdog" THEN 1 ELSE 0)
             /\ Places(ready, "repeater") # {} /\ c # "repeater" =>
                   Places(ready', "repeater") # {}
    <2>0. ready # <<>> /\ Head(ready) = c /\ ready' = Tail(ready)
        BY <1>5 DEF Runs
    <2>1. ready' \in Seq(Completions)
        BY <2>0
    <2>2. Barks' = Barks - (IF c = "watchdog" THEN 1 ELSE 0)
        BY <1>2, <2>0, CountTail DEF Barks
    <2>3. Places(ready, "repeater") # {} /\ c # "repeater" => Places(ready', "repeater") # {}
        BY <2>0, QueueTail
    <2> QED BY <2>1, <2>2, <2>3
<1> QED BY <1>2, <1>3, <1>4, <1>5

-----------------------------------------------------------------------------
(* The initial states. *)
LEMMA InitInv == Init => Inv
<1> SUFFICES ASSUME Init PROVE Inv
    OBVIOUS
<1>1. NodeType /\ ready = <<>>
    <2>1. ready = <<>> /\ ready \in Seq(Completions)
        BY DEF Init, NodeInit
    <2> QED BY ZenonT(30), <2>1 DEF Init, NodeInit, NodeType
<1>2. rep \in Repeaters /\ (rep.running => rep.waiting)
    <2>1. PICK i \in Intervals, auto_start \in BOOLEAN :
             LET r == [running |-> FALSE, interval |-> i, left |-> i,
                       waiting |-> FALSE, threw |-> FALSE]
             IN  rep = IF auto_start THEN startTimer(r) ELSE r
        BY ZenonT(30) DEF Init, RepeaterInit
    <2> DEFINE r == [running |-> FALSE, interval |-> i, left |-> i,
                     waiting |-> FALSE, threw |-> FALSE]
    <2>2. i \in Int
        BY RepeaterAssumption
    <2>3. r \in Repeaters /\ ~r.running
        BY <2>2 DEF Repeaters
    <2>4. startTimer(r) = [r EXCEPT !.left = r.interval, !.waiting = TRUE, !.running = TRUE]
        BY <2>3 DEF startTimer
    <2>5. startTimer(r) \in Repeaters /\ startTimer(r).waiting
        BY ZenonT(30), <2>2, <2>4 DEF Repeaters
    <2> QED BY <2>1, <2>3, <2>5
<1>3. RepeaterType /\ Armed
    BY <1>2, RepeaterAssumption DEF Init, RepeaterInit, RepeaterType, Armed
<1>4. Barks = 0
    <2>1. ready = <<>>
        BY <1>1
    <2> QED BY <2>1, CountEmpty DEF Barks
<1>5. WatchdogType /\ WatchdogInv
    BY <1>4, WatchdogAssumption DEF Init, WatchdogInit, WatchdogType, WatchdogInv
<1>6. calls \in 0..MaxCalls /\ GoneIsQuiet
    BY CallsAssumption DEF Init, NodeInit, GoneIsQuiet
<1> QED BY <1>1, <1>3, <1>5, <1>6 DEF Inv

(* Every step keeps the invariant, and runs the callback only for a        *)
(* timeout that was not answered.                                          *)
LEMMA NextInv ==
    ASSUME Inv, [Next]_vars
    PROVE  Inv' /\ (callback => lapses > 0)
<1> USE DEF Inv
<1>0. /\ ready \in Seq(Completions)
      /\ Barks \in Nat
      /\ {"repeater", "watchdog", "signal", "user"} = Completions
    BY QueueSteps DEF NodeType, Completions
<1>Q. callback => lapses > 0
    <2>1. ASSUME callback PROVE Barks > 0
        <3>1. Runs("watchdog") /\ "watchdog" \in Completions
            BY <1>0, <2>1 DEF callback
        <3>2. Barks' = Barks - 1 /\ ready' \in Seq(Completions)
            BY <1>0, <3>1, QueueSteps
        <3>3. Barks' \in Nat
            BY <3>2, CountType DEF Barks
        <3> HIDE DEF Barks
        <3> QED BY <1>0, <3>2, <3>3
    <2> QED BY <1>0, <2>1 DEF WatchdogInv
<1> SUFFICES Inv'
    BY <1>Q
<1>1. CASE Time
    <2>1. NodeType' /\ GoneIsQuiet' /\ UNCHANGED <<ready, calls>>
        BY <1>1 DEF Time, nodeVars, NodeType, GoneIsQuiet
    <2>2. Barks' = Barks /\ UNCHANGED Places(ready, "repeater")
        BY <1>0, <2>1, QueueSteps
    <2>3. WatchdogType' /\ WatchdogInv'
        BY <1>0, <1>1, <2>2, WatchdogSteps DEF Time
    <2>4. rep' = [rep EXCEPT !.left = Later(@)] /\ Later(rep.left) \in Int
        BY <1>1, RepeaterAssumption DEF Time, RepeaterTick, Later, RepeaterType, Repeaters
    <2>5. rep' \in Repeaters /\ rep'.running = rep.running /\ rep'.threw = rep.threw
             /\ rep'.waiting = rep.waiting
        BY <2>4 DEF RepeaterType, Repeaters
    <2>6. since' \in 0..MaxLateness
        BY <1>1, RepeaterAssumption DEF Time, RepeaterTick, RepeaterType
    <2> QED BY <2>1, <2>2, <2>3, <2>5, <2>6 DEF RepeaterType, Armed
<1>2. CASE Owner
    <2>1. NodeType' /\ GoneIsQuiet' /\ UNCHANGED ready
        BY ZenonT(30), <1>2 DEF Owner, start, stop, Destruct, DestructReturns, NodeType, GoneIsQuiet
    <2>2. Barks' = Barks /\ UNCHANGED Places(ready, "repeater")
        BY <1>0, <2>1, QueueSteps
    <2>3. WatchdogType' /\ WatchdogInv'
        BY <1>0, <1>2, <2>2, WatchdogSteps DEF Owner
    <2> QED BY <1>2, <2>1, <2>2, <2>3 DEF Owner, repeaterVars, RepeaterType, Armed
<1>3. CASE Post
    <2>1. ready' = Append(ready, "user")
        BY <1>3 DEF Post, post
    <2>2. /\ ready' \in Seq(Completions)
          /\ Barks' = Barks
          /\ Places(ready, "repeater") # {} => Places(ready', "repeater") # {}
        BY <1>0, <2>1, QueueSteps
    <2>3. WatchdogType' /\ WatchdogInv'
        BY <1>0, <1>3, <2>2, WatchdogSteps DEF Post
    <2>4. NodeType' /\ GoneIsQuiet' /\ calls' \in 0..MaxCalls
        BY <1>3, <2>2, CallsAssumption DEF Post, post, NodeType, GoneIsQuiet
    <2> QED BY <1>3, <2>2, <2>3, <2>4 DEF Post, repeaterVars, RepeaterType, Armed
<1>4. CASE UserHandler
    <2>1. /\ ready' \in Seq(Completions)
          /\ Barks' = Barks
          /\ Places(ready, "repeater") # {} => Places(ready', "repeater") # {}
        BY <1>0, <1>4, QueueSteps DEF UserHandler
    <2>2. mark \/ UNCHANGED watchdogVars
        BY <1>4 DEF UserHandler
    <2>3. WatchdogType' /\ WatchdogInv'
        BY <1>0, <2>1, <2>2, WatchdogSteps
    <2>4. LoopGoesOn \/ LoopThrows
        BY <1>4 DEF UserHandler
    <2>5. NodeType' /\ GoneIsQuiet'
        BY <2>1, <2>4 DEF NodeType, GoneIsQuiet, LoopGoesOn, LoopThrows
    <2>6. rep' \in {rep} \cup UserCalls(rep)
        BY <1>4 DEF UserHandler
    <2>7. /\ rep' \in Repeaters
          /\ rep'.running /\ ~rep'.threw => rep'.waiting \/ rep' = rep
        BY <2>6, CallsArm DEF RepeaterType
    <2> QED BY <1>4, <2>1, <2>3, <2>5, <2>7 DEF UserHandler, RepeaterType, Armed
<1>5. CASE Operation
    <2>1. ready' \in Seq(Completions) /\ Barks' = Barks
        BY <1>0, <1>5, QueueSteps DEF Operation, repeatRuns
    <2>2. WatchdogType' /\ WatchdogInv'
        BY <1>0, <1>5, <2>1, WatchdogSteps DEF Operation
    <2>3. NodeType' /\ GoneIsQuiet'
        BY <1>5, <2>1 DEF Operation, repeatRuns, LoopGoesOn, NodeType, GoneIsQuiet
    <2>4. PICK r \in {rep} \cup UserCalls(rep), goOn \in BOOLEAN : rep' = repeat(r, goOn)
        BY <1>5 DEF Operation, repeatRuns
    <2>5. r \in Repeaters
        BY <2>4, CallsArm DEF RepeaterType
    <2>6. rep' \in Repeaters /\ (rep'.running => rep'.waiting)
        BY <2>4, <2>5, RepeatArms
    <2>7. since' \in 0..MaxLateness /\ calls' = calls
        BY <1>5, RepeaterAssumption DEF Operation, repeatRuns
    <2> QED BY <2>2, <2>3, <2>6, <2>7 DEF RepeaterType, Armed
<1>6. CASE (repeatThrows \/ repeatStopped) /\ UNCHANGED <<watchdogVars, calls>>
    <2>1. ready' \in Seq(Completions) /\ Barks' = Barks
        BY <1>0, <1>6, QueueSteps DEF repeatThrows, repeatStopped
    <2>2. WatchdogType' /\ WatchdogInv'
        BY <1>0, <1>6, <2>1, WatchdogSteps
    <2>3. NodeType' /\ GoneIsQuiet'
        BY <1>6, <2>1 DEF repeatThrows, repeatStopped, LoopGoesOn, LoopThrows, NodeType,
           GoneIsQuiet
    <2>4. CASE repeatThrows
        <3>1. rep' \in Repeaters /\ rep'.threw
            BY ZenonT(30), <2>4 DEF repeatThrows, RepeaterType, Repeaters
        <3>2. since' \in 0..MaxLateness
            BY <2>4, RepeaterAssumption DEF repeatThrows
        <3> QED BY <1>6, <2>2, <2>3, <3>1, <3>2 DEF RepeaterType, Armed
    <2>5. CASE repeatStopped
        <3>1. UNCHANGED <<rep, since>> /\ ~rep.running
            BY <2>5 DEF repeatStopped, repeaterVars
        <3> QED BY <1>6, <2>2, <2>3, <3>1 DEF RepeaterType, Armed
    <2> QED BY <1>6, <2>4, <2>5
<1>7. CASE callback /\ UNCHANGED <<repeaterVars, calls>>
    <2>1. /\ ready' \in Seq(Completions)
          /\ Barks' = Barks - 1
          /\ Places(ready, "repeater") # {} => Places(ready', "repeater") # {}
        BY <1>0, <1>7, QueueSteps DEF callback
    <2>2. WatchdogType' /\ WatchdogInv'
        BY <1>0, <1>7, <2>1, WatchdogSteps
    <2>3. NodeType' /\ GoneIsQuiet'
        BY <1>7, <2>1 DEF callback, NodeType, GoneIsQuiet
    <2> QED BY <1>7, <2>1, <2>2, <2>3 DEF repeaterVars, RepeaterType, Armed
<1>8. CASE (signal \/ RunReturns) /\ UNCHANGED <<repeaterVars, watchdogVars, calls>>
    <2>1. /\ ready' \in Seq(Completions)
          /\ Barks' = Barks
          /\ Places(ready, "repeater") # {} => Places(ready', "repeater") # {}
        BY <1>0, <1>8, QueueSteps DEF signal, RunReturns
    <2>2. WatchdogType' /\ WatchdogInv'
        BY <1>0, <1>8, <2>1, WatchdogSteps
    <2>3. NodeType' /\ GoneIsQuiet'
        BY ZenonT(30), <1>8, <2>1 DEF signal, RunReturns, NodeType, GoneIsQuiet
    <2> QED BY <1>8, <2>1, <2>2, <2>3 DEF repeaterVars, RepeaterType, Armed
<1>9. CASE RepeaterExpires /\ UNCHANGED <<watchdogVars, calls>>
    <2>1. ready' \in Seq(Completions) /\ Barks' = Barks /\ Places(ready', "repeater") # {}
        BY <1>0, <1>9, QueueSteps DEF RepeaterExpires
    <2>2. WatchdogType' /\ WatchdogInv'
        BY <1>0, <1>9, <2>1, WatchdogSteps
    <2>3. NodeType' /\ GoneIsQuiet'
        BY <1>9, <2>1 DEF RepeaterExpires, NodeType, GoneIsQuiet
    <2>4. rep' \in Repeaters /\ since' = since
        BY ZenonT(30), <1>9 DEF RepeaterExpires, RepeaterType, Repeaters
    <2> QED BY <1>9, <2>1, <2>2, <2>3, <2>4 DEF RepeaterType, Armed
<1>10. CASE WatchdogExpires /\ UNCHANGED <<repeaterVars, calls>>
    <2>1. /\ ready' \in Seq(Completions)
          /\ Barks' = Barks + 1
          /\ Places(ready, "repeater") # {} => Places(ready', "repeater") # {}
        BY <1>0, <1>10, QueueSteps DEF WatchdogExpires
    <2>2. WatchdogType' /\ WatchdogInv'
        BY <1>0, <1>10, <2>1, WatchdogSteps
    <2>3. NodeType' /\ GoneIsQuiet'
        BY <1>10, <2>1 DEF WatchdogExpires, NodeType, GoneIsQuiet
    <2> QED BY <1>10, <2>1, <2>2, <2>3 DEF repeaterVars, RepeaterType, Armed
<1>11. CASE Signal
    <2>1. /\ ready' \in Seq(Completions)
          /\ Barks' = Barks
          /\ Places(ready, "repeater") # {} => Places(ready', "repeater") # {}
        BY <1>0, <1>11, QueueSteps DEF Signal, SignalArrives
    <2>2. WatchdogType' /\ WatchdogInv'
        BY <1>0, <1>11, <2>1, WatchdogSteps DEF Signal
    <2>3. NodeType' /\ GoneIsQuiet'
        BY ZenonT(30), <1>11, <2>1 DEF Signal, SignalArrives, NodeType, GoneIsQuiet
    <2> QED BY <1>11, <2>1, <2>2, <2>3 DEF Signal, repeaterVars, RepeaterType, Armed
<1>12. CASE UNCHANGED vars
    <2>1. UNCHANGED <<nodeVars, repeaterVars, watchdogVars, calls>>
        BY <1>12 DEF vars
    <2>2. UNCHANGED ready
        BY <2>1 DEF nodeVars
    <2>3. Barks' = Barks /\ UNCHANGED Places(ready, "repeater")
        BY <1>0, <2>2, QueueSteps
    <2>4. WatchdogType' /\ WatchdogInv'
        BY <1>0, <2>1, <2>3, WatchdogSteps
    <2>5. NodeType' /\ GoneIsQuiet'
        BY <2>1 DEF nodeVars, NodeType, GoneIsQuiet
    <2> QED BY <2>1, <2>3, <2>4, <2>5 DEF repeaterVars, RepeaterType, Armed
<1> HIDE DEF Inv
<1> QED BY <1>1, <1>2, <1>3, <1>4, <1>5, <1>6, <1>7, <1>8, <1>9, <1>10, <1>11, <1>12
        DEF Next, Loop, Asio

(* The invariant holds throughout. *)
THEOREM TimersInvariant == Spec => []Inv
<1> QED BY InitInv, NextInv, PTL DEF Spec

(* Every variable of the node, the repeater and the watchdog keeps its     *)
(* type; no timer of the model is ever late by more than its bounds say.   *)
THEOREM TimersTypeCorrect == Spec => []TypeOK
<1>1. Inv => TypeOK
    BY DEF Inv, NodeType, RepeaterType, WatchdogType, Repeaters, TypeOK
<1> QED BY <1>1, TimersInvariant, PTL

(* start(), stop(), setInterval() and repeat(): a repeater that says it is *)
(* running has a wait pending or an expiry queued, unless its operation    *)
(* has thrown.                                                             *)
THEOREM TimersRunningIsArmed == Spec => []RunningIsArmed
<1>1. Inv => RunningIsArmed
    BY DEF Inv, NodeType, Armed, Places, RunningIsArmed, Queued
<1> QED BY <1>1, TimersInvariant, PTL

(* ~Node: once it has returned no thread runs handlers of the node.        *)
THEOREM TimersGoneIsQuiet == Spec => []GoneIsQuiet
<1>1. Inv => GoneIsQuiet
    BY DEF Inv
<1> QED BY <1>1, TimersInvariant, PTL

(* mark(): the callback is called only for a timeout without a mark().     *)
THEOREM TimersBarksOnlyWhenLate == Spec => BarksOnlyWhenLate
<1>1. Inv /\ [Next]_vars => [callback => lapses > 0]_vars
    BY NextInv
<1> QED BY <1>1, TimersInvariant, PTL DEF Spec, BarksOnlyWhenLate

-----------------------------------------------------------------------------
(* A wait for at least half an interval. *)
Spaced(r) == r.waiting /\ r.left >= r.interval \div 2

(* While a repeater runs, the time since the last run and what is left of  *)
(* the wait are together half an interval, and when the wait is over half  *)
(* an interval has passed.                                                 *)
SpacedInv ==
    rep.running /\ ~rep.threw =>
        /\ rep.waiting => since = MaxLateness \/ since + rep.left >= rep.interval \div 2
        /\ ~rep.waiting => since >= rep.interval \div 2

(* Half of an interval. *)
LEMMA Half ==
    ASSUME NEW i \in Intervals
    PROVE  /\ i \in Int /\ i \div 2 \in Int /\ 0 <= i \div 2
           /\ 2 * (i \div 2) <= i /\ i \div 2 <= i /\ i <= MaxLateness
<1>1. i \in 1..MaxLateness /\ MaxLateness \in Nat
    BY RepeaterAssumption
<1> QED BY <1>1

(* Whatever a user calls, a repeater that runs waits for a whole interval, *)
(* or it ran already and nothing was done.                                 *)
LEMMA CallsSpace ==
    ASSUME NEW r \in Repeaters, NEW s \in UserCalls(r)
    PROVE  s.running => Spaced(s) \/ s = r
<1>1. ASSUME NEW q \in Repeaters, ~q.running
      PROVE  Spaced(startTimer(q))
    <2>1. startTimer(q) = [q EXCEPT !.left = q.interval, !.waiting = TRUE, !.running = TRUE]
        BY <1>1 DEF startTimer
    <2>2. /\ startTimer(q).waiting
          /\ startTimer(q).left = q.interval
          /\ startTimer(q).interval = q.interval
        BY ZenonT(30), <2>1 DEF Repeaters
    <2>3. q.interval \in Intervals
        BY DEF Repeaters
    <2>4. q.interval >= q.interval \div 2
        BY <2>3, Half
    <2> QED BY <2>2, <2>4 DEF Spaced
<1>2. ASSUME NEW q \in Repeaters
      PROVE  stopTimer(q) \in Repeaters /\ ~stopTimer(q).running
    BY ZenonT(30) DEF stopTimer, Repeaters
<1>3. startTimer(r) = r \/ Spaced(startTimer(r))
    BY ZenonT(30), <1>1 DEF startTimer
<1>4. ~stopTimer(r).running /\ Spaced(startTimer(stopTimer(r)))
    BY <1>1, <1>2
<1>5. ASSUME NEW i \in Intervals
      PROVE  setInterval(r, i).running => Spaced(setInterval(r, i))
    <2> DEFINE p == [r EXCEPT !.interval = i]
    <2>1. p \in Repeaters /\ p.running = r.running
        BY DEF Repeaters
    <2>2. setInterval(r, i) = IF r.running THEN startTimer(stopTimer(p)) ELSE p
        BY DEF setInterval
    <2> HIDE DEF p
    <2>3. Spaced(startTimer(stopTimer(p)))
        BY <1>1, <1>2, <2>1
    <2> QED BY <2>1, <2>2, <2>3
<1>6. \/ s = startTimer(r) \/ s = stopTimer(r) \/ s = startTimer(stopTimer(r))
      \/ \E i \in Intervals : s = setInterval(r, i)
    BY DEF UserCalls
<1> QED BY <1>3, <1>4, <1>5, <1>6

(* repeat(): a deadline missed by half an interval at most is followed by  *)
(* the next one, a deadline missed by more by a whole interval from now.   *)
LEMMA RepeatSpaces ==
    ASSUME NEW r \in Repeaters, NEW goOn \in BOOLEAN
    PROVE  repeat(r, goOn).running => Spaced(repeat(r, goOn))
<1> DEFINE i == r.interval
           t == (IF -r.left > i \div 2 THEN 0 ELSE r.left) + i
<1>1. i \in Intervals /\ r.left \in Int
    BY DEF Repeaters
<1>2. i \in Int /\ i \div 2 \in Int /\ 0 <= i \div 2 /\ 2 * (i \div 2) <= i
    BY <1>1, Half
<1>3. t >= i \div 2
    <2> DEFINE h == i \div 2
    <2> HIDE DEF i, h
    <2>1. h \in Int /\ 0 <= h /\ 2 * h <= i
        BY <1>2 DEF h
    <2>2. (IF -r.left > h THEN 0 ELSE r.left) + i >= h
        BY <1>1, <1>2, <2>1
    <2> QED BY <2>2 DEF h
<1>4. CASE goOn
    <2>1. repeat(r, goOn) = [r EXCEPT !.left = t, !.waiting = TRUE, !.threw = FALSE]
        BY <1>4 DEF repeat, rearm
    <2> HIDE DEF t
    <2>2. /\ repeat(r, goOn).left = t
          /\ repeat(r, goOn).interval = i
          /\ repeat(r, goOn).waiting
        BY ZenonT(30), <2>1 DEF Repeaters
    <2> QED BY <1>3, <2>2 DEF Spaced
<1>5. CASE ~goOn
    <2>1. repeat(r, goOn) = [r EXCEPT !.running = FALSE, !.threw = FALSE]
        BY <1>5 DEF repeat
    <2>2. ~repeat(r, goOn).running
        BY ZenonT(30), <2>1 DEF Repeaters
    <2> QED BY <2>2
<1> QED BY <1>4, <1>5

(* At first the operation was not run for longer than any interval. *)
LEMMA InitSpaced == Init => SpacedInv
<1> SUFFICES ASSUME Init PROVE SpacedInv
    OBVIOUS
<1>1. since = MaxLateness
    BY DEF Init, RepeaterInit
<1>2. rep \in Repeaters
    BY InitInv DEF Inv, RepeaterType
<1>3. rep.interval \in Intervals
    BY <1>2 DEF Repeaters
<1>4. since >= rep.interval \div 2
    <2> DEFINE h == rep.interval \div 2
    <2>1. h \in Int /\ h <= rep.interval /\ rep.interval <= MaxLateness /\ rep.interval \in Int
        BY <1>3, Half
    <2> HIDE DEF h
    <2>2. MaxLateness \in Nat
        BY RepeaterAssumption
    <2>3. since >= h
        BY <1>1, <2>1, <2>2
    <2> QED BY <2>3 DEF h
<1> QED BY <1>1, <1>4 DEF SpacedInv

(* Every step keeps that: time goes from what is left to what has passed,  *)
(* and a run, a start and a new interval wait for half an interval.        *)
LEMMA NextSpaced ==
    ASSUME Inv, SpacedInv, [Next]_vars
    PROVE  SpacedInv'
<1>1. rep \in Repeaters /\ since \in 0..MaxLateness /\ MaxLateness \in Nat
    BY RepeaterAssumption DEF Inv, RepeaterType
<1>2. rep.interval \in Intervals /\ rep.left \in Int
    BY <1>1 DEF Repeaters
<1> DEFINE h == rep.interval \div 2
<1>3. h \in Int /\ 0 <= h /\ h <= MaxLateness
    BY <1>1, <1>2, Half
<1>4. ASSUME rep'.running => Spaced(rep'), since' \in Nat, rep' \in Repeaters
      PROVE  SpacedInv'
    <2>1. rep'.interval \in Intervals /\ rep'.left \in Int
        BY <1>4 DEF Repeaters
    <2>2. rep'.interval \div 2 \in Int
        BY <2>1, Half
    <2>3. rep'.running => rep'.waiting /\ since' + rep'.left >= rep'.interval \div 2
        BY <1>4, <2>1, <2>2 DEF Spaced
    <2> QED BY <2>3 DEF SpacedInv
<1>5. ASSUME UNCHANGED <<rep, since>> PROVE SpacedInv'
    BY <1>5 DEF SpacedInv
<1>6. CASE Time
    <2>1. rep' = [rep EXCEPT !.left = Later(@)]
        BY <1>6 DEF Time, RepeaterTick
    <2>2. /\ rep'.left = Later(rep.left)
          /\ rep'.running = rep.running /\ rep'.threw = rep.threw
          /\ rep'.waiting = rep.waiting /\ rep'.interval = rep.interval
        BY ZenonT(30), <1>1, <2>1 DEF Repeaters
    <2>3. /\ since < MaxLateness => since' = since + 1
          /\ since >= MaxLateness => since' = since
        BY <1>1, <1>6 DEF Time, RepeaterTick
    <2>4. rep'.left \in Int /\ rep'.left >= rep.left - 1
        BY <1>1, <1>2, <2>2 DEF Later
    <2> HIDE DEF h
    <2>5. since + rep.left >= h => since' = MaxLateness \/ since' + rep'.left >= h
        BY <1>1, <1>2, <1>3, <2>3, <2>4
    <2>6. since = MaxLateness => since' = MaxLateness
        BY <1>1, <2>3
    <2>7. since >= h => since' >= h
        BY <1>1, <1>3, <2>3
    <2> QED BY <2>2, <2>5, <2>6, <2>7 DEF SpacedInv, h
<1>7. CASE UserHandler
    <2>1. rep' \in {rep} \cup UserCalls(rep) /\ since' = since
        BY <1>7 DEF UserHandler
    <2>2. CASE rep' = rep
        BY <1>5, <2>1, <2>2
    <2>3. CASE rep' \in UserCalls(rep) /\ rep' # rep
        <3>1. rep' \in Repeaters /\ (rep'.running => Spaced(rep'))
            BY <1>1, <2>3, CallsArm, CallsSpace
        <3> QED BY <1>1, <1>4, <2>1, <3>1
    <2> QED BY <2>1, <2>2, <2>3
<1>8. CASE Operation
    <2>1. PICK r \in {rep} \cup UserCalls(rep), goOn \in BOOLEAN : rep' = repeat(r, goOn)
        BY <1>8 DEF Operation, repeatRuns
    <2>2. r \in Repeaters
        BY <1>1, <2>1, CallsArm
    <2>3. rep' \in Repeaters /\ (rep'.running => Spaced(rep'))
        BY <2>1, <2>2, RepeatArms, RepeatSpaces
    <2>4. since' = 0
        BY <1>8 DEF Operation, repeatRuns
    <2> QED BY <1>4, <2>3, <2>4
<1>9. CASE repeatThrows
    <2>1. rep'.threw
        BY ZenonT(30), <1>1, <1>9 DEF repeatThrows, Repeaters
    <2> QED BY <2>1 DEF SpacedInv
<1>10. CASE RepeaterExpires
    <2>1. rep' = [rep EXCEPT !.waiting = FALSE] /\ since' = since /\ rep.waiting /\ rep.left <= 0
        BY <1>10 DEF RepeaterExpires
    <2>2. /\ rep'.running = rep.running /\ rep'.threw = rep.threw
          /\ ~rep'.waiting /\ rep'.interval = rep.interval
        BY ZenonT(30), <1>1, <2>1 DEF Repeaters
    <2> HIDE DEF h
    <2>3. since = MaxLateness \/ since + rep.left >= h => since >= h
        BY <1>1, <1>2, <1>3, <2>1
    <2> QED BY <2>1, <2>2, <2>3 DEF SpacedInv, h
<1>11. CASE \/ Owner \/ Post \/ Signal \/ repeatStopped \/ UNCHANGED vars
            \/ UNCHANGED repeaterVars
    <2>1. UNCHANGED <<rep, since>>
        BY <1>11 DEF Owner, Post, Signal, repeatStopped, vars, repeaterVars
    <2> QED BY <1>5, <2>1
<1> QED BY <1>6, <1>7, <1>8, <1>9, <1>10, <1>11 DEF Next, Loop, Asio

(* repeat(): the operation is not run again within half an interval of its *)
(* last run, unless a wait is pending beside the expiry, or it has thrown. *)
THEOREM TimersRunsKeepApart == Spec => RunsKeepApart
<1>1. Init /\ [][Next]_vars /\ []Inv => []SpacedInv
    BY InitSpaced, NextSpaced, PTL
<1>2. SpacedInv => [repeatRuns /\ ~rep.waiting /\ ~rep.threw
                       => since >= rep.interval \div 2]_vars
    BY DEF SpacedInv, repeatRuns
<1> QED BY <1>1, <1>2, TimersInvariant, PTL DEF Spec, RunsKeepApart
=============================================================================
