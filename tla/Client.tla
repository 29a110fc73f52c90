------------------------------- MODULE Client -------------------------------
(***************************************************************************)
(* a17/dispatch/client: a client of one topic, which keeps a connection to *)
(* every address the directory of its node knows for the topic.  The       *)
(* handler runs inside the directory's own step (callObservers), or later  *)
(* from the call that observe() has posted.                                *)
(***************************************************************************)
EXTENDS Naturals

CONSTANTS
    Guids,       \* the nodes that may offer the topic
    Addrs,       \* addresses; a restarted node may offer its old one again
    NoAddr

ASSUME ClientAssumption == NoAddr \notin Addrs

VARIABLES
    offers,      \* network_topics_[topic_name_] of the directory: guid -> address
    phase,       \* "new", "observing", "crashed" (by undefined behaviour) or "gone"
    posted,      \* is the call that observe() has posted still to run?
    addresses    \* addresses_

clientVars == <<offers, phase, posted, addresses>>

(* new_addresses *)
Offered(os) == {os[g] : g \in Guids} \ {NoAddr}

ClientInit ==
    /\ offers = [g \in Guids |-> NoAddr]
    /\ phase = "new"
    /\ posted = FALSE
    /\ addresses = {}

Construct ==
    /\ phase = "new"
    /\ phase' = "observing"
    /\ posted' = TRUE
    /\ UNCHANGED <<offers, addresses>>

(* variant: connects only while it has no connection *)
clientOnDirectoryTopicsChangedOnce(os) ==
    /\ addresses' = IF addresses = {} THEN Offered(os) ELSE addresses \cap Offered(os)
    /\ UNCHANGED phase

(* variant: never disconnects *)
clientOnDirectoryTopicsChangedKeeps(os) ==
    /\ addresses' = addresses \cup Offered(os)
    /\ UNCHANGED phase

(* onDirectoryTopicsChanged(), with connect() and disconnect().  The loop  *)
(* that disconnects iterates over the set that disconnect() erases from:   *)
(* after the first erasure its iterator and the erased address dangle, and *)
(* the loop may reach any of the other stale addresses, or crash.          *)
clientOnDirectoryTopicsChanged(os) ==
    LET connected == addresses \cup Offered(os)
        stale == connected \ Offered(os)
    IN  \/ /\ stale = {}
           /\ addresses' = connected
           /\ UNCHANGED phase
        \/ /\ \E erased \in (SUBSET stale) \ {{}} : addresses' = connected \ erased
           /\ phase' \in {phase, "crashed"}

(* A step of the directory: one node's offer comes, moves or goes, and the *)
(* observers are called.                                                   *)
DirectoryChange(g, a) ==
    /\ phase # "crashed"
    /\ offers[g] # a
    /\ offers' = [offers EXCEPT ![g] = a]
    /\ IF phase = "observing"
         THEN clientOnDirectoryTopicsChanged(offers')
         ELSE UNCHANGED <<phase, addresses>>
    /\ UNCHANGED posted

(* The posted call; the directory skips it for a topic nobody offers. *)
PostedCall ==
    /\ phase = "observing"
    /\ posted
    /\ posted' = FALSE
    /\ IF Offered(offers) # {}
         THEN clientOnDirectoryTopicsChanged(offers)
         ELSE UNCHANGED <<phase, addresses>>
    /\ UNCHANGED offers

ClientDestruct ==
    /\ phase = "observing"
    /\ phase' = "gone"
    /\ posted' = FALSE
    /\ addresses' = {}
    /\ UNCHANGED offers

ClientNext ==
    \/ Construct \/ PostedCall \/ ClientDestruct
    \/ \E g \in Guids, a \in Addrs \cup {NoAddr} : DirectoryChange(g, a)

ClientSpec == ClientInit /\ [][ClientNext]_clientVars

-----------------------------------------------------------------------------
(* Type invariant. *)
ClientTypeOK ==
    /\ offers \in [Guids -> Addrs \cup {NoAddr}]
    /\ phase \in {"new", "observing", "crashed", "gone"}
    /\ posted \in BOOLEAN
    /\ addresses \subseteq Addrs

(* Once the posted call has run, the client is connected to every node     *)
(* that the directory knows for its topic ("the client connects to all of  *)
(* them"), whatever came, moved or went before.                            *)
OffersAreConnected ==
    phase = "observing" /\ ~posted => Offered(offers) \subseteq addresses

(* A connection is never dropped while some node goes on offering its      *)
(* address, as when a node that has restarted on its old port is known     *)
(* under both its guids and the old one is evicted.                        *)
OfferedStaysConnected ==
    [][phase' = "observing" =>
          addresses \cap Offered(offers') \subseteq addresses']_clientVars

(* A client that observes is disconnected from "any addresses that we are  *)
(* currently connected to, but are no longer in the list of directory      *)
(* topics": the loop that can be relied on for one stale address only is   *)
(* never left with two, because the directory reports change by change.    *)
StaleAreDisconnected ==
    phase = "observing" => addresses \subseteq Offered(offers)
=============================================================================
