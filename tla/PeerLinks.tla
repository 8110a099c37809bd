------------------------------- MODULE PeerLinks -------------------------------
(***************************************************************************)
(* The outgoing connections of one hub: connectToPeer, its socket events,  *)
(* the reconnect timers and the ping sweep of peer-manager.ts, with what   *)
(* protocol.ts does to the peer map on hello and close.  GossipSync has    *)
(* the frames that cross a connection; here is who dials, and when.        *)
(***************************************************************************)
EXTENDS Integers, FiniteSets, Sequences

CONSTANTS
    HubAt,      \* HubAt[url]: the hub that listens there
    Malformed,  \* URLs the WebSocket constructor throws at
    Self        \* this hub's own id

ASSUME LinksAssumption ==
    /\ Malformed \subseteq DOMAIN HubAt
    /\ {"none", "incoming"} \cap DOMAIN HubAt = {}

VARIABLES
    seeds,    \* config.peers, fixed: a sequence of URLs, and PEERS may repeat one
    sockets,  \* our sockets until their close event: url, n, state, greeted
    timers,   \* the URLs with a reconnect timer
    peers,    \* connectedPeers: hub -> the name of a socket, "incoming" or "none"
    dropped   \* connection failures left

linkVars == <<seeds, sockets, timers, peers, dropped>>

Others == {HubAt[url] : url \in DOMAIN HubAt} \ {Self}
Name(s) == <<s.url, s.n>>
None == <<"none", 0>>
Incoming == <<"incoming", 0>>

Urls == {seeds[i] : i \in DOMAIN seeds}
Listed(url) == Cardinality({i \in DOMAIN seeds : seeds[i] = url})

LinksTypeOK ==
    /\ Urls \subseteq DOMAIN HubAt
    /\ \A s \in sockets : s.url \in Urls \ Malformed /\ s.state \in {"connecting", "open", "closing"}
    /\ timers \subseteq Urls
    /\ DOMAIN peers = Others
    \* a mapped socket of ours has not had its close event
    /\ \A h \in Others : peers[h] \in {None, Incoming} \cup {Name(s) : s \in sockets}

Socket(url, n) == [url |-> url, n |-> n, state |-> "connecting", greeted |-> FALSE]

LinksInit ==
    /\ sockets = {Socket(seeds[i], i) : i \in {j \in DOMAIN seeds : seeds[j] \notin Malformed}}
    /\ timers = Urls \cap Malformed
    /\ peers = [h \in Others |-> None]
    /\ dropped \in Nat

Become(s, state) == sockets' = (sockets \ {s}) \cup {[s EXCEPT !.state = state]}

\* open: a pending timer of the URL is cleared; protocol.ts takes over.
Opened(s) ==
    /\ s.state = "connecting" /\ Become(s, "open")
    /\ timers' = timers \ {s.url}
    /\ UNCHANGED <<seeds, peers, dropped>>

\* The peer's hello maps the socket, over any other one of that hub; when the
\* URL is our own, our other end reads our hello and closes.
Hello(s) ==
    /\ s.state = "open" /\ ~s.greeted
    /\ LET hub == HubAt[s.url] IN
       IF hub = Self THEN Become(s, "closing") /\ UNCHANGED peers
       ELSE /\ sockets' = (sockets \ {s}) \cup {[s EXCEPT !.greeted = TRUE]}
            /\ peers' = [peers EXCEPT ![hub] = Name(s)]
    /\ UNCHANGED <<seeds, timers, dropped>>

\* A refused dial or a broken connection: the close event is to come.
Breaks(s) ==
    /\ dropped > 0 /\ dropped' = dropped - 1
    /\ s.state # "closing" /\ Become(s, "closing")
    /\ UNCHANGED <<seeds, timers, peers>>

\* Mutant: only a connection that had opened is dialled again.
ClosedIfGreeted(s) ==
    /\ s.state = "closing"
    /\ sockets' = sockets \ {s}
    /\ timers' = IF s.greeted THEN timers \cup {s.url} ELSE timers
    /\ peers' = IF s.greeted THEN [peers EXCEPT ![HubAt[s.url]] = None] ELSE peers
    /\ UNCHANGED <<seeds, dropped>>

\* The close listeners: scheduleReconnect, and a connection that said hello
\* takes the entry of its hub out of the map, whoever holds it.
Closed(s) ==
    /\ s.state = "closing"
    /\ sockets' = sockets \ {s}
    /\ timers' = timers \cup {s.url}
    /\ peers' = IF s.greeted THEN [peers EXCEPT ![HubAt[s.url]] = None] ELSE peers
    /\ UNCHANGED <<seeds, dropped>>

\* connectToPeer: not while a mapped socket was dialled with this URL; the
\* constructor's throw schedules the next attempt.
Redial(url) ==
    /\ url \in timers
    /\ LET mapped == \E h \in Others : peers[h][1] = url
           n == CHOOSE i \in 1 .. Cardinality(sockets) + 1 : \A s \in sockets : Name(s) # <<url, i>>
       IN  /\ timers' = IF ~mapped /\ url \in Malformed THEN timers ELSE timers \ {url}
           /\ sockets' = IF mapped \/ url \in Malformed THEN sockets
                         ELSE sockets \cup {Socket(url, n)}
    /\ UNCHANGED <<seeds, peers, dropped>>

\* The ping interval takes closed sockets out of the map.
PingSweep ==
    LET dead == {h \in Others : \E s \in sockets : peers[h] = Name(s) /\ s.state # "open"} IN
    /\ dead # {}
    /\ peers' = [h \in Others |-> IF h \in dead THEN None ELSE peers[h]]
    /\ UNCHANGED <<seeds, sockets, timers, dropped>>

\* A peer dials us, says hello, and goes away again.
IncomingHello(h) ==
    /\ dropped > 0 /\ dropped' = dropped - 1
    /\ peers' = [peers EXCEPT ![h] = Incoming]
    /\ UNCHANGED <<seeds, sockets, timers>>
IncomingClosed(h) ==
    /\ dropped > 0 /\ dropped' = dropped - 1
    /\ peers[h] # None /\ peers' = [peers EXCEPT ![h] = None]
    /\ UNCHANGED <<seeds, sockets, timers>>

\* A restart: startPeerManager dials every seed.
LinksLost ==
    /\ sockets' = {Socket(seeds[i], i) : i \in {j \in DOMAIN seeds : seeds[j] \notin Malformed}}
    /\ timers' = Urls \cap Malformed
    /\ peers' = [h \in Others |-> None]
    /\ UNCHANGED <<seeds, dropped>>

LinkStep ==
    \/ \E s \in sockets : Opened(s) \/ Hello(s) \/ Breaks(s) \/ Closed(s)
    \/ \E url \in timers : Redial(url)
    \/ PingSweep
    \/ \E h \in Others : IncomingHello(h) \/ IncomingClosed(h)

----------------------------------------------------------------------------
Tended(url) ==
    Cardinality({s \in sockets : s.url = url}) + (IF url \in timers THEN 1 ELSE 0)

\* peer-manager.ts:12-72: a seed is never forgotten and never dialled more often
\* than PEERS lists it, whatever order sockets open, greet, break and close in,
\* and whichever socket holds the peer's place in the map.
SeedsTended == \A url \in Urls : Tended(url) \in 1 .. Listed(url)
=============================================================================
