----------------------------- MODULE GossipProofs -----------------------------
(***************************************************************************)
(* Proofs about GossipSync for every network of hubs, every set of         *)
(* messages and every value of the bounds: first the sockets and the       *)
(* connection map, then what the hubs store and tell each other - rows are *)
(* final, frames are backed by rows, received rows have their signed       *)
(* bytes, and the protocol implements MessageReplicas; a mark was earned,  *)
(* a walk steps over less than a millisecond, and a quiet pair of hubs has *)
(* exchanged what hello owes.                                              *)
(***************************************************************************)
EXTENDS GossipSync, FiniteSetTheorems, TLAPS

\* Frames, hello handlers and catch-up walks of a closed socket are gone.
OpenSockets ==
    /\ \A f \in wire : f.sock \in up
    /\ \A g \in greeting : g.sock \in up
    /\ \A w \in walking : w.sock \in up

\* The inductive invariant behind TypeOK: a push goes to the sockets of the
\* connection map, and is addressed rightly because the map is right.
ConnInv == TypeOK /\ MapHoldsOpenSockets /\ OpenSockets

----------------------------------------------------------------------------
(* Helpers. *)

\* The other end of a socket is a hub, its other end is this one, and the two
\* are the socket's ends.
LEMMA PeerProps ==
    ASSUME NEW s \in Dials, NEW h \in Ends(s)
    PROVE  /\ h \in Hubs /\ Peer(s, h) \in Hubs
           /\ Peer(s, h) \in Ends(s) /\ Peer(s, h) # h
           /\ Ends(s) = {h, Peer(s, h)}
           /\ Peer(s, Peer(s, h)) = h
  BY DialsAssumption DEF Peer, Ends

\* The peer of an end is the only other end.
LEMMA PeerUnique ==
    ASSUME NEW s \in Dials, NEW h, NEW p, Ends(s) = {h, p}
    PROVE  h \in Hubs /\ p \in Hubs /\ h \in Ends(s) /\ Peer(s, h) = p
  BY DialsAssumption DEF Peer, Ends

LEMMA MsType == ASSUME NEW t \in Int PROVE Ms(t) \in Int
  BY TimeAssumption DEF Ms

\* Pages hold hashes the hub has stored.
LEMMA BatchesHeld ==
    ASSUME NEW h, NEW c, NEW since, NEW page \in Batches(h, c, since)
    PROVE  page \subseteq HeldOf(h, c) /\ page \subseteq Msgs
  BY DEF Batches, Newer, HeldOf, Held

LEMMA ClassOfType == \A m : ClassOf(m) \in Classes
  BY DEF ClassOf, Classes

LEMMA InsertRowType ==
    ASSUME TypeOK, NEW h \in Hubs, NEW m \in Msgs, NEW from \in Hubs \cup {Local},
           NEW body \in {"full", "bare"}
    PROVE  InsertRow(h, m, from, body) \in [Hubs -> [Msgs -> Row \cup {NoRow}]]
  BY DEF TypeOK, InsertRow, Row

LEMMA PushedType == \A m \in Msgs : Pushed(m) \in Item
  BY DEF Pushed, Item

LEMMA PulledType ==
    ASSUME TypeOK, NEW h \in Hubs, NEW hashes
    PROVE  Pulled(h, hashes) \subseteq Item
<1> SUFFICES ASSUME NEW m \in hashes \cap Held(h)
             PROVE  [msg |-> m, body |-> row[h][m].body, data |-> m \in envs[h]] \in Item
  BY DEF Pulled
<1>1. m \in Msgs /\ row[h][m].body \in {"full", "bare"}
  BY DEF TypeOK, Held, Row
<1>2. (m \in envs[h]) \in BOOLEAN
  OBVIOUS
<1> DEFINE data == m \in envs[h]
<1>3. data \in BOOLEAN
  BY <1>2
<1>4. QED
  <2> HIDE DEF data
  <2>1. [msg |-> m, body |-> row[h][m].body, data |-> data] \in Item
    BY <1>1, <1>3 DEF Item
  <2>2. QED
    BY <2>1 DEF data

\* Frames addressed to the peer of a socket's end are well formed.
Addressed == {f \in Frame : f.to \in Ends(f.sock)}

LEMMA FrameTypes ==
    ASSUME NEW s \in Dials, NEW p \in Ends(s), p \in Hubs, NEW c \in Classes
    PROVE  /\ Hello(s, p) \in Addressed
           /\ \A ms \in SUBSET Msgs : Have(s, p, c, ms) \in Addressed
           /\ \A ms \in SUBSET Msgs : Want(s, p, c, ms) \in Addressed
           /\ \A items \in SUBSET Item : Messages(s, p, c, items) \in Addressed
  BY DEF Hello, Have, Want, Messages, Addressed, Frame

\* What is sent to every connected peer is well formed and on open sockets.
LEMMA PeersAddressed ==
    ASSUME ConnInv, NEW h \in Hubs, NEW p \in Hubs, peers[h][p] \in up
    PROVE  /\ peers[h][p] \in Dials /\ p \in Ends(peers[h][p])
           /\ Peer(peers[h][p], p) = h
<1>1. peers[h][p] \in Dials /\ peers[h][p] # NoSock
  BY NamesAssumption DEF ConnInv, TypeOK
<1>2. Ends(peers[h][p]) = {h, p}
  BY <1>1 DEF ConnInv, MapHoldsOpenSockets
<1>3. QED
  BY <1>1, <1>2, PeerProps DEF Ends

----------------------------------------------------------------------------
LEMMA ConnInit == Init => ConnInv
<1> SUFFICES ASSUME Init PROVE ConnInv
  OBVIOUS
<1>1. TypeOK
  BY DEF Init, TypeOK
<1>2. QED
  BY <1>1 DEF Init, ConnInv, MapHoldsOpenSockets, OpenSockets

\* Losing sockets keeps the invariant of the variables Close changes.
LEMMA CloseStep ==
    ASSUME ConnInv, NEW closed, Close(closed),
           greeting' \in SUBSET {g \in greeting : g.sock \notin closed},
           walking' \in SUBSET {w \in walking : w.sock \notin closed}
    PROVE  /\ up' \subseteq Dials
           /\ greeted' \subseteq greeted
           /\ peers' \in [Hubs -> [Hubs -> Dials \cup {NoSock}]]
           /\ wire' \subseteq wire
           /\ MapHoldsOpenSockets'
           /\ OpenSockets'
<1>1. peers' \in [Hubs -> [Hubs -> Dials \cup {NoSock}]]
  BY DEF ConnInv, TypeOK, Close, Unmapped
<1>2. MapHoldsOpenSockets'
  <2> SUFFICES ASSUME NEW h \in Hubs, NEW p \in Hubs, peers'[h][p] # NoSock
               PROVE  /\ peers'[h][p] \in up'
                      /\ Ends(peers'[h][p]) = {h, p}
                      /\ <<h, peers'[h][p]>> \in greeted'
    BY DEF MapHoldsOpenSockets
  <2> DEFINE s == peers[h][p]
  <2>1. peers'[h][p] = s /\ ~\E t \in closed : <<h, t>> \in greeted /\ Peer(t, h) = p
    BY DEF Close, Unmapped
  <2>2. s \in up /\ Ends(s) = {h, p} /\ <<h, s>> \in greeted /\ s \in Dials
    BY <2>1 DEF ConnInv, TypeOK, MapHoldsOpenSockets
  <2>3. Peer(s, h) = p
    BY <2>2, PeerUnique
  <2>4. s \notin closed
    BY <2>1, <2>2, <2>3
  <2>5. QED
    BY <2>1, <2>2, <2>4 DEF Close
<1>3. OpenSockets'
  BY DEF ConnInv, OpenSockets, Close
<1>4. QED
  BY <1>1, <1>2, <1>3 DEF ConnInv, TypeOK, Close

\* The steps that leave the connections as they are.
LEMMA NetUnchanged ==
    ASSUME ConnInv, UNCHANGED net,
           \A f \in wire' \ wire : f.sock \in up,
           \A g \in greeting' \ greeting : g.sock \in up,
           \A w \in walking' \ walking : w.sock \in up
    PROVE  MapHoldsOpenSockets' /\ OpenSockets'
  BY DEF ConnInv, MapHoldsOpenSockets, OpenSockets, net

LEMMA ConnTick == ConnInv /\ Tick => ConnInv'
  BY NetUnchanged DEF Tick, ConnInv, TypeOK, db, net, faults

LEMMA ConnDial ==
    ASSUME ConnInv, NEW s \in Dials, Dial(s) PROVE ConnInv'
<1>1. Hello(s, s[2]) \in Addressed /\ Hello(s, s[2]).sock = s
  BY DialsAssumption DEF Hello, Addressed, Frame, Ends
<1>2. TypeOK'
  BY <1>1 DEF ConnInv, TypeOK, Dial, Addressed, db, memory, faults
<1>3. MapHoldsOpenSockets'
  BY DEF ConnInv, MapHoldsOpenSockets, Dial
<1>4. OpenSockets'
  BY <1>1 DEF ConnInv, OpenSockets, Dial
<1>5. QED
  BY <1>2, <1>3, <1>4 DEF ConnInv

LEMMA ConnDrop ==
    ASSUME ConnInv, NEW s \in Dials, Drop(s) PROVE ConnInv'
<1>1. /\ up' \subseteq Dials
      /\ greeted' \subseteq greeted
      /\ peers' \in [Hubs -> [Hubs -> Dials \cup {NoSock}]]
      /\ wire' \subseteq wire
      /\ MapHoldsOpenSockets'
      /\ OpenSockets'
  BY CloseStep DEF Drop
<1>2. TypeOK'
  BY <1>1 DEF ConnInv, TypeOK, Drop, db, memory
<1>3. QED
  BY <1>1, <1>2 DEF ConnInv

LEMMA ConnCrash ==
    ASSUME ConnInv, NEW h \in Hubs, Crash(h) PROVE ConnInv'
<1>1. /\ up' \subseteq Dials
      /\ greeted' \subseteq greeted
      /\ peers' \in [Hubs -> [Hubs -> Dials \cup {NoSock}]]
      /\ wire' \subseteq wire
      /\ MapHoldsOpenSockets'
      /\ OpenSockets'
  BY CloseStep DEF Crash
<1>2. denied' \in [Hubs -> [Msgs -> Nat]]
  BY DEF ConnInv, TypeOK, Crash
<1>3. errors' \in Nat
  BY DEF ConnInv, TypeOK, Crash
<1>4. /\ greeting' \subseteq greeting /\ walking' \subseteq walking
      /\ storing' \subseteq storing /\ submitting' \subseteq submitting
      /\ UNCHANGED <<clock, row, envs, sync, beaten, drops, walks>>
  BY DEF Crash, db
<1>5. TypeOK'
  BY <1>1, <1>2, <1>3, <1>4 DEF ConnInv, TypeOK
<1>6. QED
  BY <1>1, <1>5 DEF ConnInv

LEMMA ConnHello ==
    ASSUME ConnInv, NEW f \in wire, HandleHello(f) PROVE ConnInv'
<1> DEFINE h == f.to
           s == f.sock
           p == Peer(s, h)
<1>1. s \in Dials /\ h \in Ends(s) /\ s \in up
  BY DEF ConnInv, TypeOK, Frame, OpenSockets
<1>2. h \in Hubs /\ p \in Hubs /\ p \in Ends(s) /\ Ends(s) = {h, p}
  BY <1>1, PeerProps
<1>3. LastSync(h, p) \in Int
  <2>1. sync[h][p] \in Nat /\ clock \in Nat /\ DayTicks \in Nat
    BY <1>2, TimeAssumption DEF ConnInv, TypeOK
  <2>2. QED
    BY <2>1, MsType DEF LastSync
<1>4. Hello(s, p) \in Addressed /\ Hello(s, p).sock = s
  BY <1>1, <1>2 DEF Hello, Addressed, Frame
<1> HIDE DEF p
<1>5. TypeOK'
  <2>1. /\ greeted' = greeted \cup {<<h, s>>}
        /\ peers' = [peers EXCEPT ![h][p] = s]
        /\ wire' \subseteq wire \cup {Hello(s, p)}
        /\ greeting' = greeting \cup {[hub |-> h, sock |-> s, since |-> LastSync(h, p)]}
        /\ UNCHANGED <<clock, db, up, storing, walking, submitting, memory, faults>>
    BY DEF HandleHello, p
  <2>2. wire' \subseteq Addressed
    BY <2>1, <1>4 DEF ConnInv, TypeOK, Addressed
  <2>3. greeting' \subseteq {g \in GreetJob : g.hub \in Ends(g.sock)}
    BY <2>1, <1>1, <1>2, <1>3 DEF ConnInv, TypeOK, GreetJob
  <2>4. peers' \in [Hubs -> [Hubs -> Dials \cup {NoSock}]]
    BY <2>1, <1>1, <1>2 DEF ConnInv, TypeOK
  <2>5. greeted' \subseteq {e \in Hubs \X Dials : e[1] \in Ends(e[2])}
    BY <2>1, <1>1, <1>2 DEF ConnInv, TypeOK
  <2>6. QED
    BY <2>1, <2>2, <2>3, <2>4, <2>5
       DEF ConnInv, TypeOK, Addressed, db, memory, faults
<1>6. MapHoldsOpenSockets'
  BY <1>1, <1>2 DEF ConnInv, TypeOK, MapHoldsOpenSockets, HandleHello, p
<1>7. OpenSockets'
  BY <1>1, <1>4 DEF ConnInv, OpenSockets, HandleHello, p
<1>8. QED
  BY <1>5, <1>6, <1>7 DEF ConnInv

LEMMA ConnGreetOffer ==
    ASSUME ConnInv, NEW g \in greeting, GreetOffer(g) PROVE ConnInv'
<1> DEFINE p == Peer(g.sock, g.hub)
<1>1. g.sock \in Dials /\ g.hub \in Ends(g.sock) /\ g.sock \in up
  BY DEF ConnInv, TypeOK, GreetJob, OpenSockets
<1>2. p \in Hubs /\ p \in Ends(g.sock)
  BY <1>1, PeerProps
<1>3. /\ wire' \ wire \subseteq {f \in Addressed : f.sock = g.sock}
      /\ greeting' \subseteq greeting
      /\ UNCHANGED <<clock, db, net, storing, walking, submitting, memory, faults>>
  <2>1. PICK tweets \in Batches(g.hub, "tweet", g.since),
             dms \in Batches(g.hub, "dm", g.since) :
          wire' \subseteq wire \cup {Have(g.sock, p, "tweet", tweets),
                                   Have(g.sock, p, "dm", dms)}
    BY DEF GreetOffer
  <2>2. tweets \in SUBSET Msgs /\ dms \in SUBSET Msgs
    BY BatchesHeld
  <2>3. /\ Have(g.sock, p, "tweet", tweets) \in Addressed
        /\ Have(g.sock, p, "dm", dms) \in Addressed
    BY <1>1, <1>2, <2>2, FrameTypes DEF Classes
  <2>4. /\ Have(g.sock, p, "tweet", tweets).sock = g.sock
        /\ Have(g.sock, p, "dm", dms).sock = g.sock
    BY DEF Have
  <2>5. QED
    BY <2>1, <2>3, <2>4 DEF GreetOffer
<1>4. TypeOK'
  BY <1>3 DEF ConnInv, TypeOK, Addressed, db, net, memory, faults
<1>5. QED
  BY <1>1, <1>3, <1>4, NetUnchanged DEF ConnInv

\* have, want and messages frames.
LEMMA ConnHandle ==
    ASSUME ConnInv, NEW f \in wire,
           HandleHave(f) \/ HandleWant(f) \/ HandleMessages(f)
    PROVE  ConnInv'
<1> DEFINE p == Peer(f.sock, f.to)
<1>1. f.sock \in Dials /\ f.to \in Ends(f.sock) /\ f.sock \in up /\ f.to \in Hubs
  BY DEF ConnInv, TypeOK, Frame, OpenSockets
<1>2. p \in Hubs /\ p \in Ends(f.sock)
  BY <1>1, PeerProps
<1>3. CASE HandleHave(f)
  <2> DEFINE missing == f.hashes \ HeldOf(f.to, f.class)
             want == Want(f.sock, p, f.class, missing)
  <2>1. f.class \in Classes /\ missing \in SUBSET Msgs
    BY <1>3 DEF ConnInv, TypeOK, Frame, HandleHave
  <2>2. want \in Addressed /\ want.sock = f.sock
    BY <1>1, <1>2, <2>1, FrameTypes DEF Want
  <2>3. /\ wire' \subseteq wire \cup {want}
        /\ UNCHANGED <<clock, db, net, greeting, storing, walking, submitting, memory, faults>>
    BY <1>3 DEF HandleHave
  <2>4. TypeOK'
    BY <2>2, <2>3 DEF ConnInv, TypeOK, Addressed, db, net, memory, faults
  <2>5. QED
    BY <1>1, <2>2, <2>3, <2>4, NetUnchanged DEF ConnInv
<1>4. CASE HandleWant(f)
  <2> DEFINE items == Pulled(f.to, f.hashes)
             answer == Messages(f.sock, p, f.class, items)
  <2>1. f.class \in Classes /\ items \in SUBSET Item
    BY <1>1, <1>4, PulledType DEF ConnInv, TypeOK, Frame, HandleWant
  <2>2. answer \in Addressed /\ answer.sock = f.sock
    BY <1>1, <1>2, <2>1, FrameTypes DEF Messages
  <2>3. /\ wire' \subseteq wire \cup {answer}
        /\ UNCHANGED <<clock, db, net, greeting, storing, walking, submitting, memory, faults>>
    BY <1>4 DEF HandleWant
  <2>4. TypeOK'
    BY <2>2, <2>3 DEF ConnInv, TypeOK, Addressed, db, net, memory, faults
  <2>5. QED
    BY <1>1, <2>2, <2>3, <2>4, NetUnchanged DEF ConnInv
<1>5. CASE HandleMessages(f)
  <2> DEFINE job == [hub |-> f.to, from |-> p, class |-> f.class,
                     todo |-> f.items, cur |-> NoItem, stored |-> FALSE]
  <2>1. f.class \in Classes /\ f.items \in SUBSET Item
    BY <1>5 DEF ConnInv, TypeOK, Frame, HandleMessages
  <2>2. job \in StoreJob
    BY <1>1, <1>2, <2>1 DEF StoreJob
  <2>3. /\ wire' \subseteq wire /\ storing' = storing \cup {job}
        /\ UNCHANGED <<clock, db, net, greeting, walking, submitting, memory, faults>>
    BY <1>5 DEF HandleMessages
  <2>4. TypeOK'
    BY <2>2, <2>3 DEF ConnInv, TypeOK, db, net, memory, faults
  <2>5. QED
    BY <2>3, <2>4, NetUnchanged DEF ConnInv
<1>6. QED
  BY <1>3, <1>4, <1>5

LEMMA LookupFailsType ==
    ASSUME ConnInv, NEW h \in Hubs, NEW m \in Msgs, LookupFails(h, m)
    PROVE  /\ denied' \in [Hubs -> [Msgs -> Nat]]
           /\ drops' \in Nat /\ errors' \in Nat /\ walks' \in Nat
  BY DEF ConnInv, TypeOK, LookupFails

\* The storing loop, with its failures.
LEMMA ConnStore ==
    ASSUME ConnInv, NEW j \in storing,
           Process(j) \/ RejectOnRpc(j) \/ StoreFails(j)
    PROVE  ConnInv'
<1>1. /\ j.hub \in Hubs /\ j.from \in Hubs /\ j.class \in Classes
      /\ j.todo \in SUBSET Item /\ j.cur \in Item \cup {NoItem}
      /\ j.stored \in BOOLEAN /\ j \in StoreJob
  BY DEF ConnInv, TypeOK, StoreJob
<1>2. \A item \in j.todo : /\ item \in Item /\ item.msg \in Msgs
                           /\ [j EXCEPT !.todo = @ \ {item}] \in StoreJob
                           /\ [j EXCEPT !.todo = @ \ {item}, !.cur = item] \in StoreJob
  BY <1>1 DEF StoreJob, Item
<1>3. MapHoldsOpenSockets' /\ OpenSockets'
  BY NetUnchanged
     DEF Process, Accept, Reject, StoreItem, FinishStore, RejectOnRpc, StoreFails
<1>4. ASSUME Accept(j) PROVE TypeOK'
  <2>1. envs' \in [Hubs -> SUBSET Msgs]
    <3>1. PICK item \in j.todo :
            envs' = IF item.data THEN [envs EXCEPT ![j.hub] = @ \cup {item.msg}]
                    ELSE envs
      BY <1>4 DEF Accept
    <3>2. item.msg \in Msgs /\ envs \in [Hubs -> SUBSET Msgs]
      BY <1>2 DEF ConnInv, TypeOK
    <3>3. QED
      BY <1>1, <3>1, <3>2
  <2>2. storing' \subseteq StoreJob
    BY <1>2, <1>4 DEF Accept, ConnInv, TypeOK
  <2>3. QED
    BY <1>4, <2>1, <2>2 DEF Accept, ConnInv, TypeOK, net, memory, faults
<1>5. ASSUME Reject(j) PROVE TypeOK'
  BY <1>2, <1>5 DEF Reject, ConnInv, TypeOK, db, net, memory, faults
<1>6. ASSUME RejectOnRpc(j) PROVE TypeOK'
  <2>1. PICK item \in j.todo :
            /\ LookupFails(j.hub, item.msg)
            /\ storing' = (storing \ {j}) \cup {[j EXCEPT !.todo = @ \ {item}]}
    BY <1>6 DEF RejectOnRpc
  <2>2. storing' \subseteq StoreJob
    BY <1>2, <2>1 DEF ConnInv, TypeOK
  <2>3. /\ denied' \in [Hubs -> [Msgs -> Nat]]
        /\ drops' \in Nat /\ errors' \in Nat /\ walks' \in Nat
    BY <1>1, <1>2, <2>1, LookupFailsType
  <2>4. QED
    BY <1>6, <2>2, <2>3 DEF RejectOnRpc, ConnInv, TypeOK, db, net
<1>7. ASSUME StoreItem(j) PROVE TypeOK'
  <2>1. j.cur \in Item /\ j.cur.msg \in Msgs /\ j.cur.body \in {"full", "bare"}
    BY <1>1, <1>7 DEF StoreItem, Item
  <2>2. row' \in [Hubs -> [Msgs -> Row \cup {NoRow}]]
    BY <1>1, <1>7, <2>1, InsertRowType DEF StoreItem, ConnInv
  <2>3. storing' \subseteq StoreJob
    <3> DEFINE done == j.stored \/ row[j.hub][j.cur.msg] = NoRow
    <3>1. done \in BOOLEAN
      OBVIOUS
    <3>2. storing' = (storing \ {j}) \cup {[j EXCEPT !.cur = NoItem, !.stored = done]}
      BY <1>7 DEF StoreItem
    <3> HIDE DEF done
    <3>3. [j EXCEPT !.cur = NoItem, !.stored = done] \in StoreJob
      BY <1>1, <3>1 DEF StoreJob
    <3>4. QED
      BY <3>2, <3>3 DEF ConnInv, TypeOK
  <2>4. QED
    BY <1>7, <2>2, <2>3 DEF StoreItem, ConnInv, TypeOK, net, memory, faults
<1>8. ASSUME FinishStore(j) PROVE TypeOK'
  BY <1>1, <1>8 DEF FinishStore, ConnInv, TypeOK, net, memory, faults
<1>9. ASSUME StoreFails(j) PROVE TypeOK'
  BY <1>9 DEF StoreFails, ConnInv, TypeOK, db, net, memory
<1>10. QED
  BY <1>3, <1>4, <1>5, <1>6, <1>7, <1>8, <1>9 DEF ConnInv, Process

\* What goes to every connected peer is on an open socket and well addressed.
LEMMA BroadcastAddressed ==
    ASSUME ConnInv, NEW h \in Hubs
    PROVE  /\ \A page \in SUBSET Msgs :
                ToPeers(h, LAMBDA s, p : Have(s, p, "tweet", page))
                    \subseteq {f \in Addressed : f.sock \in up}
           /\ \A m \in Msgs :
                ToPeers(h, LAMBDA s, p : Messages(s, p, ClassOf(m), {Pushed(m)}))
                    \subseteq {f \in Addressed : f.sock \in up}
<1>1. ASSUME NEW page \in SUBSET Msgs, NEW p \in Hubs, peers[h][p] \in up
      PROVE  Have(peers[h][p], p, "tweet", page) \in {f \in Addressed : f.sock \in up}
  <2>1. Have(peers[h][p], p, "tweet", page) \in Addressed
    BY <1>1, PeersAddressed, FrameTypes DEF Classes
  <2>2. QED
    BY <1>1, <2>1 DEF Have
<1>2. ASSUME NEW m \in Msgs, NEW p \in Hubs, peers[h][p] \in up
      PROVE  Messages(peers[h][p], p, ClassOf(m), {Pushed(m)})
                 \in {f \in Addressed : f.sock \in up}
  <2>1. {Pushed(m)} \in SUBSET Item /\ ClassOf(m) \in Classes
    BY PushedType, ClassOfType
  <2>2. Messages(peers[h][p], p, ClassOf(m), {Pushed(m)}) \in Addressed
    BY <1>2, <2>1, PeersAddressed, FrameTypes
  <2>3. QED
    BY <1>2, <2>2 DEF Messages
<1>3. QED
  BY <1>1, <1>2 DEF ToPeers

\* The gossip timer and the catch-up walk.
LEMMA ConnTimer ==
    ASSUME ConnInv, NEW h \in Hubs, BroadcastHave(h) PROVE ConnInv'
<1>1. PICK page \in Batches(h, "tweet", Ms(clock) - HaveWindow) :
        wire' \subseteq wire \cup ToPeers(h, LAMBDA s, p : Have(s, p, "tweet", page))
  BY DEF BroadcastHave
<1>2. wire' \ wire \subseteq {f \in Addressed : f.sock \in up}
  <2>1. page \in SUBSET Msgs
    BY BatchesHeld
  <2>2. ToPeers(h, LAMBDA s, p : Have(s, p, "tweet", page))
            \subseteq {f \in Addressed : f.sock \in up}
    BY <2>1, BroadcastAddressed
  <2>3. QED
    BY <1>1, <2>2
<1>3. TypeOK'
  BY <1>2 DEF BroadcastHave, ConnInv, TypeOK, Addressed, db, net, faults
<1>4. QED
  BY <1>2, <1>3, NetUnchanged DEF BroadcastHave, ConnInv

LEMMA ConnTrigger ==
    ASSUME ConnInv, NEW h \in Hubs, NEW p \in Hubs, NEW since \in WalkFrom,
           TriggerSync(h, p, since)
    PROVE  ConnInv'
<1> DEFINE w == [hub |-> h, sock |-> peers[h][p], class |-> "tweet", since |-> since,
                 cursor |-> since, left |-> MaxPages, seen |-> {}]
<1>1. /\ peers[h][p] \in Dials /\ peers[h][p] \in up
      /\ h \in Ends(peers[h][p])
  BY DEF TriggerSync, ConnInv, TypeOK, MapHoldsOpenSockets
<1>2. since \in Int /\ MaxPages \in 1 .. MaxPages
  BY TimeAssumption
<1>3. w \in WalkJob /\ w.hub = h /\ w.sock = peers[h][p]
  BY <1>1, <1>2 DEF WalkJob, Classes
<1>4. walking' = walking \cup {w} /\ walks' \in Nat
  BY DEF TriggerSync, ConnInv, TypeOK
<1> HIDE DEF w
<1>5. TypeOK'
  <2>1. walking' \subseteq {v \in WalkJob : v.hub \in Ends(v.sock)}
    BY <1>1, <1>3, <1>4 DEF ConnInv, TypeOK
  <2>2. QED
    BY <1>4, <2>1 DEF TriggerSync, ConnInv, TypeOK, db, net, memory
<1>6. QED
  BY <1>1, <1>4, <1>5, NetUnchanged DEF TriggerSync, ConnInv

LEMMA ConnWalk ==
    ASSUME ConnInv, NEW w \in walking, WalkPage(w) PROVE ConnInv'
<1> DEFINE p == Peer(w.sock, w.hub)
<1>1. /\ w \in WalkJob /\ w.sock \in Dials /\ w.hub \in Ends(w.sock) /\ w.sock \in up
      /\ w.hub \in Hubs /\ w.since \in Int /\ w.left \in 1 .. MaxPages
      /\ w.seen \in SUBSET Msgs /\ w.class \in Classes
  BY DEF ConnInv, TypeOK, WalkJob, OpenSockets
<1>2. p \in Ends(w.sock) /\ p \in Hubs
  BY <1>1, PeerProps
<1>3. PICK page \in Batches(w.hub, w.class, w.cursor) :
        /\ wire' \subseteq wire \cup {Have(w.sock, p, w.class, page)}
        /\ \/ /\ w.left > 1
              /\ \E m \in page : walking' = (walking \ {w}) \cup {Turned(w, m, page)}
           \/ walking' = (walking \ {w}) \cup NextClass(w)
  BY DEF WalkPage
<1>4. page \in SUBSET Msgs /\ \A m \in page : row[w.hub][m] \in Row
  BY <1>1, BatchesHeld DEF HeldOf, Held, ConnInv, TypeOK
<1>5. /\ Have(w.sock, p, w.class, page) \in Addressed
      /\ Have(w.sock, p, w.class, page).sock = w.sock
  BY <1>1, <1>2, <1>4, FrameTypes DEF Have
<1> DEFINE Sound(v) == v \in WalkJob /\ v.sock = w.sock /\ v.hub = w.hub
<1>6. ASSUME w.left > 1, NEW m \in page PROVE Sound(Turned(w, m, page))
  <2>1. Ms(row[w.hub][m].at) + MsTicks \in Int
    BY <1>4, MsType, TimeAssumption DEF Row
  <2>2. w.left - 1 \in 1 .. MaxPages
    BY <1>1, <1>6, TimeAssumption
  <2>3. QED
    BY <1>1, <1>4, <2>1, <2>2 DEF Turned, WalkJob
<1>7. \A v \in NextClass(w) : Sound(v)
  <2>1. MaxPages \in 1 .. MaxPages
    BY TimeAssumption
  <2>2. QED
    BY <1>1, <2>1 DEF NextClass, WalkJob, Classes
<1>8. \A v \in walking' \ walking : Sound(v)
  BY <1>3, <1>6, <1>7
<1>9. TypeOK'
  BY <1>1, <1>3, <1>5, <1>8
     DEF WalkPage, ConnInv, TypeOK, Addressed, db, net, memory, faults
<1>10. QED
  BY <1>1, <1>3, <1>5, <1>8, <1>9, NetUnchanged DEF WalkPage, ConnInv

\* The submit routes.
LEMMA ConnSubmit ==
    ASSUME ConnInv, NEW h \in Hubs, NEW m \in Msgs, Submit(h, m) \/ SubmitRefused(h, m)
    PROVE  ConnInv'
<1>1. MapHoldsOpenSockets' /\ OpenSockets'
  BY NetUnchanged DEF Submit, SubmitRefused
<1>2. ASSUME Submit(h, m) PROVE TypeOK'
  <2>1. envs' \in [Hubs -> SUBSET Msgs]
    BY <1>2 DEF Submit, KeepEnvelope, ConnInv, TypeOK
  <2>2. submitting' \subseteq SubmitJob
    <3>1. \A st \in {"check", "insert", "envelope"} :
              [hub |-> h, msg |-> m, stage |-> st] \in SubmitJob
      BY DEF SubmitJob
    <3>2. submitting' \subseteq submitting \cup
              {[hub |-> h, msg |-> m, stage |-> st] : st \in {"check", "insert", "envelope"}}
      BY <1>2 DEF Submit
    <3>3. QED
      BY <3>1, <3>2 DEF ConnInv, TypeOK
  <2>3. QED
    BY <1>2, <2>1, <2>2 DEF Submit, ConnInv, TypeOK, net, memory, faults
<1>3. ASSUME SubmitRefused(h, m) PROVE TypeOK'
  <2>1. /\ denied' \in [Hubs -> [Msgs -> Nat]]
        /\ drops' \in Nat /\ errors' \in Nat /\ walks' \in Nat
    BY <1>3, LookupFailsType DEF SubmitRefused
  <2>2. QED
    BY <1>3, <2>1 DEF SubmitRefused, ConnInv, TypeOK, db, net
<1>4. QED
  BY <1>1, <1>2, <1>3 DEF ConnInv

LEMMA ConnSubmitting ==
    ASSUME ConnInv, NEW j \in submitting, SubmitStep(j) \/ SubmitFails(j)
    PROVE  ConnInv'
<1>1. j \in SubmitJob /\ j.hub \in Hubs /\ j.msg \in Msgs
  BY DEF ConnInv, TypeOK, SubmitJob
<1>2. wire' \ wire \subseteq {f \in Addressed : f.sock \in up}
  <2>1. ToPeers(j.hub, LAMBDA s, p : Messages(s, p, ClassOf(j.msg), {Pushed(j.msg)}))
            \subseteq {f \in Addressed : f.sock \in up}
    BY <1>1, BroadcastAddressed
  <2>2. QED
    BY <2>1 DEF SubmitStep, SubmitCheck, SubmitInsert, SubmitEnvelope, SubmitFails, Push
<1>3. MapHoldsOpenSockets' /\ OpenSockets'
  BY <1>2, NetUnchanged
     DEF SubmitStep, SubmitCheck, SubmitInsert, SubmitEnvelope, SubmitFails
<1>4. submitting' \subseteq SubmitJob
  <2>1. \A st \in {"check", "insert", "envelope"} : [j EXCEPT !.stage = st] \in SubmitJob
    BY <1>1 DEF SubmitJob
  <2>2. submitting' \subseteq submitting \cup
            {[j EXCEPT !.stage = st] : st \in {"check", "insert", "envelope"}}
    BY DEF SubmitStep, SubmitCheck, SubmitInsert, SubmitEnvelope, SubmitFails
  <2>3. QED
    BY <2>1, <2>2 DEF ConnInv, TypeOK
<1>5. wire' \subseteq {f \in Frame : f.to \in Ends(f.sock)}
  BY <1>2 DEF ConnInv, TypeOK, Addressed
<1>6. ASSUME SubmitCheck(j) PROVE TypeOK'
  BY <1>4, <1>6 DEF SubmitCheck, ConnInv, TypeOK, db, net, memory, faults
<1>7. ASSUME SubmitInsert(j) PROVE TypeOK'
  <2>1. row' \in [Hubs -> [Msgs -> Row \cup {NoRow}]]
    BY <1>1, <1>7, InsertRowType DEF SubmitInsert, ConnInv
  <2>2. QED
    BY <1>4, <1>5, <1>7, <2>1 DEF SubmitInsert, ConnInv, TypeOK, net, memory, faults
<1>8. ASSUME SubmitEnvelope(j) PROVE TypeOK'
  <2>1. envs' \in [Hubs -> SUBSET Msgs]
    BY <1>1, <1>8 DEF SubmitEnvelope, KeepEnvelope, ConnInv, TypeOK
  <2>2. QED
    BY <1>4, <1>5, <1>8, <2>1 DEF SubmitEnvelope, ConnInv, TypeOK, net, memory, faults
<1>9. ASSUME SubmitFails(j) PROVE TypeOK'
  BY <1>4, <1>9 DEF SubmitFails, ConnInv, TypeOK, db, net, memory
<1>10. QED
  BY <1>3, <1>6, <1>7, <1>8, <1>9 DEF ConnInv, SubmitStep

LEMMA ConnNext == ConnInv /\ [Next]_vars => ConnInv'
<1> SUFFICES ASSUME ConnInv, [Next]_vars PROVE ConnInv'
  OBVIOUS
<1>1. CASE UNCHANGED vars
  BY <1>1 DEF ConnInv, TypeOK, MapHoldsOpenSockets, OpenSockets,
              vars, db, net, memory, faults
<1>2. CASE Next
  BY <1>2, ConnTick, ConnDial, ConnDrop, ConnCrash, ConnHello, ConnGreetOffer,
     ConnHandle, ConnStore, ConnTimer, ConnTrigger, ConnWalk, ConnSubmit,
     ConnSubmitting DEF Next, Handle
<1>3. QED
  BY <1>1, <1>2

LEMMA ConnSpec == Spec => []ConnInv
  BY ConnInit, ConnNext, PTL DEF Spec

\* The tables, the connection map, the frames in flight and the state of every
\* running handler stay well formed, for any number of hubs and messages.
THEOREM SpecTypeOK == Spec => []TypeOK
<1>1. ConnInv => TypeOK
  BY DEF ConnInv
<1>2. QED
  BY <1>1, ConnSpec, PTL

\* A hub never pushes, offers or walks to a peer over a socket that is closed,
\* unannounced or of another pair: whatever the order of hello frames, closes,
\* restarts and new dials.
THEOREM SpecMapHoldsOpenSockets == Spec => []MapHoldsOpenSockets
<1>1. ConnInv => MapHoldsOpenSockets
  BY DEF ConnInv
<1>2. QED
  BY <1>1, ConnSpec, PTL

----------------------------------------------------------------------------
(* What the hubs store and tell each other. *)

\* OffersBacked, frame by frame and handler by handler.
FrameBacked(f) ==
    /\ f.type = "have" => f.hashes \subseteq HeldOf(Peer(f.sock, f.to), f.class)
    /\ f.type = "want" => f.hashes \subseteq HeldOf(f.to, f.class)
    /\ f.type = "messages" => \A item \in f.items :
           item.msg \in HeldOf(Peer(f.sock, f.to), f.class)

JobBacked(j) ==
    /\ \A item \in j.todo : item.msg \in HeldOf(j.from, j.class)
    /\ j.cur # NoItem => j.cur.msg \in HeldOf(j.from, j.class)

\* Nobody dates anything in the future.
DatedInPast ==
    /\ \A h \in Hubs : \A m \in Held(h) : row[h][m].at <= clock
    /\ \A h, p \in Hubs : sync[h][p] <= clock

\* What a running handler has established before its next step.
HandlersSound ==
    /\ \A j \in storing :
         /\ j.from # j.hub
         /\ RequireDataB64 /\ j.cur # NoItem => j.cur.msg \in envs[j.hub]
    /\ \A j \in submitting :
         /\ j.hub \in Origins[j.msg]
         /\ j.stage = "envelope" => j.msg \in Held(j.hub)

DataInv == /\ ConnInv /\ OffersBacked /\ DatedInPast /\ HandlersSound
           /\ RequiredEnvelopes /\ ProvenanceOrdered

----------------------------------------------------------------------------
(* Rows grow. *)

RowsGrow == \A h \in Hubs : \A m \in Held(h) : row'[h][m] = row[h][m]

LEMMA InsertRowGrows ==
    ASSUME ConnInv, NEW h \in Hubs, NEW m \in Msgs, NEW from \in Hubs \cup {Local},
           NEW body \in {"full", "bare"}, row' = InsertRow(h, m, from, body)
    PROVE  /\ RowsGrow
           /\ \A g \in Hubs : Held(g)' = IF g = h THEN Held(g) \cup {m} ELSE Held(g)
           /\ m \notin Held(h) =>
                row'[h][m] = [at |-> clock, from |-> from, body |-> body]
           /\ \A g \in Hubs, n \in Msgs :
                (g # h \/ n # m \/ m \in Held(h)) => row'[g][n] = row[g][n]
  <1>1. row \in [Hubs -> [Msgs -> Row \cup {NoRow}]]
    BY DEF ConnInv, TypeOK
  <1>2. [at |-> clock, from |-> from, body |-> body] # NoRow
    BY NamesAssumption DEF Row, ConnInv, TypeOK
  <1>3. QED
    BY <1>1, <1>2 DEF InsertRow, RowsGrow, Held

\* The two steps that insert a row, and what they insert.
LEMMA StoreItemRow ==
    ASSUME ConnInv, NEW j \in storing, StoreItem(j)
    PROVE  /\ j.hub \in Hubs /\ j.from \in Hubs /\ j.cur \in Item /\ j.cur.msg \in Msgs
           /\ RowsGrow
           /\ \A g \in Hubs : Held(g)' =
                IF g = j.hub THEN Held(g) \cup {j.cur.msg} ELSE Held(g)
           /\ j.cur.msg \notin Held(j.hub) => row'[j.hub][j.cur.msg] =
                [at |-> clock, from |-> j.from, body |-> j.cur.body]
           /\ \A g \in Hubs, n \in Msgs :
                (g # j.hub \/ n # j.cur.msg \/ j.cur.msg \in Held(j.hub))
                    => row'[g][n] = row[g][n]
<1>1. j.hub \in Hubs /\ j.from \in Hubs /\ j.cur \in Item
  BY DEF StoreItem, ConnInv, TypeOK, StoreJob
<1>2. j.cur.msg \in Msgs /\ j.cur.body \in {"full", "bare"}
  BY <1>1 DEF Item
<1>3. row' = InsertRow(j.hub, j.cur.msg, j.from, j.cur.body)
  BY DEF StoreItem
<1> DEFINE m == j.cur.msg
           body == j.cur.body
<1>4. m \in Msgs /\ body \in {"full", "bare"} /\ j.from \in Hubs \cup {Local}
  BY <1>1, <1>2
<1>5. row' = InsertRow(j.hub, m, j.from, body)
  BY <1>3
<1> HIDE DEF m, body
<1>6. /\ RowsGrow
      /\ \A g \in Hubs : Held(g)' = IF g = j.hub THEN Held(g) \cup {m} ELSE Held(g)
      /\ m \notin Held(j.hub) =>
             row'[j.hub][m] = [at |-> clock, from |-> j.from, body |-> body]
      /\ \A g \in Hubs, n \in Msgs :
             (g # j.hub \/ n # m \/ m \in Held(j.hub)) => row'[g][n] = row[g][n]
  BY <1>1, <1>4, <1>5, InsertRowGrows
<1>7. QED
  BY <1>1, <1>4, <1>6 DEF m, body

LEMMA SubmitInsertRow ==
    ASSUME ConnInv, NEW j \in submitting, SubmitInsert(j)
    PROVE  /\ j.hub \in Hubs /\ j.msg \in Msgs
           /\ RowsGrow
           /\ \A g \in Hubs : Held(g)' =
                IF g = j.hub THEN Held(g) \cup {j.msg} ELSE Held(g)
           /\ j.msg \notin Held(j.hub) => row'[j.hub][j.msg] =
                [at |-> clock, from |-> Local, body |-> "full"]
           /\ \A g \in Hubs, n \in Msgs :
                (g # j.hub \/ n # j.msg \/ j.msg \in Held(j.hub))
                    => row'[g][n] = row[g][n]
<1>1. j.hub \in Hubs /\ j.msg \in Msgs
  BY DEF ConnInv, TypeOK, SubmitJob
<1>2. row' = InsertRow(j.hub, j.msg, Local, "full")
  BY DEF SubmitInsert
<1>3. QED
  BY <1>1, <1>2, InsertRowGrows

\* Every other step leaves the rows alone.
LEMMA RowChange ==
    ASSUME [Next]_vars
    PROVE  \/ UNCHANGED row
           \/ \E j \in storing : StoreItem(j)
           \/ \E j \in submitting : SubmitInsert(j)
  BY DEF Next, vars, db, Tick, Dial, Drop, Crash, BroadcastHave, TriggerSync, Submit,
         SubmitRefused, Handle, HandleHello, HandleHave, HandleWant, HandleMessages,
         GreetOffer, Process, Accept, Reject, FinishStore, RejectOnRpc, StoreFails,
         WalkPage, SubmitStep, SubmitCheck, SubmitEnvelope, SubmitFails

LEMMA RowsGrowStep == ConnInv /\ [Next]_vars => RowsGrow
  BY RowChange, StoreItemRow, SubmitInsertRow DEF RowsGrow

\* While rows grow, what is held stays held, and backed stays backed.
LEMMA HeldGrows ==
    ASSUME ConnInv, ConnInv', RowsGrow, NEW h \in Hubs
    PROVE  /\ Held(h) \subseteq Held(h)'
           /\ \A c : HeldOf(h, c) \subseteq HeldOf(h, c)'
  BY DEF RowsGrow, Held, HeldOf

LEMMA BackedStays ==
    ASSUME ConnInv, ConnInv', RowsGrow
    PROVE  /\ \A f \in wire : FrameBacked(f) => FrameBacked(f)'
           /\ \A j \in storing : JobBacked(j) => JobBacked(j)'
<1>1. \A f \in wire : f.to \in Hubs /\ Peer(f.sock, f.to) \in Hubs
  BY PeerProps DEF ConnInv, TypeOK, Frame
<1>2. \A j \in storing : j.from \in Hubs
  BY DEF ConnInv, TypeOK, StoreJob
<1>3. \A f \in wire : FrameBacked(f) => FrameBacked(f)'
  BY <1>1, HeldGrows DEF FrameBacked
<1>4. \A j \in storing : JobBacked(j) => JobBacked(j)'
  BY <1>2, HeldGrows DEF JobBacked
<1>5. QED
  BY <1>3, <1>4

LEMMA OffersBackedSplit ==
    OffersBacked <=> (\A f \in wire : FrameBacked(f)) /\ (\A j \in storing : JobBacked(j))
  BY DEF OffersBacked, FrameBacked, JobBacked

\* So only what is new has to be looked at.
LEMMA BackedByNew ==
    ASSUME ConnInv, ConnInv', RowsGrow, OffersBacked,
           \A f \in wire' \ wire : FrameBacked(f)',
           \A j \in storing' \ storing : JobBacked(j)'
    PROVE  OffersBacked'
<1>1. (\A f \in wire' : FrameBacked(f)') /\ (\A j \in storing' : JobBacked(j)')
  BY BackedStays, OffersBackedSplit
<1>2. QED
  BY <1>1 DEF OffersBacked, FrameBacked, JobBacked

\* Offers of held rows are backed, and so are pulls and pushes of held rows.
LEMMA HaveBacked ==
    ASSUME NEW s \in Dials, NEW h \in Ends(s), NEW c, NEW ms, ms \subseteq HeldOf(h, c)
    PROVE  FrameBacked(Have(s, Peer(s, h), c, ms))
  BY PeerProps DEF FrameBacked, Have

LEMMA BackedGreetOffer ==
    ASSUME ConnInv, NEW g \in greeting, GreetOffer(g)
    PROVE  \A f \in wire' \ wire : FrameBacked(f)'
<1> DEFINE p == Peer(g.sock, g.hub)
<1>1. g.sock \in Dials /\ g.hub \in Ends(g.sock)
  BY DEF ConnInv, TypeOK, GreetJob
<1>2. PICK tweets \in Batches(g.hub, "tweet", g.since),
           dms \in Batches(g.hub, "dm", g.since) :
        wire' \subseteq wire \cup {Have(g.sock, p, "tweet", tweets),
                                 Have(g.sock, p, "dm", dms)}
  BY DEF GreetOffer
<1>3. tweets \subseteq HeldOf(g.hub, "tweet") /\ dms \subseteq HeldOf(g.hub, "dm")
  BY BatchesHeld
<1>4. \A f \in wire' \ wire : FrameBacked(f)
  BY <1>1, <1>2, <1>3, HaveBacked
<1>5. UNCHANGED row
  BY DEF GreetOffer, db
<1>6. QED
  BY <1>4, <1>5 DEF FrameBacked, HeldOf, Held

LEMMA BackedHave ==
    ASSUME ConnInv, OffersBacked, NEW f \in wire, HandleHave(f)
    PROVE  \A e \in wire' \ wire : FrameBacked(e)'
<1> DEFINE p == Peer(f.sock, f.to)
           missing == f.hashes \ HeldOf(f.to, f.class)
<1>1. f.hashes \subseteq HeldOf(p, f.class)
  BY DEF HandleHave, OffersBacked
<1>2. FrameBacked(Want(f.sock, p, f.class, missing))
  BY <1>1 DEF FrameBacked, Want
<1>3. wire' \subseteq wire \cup {Want(f.sock, p, f.class, missing)} /\ UNCHANGED row
  BY DEF HandleHave, db
<1>4. QED
  BY <1>2, <1>3 DEF FrameBacked, HeldOf, Held

LEMMA BackedWant ==
    ASSUME ConnInv, OffersBacked, NEW f \in wire, HandleWant(f)
    PROVE  \A e \in wire' \ wire : FrameBacked(e)'
<1> DEFINE p == Peer(f.sock, f.to)
           answer == Messages(f.sock, p, f.class, Pulled(f.to, f.hashes))
<1>1. f.sock \in Dials /\ f.to \in Ends(f.sock)
  BY DEF ConnInv, TypeOK, Frame
<1>2. f.hashes \subseteq HeldOf(f.to, f.class)
  BY DEF HandleWant, OffersBacked
<1>3. \A item \in Pulled(f.to, f.hashes) : item.msg \in HeldOf(f.to, f.class)
  BY <1>2 DEF Pulled
<1>4. Peer(f.sock, p) = f.to
  BY <1>1, PeerProps
<1>5. FrameBacked(answer)
  BY <1>3, <1>4 DEF FrameBacked, Messages
<1>6. wire' \subseteq wire \cup {answer} /\ UNCHANGED row
  BY DEF HandleWant, db
<1>7. QED
  BY <1>5, <1>6 DEF FrameBacked, HeldOf, Held

LEMMA BackedMessages ==
    ASSUME ConnInv, OffersBacked, NEW f \in wire, HandleMessages(f)
    PROVE  \A j \in storing' \ storing : JobBacked(j)'
<1> DEFINE p == Peer(f.sock, f.to)
           job == [hub |-> f.to, from |-> p, class |-> f.class,
                   todo |-> f.items, cur |-> NoItem, stored |-> FALSE]
<1>1. \A item \in f.items : item.msg \in HeldOf(p, f.class)
  BY DEF HandleMessages, OffersBacked
<1>2. JobBacked(job)
  BY <1>1 DEF JobBacked
<1>3. storing' = storing \cup {job} /\ UNCHANGED row
  BY DEF HandleMessages, db
<1>4. QED
  BY <1>2, <1>3 DEF JobBacked, HeldOf, Held

LEMMA BackedBroadcast ==
    ASSUME ConnInv, NEW h \in Hubs, BroadcastHave(h)
    PROVE  \A f \in wire' \ wire : FrameBacked(f)'
<1>1. PICK page \in Batches(h, "tweet", Ms(clock) - HaveWindow) :
        wire' \subseteq wire \cup ToPeers(h, LAMBDA s, p : Have(s, p, "tweet", page))
  BY DEF BroadcastHave
<1>2. page \subseteq HeldOf(h, "tweet")
  BY BatchesHeld
<1>3. ASSUME NEW p \in Hubs, peers[h][p] \in up
      PROVE  FrameBacked(Have(peers[h][p], p, "tweet", page))
  BY <1>2, <1>3, PeersAddressed DEF FrameBacked, Have
<1>4. \A f \in wire' \ wire : FrameBacked(f)
  BY <1>1, <1>3 DEF ToPeers
<1>5. UNCHANGED row
  BY DEF BroadcastHave, db
<1>6. QED
  BY <1>4, <1>5 DEF FrameBacked, HeldOf, Held

LEMMA BackedWalk ==
    ASSUME ConnInv, NEW w \in walking, WalkPage(w)
    PROVE  \A f \in wire' \ wire : FrameBacked(f)'
<1>1. w.sock \in Dials /\ w.hub \in Ends(w.sock)
  BY DEF ConnInv, TypeOK, WalkJob
<1>2. PICK page \in Batches(w.hub, w.class, w.cursor) :
        wire' \subseteq wire \cup {Have(w.sock, Peer(w.sock, w.hub), w.class, page)}
  BY DEF WalkPage
<1>3. page \subseteq HeldOf(w.hub, w.class)
  BY BatchesHeld
<1>4. FrameBacked(Have(w.sock, Peer(w.sock, w.hub), w.class, page))
  BY <1>1, <1>3, HaveBacked
<1>5. UNCHANGED row
  BY DEF WalkPage, db
<1>6. QED
  BY <1>2, <1>4, <1>5 DEF FrameBacked, HeldOf, Held

\* A push follows its INSERT.
LEMMA BackedPush ==
    ASSUME ConnInv, NEW h \in Hubs, NEW m \in Msgs, Push(h, m), m \in Held(h)'
    PROVE  \A f \in wire' \ wire : FrameBacked(f)'
<1>1. m \in HeldOf(h, ClassOf(m))'
  BY DEF HeldOf
<1>2. Pushed(m).msg = m
  BY DEF Pushed
<1>3. ASSUME NEW p \in Hubs, NEW s, s = peers[h][p], s \in up
      PROVE  FrameBacked(Messages(s, p, ClassOf(m), {Pushed(m)}))'
  <2>1. Peer(s, p) = h
    BY <1>3, PeersAddressed
  <2> DEFINE push == Messages(s, p, ClassOf(m), {Pushed(m)})
  <2>2. /\ push.type = "messages" /\ push.sock = s /\ push.to = p
        /\ push.class = ClassOf(m) /\ push.items = {Pushed(m)}
    BY DEF Messages
  <2> HIDE DEF push
  <2>3. FrameBacked(push)'
    BY <1>1, <1>2, <2>1, <2>2 DEF FrameBacked
  <2>4. QED
    BY <2>3 DEF push
<1>4. wire' = wire \cup ToPeers(h, LAMBDA s, p : Messages(s, p, ClassOf(m), {Pushed(m)}))
  BY DEF Push
<1>5. ASSUME NEW f \in wire' \ wire PROVE FrameBacked(f)'
  <2>1. PICK p \in Hubs : /\ peers[h][p] \in up
                         /\ f = Messages(peers[h][p], p, ClassOf(m), {Pushed(m)})
    BY <1>4, <1>5 DEF ToPeers
  <2>2. PICK s : s = peers[h][p]
    OBVIOUS
  <2>3. f = Messages(s, p, ClassOf(m), {Pushed(m)}) /\ s \in up
    BY <2>1, <2>2
  <2>4. QED
    BY <1>3, <2>2, <2>3
<1>6. QED
  BY <1>5

\* What a step of the storing loop turns its handler into.
LEMMA StoringSteps ==
    ASSUME ConnInv, NEW j \in storing, Process(j) \/ RejectOnRpc(j) \/ StoreFails(j)
    PROVE  \A k \in storing' \ storing :
              /\ k.hub = j.hub /\ k.from = j.from /\ k.class = j.class
              /\ k.todo \subseteq j.todo
              /\ k.cur # NoItem => k.cur \in j.todo
<1>1. j \in StoreJob
  BY DEF ConnInv, TypeOK
<1>2. \A item :
        LET skipped == [j EXCEPT !.todo = @ \ {item}]
            taken == [j EXCEPT !.todo = @ \ {item}, !.cur = item]
        IN  /\ skipped.hub = j.hub /\ skipped.from = j.from /\ skipped.class = j.class
            /\ skipped.todo \subseteq j.todo /\ skipped.cur = j.cur
            /\ taken.hub = j.hub /\ taken.from = j.from /\ taken.class = j.class
            /\ taken.todo \subseteq j.todo /\ taken.cur = item
  BY <1>1 DEF StoreJob
<1>3. CASE Accept(j)
  <2>1. PICK item \in j.todo :
          storing' = (storing \ {j}) \cup {[j EXCEPT !.todo = @ \ {item}, !.cur = item]}
    BY <1>3 DEF Accept
  <2>2. \A k \in storing' \ storing : k = [j EXCEPT !.todo = @ \ {item}, !.cur = item]
    BY <2>1
  <2>3. QED
    BY <1>1, <2>2 DEF StoreJob
<1>4. CASE Reject(j)
  <2>1. PICK item : storing' = (storing \ {j}) \cup {[j EXCEPT !.todo = @ \ {item}]}
    BY <1>4 DEF Reject
  <2>2. j.cur = NoItem
    BY <1>4 DEF Reject
  <2>3. QED
    BY <1>2, <2>1, <2>2
<1>5. CASE RejectOnRpc(j)
  BY <1>2, <1>5 DEF RejectOnRpc
<1>6. CASE StoreItem(j)
  <2>1. PICK stored : storing' = (storing \ {j}) \cup
                                    {[j EXCEPT !.cur = NoItem, !.stored = stored]}
    BY <1>6 DEF StoreItem
  <2>2. QED
    BY <1>1, <2>1 DEF StoreJob
<1>7. CASE FinishStore(j) \/ StoreFails(j)
  BY <1>7 DEF FinishStore, StoreFails
<1>8. QED
  BY <1>3, <1>4, <1>5, <1>6, <1>7 DEF Process

LEMMA BackedNext ==
    ASSUME ConnInv, ConnInv', OffersBacked, HandlersSound, [Next]_vars
    PROVE  OffersBacked'
<1>1. RowsGrow
  BY RowsGrowStep
<1>2. CASE UNCHANGED vars
  BY <1>2, <1>1, BackedByNew DEF vars
<1>3. ASSUME wire' \subseteq wire, storing' \subseteq storing PROVE OffersBacked'
  BY <1>1, <1>3, BackedByNew
<1>4. ASSUME \A f \in wire' \ wire : FrameBacked(f)', storing' \subseteq storing
      PROVE  OffersBacked'
  BY <1>1, <1>4, BackedByNew
<1>5. \A s, p : FrameBacked(Hello(s, p))'
  BY DEF FrameBacked, Hello
<1>6. ASSUME Tick PROVE OffersBacked'
  BY <1>3, <1>6 DEF Tick
<1>7. ASSUME NEW s \in Dials, Dial(s) PROVE OffersBacked'
  BY <1>4, <1>5, <1>7 DEF Dial
<1>8. ASSUME NEW s \in Dials, Drop(s) PROVE OffersBacked'
  BY <1>3, <1>8 DEF Drop, Close
<1>9. ASSUME NEW h \in Hubs, Crash(h) PROVE OffersBacked'
  BY <1>3, <1>9 DEF Crash, Close
<1>10. ASSUME NEW h \in Hubs, BroadcastHave(h) PROVE OffersBacked'
  BY <1>4, <1>10, BackedBroadcast DEF BroadcastHave
<1>11. ASSUME NEW h \in Hubs, NEW p \in Hubs, NEW since \in WalkFrom,
              TriggerSync(h, p, since)
       PROVE  OffersBacked'
  BY <1>3, <1>11 DEF TriggerSync
<1>12. ASSUME NEW h \in Hubs, NEW m \in Msgs, Submit(h, m) \/ SubmitRefused(h, m)
       PROVE  OffersBacked'
  BY <1>3, <1>12 DEF Submit, SubmitRefused
<1>13. ASSUME NEW f \in wire, Handle(f) PROVE OffersBacked'
  <2>1. CASE HandleHello(f)
    BY <1>4, <1>5, <2>1 DEF HandleHello
  <2>2. CASE HandleHave(f)
    BY <1>4, <2>2, BackedHave DEF HandleHave
  <2>3. CASE HandleWant(f)
    BY <1>4, <2>3, BackedWant DEF HandleWant
  <2>4. CASE HandleMessages(f)
    BY <1>1, <2>4, BackedMessages, BackedByNew DEF HandleMessages
  <2>5. QED
    BY <1>13, <2>1, <2>2, <2>3, <2>4 DEF Handle
<1>14. ASSUME NEW g \in greeting, GreetOffer(g) PROVE OffersBacked'
  BY <1>4, <1>14, BackedGreetOffer DEF GreetOffer
<1>15. ASSUME NEW j \in storing, Process(j) \/ RejectOnRpc(j) \/ StoreFails(j)
       PROVE  OffersBacked'
  <2>1. JobBacked(j)
    BY OffersBackedSplit
  <2>2. \A k \in storing' \ storing :
            /\ k.todo \subseteq j.todo /\ k.from = j.from /\ k.class = j.class
            /\ k.cur # NoItem => k.cur \in j.todo
    BY <1>15, StoringSteps
  <2>3. \A c : HeldOf(j.from, c) \subseteq HeldOf(j.from, c)'
    BY <1>1, HeldGrows DEF ConnInv, TypeOK, StoreJob
  <2>4. \A k \in storing' \ storing : JobBacked(k)'
    BY <2>1, <2>2, <2>3 DEF JobBacked
  <2>5. wire' = wire
    BY <1>15 DEF Process, Accept, Reject, StoreItem, FinishStore, RejectOnRpc, StoreFails
  <2>6. QED
    BY <1>1, <2>4, <2>5, BackedByNew
<1>16. ASSUME NEW w \in walking, WalkPage(w) PROVE OffersBacked'
  BY <1>4, <1>16, BackedWalk DEF WalkPage
<1>17. ASSUME NEW j \in submitting, SubmitStep(j) \/ SubmitFails(j) PROVE OffersBacked'
  <2>1. j.hub \in Hubs /\ j.msg \in Msgs
    BY DEF ConnInv, TypeOK, SubmitJob
  <2>2. CASE SubmitInsert(j)
    <3>1. j.msg \in Held(j.hub)'
      BY <2>1, <2>2, SubmitInsertRow
    <3>2. Push(j.hub, j.msg) \/ wire' = wire
      BY <2>2 DEF SubmitInsert
    <3>3. QED
      BY <1>3, <1>4, <2>1, <2>2, <3>1, <3>2, BackedPush DEF SubmitInsert
  <2>3. CASE SubmitEnvelope(j)
    <3>1. j.msg \in Held(j.hub)'
      BY <1>1, <2>1, <2>3, HeldGrows DEF SubmitEnvelope, HandlersSound
    <3>2. QED
      BY <1>4, <2>1, <2>3, <3>1, BackedPush DEF SubmitEnvelope
  <2>4. CASE SubmitCheck(j) \/ SubmitFails(j)
    BY <1>3, <2>4 DEF SubmitCheck, SubmitFails
  <2>5. QED
    BY <1>17, <2>2, <2>3, <2>4 DEF SubmitStep
<1>18. QED
  BY <1>2, <1>6, <1>7, <1>8, <1>9, <1>10, <1>11, <1>12, <1>13, <1>14, <1>15, <1>16,
     <1>17 DEF Next

----------------------------------------------------------------------------
(* Envelopes, times, provenance. *)

LEMMA EnvsGrowStep ==
    ASSUME ConnInv, [Next]_vars
    PROVE  \A h \in Hubs : envs[h] \subseteq envs'[h]
<1>1. \/ UNCHANGED envs
      \/ \E h \in Hubs, m \in Msgs : Submit(h, m)
      \/ \E j \in storing : Accept(j)
      \/ \E j \in submitting : SubmitEnvelope(j)
  BY DEF Next, vars, db, Tick, Dial, Drop, Crash, BroadcastHave, TriggerSync, SubmitRefused,
         Handle, HandleHello, HandleHave, HandleWant, HandleMessages, GreetOffer, Process,
         Reject, StoreItem, FinishStore, RejectOnRpc, StoreFails, WalkPage, SubmitStep,
         SubmitCheck, SubmitInsert, SubmitFails
<1>2. envs \in [Hubs -> SUBSET Msgs]
  BY DEF ConnInv, TypeOK
<1>3. ASSUME NEW h \in Hubs, NEW m \in Msgs, Submit(h, m)
      PROVE  \A g \in Hubs : envs[g] \subseteq envs'[g]
  BY <1>2, <1>3 DEF Submit, KeepEnvelope
<1>4. ASSUME NEW j \in storing, Accept(j) PROVE \A g \in Hubs : envs[g] \subseteq envs'[g]
  <2>1. PICK item : envs' = IF item.data THEN [envs EXCEPT ![j.hub] = @ \cup {item.msg}]
                            ELSE envs
    BY <1>4 DEF Accept
  <2>2. QED
    BY <1>2, <2>1
<1>5. ASSUME NEW j \in submitting, SubmitEnvelope(j)
      PROVE  \A g \in Hubs : envs[g] \subseteq envs'[g]
  BY <1>2, <1>5 DEF SubmitEnvelope, KeepEnvelope
<1>6. QED
  BY <1>1, <1>3, <1>4, <1>5

LEMMA ClockAdvances ==
    ASSUME ConnInv, [Next]_vars
    PROVE  clock' \in Nat /\ clock <= clock' /\ (clock' # clock => UNCHANGED db)
<1>1. clock \in Nat
  BY DEF ConnInv, TypeOK
<1>2. UNCHANGED clock \/ Tick
  BY DEF Next, vars, Dial, Drop, Crash, BroadcastHave, TriggerSync, Submit, SubmitRefused,
         Handle, HandleHello, HandleHave, HandleWant, HandleMessages, GreetOffer, Process,
         Accept, Reject, StoreItem, FinishStore, RejectOnRpc, StoreFails, WalkPage,
         SubmitStep, SubmitCheck, SubmitInsert, SubmitEnvelope, SubmitFails
<1>3. QED
  BY <1>1, <1>2 DEF Tick

\* last_sync_at is only ever set to now.
LEMMA SyncChange ==
    ASSUME ConnInv, [Next]_vars
    PROVE  \A h, p \in Hubs : sync'[h][p] = sync[h][p] \/ sync'[h][p] = clock
<1>1. UNCHANGED sync \/ \E j \in storing : FinishStore(j)
  BY DEF Next, vars, db, Tick, Dial, Drop, Crash, BroadcastHave, TriggerSync, Submit,
         SubmitRefused, Handle, HandleHello, HandleHave, HandleWant, HandleMessages,
         GreetOffer, Process, Accept, Reject, StoreItem, RejectOnRpc, StoreFails,
         WalkPage, SubmitStep, SubmitCheck, SubmitInsert, SubmitEnvelope, SubmitFails
<1>2. ASSUME NEW j \in storing, FinishStore(j)
      PROVE  \A h, p \in Hubs : sync'[h][p] = sync[h][p] \/ sync'[h][p] = clock
  BY <1>2 DEF FinishStore, ConnInv, TypeOK
<1>3. QED
  BY <1>1, <1>2

\* Where a row that was not there comes from.
LEMMA NewRow ==
    ASSUME ConnInv, [Next]_vars, NEW h \in Hubs, NEW m \in Msgs,
           m \in Held(h)', m \notin Held(h)
    PROVE  /\ row'[h][m].at = clock
           /\ \/ row'[h][m].from = Local
              \/ \E j \in storing :
                   /\ StoreItem(j) /\ j.hub = h /\ j.cur.msg = m /\ j.cur # NoItem
                   /\ row'[h][m].from = j.from
<1>1. ~UNCHANGED row
  BY DEF Held
<1>2. ASSUME NEW j \in storing, StoreItem(j)
      PROVE  /\ j.hub = h /\ j.cur.msg = m /\ j.cur # NoItem
             /\ row'[h][m].at = clock /\ row'[h][m].from = j.from
  <2>1. Held(h)' = IF h = j.hub THEN Held(h) \cup {j.cur.msg} ELSE Held(h)
    BY <1>2, StoreItemRow
  <2>2. j.hub = h /\ j.cur.msg = m
    BY <2>1
  <2>3. row'[h][m] = [at |-> clock, from |-> j.from, body |-> j.cur.body]
    BY <1>2, <2>2, StoreItemRow
  <2>4. QED
    BY <1>2, <2>2, <2>3 DEF StoreItem
<1>3. ASSUME NEW j \in submitting, SubmitInsert(j)
      PROVE  row'[h][m].at = clock /\ row'[h][m].from = Local
  <2>1. j.hub = h /\ j.msg = m
    BY <1>3, SubmitInsertRow
  <2>2. row'[h][m] = [at |-> clock, from |-> Local, body |-> "full"]
    BY <1>3, <2>1, SubmitInsertRow
  <2>3. QED
    BY <2>2
<1>4. QED
  BY <1>1, <1>2, <1>3, RowChange

LEMMA OldRow ==
    ASSUME ConnInv, [Next]_vars, NEW h \in Hubs, NEW m \in Held(h)
    PROVE  m \in Held(h)' /\ row'[h][m] = row[h][m]
  BY RowsGrowStep DEF RowsGrow, Held

LEMMA DatedNext ==
    ASSUME ConnInv, DatedInPast, [Next]_vars PROVE DatedInPast'
<1>1. clock \in Nat /\ clock' \in Nat /\ clock <= clock'
  BY ClockAdvances DEF ConnInv, TypeOK
<1>2. ASSUME NEW h \in Hubs, NEW m \in Msgs, m \in Held(h)'
      PROVE  row'[h][m].at <= clock'
  <2>2. CASE m \in Held(h)
    <3>1. row'[h][m] = row[h][m] /\ row[h][m].at <= clock
      BY <2>2, OldRow DEF DatedInPast
    <3>2. row[h][m].at \in Nat
      BY <2>2 DEF Held, Row, ConnInv, TypeOK
    <3>3. QED
      BY <1>1, <3>1, <3>2
  <2>3. CASE m \notin Held(h)
    <3>1. row'[h][m].at = clock
      BY <1>2, <2>3, NewRow
    <3>2. QED
      BY <1>1, <3>1
  <2>4. QED
    BY <2>2, <2>3
<1>3. ASSUME NEW h \in Hubs, NEW p \in Hubs PROVE sync'[h][p] <= clock'
  <2>1. sync[h][p] \in Nat /\ sync[h][p] <= clock
    BY DEF DatedInPast, ConnInv, TypeOK
  <2>2. sync'[h][p] = sync[h][p] \/ sync'[h][p] = clock
    BY SyncChange
  <2>3. QED
    BY <1>1, <2>1, <2>2
<1>4. QED
  BY <1>2, <1>3 DEF DatedInPast, Held

\* A handler that stores what a peer sent.
StoringSound(j) ==
    /\ j.from # j.hub
    /\ RequireDataB64 /\ j.cur # NoItem => j.cur.msg \in envs[j.hub]

SubmittingSound(j) ==
    /\ j.hub \in Origins[j.msg]
    /\ j.stage = "envelope" => j.msg \in Held(j.hub)

LEMMA SoundStays ==
    ASSUME ConnInv, HandlersSound, [Next]_vars
    PROVE  /\ \A j \in storing : StoringSound(j)'
           /\ \A j \in submitting : SubmittingSound(j)'
<1>1. \A h \in Hubs : envs[h] \subseteq envs'[h] /\ Held(h) \subseteq Held(h)'
  BY EnvsGrowStep, OldRow
<1>2. ASSUME NEW j \in storing PROVE StoringSound(j)'
  <2>1. j.hub \in Hubs
    BY DEF ConnInv, TypeOK, StoreJob
  <2>2. QED
    BY <1>1, <2>1 DEF HandlersSound, StoringSound
<1>3. ASSUME NEW j \in submitting PROVE SubmittingSound(j)'
  <2>1. j.hub \in Hubs
    BY DEF ConnInv, TypeOK, SubmitJob
  <2>2. QED
    BY <1>1, <2>1 DEF HandlersSound, SubmittingSound
<1>4. QED
  BY <1>2, <1>3

\* Handlers start sound and each step keeps what it established.
LEMMA AcceptSound ==
    ASSUME ConnInv, HandlersSound, NEW j \in storing, Accept(j)
    PROVE  \A k \in storing' \ storing : StoringSound(k)'
<1>1. /\ j \in StoreJob /\ j.hub \in Hubs /\ j.from # j.hub
  BY DEF ConnInv, TypeOK, StoreJob, HandlersSound
<1>2. PICK item \in j.todo :
        /\ Acceptable(j, item)
        /\ envs' = IF item.data THEN [envs EXCEPT ![j.hub] = @ \cup {item.msg}] ELSE envs
        /\ storing' = (storing \ {j}) \cup {[j EXCEPT !.todo = @ \ {item}, !.cur = item]}
  BY DEF Accept
<1>3. RequireDataB64 => item.msg \in envs'[j.hub]
  BY <1>1, <1>2 DEF Acceptable, ConnInv, TypeOK
<1>4. ASSUME NEW k \in storing' \ storing PROVE StoringSound(k)'
  <2>1. k = [j EXCEPT !.todo = @ \ {item}, !.cur = item]
    BY <1>2
  <2>2. k.hub = j.hub /\ k.from = j.from /\ k.cur = item
    BY <1>1, <2>1 DEF StoreJob
  <2>3. QED
    BY <1>1, <1>3, <2>2 DEF StoringSound
<1>5. QED
  BY <1>4

LEMMA StoringSoundNew ==
    ASSUME ConnInv, HandlersSound, [Next]_vars
    PROVE  \A k \in storing' \ storing : StoringSound(k)'
<1>1. \/ storing' \subseteq storing
      \/ \E f \in wire : HandleMessages(f)
      \/ \E j \in storing : Process(j) \/ RejectOnRpc(j) \/ StoreFails(j)
  BY DEF Next, vars, Tick, Dial, Drop, Crash, BroadcastHave, TriggerSync, Submit,
         SubmitRefused, Handle, HandleHello, HandleHave, HandleWant, GreetOffer, WalkPage,
         SubmitStep, SubmitCheck, SubmitInsert, SubmitEnvelope, SubmitFails
<1>2. ASSUME NEW f \in wire, HandleMessages(f)
      PROVE  \A k \in storing' \ storing : StoringSound(k)'
  <2>1. Peer(f.sock, f.to) # f.to
    BY PeerProps DEF ConnInv, TypeOK, Frame
  <2>2. \A k \in storing' \ storing :
            k.hub = f.to /\ k.from = Peer(f.sock, f.to) /\ k.cur = NoItem
    BY <1>2 DEF HandleMessages
  <2>3. QED
    BY <2>1, <2>2 DEF StoringSound
<1>3. ASSUME NEW j \in storing, Reject(j) \/ StoreItem(j) \/ FinishStore(j)
                                 \/ RejectOnRpc(j) \/ StoreFails(j)
      PROVE  \A k \in storing' \ storing : StoringSound(k)'
  <2>1. j \in StoreJob /\ j.from # j.hub
    BY DEF HandlersSound, ConnInv, TypeOK
  <2>2. \A k \in storing' \ storing : k.hub = j.hub /\ k.from = j.from
    BY <1>3, StoringSteps DEF Process
  <2>3. \A k \in storing' \ storing : k.cur = NoItem
    <3>1. CASE Reject(j) \/ RejectOnRpc(j)
      <4>1. PICK item : storing' = (storing \ {j}) \cup {[j EXCEPT !.todo = @ \ {item}]}
        BY <3>1 DEF Reject, RejectOnRpc
      <4>2. j.cur = NoItem
        BY <3>1 DEF Reject, RejectOnRpc
      <4>3. QED
        BY <2>1, <4>1, <4>2 DEF StoreJob
    <3>2. CASE StoreItem(j)
      <4>1. PICK stored : storing' = (storing \ {j}) \cup
                                        {[j EXCEPT !.cur = NoItem, !.stored = stored]}
        BY <3>2 DEF StoreItem
      <4>2. QED
        BY <2>1, <4>1 DEF StoreJob
    <3>3. CASE FinishStore(j) \/ StoreFails(j)
      BY <3>3 DEF FinishStore, StoreFails
    <3>4. QED
      BY <1>3, <3>1, <3>2, <3>3
  <2>4. QED
    BY <2>1, <2>2, <2>3 DEF StoringSound
<1>4. QED
  BY <1>1, <1>2, <1>3, AcceptSound DEF Process

LEMMA SubmittingSoundNew ==
    ASSUME ConnInv, HandlersSound, [Next]_vars
    PROVE  \A k \in submitting' \ submitting : SubmittingSound(k)'
<1>1. \/ submitting' \subseteq submitting
      \/ \E h \in Hubs, m \in Msgs : Submit(h, m)
      \/ \E j \in submitting : SubmitCheck(j) \/ SubmitInsert(j)
  BY DEF Next, vars, Tick, Dial, Drop, Crash, BroadcastHave, TriggerSync, SubmitRefused,
         Handle, HandleHello, HandleHave, HandleWant, HandleMessages, GreetOffer, Process,
         Accept, Reject, StoreItem, FinishStore, RejectOnRpc, StoreFails, WalkPage,
         SubmitStep, SubmitEnvelope, SubmitFails
<1>2. ASSUME NEW h \in Hubs, NEW m \in Msgs, Submit(h, m)
      PROVE  \A k \in submitting' \ submitting : SubmittingSound(k)'
  <2>1. \A k \in submitting' \ submitting : /\ k.hub = h /\ k.msg = m
                                            /\ k.stage # "envelope"
    BY <1>2 DEF Submit
  <2>2. QED
    BY <1>2, <2>1 DEF SubmittingSound, Submit
<1>3. ASSUME NEW j \in submitting, SubmitCheck(j)
      PROVE  \A k \in submitting' \ submitting : SubmittingSound(k)'
  <2>1. j \in SubmitJob /\ j.hub \in Origins[j.msg]
    BY DEF HandlersSound, ConnInv, TypeOK
  <2>2. \A k \in submitting' \ submitting : k = [j EXCEPT !.stage = "insert"]
    BY <1>3 DEF SubmitCheck
  <2>3. QED
    BY <2>1, <2>2 DEF SubmittingSound, SubmitJob
<1>4. ASSUME NEW j \in submitting, SubmitInsert(j)
      PROVE  \A k \in submitting' \ submitting : SubmittingSound(k)'
  <2>1. j \in SubmitJob /\ j.hub \in Origins[j.msg]
    BY DEF HandlersSound, ConnInv, TypeOK
  <2>2. j.msg \in Held(j.hub)'
    BY <1>4, SubmitInsertRow
  <2>3. \A k \in submitting' \ submitting : k = [j EXCEPT !.stage = "envelope"]
    BY <1>4 DEF SubmitInsert
  <2>4. \A k \in submitting' \ submitting : k.hub = j.hub /\ k.msg = j.msg
    BY <2>1, <2>3 DEF SubmitJob
  <2>5. QED
    BY <2>1, <2>2, <2>4 DEF SubmittingSound
<1>5. QED
  BY <1>1, <1>2, <1>3, <1>4

LEMMA HandlersSoundNext ==
    ASSUME ConnInv, HandlersSound, [Next]_vars PROVE HandlersSound'
<1>1. \A j \in storing' : StoringSound(j)'
  BY SoundStays, StoringSoundNew
<1>2. \A j \in submitting' : SubmittingSound(j)'
  BY SoundStays, SubmittingSoundNew
<1>3. QED
  BY <1>1, <1>2 DEF HandlersSound, StoringSound, SubmittingSound

LEMMA EnvelopesNext ==
    ASSUME ConnInv, HandlersSound, RequiredEnvelopes, [Next]_vars PROVE RequiredEnvelopes'
<1> SUFFICES ASSUME RequireDataB64, NEW h \in Hubs, NEW m \in Msgs, m \in Held(h)',
                    row'[h][m].from # Local
             PROVE  m \in envs'[h]
  BY DEF RequiredEnvelopes, Held
<1>1. envs[h] \subseteq envs'[h]
  BY EnvsGrowStep
<1>2. CASE m \in Held(h)
  BY <1>1, <1>2, OldRow DEF RequiredEnvelopes
<1>3. CASE m \notin Held(h)
  <2>1. PICK j \in storing : j.hub = h /\ j.cur.msg = m /\ j.cur # NoItem
    BY <1>3, NewRow
  <2>2. QED
    BY <1>1, <2>1 DEF HandlersSound
<1>4. QED
  BY <1>2, <1>3

LEMMA ProvenanceNext ==
    ASSUME ConnInv, OffersBacked, DatedInPast, ProvenanceOrdered, [Next]_vars
    PROVE  ProvenanceOrdered'
<1>1. ASSUME NEW h \in Hubs, NEW m \in Msgs, m \in Held(h)',
             NEW p, p = row'[h][m].from, p # Local
      PROVE  m \in Held(p)' /\ row'[p][m].at <= row'[h][m].at
  <2>1. CASE m \in Held(h)
    <3>1. row'[h][m] = row[h][m]
      BY <2>1, OldRow
    <3>2. p = row[h][m].from /\ p \in Hubs
      BY <1>1, <2>1, <3>1 DEF Held, Row, ConnInv, TypeOK
    <3>3. m \in Held(p) /\ row[p][m].at <= row[h][m].at
      BY <1>1, <2>1, <3>2 DEF ProvenanceOrdered
    <3>4. m \in Held(p)' /\ row'[p][m] = row[p][m]
      BY <3>2, <3>3, OldRow
    <3>5. QED
      BY <3>1, <3>3, <3>4
  <2>2. CASE m \notin Held(h)
    <3>1. /\ row'[h][m].at = clock
          /\ \E j \in storing : /\ StoreItem(j) /\ j.hub = h /\ j.cur.msg = m
                               /\ j.cur # NoItem /\ row'[h][m].from = j.from
      BY <1>1, <2>2, NewRow
    <3>2. p \in Hubs /\ m \in Held(p)
      BY <1>1, <3>1 DEF OffersBacked, HeldOf, ConnInv, TypeOK, StoreJob
    <3>3. m \in Held(p)' /\ row'[p][m] = row[p][m]
      BY <3>2, OldRow
    <3>4. row[p][m].at <= clock
      BY <3>2 DEF DatedInPast
    <3>5. QED
      BY <3>1, <3>3, <3>4
  <2>3. QED
    BY <2>1, <2>2
<1>2. QED
  BY <1>1 DEF ProvenanceOrdered, Held

LEMMA DataInit == Init => DataInv
<1> SUFFICES ASSUME Init PROVE DataInv
  OBVIOUS
<1>1. ConnInv
  BY ConnInit
<1>2. \A h \in Hubs : Held(h) = {}
  BY DEF Init, Held
<1>3. DatedInPast
  BY <1>2 DEF Init, DatedInPast
<1>4. QED
  BY <1>1, <1>2, <1>3
     DEF Init, DataInv, OffersBacked, HandlersSound, RequiredEnvelopes, ProvenanceOrdered

LEMMA DataNext == DataInv /\ [Next]_vars => DataInv'
  BY ConnNext, BackedNext, DatedNext, HandlersSoundNext, EnvelopesNext, ProvenanceNext
     DEF DataInv

LEMMA DataSpec == Spec => []DataInv
  BY DataInit, DataNext, PTL DEF Spec

----------------------------------------------------------------------------
\* A hub never offers, asks for or sends a message it does not hold: no frame
\* overtakes the INSERT of what it carries, on any network.
THEOREM SpecOffersBacked == Spec => []OffersBacked
<1>1. DataInv => OffersBacked
  BY DEF DataInv
<1>2. QED
  BY <1>1, DataSpec, PTL

\* With REQUIRE_DATAB64 every row received from a peer has its signed envelope,
\* although the two are written by separate queries.
THEOREM SpecRequiredEnvelopes == Spec => []RequiredEnvelopes
<1>1. DataInv => RequiredEnvelopes
  BY DEF DataInv
<1>2. QED
  BY <1>1, DataSpec, PTL

\* received_from names a hub that has the message, and had it no later.
THEOREM SpecProvenanceOrdered == Spec => []ProvenanceOrdered
<1>1. DataInv => ProvenanceOrdered
  BY DEF DataInv
<1>2. QED
  BY <1>1, DataSpec, PTL

\* Rows and envelopes are written once, and last_sync_at only moves forward.
THEOREM SpecRowsAreFinal == Spec => RowsAreFinal
<1>1. ASSUME DataInv, [Next]_vars
      PROVE  [\A h \in Hubs :
                /\ \A m \in Held(h) : row'[h][m] = row[h][m]
                /\ envs[h] \subseteq envs'[h]
                /\ \A p \in Hubs : sync[h][p] <= sync'[h][p]]_db
  <2>1. ConnInv /\ DatedInPast
    BY <1>1 DEF DataInv
  <2>2. ASSUME NEW h \in Hubs, NEW p \in Hubs PROVE sync[h][p] <= sync'[h][p]
    <3>1. sync[h][p] \in Nat /\ sync[h][p] <= clock
      BY <2>1 DEF DatedInPast, ConnInv, TypeOK
    <3>2. sync'[h][p] = sync[h][p] \/ sync'[h][p] = clock
      BY <1>1, <2>1, SyncChange
    <3>3. QED
      BY <3>1, <3>2
  <2>3. QED
    BY <1>1, <2>1, <2>2, OldRow, EnvsGrowStep
<1>2. QED
  BY <1>1, DataSpec, PTL DEF Spec, RowsAreFinal

\* GossipSync implements MessageReplicas: whatever the frames, failures and
\* restarts, a hub learns a message only from a client the message names as its
\* origin or from another hub that holds it, and never forgets one.
THEOREM SpecImplementsReplicas == Spec => ImplementsReplicas
<1> DEFINE H == [h \in Hubs |-> Held(h)]
<1>1. Init => Replicas!Init
  BY DEF Init, Replicas!Init, Held
<1>2. ASSUME DataInv, [Next]_vars PROVE [Replicas!Next]_H
  <2>1. ConnInv /\ OffersBacked /\ HandlersSound
    BY <1>2 DEF DataInv
  <2>2. CASE UNCHANGED row
    BY <2>2 DEF Held
  <2>3. ASSUME NEW j \in storing, StoreItem(j) PROVE [Replicas!Next]_H
    <3> DEFINE m == j.cur.msg
    <3>1. /\ j.hub \in Hubs /\ j.from \in Hubs /\ m \in Msgs
          /\ \A g \in Hubs : Held(g)' = IF g = j.hub THEN Held(g) \cup {m} ELSE Held(g)
      BY <2>1, <2>3, StoreItemRow
    <3>2. m \in Held(j.from) /\ j.from # j.hub
      BY <2>1, <2>3 DEF StoreItem, OffersBacked, HeldOf, HandlersSound
    <3> HIDE DEF m
    <3>3. CASE m \in Held(j.hub)
      <4>1. \A g \in Hubs : Held(g)' = Held(g)
        BY <3>1, <3>3
      <4>2. QED
        BY <4>1
    <3>4. CASE m \notin Held(j.hub)
      <4>1. H' = [H EXCEPT ![j.hub] = @ \cup {m}]
        BY <3>1
      <4>2. Replicas!Replicate(j.hub, m)
        BY <3>1, <3>2, <3>4, <4>1 DEF Replicas!Replicate
      <4>3. QED
        BY <3>1, <4>2 DEF Replicas!Next
    <3>5. QED
      BY <3>3, <3>4
  <2>4. ASSUME NEW j \in submitting, SubmitInsert(j) PROVE [Replicas!Next]_H
    <3>1. /\ j.hub \in Hubs /\ j.msg \in Msgs
          /\ \A g \in Hubs : Held(g)' = IF g = j.hub THEN Held(g) \cup {j.msg} ELSE Held(g)
      BY <2>1, <2>4, SubmitInsertRow
    <3>2. j.hub \in Origins[j.msg]
      BY <2>1 DEF HandlersSound
    <3>3. CASE j.msg \in Held(j.hub)
      <4>1. \A g \in Hubs : Held(g)' = Held(g)
        BY <3>1, <3>3
      <4>2. QED
        BY <4>1
    <3>4. CASE j.msg \notin Held(j.hub)
      <4>1. H' = [H EXCEPT ![j.hub] = @ \cup {j.msg}]
        BY <3>1
      <4>2. Replicas!Publish(j.hub, j.msg)
        BY <3>1, <3>4, <4>1 DEF Replicas!Publish
      <4>3. QED
        BY <3>1, <3>2, <4>2 DEF Replicas!Next
    <3>5. QED
      BY <3>3, <3>4
  <2>5. QED
    BY <1>2, <2>2, <2>3, <2>4, RowChange
<1>3. QED
  BY <1>1, <1>2, DataSpec, PTL DEF Spec, ImplementsReplicas, Replicas!Spec

----------------------------------------------------------------------------
(* last_sync_at.  The handler that will set it has inserted a tweet.       *)

TweetFrom(h, p) == \E m \in HeldOf(h, "tweet") : row[h][m].from = p

StoredEarned ==
    \A j \in storing : j.stored /\ j.class = "tweet" => TweetFrom(j.hub, j.from)

LEMMA TweetFromStays ==
    ASSUME ConnInv, [Next]_vars, NEW h \in Hubs, NEW p \in Hubs, TweetFrom(h, p)
    PROVE  TweetFrom(h, p)'
<1>1. PICK m \in HeldOf(h, "tweet") : row[h][m].from = p
  BY DEF TweetFrom
<1>2. m \in Held(h) /\ ClassOf(m) = "tweet"
  BY DEF HeldOf
<1>3. m \in Held(h)' /\ row'[h][m] = row[h][m]
  BY <1>2, OldRow
<1>4. QED
  BY <1>1, <1>2, <1>3 DEF TweetFrom, HeldOf, Held

LEMMA StoredStoreItem ==
    ASSUME ConnInv, OffersBacked, StoredEarned, NEW j \in storing, StoreItem(j), [Next]_vars,
           NEW k \in storing' \ storing, k.stored, k.class = "tweet"
    PROVE  TweetFrom(k.hub, k.from)'
<1>1. j \in StoreJob /\ j.hub \in Hubs /\ j.from \in Hubs
  BY DEF ConnInv, TypeOK, StoreJob
<1>2. k = [j EXCEPT !.cur = NoItem,
                    !.stored = @ \/ row[j.hub][j.cur.msg] = NoRow]
  BY DEF StoreItem
<1>3. /\ k.hub = j.hub /\ k.from = j.from /\ k.class = j.class
      /\ j.stored \/ row[j.hub][j.cur.msg] = NoRow
  BY <1>1, <1>2 DEF StoreJob
<1>4. CASE j.stored
  BY <1>1, <1>3, <1>4, TweetFromStays DEF StoredEarned
<1>5. CASE row[j.hub][j.cur.msg] = NoRow
  <2>1. j.cur.msg \in HeldOf(j.from, "tweet")
    BY <1>3 DEF OffersBacked, StoreItem
  <2>2. ClassOf(j.cur.msg) = "tweet" /\ j.cur.msg \in Msgs
    BY <2>1 DEF HeldOf, Held
  <2>3. j.cur.msg \notin Held(j.hub)
    BY <1>5 DEF Held
  <2>4. /\ Held(j.hub)' = Held(j.hub) \cup {j.cur.msg}
        /\ row'[j.hub][j.cur.msg] = [at |-> clock, from |-> j.from, body |-> j.cur.body]
    BY <1>1, <2>3, StoreItemRow
  <2>5. j.cur.msg \in HeldOf(j.hub, "tweet")' /\ row'[j.hub][j.cur.msg].from = j.from
    BY <2>2, <2>4 DEF HeldOf
  <2>6. QED
    BY <1>3, <2>5 DEF TweetFrom
<1>6. QED
  BY <1>3, <1>4, <1>5

LEMMA StoredNew ==
    ASSUME ConnInv, OffersBacked, StoredEarned, [Next]_vars,
           NEW k \in storing' \ storing, k.stored, k.class = "tweet"
    PROVE  TweetFrom(k.hub, k.from)'
<1>1. \/ storing' \subseteq storing
      \/ \E f \in wire : HandleMessages(f)
      \/ \E j \in storing : Process(j) \/ RejectOnRpc(j) \/ StoreFails(j)
  BY DEF Next, vars, Tick, Dial, Drop, Crash, BroadcastHave, TriggerSync, Submit,
         SubmitRefused, Handle, HandleHello, HandleHave, HandleWant, GreetOffer, WalkPage,
         SubmitStep, SubmitCheck, SubmitInsert, SubmitEnvelope, SubmitFails
<1>2. ASSUME NEW f \in wire, HandleMessages(f) PROVE FALSE
  BY <1>2 DEF HandleMessages
<1>3. ASSUME NEW j \in storing, Accept(j) \/ Reject(j) \/ RejectOnRpc(j)
      PROVE  TweetFrom(k.hub, k.from)'
  <2>1. j \in StoreJob /\ j.hub \in Hubs /\ j.from \in Hubs
    BY DEF ConnInv, TypeOK, StoreJob
  <2>2. k.hub = j.hub /\ k.from = j.from /\ k.class = j.class
    BY <1>3, StoringSteps DEF Process
  <2>3. \/ \E item : k = [j EXCEPT !.todo = @ \ {item}, !.cur = item]
        \/ \E item : k = [j EXCEPT !.todo = @ \ {item}]
    BY <1>3 DEF Accept, Reject, RejectOnRpc
  <2>4. k.stored = j.stored
    BY <2>1, <2>3 DEF StoreJob
  <2>5. QED
    BY <2>1, <2>2, <2>4, TweetFromStays DEF StoredEarned
<1>4. ASSUME NEW j \in storing, FinishStore(j) \/ StoreFails(j) PROVE FALSE
  BY <1>4 DEF FinishStore, StoreFails
<1>5. QED
  BY <1>1, <1>2, <1>3, <1>4, StoredStoreItem DEF Process

LEMMA StoredNext == ConnInv /\ OffersBacked /\ StoredEarned /\ [Next]_vars => StoredEarned'
<1> SUFFICES ASSUME ConnInv, OffersBacked, StoredEarned, [Next]_vars,
                    NEW k \in storing', k.stored, k.class = "tweet"
             PROVE  TweetFrom(k.hub, k.from)'
  BY DEF StoredEarned
<1>1. CASE k \in storing
  <2>1. k.hub \in Hubs /\ k.from \in Hubs
    BY <1>1 DEF ConnInv, TypeOK, StoreJob
  <2>2. QED
    BY <1>1, <2>1, TweetFromStays DEF StoredEarned
<1>2. CASE k \notin storing
  BY <1>2, StoredNew
<1>3. QED
  BY <1>1, <1>2

LEMMA MarkNext ==
    DataInv /\ StoredEarned /\ SyncMarkEarned /\ [Next]_vars => SyncMarkEarned'
<1> SUFFICES ASSUME DataInv, StoredEarned, SyncMarkEarned, [Next]_vars,
                    NEW h \in Hubs, NEW p \in Hubs, sync'[h][p] # 0
             PROVE  /\ sync'[h][p] <= clock'
                    /\ \E m \in HeldOf(h, "tweet")' :
                         row'[h][m].from = p /\ row'[h][m].at <= sync'[h][p]
  BY DEF SyncMarkEarned
<1>1. ConnInv /\ DatedInPast /\ DatedInPast'
  BY DataNext DEF DataInv
<1>2. CASE sync'[h][p] = sync[h][p]
  <2>1. PICK m \in HeldOf(h, "tweet") : row[h][m].from = p /\ row[h][m].at <= sync[h][p]
    BY <1>2 DEF SyncMarkEarned
  <2>2. m \in Held(h) /\ ClassOf(m) = "tweet"
    BY DEF HeldOf
  <2>3. m \in Held(h)' /\ row'[h][m] = row[h][m]
    BY <1>1, <2>2, OldRow
  <2>4. m \in HeldOf(h, "tweet")'
    BY <2>2, <2>3 DEF HeldOf
  <2>5. QED
    BY <1>1, <1>2, <2>1, <2>3, <2>4 DEF DatedInPast
<1>3. CASE sync'[h][p] # sync[h][p]
  <2>1. PICK j \in storing : FinishStore(j)
    BY <1>3 DEF Next, vars, db, Tick, Dial, Drop, Crash, BroadcastHave, TriggerSync, Submit,
         SubmitRefused, Handle, HandleHello, HandleHave, HandleWant, HandleMessages,
         GreetOffer, Process, Accept, Reject, StoreItem, RejectOnRpc, StoreFails,
         WalkPage, SubmitStep, SubmitCheck, SubmitInsert, SubmitEnvelope, SubmitFails
  <2>2. j.hub = h /\ j.from = p /\ j.stored /\ j.class = "tweet" /\ sync'[h][p] = clock
    BY <1>1, <1>3, <2>1 DEF FinishStore, ConnInv, TypeOK
  <2>3. PICK m \in HeldOf(h, "tweet") : row[h][m].from = p
    BY <2>2 DEF StoredEarned, TweetFrom
  <2>4. m \in Held(h) /\ ClassOf(m) = "tweet"
    BY DEF HeldOf
  <2>5. row' = row /\ clock' = clock
    BY <2>1 DEF FinishStore
  <2>6. row[h][m].at <= clock
    BY <1>1, <2>4 DEF DatedInPast
  <2>7. m \in HeldOf(h, "tweet")'
    BY <2>4, <2>5 DEF HeldOf, Held
  <2>8. QED
    BY <1>1, <2>2, <2>3, <2>5, <2>6, <2>7 DEF DatedInPast
<1>4. QED
  BY <1>2, <1>3

\* last_sync_at of a peer is only ever the time at which the hub had stored a
\* tweet that this peer sent it.
THEOREM SpecSyncMarkEarned == Spec => []SyncMarkEarned
<1>1. Init => StoredEarned /\ SyncMarkEarned
  BY DEF Init, StoredEarned, SyncMarkEarned
<1>2. DataInv /\ StoredEarned /\ SyncMarkEarned /\ [Next]_vars
        => (StoredEarned /\ SyncMarkEarned)'
  BY StoredNext, MarkNext DEF DataInv
<1>3. QED
  BY <1>1, <1>2, DataSpec, PTL DEF Spec

----------------------------------------------------------------------------
(* The catch-up walk.  Its cursor is where it started, or one millisecond  *)
(* past the start of the millisecond of a row it has offered.              *)

LEMMA MsBounds == \A t \in Int : Ms(t) \in Int /\ Ms(t) <= t /\ t < Ms(t) + MsTicks
  BY TimeAssumption DEF Ms

WalkSound(w) ==
    /\ w.seen \subseteq HeldOf(w.hub, w.class)
    /\ w.cursor = w.since \/ \E n \in w.seen : w.cursor = Ms(row[w.hub][n].at) + MsTicks

WalkGap(w) ==
    \A m \in HeldOf(w.hub, w.class) \ w.seen :
        row[w.hub][m].at \in (w.since + 1) .. w.cursor =>
            \E n \in w.seen : row[w.hub][m].at - Ms(row[w.hub][n].at) \in 0 .. MsTicks

WalksSound == \A w \in walking : WalkSound(w) /\ WalkGap(w)

LEMMA RowAtNat ==
    ASSUME ConnInv, NEW h \in Hubs, NEW m \in Held(h)
    PROVE  row[h][m].at \in Nat
  BY DEF Held, Row, ConnInv, TypeOK

\* A row that appears while a walk waits is dated now, after all it has seen.
LEMMA WalkStays ==
    ASSUME ConnInv, ConnInv', DatedInPast, [Next]_vars, NEW w \in walking,
           WalkSound(w), WalkGap(w)
    PROVE  WalkSound(w)' /\ WalkGap(w)'
<1>1. w.hub \in Hubs /\ w.since \in Int /\ w.cursor \in Int /\ clock \in Nat
  BY DEF ConnInv, TypeOK, WalkJob
<1>2. \A n \in w.seen : /\ n \in Held(w.hub) /\ n \in Held(w.hub)'
                        /\ ClassOf(n) = w.class
                        /\ row'[w.hub][n] = row[w.hub][n]
  BY <1>1, OldRow DEF WalkSound, HeldOf
<1>3. WalkSound(w)'
  <2>1. w.seen \subseteq HeldOf(w.hub, w.class)'
    BY <1>2 DEF HeldOf
  <2>2. w.cursor = w.since \/ \E n \in w.seen : w.cursor = Ms(row'[w.hub][n].at) + MsTicks
    BY <1>2 DEF WalkSound
  <2>3. QED
    BY <2>1, <2>2 DEF WalkSound, Ms
<1>4. ASSUME NEW m, m \in HeldOf(w.hub, w.class)', m \notin w.seen,
             row'[w.hub][m].at \in (w.since + 1) .. w.cursor
      PROVE  \E n \in w.seen : row'[w.hub][m].at - Ms(row'[w.hub][n].at) \in 0 .. MsTicks
  <2>1. m \in Msgs /\ m \in Held(w.hub)' /\ ClassOf(m) = w.class
    BY <1>4 DEF HeldOf, Held
  <2>2. CASE m \in Held(w.hub)
    <3>1. row'[w.hub][m] = row[w.hub][m] /\ m \in HeldOf(w.hub, w.class)
      BY <1>1, <2>1, <2>2, OldRow DEF HeldOf
    <3>2. PICK n \in w.seen : row[w.hub][m].at - Ms(row[w.hub][n].at) \in 0 .. MsTicks
      BY <1>4, <3>1 DEF WalkGap
    <3>3. QED
      BY <1>2, <3>1, <3>2
  <2>3. CASE m \notin Held(w.hub)
    <3>1. row'[w.hub][m].at = clock
      BY <1>1, <2>1, <2>3, NewRow
    <3>2. w.cursor # w.since
      BY <1>1, <1>4, <3>1
    <3>3. PICK n \in w.seen : w.cursor = Ms(row[w.hub][n].at) + MsTicks
      BY <3>2 DEF WalkSound
    <3>4. n \in Held(w.hub) /\ row'[w.hub][n] = row[w.hub][n]
      BY <1>2
    <3>5. row[w.hub][n].at \in Nat /\ row[w.hub][n].at <= clock
      BY <1>1, <3>4, RowAtNat DEF DatedInPast
    <3> DEFINE r == row[w.hub][n].at
               k == Ms(r)
    <3>6. k \in Int /\ k <= r
      BY <3>5, MsBounds
    <3>7. clock <= k + MsTicks
      BY <1>1, <1>4, <3>1, <3>3
    <3>8. r \in Nat /\ r <= clock
      BY <3>5
    <3> HIDE DEF r, k
    <3>9. clock - k \in 0 .. MsTicks
      BY <1>1, <3>6, <3>7, <3>8, TimeAssumption
    <3>10. QED
      BY <3>1, <3>4, <3>9 DEF r, k
  <2>4. QED
    BY <2>2, <2>3
<1>5. QED
  BY <1>3, <1>4 DEF WalkGap, Ms

\* A walk begins, and begins the next class, with nothing behind it.
LEMMA WalkStarts ==
    ASSUME NEW w, w.seen = {}, w.cursor = w.since, w.since \in Int,
           \A m \in HeldOf(w.hub, w.class) : row[w.hub][m].at \in Int
    PROVE  WalkSound(w) /\ WalkGap(w)
  BY DEF WalkSound, WalkGap

LEMMA WalkPageSound ==
    ASSUME ConnInv, WalksSound, NEW w \in walking, WalkPage(w), NEW v \in walking' \ walking
    PROVE  WalkSound(v) /\ WalkGap(v)
<1>1. /\ w \in WalkJob /\ w.hub \in Hubs /\ w.since \in Int /\ w.cursor \in Int
      /\ WalkSound(w) /\ WalkGap(w)
  BY DEF WalksSound, ConnInv, TypeOK, WalkJob
<1>2. PICK page \in Batches(w.hub, w.class, w.cursor) :
        \/ v \in NextClass(w)
        \/ \E m \in page : IsLast(w.hub, m, page) /\ v = Turned(w, m, page)
  BY DEF WalkPage
<1>3. CASE v \in NextClass(w)
  <2>1. v = [w EXCEPT !.class = "dm", !.cursor = w.since, !.left = MaxPages, !.seen = {}]
    BY <1>3 DEF NextClass
  <2>2. v.hub = w.hub /\ v.since = w.since /\ v.cursor = w.since /\ v.seen = {}
    BY <1>1, <2>1 DEF WalkJob
  <2>3. \A m \in HeldOf(v.hub, v.class) : row[v.hub][m].at \in Int
    BY <1>1, <2>2, RowAtNat DEF HeldOf
  <2>4. QED
    BY <1>1, <2>2, <2>3, WalkStarts
<1>4. ASSUME NEW l \in page, IsLast(w.hub, l, page), v = Turned(w, l, page)
      PROVE  WalkSound(v) /\ WalkGap(v)
  <2> DEFINE at(m) == row[w.hub][m].at
  <2>1. /\ v.hub = w.hub /\ v.class = w.class /\ v.since = w.since
        /\ v.seen = w.seen \cup page /\ v.cursor = Ms(at(l)) + MsTicks
    BY <1>1, <1>4 DEF Turned, WalkJob
  <2>2. page \subseteq HeldOf(w.hub, w.class)
    BY BatchesHeld
  <2>3. \A m \in HeldOf(w.hub, w.class) : at(m) \in Nat
    BY <1>1, RowAtNat DEF HeldOf
  <2>4. at(l) \in Nat /\ Ms(at(l)) \in Int /\ Ms(at(l)) <= at(l)
    BY <2>2, <2>3, MsBounds
  <2>5. WalkSound(v)
    BY <1>1, <1>4, <2>1, <2>2 DEF WalkSound
  <2>6. ASSUME NEW m \in HeldOf(w.hub, w.class), m \notin w.seen, m \notin page,
               at(m) \in (w.since + 1) .. v.cursor
        PROVE  \E n \in v.seen : at(m) - Ms(at(n)) \in 0 .. MsTicks
    <3>1. at(m) \in Nat /\ v.cursor \in Int
      BY <2>1, <2>3, <2>4, TimeAssumption
    <3>2. CASE at(m) <= w.cursor
      <4>1. at(m) \in (w.since + 1) .. w.cursor
        BY <1>1, <2>6, <3>1, <3>2
      <4>2. PICK n \in w.seen : at(m) - Ms(at(n)) \in 0 .. MsTicks
        BY <1>1, <2>6, <4>1 DEF WalkGap
      <4>3. QED
        BY <2>1, <4>2
    <3>3. CASE at(m) > w.cursor
      <4>1. m \in Newer(w.hub, w.class, w.cursor) \ page
        BY <2>6, <3>3 DEF Newer
      <4>2. at(l) <= at(m)
        BY <4>1 DEF Batches
      <4> HIDE DEF at
      <4>3. at(m) - Ms(at(l)) \in 0 .. MsTicks
        BY <2>1, <2>4, <2>6, <3>1, <4>2, TimeAssumption
      <4>4. QED
        BY <1>4, <2>1, <4>3
    <3>4. QED
      BY <1>1, <3>1, <3>2, <3>3
  <2>7. QED
    BY <2>1, <2>5, <2>6 DEF WalkGap
<1>5. QED
  BY <1>2, <1>3, <1>4

LEMMA WalkChange ==
    ASSUME [Next]_vars
    PROVE  \/ walking' \subseteq walking
           \/ \E h, p \in Hubs, since \in WalkFrom : TriggerSync(h, p, since)
           \/ \E w \in walking : WalkPage(w)
<1>1. ASSUME NEW s \in Dials, Dial(s) \/ Drop(s) PROVE walking' \subseteq walking
  BY <1>1 DEF Dial, Drop
<1>2. ASSUME NEW h \in Hubs, Crash(h) PROVE walking' \subseteq walking
  BY <1>2 DEF Crash
<1>3. ASSUME NEW j \in storing, Process(j) \/ RejectOnRpc(j) \/ StoreFails(j)
      PROVE  walking' = walking
  <2>1. CASE Accept(j)
    BY <2>1 DEF Accept
  <2>5. CASE Reject(j)
    BY <2>5 DEF Reject
  <2>2. CASE StoreItem(j) \/ FinishStore(j)
    BY <2>2 DEF StoreItem, FinishStore
  <2>3. CASE RejectOnRpc(j) \/ StoreFails(j)
    BY <2>3 DEF RejectOnRpc, StoreFails
  <2>4. QED
    BY <1>3, <2>1, <2>2, <2>3, <2>5 DEF Process
<1>4. ASSUME NEW j \in submitting, SubmitStep(j) \/ SubmitFails(j) PROVE walking' = walking
  BY <1>4 DEF SubmitStep, SubmitCheck, SubmitInsert, SubmitEnvelope, SubmitFails
<1>5. ASSUME NEW f \in wire, Handle(f) PROVE walking' = walking
  BY <1>5 DEF Handle, HandleHello, HandleHave, HandleWant, HandleMessages
<1>6. ASSUME NEW h \in Hubs, NEW m \in Msgs, Submit(h, m) \/ SubmitRefused(h, m)
      PROVE  walking' = walking
  BY <1>6 DEF Submit, SubmitRefused
<1>7. ASSUME NEW h \in Hubs, BroadcastHave(h) PROVE walking' = walking
  BY <1>7, Zenon DEF BroadcastHave
<1>8. QED
  BY <1>1, <1>2, <1>3, <1>4, <1>5, <1>6, <1>7 DEF Next, vars, Tick, GreetOffer

LEMMA WalksNext ==
    ASSUME DataInv, DataInv', WalksSound, [Next]_vars PROVE WalksSound'
<1>1. ConnInv /\ ConnInv' /\ DatedInPast
  BY DEF DataInv
<1>2. \A w \in walking : WalkSound(w)' /\ WalkGap(w)'
  BY <1>1, WalkStays DEF WalksSound
<1>3. \/ walking' \subseteq walking
      \/ \E h, p \in Hubs, since \in WalkFrom : TriggerSync(h, p, since)
      \/ \E w \in walking : WalkPage(w)
  BY WalkChange
<1>4. ASSUME NEW h \in Hubs, NEW p \in Hubs, NEW since \in WalkFrom,
             TriggerSync(h, p, since), NEW v \in walking' \ walking
      PROVE  WalkSound(v)' /\ WalkGap(v)'
  <2>1. v = [hub |-> h, sock |-> peers[h][p], class |-> "tweet", since |-> since,
             cursor |-> since, left |-> MaxPages, seen |-> {}]
    BY <1>4 DEF TriggerSync
  <2>2. v.hub \in Hubs /\ v.seen = {} /\ v.cursor = v.since /\ v.since \in Int
    BY <2>1, TimeAssumption
  <2>3. \A m \in HeldOf(v.hub, v.class) : row[v.hub][m].at \in Int
    BY <1>1, <2>2, RowAtNat DEF HeldOf
  <2>4. WalkSound(v) /\ WalkGap(v)
    BY <2>2, <2>3, WalkStarts
  <2>5. row' = row
    BY <1>4 DEF TriggerSync, db
  <2>6. QED
    BY <2>4, <2>5 DEF WalkSound, WalkGap, HeldOf, Held, Ms
<1>5. ASSUME NEW w \in walking, WalkPage(w), NEW v \in walking' \ walking
      PROVE  WalkSound(v)' /\ WalkGap(v)'
  <2>1. WalkSound(v) /\ WalkGap(v)
    BY <1>1, <1>5, WalkPageSound
  <2>2. row' = row
    BY <1>5 DEF WalkPage, db
  <2>3. QED
    BY <2>1, <2>2 DEF WalkSound, WalkGap, HeldOf, Held, Ms
<1>6. \A v \in walking' \ walking : WalkSound(v)' /\ WalkGap(v)'
  BY <1>3, <1>4, <1>5
<1>7. QED
  BY <1>2, <1>6 DEF WalksSound, WalkSound, WalkGap

\* A catch-up walk never steps over a row except within the millisecond that
\* follows a row it did offer, however rows are stored while it waits.
THEOREM SpecWalkGapWithinOneMs == Spec => []WalkGapWithinOneMs
<1>1. Init => WalksSound
  BY DEF Init, WalksSound
<1>2. DataInv /\ DataInv' /\ WalksSound /\ [Next]_vars => WalksSound'
  BY WalksNext
<1>3. WalksSound => WalkGapWithinOneMs
  BY DEF WalksSound, WalkGap, WalkGapWithinOneMs
<1>4. QED
  BY <1>1, <1>2, <1>3, DataSpec, PTL DEF Spec

----------------------------------------------------------------------------
(* What a quiet pair has exchanged.  A message a client gave h after h's   *)
(* last_sync_at for p is at p, or something on the socket in h's map, or a *)
(* handler at one of its ends, is still about to bring it there.           *)

EnvelopePending(h, m) ==
    \E j \in submitting : j.hub = h /\ j.msg = m /\ j.stage = "envelope"

Usable(item, m) == item.msg = m /\ (RequireDataB64 => item.data)

Carries(f, h, p, m) ==
    \/ f.type = "have" /\ f.to = p /\ m \in f.hashes
    \/ f.type = "want" /\ f.to = h /\ m \in f.hashes
    \/ f.type = "messages" /\ f.to = p /\ \E item \in f.items : Usable(item, m)

Brings(j, m) ==
    \/ \E item \in j.todo : Usable(item, m)
    \/ j.cur # NoItem /\ j.cur.msg = m

OnItsWay(h, p, s, m) ==
    \/ m \in Held(p)
    \/ EnvelopePending(h, m)
    \/ \E g \in greeting : g.hub = h /\ g.sock = s /\ g.since < row[h][m].at
    \/ \E f \in wire : f.sock = s /\ Carries(f, h, p, m)
    \/ \E j \in storing : j.hub = p /\ j.from = h /\ Brings(j, m)

Owed(h, p, m) ==
    /\ m \in Held(h)
    /\ row[h][m].from = Local /\ row[h][m].at > LastSync(h, p)
    /\ m \in Dms \/ ~Expired(m)

NothingLost ==
    \A h, p \in Hubs, s \in Dials : (errors = 0 /\ FitsOneBatch(h) /\ peers[h][p] = s) =>
        \A m \in Msgs : Owed(h, p, m) => OnItsWay(h, p, s, m)

\* Without errors nobody is denied, and what was submitted has its signed
\* bytes stored or is about to.
NothingDenied == errors = 0 => \A h \in Hubs, m \in Msgs : denied[h][m] = 0

SubmitSigned ==
    \A j \in submitting :
        /\ RequireDataB64 => j.msg \in Enveloped
        /\ j.msg \in Dms /\ j.msg \in Enveloped => j.msg \in envs[j.hub]
        /\ j.stage = "envelope" => j.msg \notin Dms

LocalsSigned ==
    (errors = 0 /\ RequireDataB64) =>
        \A h \in Hubs : \A m \in Held(h) : row[h][m].from = Local =>
            m \in Enveloped /\ (m \in envs[h] \/ EnvelopePending(h, m))

HeldFinite == \A h \in Hubs : IsFiniteSet(Held(h))

ExchangeInv == /\ DataInv /\ NothingDenied /\ SubmitSigned /\ LocalsSigned
               /\ HeldFinite /\ NothingLost

\* The steps of a run without errors.
CalmStep ==
    \/ UNCHANGED vars
    \/ Tick
    \/ \E s \in Dials : Dial(s) \/ Drop(s)
    \/ \E h \in Hubs : BroadcastHave(h)
    \/ \E h, p \in Hubs, since \in WalkFrom : TriggerSync(h, p, since)
    \/ \E h \in Hubs, m \in Msgs : Submit(h, m)
    \/ \E f \in wire : Handle(f)
    \/ \E g \in greeting : GreetOffer(g)
    \/ \E j \in storing : Process(j)
    \/ \E w \in walking : WalkPage(w)
    \/ \E j \in submitting : SubmitStep(j)

\* A step with an error counts it; a step without leaves both variables alone.
LEMMA CalmUnchanged == CalmStep => UNCHANGED <<errors, denied>>
<1>1. ASSUME NEW s \in Dials, Dial(s) \/ Drop(s) PROVE UNCHANGED <<errors, denied>>
  BY <1>1 DEF Dial, Drop, memory, faults
<1>2. ASSUME NEW h \in Hubs, BroadcastHave(h) PROVE UNCHANGED <<errors, denied>>
  BY <1>2, Zenon DEF BroadcastHave, faults
<1>3. ASSUME NEW h \in Hubs, NEW p \in Hubs, NEW since \in WalkFrom, TriggerSync(h, p, since)
      PROVE  UNCHANGED <<errors, denied>>
  BY <1>3 DEF TriggerSync, memory
<1>4. ASSUME NEW h \in Hubs, NEW m \in Msgs, Submit(h, m) PROVE UNCHANGED <<errors, denied>>
  BY <1>4 DEF Submit, memory, faults
<1>5. ASSUME NEW f \in wire, Handle(f) PROVE UNCHANGED <<errors, denied>>
  BY <1>5 DEF Handle, HandleHello, HandleHave, HandleWant, HandleMessages, memory, faults
<1>6. ASSUME NEW g \in greeting, GreetOffer(g) PROVE UNCHANGED <<errors, denied>>
  BY <1>6 DEF GreetOffer, memory, faults
<1>7. ASSUME NEW j \in storing, Process(j) PROVE UNCHANGED <<errors, denied>>
  <2>1. CASE Accept(j)
    BY <2>1 DEF Accept, memory, faults
  <2>2. CASE Reject(j)
    BY <2>2 DEF Reject, memory, faults
  <2>3. CASE StoreItem(j) \/ FinishStore(j)
    BY <2>3 DEF StoreItem, FinishStore, memory, faults
  <2>4. QED
    BY <1>7, <2>1, <2>2, <2>3 DEF Process
<1>8. ASSUME NEW w \in walking, WalkPage(w) PROVE UNCHANGED <<errors, denied>>
  BY <1>8 DEF WalkPage, memory, faults
<1>9. ASSUME NEW j \in submitting, SubmitStep(j) PROVE UNCHANGED <<errors, denied>>
  BY <1>9 DEF SubmitStep, SubmitCheck, SubmitInsert, SubmitEnvelope, memory, faults
<1>10. QED
  BY <1>1, <1>2, <1>3, <1>4, <1>5, <1>6, <1>7, <1>8, <1>9
     DEF CalmStep, vars, Tick, memory, faults

LEMMA CalmSteps ==
    ASSUME ConnInv, [Next]_vars, errors' = 0 PROVE errors = 0 /\ CalmStep
<1>1. errors \in Nat
  BY DEF ConnInv, TypeOK
<1>2. ASSUME NEW h \in Hubs, Crash(h) PROVE FALSE
  BY <1>1, <1>2 DEF Crash
<1>3. ASSUME NEW h \in Hubs, NEW m \in Msgs, SubmitRefused(h, m) PROVE FALSE
  BY <1>1, <1>3 DEF SubmitRefused, LookupFails
<1>4. ASSUME NEW j \in storing, RejectOnRpc(j) PROVE FALSE
  BY <1>1, <1>4 DEF RejectOnRpc, LookupFails
<1>5. ASSUME NEW j \in storing, StoreFails(j) PROVE FALSE
  BY <1>1, <1>5 DEF StoreFails
<1>6. ASSUME NEW j \in submitting, SubmitFails(j) PROVE FALSE
  BY <1>1, <1>6 DEF SubmitFails
<1>7. CalmStep
  BY <1>2, <1>3, <1>4, <1>5, <1>6 DEF Next, CalmStep
<1>8. QED
  BY <1>7, CalmUnchanged

LEMMA DeniedNext == ConnInv /\ NothingDenied /\ [Next]_vars => NothingDenied'
  BY CalmSteps, CalmUnchanged DEF NothingDenied

LEMMA FiniteNext == ConnInv /\ HeldFinite /\ [Next]_vars => HeldFinite'
<1> SUFFICES ASSUME ConnInv, HeldFinite, [Next]_vars, NEW h \in Hubs
             PROVE  IsFiniteSet(Held(h)')
  BY DEF HeldFinite
<1>1. IsFiniteSet(Held(h))
  BY DEF HeldFinite
<1>2. Held(h)' = Held(h) \/ \E m \in Msgs : Held(h)' = Held(h) \cup {m}
  <2>1. CASE UNCHANGED row
    BY <2>1 DEF Held
  <2>2. QED
    BY <2>1, RowChange, StoreItemRow, SubmitInsertRow
<1>3. QED
  BY <1>1, <1>2, FS_AddElement

\* What fits one batch after a step fitted one before it.
LEMMA FitsBefore ==
    ASSUME ConnInv, HeldFinite, [Next]_vars, HeldFinite', NEW h \in Hubs, FitsOneBatch(h)'
    PROVE  FitsOneBatch(h)
<1> SUFFICES ASSUME NEW c \in Classes PROVE Cardinality(HeldOf(h, c)) <= MaxBatch
  BY DEF FitsOneBatch
<1>1. Held(h) \subseteq Held(h)'
  BY OldRow
<1>2. HeldOf(h, c) \subseteq HeldOf(h, c)' /\ HeldOf(h, c)' \subseteq Held(h)'
  BY <1>1 DEF HeldOf
<1>3. IsFiniteSet(HeldOf(h, c)')
  BY <1>2, FS_Subset DEF HeldFinite
<1>4. Cardinality(HeldOf(h, c)') \in Nat /\ Cardinality(HeldOf(h, c)') <= MaxBatch
  BY <1>3, FS_CardinalityType DEF FitsOneBatch
<1>5. /\ IsFiniteSet(HeldOf(h, c))
      /\ Cardinality(HeldOf(h, c)) <= Cardinality(HeldOf(h, c)')
  BY <1>2, <1>3, FS_Subset
<1>6. Cardinality(HeldOf(h, c)) \in Nat
  BY <1>5, FS_CardinalityType
<1>7. QED
  BY <1>4, <1>5, <1>6, TimeAssumption

\* A hello's page is all there is when what is held fits one batch.
LEMMA WholePage ==
    ASSUME HeldFinite, NEW h \in Hubs, FitsOneBatch(h), NEW c \in Classes, NEW since,
           NEW page \in Batches(h, c, since)
    PROVE  page = Newer(h, c, since)
<1> DEFINE new == Newer(h, c, since)
<1>1. page \subseteq new /\ new \subseteq HeldOf(h, c) /\ HeldOf(h, c) \subseteq Held(h)
  BY DEF Batches, Newer, HeldOf
<1>2. IsFiniteSet(HeldOf(h, c))
  BY <1>1, FS_Subset DEF HeldFinite
<1>3. IsFiniteSet(new) /\ Cardinality(new) <= Cardinality(HeldOf(h, c))
  BY <1>1, <1>2, FS_Subset
<1>4. Cardinality(new) \in Nat /\ Cardinality(HeldOf(h, c)) \in Nat
  BY <1>2, <1>3, FS_CardinalityType
<1>5. Cardinality(HeldOf(h, c)) <= MaxBatch
  BY DEF FitsOneBatch
<1>6. Cardinality(page) = IF Cardinality(new) < MaxBatch THEN Cardinality(new) ELSE MaxBatch
  BY DEF Batches
<1>7. Cardinality(page) = Cardinality(new)
  BY <1>3, <1>4, <1>5, <1>6, TimeAssumption
<1>8. QED
  BY <1>1, <1>3, <1>7, FS_Subset

----------------------------------------------------------------------------
(* Milliseconds and last_sync_at never run backwards.                      *)

LEMMA Quotient ==
    ASSUME NEW k \in Nat, k > 0, NEW t \in Int
    PROVE  t \div k \in Int /\ t % k \in 0 .. k - 1 /\ t = (k * (t \div k)) + (t % k)
  OBVIOUS

LEMMA Multiples ==
    ASSUME NEW k \in Int, k > 0, NEW a \in Int, NEW b \in Int
    PROVE  /\ k * a \in Int /\ k * (a - b) = k * a - k * b
           /\ k * a > 0 => a > 0
           /\ k * a < k => a < 1
<1>1. k * a \in Int /\ k * (a - b) = k * a - k * b
  OBVIOUS
<1>2. k * a > 0 => a > 0
  OBVIOUS
<1>3. k * a < k => a < 1
  OBVIOUS
<1>4. QED
  BY <1>1, <1>2, <1>3

LEMMA MsMonotone == \A t, u \in Int : t <= u => Ms(t) <= Ms(u)
<1> SUFFICES ASSUME NEW t \in Int, NEW u \in Int, t <= u PROVE Ms(t) <= Ms(u)
  OBVIOUS
<1> DEFINE k == MsTicks
           q == t \div k
           p == u \div k
           r == t % k
           s == u % k
<1>1. k \in Nat /\ k > 0
  BY TimeAssumption
<1>2. q \in Int /\ r \in 0 .. k - 1 /\ t = (k * q) + r
  BY <1>1, Quotient
<1>3. p \in Int /\ s \in 0 .. k - 1 /\ u = (k * p) + s
  BY <1>1, Quotient
<1>4. Ms(t) = t - r /\ Ms(u) = u - s
  BY DEF Ms
<1> HIDE DEF k, q, p, r, s
<1>5. k * q \in Int /\ k * p \in Int /\ k * (q - p) = k * q - k * p
  BY <1>1, <1>2, <1>3, Multiples
<1>6. Ms(t) = k * q /\ Ms(u) = k * p
  BY <1>1, <1>2, <1>3, <1>4, <1>5
<1>7. ASSUME k * q > k * p PROVE FALSE
  <2>1. k * (q - p) > 0 /\ k * (q - p) < k /\ q - p \in Int
    BY <1>1, <1>2, <1>3, <1>5, <1>7
  <2>2. q - p > 0 /\ q - p < 1
    BY <1>1, <2>1, Multiples
  <2>3. QED
    BY <2>1, <2>2
<1>8. QED
  BY <1>5, <1>6, <1>7

LEMMA LastSyncGrows ==
    ASSUME ConnInv, DatedInPast, [Next]_vars, NEW h \in Hubs, NEW p \in Hubs
    PROVE  /\ LastSync(h, p) \in Int /\ LastSync(h, p)' \in Int
           /\ LastSync(h, p) <= LastSync(h, p)'
<1>1. clock \in Nat /\ clock' \in Nat /\ clock <= clock'
  BY ClockAdvances DEF ConnInv, TypeOK
<1>2. sync[h][p] \in Nat /\ sync[h][p] <= clock
  BY DEF ConnInv, TypeOK, DatedInPast
<1>3. /\ LastSync(h, p) = IF sync[h][p] = 0 THEN Ms(clock) - DayTicks ELSE Ms(sync[h][p])
      /\ LastSync(h, p)' =
             IF sync'[h][p] = 0 THEN Ms(clock') - DayTicks ELSE Ms(sync'[h][p])
  BY DEF LastSync, Ms
<1>4. /\ Ms(clock) \in Int /\ Ms(clock') \in Int /\ Ms(clock) <= Ms(clock')
      /\ Ms(sync[h][p]) \in Int /\ Ms(sync[h][p]) <= Ms(clock)
  BY <1>1, <1>2, MsBounds, MsMonotone
<1>5. CASE sync'[h][p] = sync[h][p]
  BY <1>3, <1>4, <1>5, TimeAssumption
<1>6. CASE sync'[h][p] # sync[h][p]
  <2>1. sync'[h][p] = clock /\ clock' = clock
    BY <1>6, SyncChange, ClockAdvances DEF db
  <2>2. clock # 0
    BY <1>2, <1>6, <2>1
  <2>3. QED
    BY <1>3, <1>4, <2>1, <2>2, TimeAssumption
<1>7. QED
  BY <1>5, <1>6

\* What is owed after a step was owed before it, unless its row is new.
LEMMA OwedBefore ==
    ASSUME ConnInv, DatedInPast, [Next]_vars, NEW h \in Hubs, NEW p \in Hubs, NEW m \in Held(h),
           Owed(h, p, m)'
    PROVE  Owed(h, p, m)
<1>1. m \in Msgs /\ row'[h][m] = row[h][m] /\ row[h][m].at \in Nat
  BY OldRow, RowAtNat DEF Held
<1>2. row[h][m].from = Local /\ row[h][m].at > LastSync(h, p)
  BY <1>1, LastSyncGrows DEF Owed
<1>3. m \in Dms \/ ~Expired(m)
  <2>1. clock \in Nat /\ clock' \in Nat /\ clock <= clock' /\ SignedAt[m] \in Int /\ MaxAge \in Nat
    BY <1>1, ClockAdvances, MsgsAssumption, TimeAssumption DEF ConnInv, TypeOK
  <2>2. m \in Dms \/ ~(SignedAt[m] < clock' - MaxAge)
    BY DEF Owed, Expired
  <2>3. QED
    BY <2>1, <2>2 DEF Expired
<1>4. QED
  BY <1>2, <1>3 DEF Owed

----------------------------------------------------------------------------
(* The signed bytes of what clients submitted. *)

SignedJob(j) ==
    /\ RequireDataB64 => j.msg \in Enveloped
    /\ j.msg \in Dms /\ j.msg \in Enveloped => j.msg \in envs[j.hub]
    /\ j.stage = "envelope" => j.msg \notin Dms

LEMMA KeepEnvelopeType ==
    ASSUME ConnInv, NEW h \in Hubs, NEW m \in Msgs
    PROVE  /\ m \in Enveloped => m \in KeepEnvelope(h, m)[h]
           /\ \A g \in Hubs : envs[g] \subseteq KeepEnvelope(h, m)[g]
  BY DEF KeepEnvelope, ConnInv, TypeOK

LEMMA SubmittingChange ==
    ASSUME [Next]_vars
    PROVE  \/ submitting' = submitting
           \/ \E h \in Hubs : Crash(h)
           \/ \E h \in Hubs, m \in Msgs : Submit(h, m)
           \/ \E j \in submitting : SubmitStep(j) \/ SubmitFails(j)
<1>1. ASSUME NEW s \in Dials, Dial(s) \/ Drop(s) PROVE submitting' = submitting
  BY <1>1 DEF Dial, Drop
<1>2. ASSUME NEW h \in Hubs, BroadcastHave(h) PROVE submitting' = submitting
  BY <1>2, Zenon DEF BroadcastHave
<1>3. ASSUME NEW j \in storing, Process(j) \/ RejectOnRpc(j) \/ StoreFails(j)
      PROVE  submitting' = submitting
  <2>1. CASE Accept(j)
    BY <2>1 DEF Accept
  <2>2. CASE Reject(j)
    BY <2>2 DEF Reject
  <2>3. CASE StoreItem(j) \/ FinishStore(j)
    BY <2>3 DEF StoreItem, FinishStore
  <2>4. CASE RejectOnRpc(j) \/ StoreFails(j)
    BY <2>4 DEF RejectOnRpc, StoreFails
  <2>5. QED
    BY <1>3, <2>1, <2>2, <2>3, <2>4 DEF Process
<1>4. ASSUME NEW w \in walking, WalkPage(w) PROVE submitting' = submitting
  BY <1>4 DEF WalkPage
<1>5. ASSUME NEW f \in wire, Handle(f) PROVE submitting' = submitting
  BY <1>5 DEF Handle, HandleHello, HandleHave, HandleWant, HandleMessages
<1>6. ASSUME NEW h \in Hubs, NEW p \in Hubs, NEW since \in WalkFrom, TriggerSync(h, p, since)
      PROVE  submitting' = submitting
  BY <1>6 DEF TriggerSync
<1>7. QED
  BY <1>1, <1>2, <1>3, <1>4, <1>5, <1>6 DEF Next, vars, Tick, GreetOffer, SubmitRefused

LEMMA SubmitSignedNext == ConnInv /\ SubmitSigned /\ [Next]_vars => SubmitSigned'
<1> SUFFICES ASSUME ConnInv, SubmitSigned, [Next]_vars, NEW k \in submitting'
             PROVE  SignedJob(k)'
  BY DEF SubmitSigned, SignedJob
<1>1. CASE k \in submitting
  <2>1. k.hub \in Hubs /\ SignedJob(k)
    BY <1>1 DEF ConnInv, TypeOK, SubmitJob, SubmitSigned, SignedJob
  <2>2. QED
    BY <2>1, EnvsGrowStep DEF SignedJob
<1>2. ASSUME k \notin submitting PROVE SignedJob(k)'
  <2>1. \/ \E h \in Hubs, m \in Msgs : Submit(h, m)
        \/ \E j \in submitting : SubmitCheck(j) \/ SubmitInsert(j)
    BY <1>2, SubmittingChange DEF Crash, SubmitStep, SubmitEnvelope, SubmitFails
  <2>2. ASSUME NEW h \in Hubs, NEW m \in Msgs, Submit(h, m) PROVE SignedJob(k)'
    <3>1. RequireDataB64 => m \in Enveloped
      BY <2>2 DEF Submit, Authentic
    <3>2. k.hub = h /\ k.msg = m /\ k.stage # "envelope"
      BY <1>2, <2>2 DEF Submit
    <3>3. m \in Dms => envs' = KeepEnvelope(h, m)
      BY <2>2 DEF Submit
    <3>4. m \in Dms /\ m \in Enveloped => m \in envs'[h]
      BY <3>3, KeepEnvelopeType
    <3>5. QED
      BY <3>1, <3>2, <3>4 DEF SignedJob
  <2>3. ASSUME NEW j \in submitting, SubmitCheck(j) \/ SubmitInsert(j) PROVE SignedJob(k)'
    <3>1. j \in SubmitJob /\ j.hub \in Hubs /\ SignedJob(j)
      BY DEF ConnInv, TypeOK, SubmitJob, SubmitSigned, SignedJob
    <3>2. \/ k = [j EXCEPT !.stage = "insert"]
          \/ k = [j EXCEPT !.stage = "envelope"] /\ j.msg \notin Dms
      BY <1>2, <2>3 DEF SubmitCheck, SubmitInsert
    <3>3. k.hub = j.hub /\ k.msg = j.msg /\ (k.stage = "envelope" => j.msg \notin Dms)
      BY <3>1, <3>2 DEF SubmitJob
    <3>4. envs[j.hub] \subseteq envs'[j.hub]
      BY <3>1, EnvsGrowStep
    <3>5. QED
      BY <3>1, <3>3, <3>4 DEF SignedJob
  <2>4. QED
    BY <2>1, <2>2, <2>3
<1>3. QED
  BY <1>1, <1>2

\* A submit handler past the INSERT leaves only by storing the envelope.
LEMMA PendingStep ==
    ASSUME ConnInv, [Next]_vars, errors' = 0, NEW h \in Hubs, NEW m \in Msgs,
           EnvelopePending(h, m)
    PROVE  \/ EnvelopePending(h, m)'
           \/ \E j \in submitting : j.hub = h /\ j.msg = m /\ SubmitEnvelope(j)
<1>1. PICK j \in submitting : j.hub = h /\ j.msg = m /\ j.stage = "envelope"
  BY DEF EnvelopePending
<1>2. CASE j \in submitting'
  BY <1>1, <1>2 DEF EnvelopePending
<1>3. ASSUME j \notin submitting' PROVE SubmitEnvelope(j)
  <2>1. /\ \A g \in Hubs : ~Crash(g)
        /\ \A k \in submitting : ~SubmitFails(k)
    BY CalmSteps DEF Crash, SubmitFails
  <2>2. \E k \in submitting : SubmitStep(k)
    BY <1>3, <2>1, SubmittingChange DEF Submit
  <2>3. PICK k \in submitting : SubmitStep(k)
    BY <2>2
  <2>4. k = j
    BY <1>3, <2>3 DEF SubmitStep, SubmitCheck, SubmitInsert, SubmitEnvelope
  <2>5. QED
    BY <1>1, <2>3, <2>4 DEF SubmitStep, SubmitCheck, SubmitInsert
<1>4. QED
  BY <1>1, <1>2, <1>3

\* The row a client's message gets: its handler still has the envelope to
\* store, or had stored it before the INSERT.
LEMMA NewLocalRow ==
    ASSUME ConnInv, [Next]_vars, NEW h \in Hubs, NEW m \in Msgs, m \in Held(h)', m \notin Held(h),
           row'[h][m].from = Local
    PROVE  /\ row'[h][m].at = clock
           /\ \E j \in submitting : j.hub = h /\ j.msg = m /\ SubmitInsert(j)
<1>1. row'[h][m].at = clock
  BY NewRow
<1>2. ~UNCHANGED row
  BY DEF Held
<1>3. ASSUME NEW j \in storing, StoreItem(j) PROVE FALSE
  <2>1. /\ j.hub \in Hubs /\ j.from \in Hubs
        /\ Held(h)' = IF h = j.hub THEN Held(h) \cup {j.cur.msg} ELSE Held(h)
    BY <1>3, StoreItemRow
  <2>2. j.hub = h /\ j.cur.msg = m
    BY <2>1
  <2>3. row'[h][m] = [at |-> clock, from |-> j.from, body |-> j.cur.body]
    BY <1>3, <2>2, StoreItemRow
  <2>4. QED
    BY <2>1, <2>3, NamesAssumption
<1>4. PICK j \in submitting : SubmitInsert(j)
  BY <1>2, <1>3, RowChange
<1>5. Held(h)' = IF h = j.hub THEN Held(h) \cup {j.msg} ELSE Held(h)
  BY <1>4, SubmitInsertRow
<1>6. j.hub = h /\ j.msg = m
  BY <1>5
<1>7. QED
  BY <1>1, <1>4, <1>6

LEMMA LocalsSignedNext ==
    ConnInv /\ SubmitSigned /\ LocalsSigned /\ [Next]_vars => LocalsSigned'
<1> SUFFICES ASSUME ConnInv, SubmitSigned, LocalsSigned, [Next]_vars, errors' = 0,
                    RequireDataB64, NEW h \in Hubs, NEW m \in Msgs, m \in Held(h)',
                    row'[h][m].from = Local
             PROVE  m \in Enveloped /\ (m \in envs'[h] \/ EnvelopePending(h, m)')
  BY DEF LocalsSigned, Held
<1>1. errors = 0
  BY CalmSteps
<1>2. envs[h] \subseteq envs'[h]
  BY EnvsGrowStep
<1>3. CASE m \in Held(h)
  <2>1. m \in Enveloped /\ (m \in envs[h] \/ EnvelopePending(h, m))
    BY <1>1, <1>3, OldRow DEF LocalsSigned
  <2>2. CASE m \in envs[h]
    BY <1>2, <2>1, <2>2
  <2>3. ASSUME NEW j \in submitting, j.hub = h, j.msg = m, SubmitEnvelope(j)
        PROVE  m \in envs'[h]
    BY <2>1, <2>3, KeepEnvelopeType DEF SubmitEnvelope
  <2>4. QED
    BY <2>1, <2>2, <2>3, PendingStep
<1>4. CASE m \notin Held(h)
  <2>1. PICK j \in submitting : j.hub = h /\ j.msg = m /\ SubmitInsert(j)
    BY <1>4, NewLocalRow
  <2>2. m \in Enveloped /\ (m \in Dms => m \in envs[h])
    BY <2>1 DEF SubmitSigned
  <2>3. CASE m \in Dms
    BY <1>2, <2>2, <2>3
  <2>4. CASE m \notin Dms
    <3>1. [j EXCEPT !.stage = "envelope"] \in submitting' /\ j \in SubmitJob
      BY <2>1, <2>4 DEF SubmitInsert, ConnInv, TypeOK
    <3>2. EnvelopePending(h, m)'
      BY <2>1, <3>1 DEF EnvelopePending, SubmitJob
    <3>3. QED
      BY <2>2, <3>2
  <2>5. QED
    BY <2>3, <2>4
<1>5. QED
  BY <1>3, <1>4

----------------------------------------------------------------------------
(* Nothing that is owed to a peer in the map is lost on the way.           *)

\* The way h's message m takes to p through s: what a step has to keep, or to
\* replace by the next thing on the way.
LEMMA WayKept ==
    ASSUME ConnInv, [Next]_vars, NEW h \in Hubs, NEW p \in Hubs, NEW s, NEW m \in Held(h),
           OnItsWay(h, p, s, m),
           EnvelopePending(h, m) => EnvelopePending(h, m)' \/ OnItsWay(h, p, s, m)',
           \A g \in greeting : (g.hub = h /\ g.sock = s /\ g.since < row[h][m].at)
               => g \in greeting' \/ OnItsWay(h, p, s, m)',
           \A f \in wire : (f.sock = s /\ Carries(f, h, p, m))
               => f \in wire' \/ OnItsWay(h, p, s, m)',
           \A j \in storing : (j.hub = p /\ j.from = h /\ Brings(j, m))
               => j \in storing' \/ OnItsWay(h, p, s, m)'
    PROVE  OnItsWay(h, p, s, m)'
<1>1. row'[h][m] = row[h][m] /\ Held(p) \subseteq Held(p)'
  BY OldRow
<1>2. CASE m \in Held(p)
  BY <1>1, <1>2 DEF OnItsWay
<1>3. CASE EnvelopePending(h, m)
  BY <1>3 DEF OnItsWay
<1>4. ASSUME NEW g \in greeting, g.hub = h, g.sock = s, g.since < row[h][m].at
      PROVE  OnItsWay(h, p, s, m)'
  BY <1>1, <1>4 DEF OnItsWay
<1>5. ASSUME NEW f \in wire, f.sock = s, Carries(f, h, p, m) PROVE OnItsWay(h, p, s, m)'
  <2>1. CASE f \in wire'
    BY <1>5, <2>1 DEF OnItsWay, Carries
  <2>2. QED
    BY <1>5, <2>1
<1>6. ASSUME NEW j \in storing, j.hub = p, j.from = h, Brings(j, m)
      PROVE  OnItsWay(h, p, s, m)'
  <2>1. CASE j \in storing'
    BY <1>6, <2>1 DEF OnItsWay, Brings
  <2>2. QED
    BY <1>6, <2>1
<1>7. QED
  BY <1>2, <1>3, <1>4, <1>5, <1>6 DEF OnItsWay

LEMMA PendingKept ==
    ASSUME submitting \subseteq submitting', NEW h, NEW m, EnvelopePending(h, m)
    PROVE  EnvelopePending(h, m)'
  BY DEF EnvelopePending

LEMMA WayHello ==
    ASSUME ConnInv, [Next]_vars, NEW h \in Hubs, NEW p \in Hubs, NEW s, NEW m \in Held(h),
           OnItsWay(h, p, s, m), NEW e \in wire, HandleHello(e)
    PROVE  OnItsWay(h, p, s, m)'
<1>1. /\ storing' = storing /\ submitting' = submitting /\ greeting \subseteq greeting'
      /\ wire \ {e} \subseteq wire' /\ e.type = "hello"
  BY DEF HandleHello
<1>2. \A f \in wire : Carries(f, h, p, m) => f \in wire'
  BY <1>1 DEF Carries
<1>3. QED
  BY <1>1, <1>2, PendingKept, WayKept

LEMMA WayHave ==
    ASSUME ConnInv, [Next]_vars, NEW h \in Hubs, NEW p \in Hubs, NEW s \in Dials,
           Ends(s) = {h, p}, NEW m \in Held(h),
           OnItsWay(h, p, s, m), NEW e \in wire, HandleHave(e)
    PROVE  OnItsWay(h, p, s, m)'
<1> DEFINE missing == e.hashes \ HeldOf(e.to, e.class)
<1>1. /\ storing' = storing /\ submitting' = submitting /\ greeting' = greeting
      /\ wire \ {e} \subseteq wire' /\ e.type = "have"
      /\ missing # {} => Want(e.sock, Peer(e.sock, e.to), e.class, missing) \in wire'
  BY DEF HandleHave
<1>2. ASSUME e.sock = s, Carries(e, h, p, m) PROVE OnItsWay(h, p, s, m)'
  <2>1. e.to = p /\ m \in e.hashes
    BY <1>1, <1>2 DEF Carries
  <2>2. CASE m \in HeldOf(p, e.class)
    <3>1. m \in Held(p)'
      BY <2>2, OldRow DEF HeldOf
    <3>2. QED
      BY <3>1 DEF OnItsWay
  <2>3. CASE m \notin HeldOf(p, e.class)
    <3>1. m \in missing
      BY <2>1, <2>3
    <3>2. Peer(s, p) = h
      BY PeerUnique, DialsAssumption
    <3>3. Want(s, h, e.class, missing) \in wire'
      BY <1>1, <1>2, <2>1, <3>1, <3>2
    <3> DEFINE w == Want(s, h, e.class, missing)
    <3>4. w.type = "want" /\ w.sock = s /\ w.to = h /\ w.hashes = missing
      BY DEF Want
    <3>5. w \in wire'
      BY <3>3
    <3> HIDE DEF w
    <3>6. Carries(w, h, p, m)
      BY <3>1, <3>4 DEF Carries
    <3>7. QED
      BY <3>4, <3>5, <3>6 DEF OnItsWay, Carries
  <2>4. QED
    BY <2>2, <2>3
<1>3. \A f \in wire : (f.sock = s /\ Carries(f, h, p, m))
          => f \in wire' \/ OnItsWay(h, p, s, m)'
  BY <1>1, <1>2
<1>4. QED
  BY <1>1, <1>3, PendingKept, WayKept

LEMMA WayWant ==
    ASSUME ConnInv, LocalsSigned, errors = 0, [Next]_vars, NEW h \in Hubs, NEW p \in Hubs,
           NEW s \in Dials, Ends(s) = {h, p}, NEW m \in Held(h), row[h][m].from = Local,
           OnItsWay(h, p, s, m), NEW e \in wire, HandleWant(e)
    PROVE  OnItsWay(h, p, s, m)'
<1> DEFINE items == Pulled(e.to, e.hashes)
<1>1. /\ storing' = storing /\ submitting' = submitting /\ greeting' = greeting
      /\ wire \ {e} \subseteq wire' /\ e.type = "want"
      /\ items # {} => Messages(e.sock, Peer(e.sock, e.to), e.class, items) \in wire'
  BY DEF HandleWant
<1>2. ASSUME e.sock = s, Carries(e, h, p, m) PROVE OnItsWay(h, p, s, m)'
  <2>1. e.to = h /\ m \in e.hashes
    BY <1>1, <1>2 DEF Carries
  <2>2. CASE EnvelopePending(h, m)
    <3>1. EnvelopePending(h, m)'
      BY <1>1, <2>2, PendingKept
    <3>2. QED
      BY <3>1 DEF OnItsWay
  <2>3. CASE ~EnvelopePending(h, m)
    <3> DEFINE item == [msg |-> m, body |-> row[h][m].body, data |-> m \in envs[h]]
    <3>1. item \in items
      BY <2>1 DEF Pulled
    <3>2. RequireDataB64 => m \in envs[h]
      BY <2>3 DEF LocalsSigned
    <3>3. item.msg = m /\ (RequireDataB64 => item.data)
      BY <3>2
    <3>4. Peer(s, h) = p
      BY PeerUnique
    <3> DEFINE w == Messages(s, p, e.class, items)
    <3>5. w \in wire'
      BY <1>1, <1>2, <2>1, <3>1, <3>4
    <3>6. w.type = "messages" /\ w.sock = s /\ w.to = p /\ w.items = items
      BY DEF Messages
    <3> HIDE DEF w, item, items
    <3>7. Carries(w, h, p, m)
      BY <3>1, <3>3, <3>6 DEF Carries, Usable
    <3>8. QED
      BY <3>5, <3>6, <3>7 DEF OnItsWay, Carries, Usable
  <2>4. QED
    BY <2>2, <2>3
<1>3. \A f \in wire : (f.sock = s /\ Carries(f, h, p, m))
          => f \in wire' \/ OnItsWay(h, p, s, m)'
  BY <1>1, <1>2
<1>4. QED
  BY <1>1, <1>3, PendingKept, WayKept

LEMMA WayMessages ==
    ASSUME ConnInv, [Next]_vars, NEW h \in Hubs, NEW p \in Hubs, NEW s \in Dials,
           Ends(s) = {h, p}, NEW m \in Held(h),
           OnItsWay(h, p, s, m), NEW e \in wire, HandleMessages(e)
    PROVE  OnItsWay(h, p, s, m)'
<1> DEFINE job == [hub |-> e.to, from |-> Peer(e.sock, e.to), class |-> e.class,
                   todo |-> e.items, cur |-> NoItem, stored |-> FALSE]
<1>1. /\ storing' = storing \cup {job} /\ submitting' = submitting /\ greeting' = greeting
      /\ wire \ {e} \subseteq wire' /\ e.type = "messages"
  BY DEF HandleMessages
<1>2. ASSUME e.sock = s, Carries(e, h, p, m) PROVE OnItsWay(h, p, s, m)'
  <2>1. e.to = p /\ \E item \in e.items : Usable(item, m)
    BY <1>1, <1>2 DEF Carries
  <2>2. Peer(s, p) = h
    BY PeerUnique, DialsAssumption
  <2>3. job \in storing' /\ job.hub = p /\ job.from = h /\ job.todo = e.items
    BY <1>1, <1>2, <2>1, <2>2
  <2> HIDE DEF job
  <2>4. Brings(job, m)
    BY <2>1, <2>3 DEF Brings
  <2>5. QED
    BY <2>3, <2>4 DEF OnItsWay, Brings
<1>3. \A f \in wire : (f.sock = s /\ Carries(f, h, p, m))
          => f \in wire' \/ OnItsWay(h, p, s, m)'
  BY <1>1, <1>2
<1>4. storing \subseteq storing'
  BY <1>1
<1>5. QED
  BY <1>1, <1>3, <1>4, PendingKept, WayKept

LEMMA WayGreet ==
    ASSUME ConnInv, HeldFinite, [Next]_vars, NEW h \in Hubs, NEW p \in Hubs, NEW s \in Dials,
           Ends(s) = {h, p}, NEW m \in Held(h), FitsOneBatch(h),
           OnItsWay(h, p, s, m), NEW e \in greeting, GreetOffer(e)
    PROVE  OnItsWay(h, p, s, m)'
<1> DEFINE Offer(c, page) ==
               IF page = {} THEN {} ELSE {Have(e.sock, Peer(e.sock, e.hub), c, page)}
<1>1. PICK tweets \in Batches(e.hub, "tweet", e.since),
           dms \in Batches(e.hub, "dm", e.since) :
             wire' = wire \cup Offer("tweet", tweets) \cup Offer("dm", dms)
  BY DEF GreetOffer
<1>2. storing' = storing /\ submitting' = submitting /\ greeting' = greeting \ {e}
  BY DEF GreetOffer
<1>3. ASSUME e.hub = h, e.sock = s, e.since < row[h][m].at PROVE OnItsWay(h, p, s, m)'
  <2>1. Peer(s, h) = p
    BY PeerUnique
  <2>2. m \in Newer(h, ClassOf(m), e.since)
    BY <1>3 DEF Newer, HeldOf
  <2>3. /\ tweets = Newer(h, "tweet", e.since)
        /\ dms = Newer(h, "dm", e.since)
    BY <1>3, WholePage DEF Classes
  <2>4. ClassOf(m) = "tweet" \/ ClassOf(m) = "dm"
    BY DEF ClassOf
  <2>5. PICK page : m \in page /\ Have(s, p, ClassOf(m), page) \in wire'
    BY <1>1, <1>3, <2>1, <2>2, <2>3, <2>4
  <2> DEFINE w == Have(s, p, ClassOf(m), page)
  <2>6. w.type = "have" /\ w.sock = s /\ w.to = p /\ w.hashes = page /\ w \in wire'
    BY <2>5 DEF Have
  <2> HIDE DEF w
  <2>7. Carries(w, h, p, m)
    BY <2>5, <2>6 DEF Carries
  <2>8. QED
    BY <2>6, <2>7 DEF OnItsWay, Carries
<1>4. \A g \in greeting : (g.hub = h /\ g.sock = s /\ g.since < row[h][m].at)
          => g \in greeting' \/ OnItsWay(h, p, s, m)'
  BY <1>2, <1>3
<1>5. wire \subseteq wire'
  BY <1>1
<1>6. QED
  BY <1>2, <1>4, <1>5, PendingKept, WayKept

\* The peer's handler refuses an owed message in no state: it is signed, its
\* signer is not denied, and it is a DM or has not expired.
LEMMA OwedAcceptable ==
    ASSUME ConnInv, OffersBacked, NothingDenied, errors = 0, NEW h, NEW p \in Hubs,
           NEW m \in Msgs, m \in Dms \/ ~Expired(m),
           NEW j \in storing, j.hub = p, NEW item \in j.todo, Usable(item, m)
    PROVE  Acceptable(j, item)
<1>1. item.msg = m /\ (RequireDataB64 => item.data)
  BY DEF Usable
<1>2. item.msg \in HeldOf(j.from, j.class)
  BY DEF OffersBacked
<1>3. j.class = "tweet" => ~Expired(m)
  BY <1>1, <1>2 DEF HeldOf, ClassOf
<1>4. ~Denied(j.hub, item.msg)
  BY <1>1 DEF NothingDenied, Denied
<1>5. QED
  BY <1>1, <1>3, <1>4 DEF Acceptable

LEMMA WayProcess ==
    ASSUME ConnInv, OffersBacked, NothingDenied, errors = 0, [Next]_vars,
           NEW h \in Hubs, NEW p \in Hubs, NEW s, NEW m \in Held(h), m \in Dms \/ ~Expired(m),
           OnItsWay(h, p, s, m), NEW e \in storing, Process(e)
    PROVE  OnItsWay(h, p, s, m)'
<1>1. /\ wire' = wire /\ greeting' = greeting /\ submitting' = submitting
      /\ storing \ {e} \subseteq storing'
  <2>1. CASE Accept(e)
    BY <2>1 DEF Accept
  <2>2. CASE Reject(e)
    BY <2>2 DEF Reject
  <2>3. CASE StoreItem(e) \/ FinishStore(e)
    BY <2>3 DEF StoreItem, FinishStore
  <2>4. QED
    BY <2>1, <2>2, <2>3 DEF Process
<1>2. e \in StoreJob /\ m \in Msgs
  BY DEF ConnInv, TypeOK, Held
<1>3. ASSUME e.hub = p, e.from = h, Brings(e, m) PROVE OnItsWay(h, p, s, m)'
  <2>1. ASSUME NEW k \in storing', k.hub = p, k.from = h, Brings(k, m)
        PROVE  OnItsWay(h, p, s, m)'
    BY <2>1 DEF OnItsWay, Brings
  <2>2. CASE Accept(e)
    <3>1. PICK item \in e.todo :
             storing' = (storing \ {e}) \cup {[e EXCEPT !.todo = @ \ {item}, !.cur = item]}
      BY <2>2, Zenon DEF Accept
    <3> DEFINE k == [e EXCEPT !.todo = @ \ {item}, !.cur = item]
    <3>2. /\ k \in storing' /\ k.hub = e.hub /\ k.from = e.from
          /\ k.todo = e.todo \ {item} /\ k.cur = item
      BY <1>2, <3>1 DEF StoreJob
    <3>3. e.cur = NoItem /\ item \in Item
      BY <1>2, <2>2 DEF Accept, StoreJob
    <3> HIDE DEF k
    <3>4. Brings(k, m)
      BY <1>3, <3>2, <3>3, NamesAssumption DEF Brings, Usable
    <3>5. QED
      BY <1>3, <2>1, <3>2, <3>4
  <2>3. CASE Reject(e)
    <3>1. PICK item \in e.todo :
             /\ ~Acceptable(e, item)
             /\ storing' = (storing \ {e}) \cup {[e EXCEPT !.todo = @ \ {item}]}
      BY <2>3 DEF Reject
    <3>2. ~Usable(item, m)
      BY <1>2, <1>3, <3>1, OwedAcceptable
    <3> DEFINE k == [e EXCEPT !.todo = @ \ {item}]
    <3>3. /\ k \in storing' /\ k.hub = e.hub /\ k.from = e.from
          /\ k.todo = e.todo \ {item} /\ k.cur = e.cur
      BY <1>2, <3>1 DEF StoreJob
    <3> HIDE DEF k
    <3>4. Brings(k, m)
      BY <1>3, <3>2, <3>3 DEF Brings
    <3>5. QED
      BY <1>3, <2>1, <3>3, <3>4
  <2>4. CASE StoreItem(e)
    <3> DEFINE k == [e EXCEPT !.cur = NoItem,
                              !.stored = @ \/ row[e.hub][e.cur.msg] = NoRow]
    <3>1. storing' = (storing \ {e}) \cup {k}
      BY <2>4, Zenon DEF StoreItem
    <3>2. k \in storing' /\ k.hub = e.hub /\ k.from = e.from /\ k.todo = e.todo
      BY <1>2, <3>1 DEF StoreJob
    <3> HIDE DEF k
    <3>3. CASE \E item \in e.todo : Usable(item, m)
      BY <1>3, <2>1, <3>2, <3>3 DEF Brings
    <3>4. CASE e.cur.msg = m
      <4>1. m \in Held(p)'
        BY <1>3, <2>4, <3>4, StoreItemRow
      <4>2. QED
        BY <4>1 DEF OnItsWay
    <3>5. QED
      BY <1>3, <3>3, <3>4 DEF Brings
  <2>5. CASE FinishStore(e)
    BY <1>3, <2>5 DEF FinishStore, Brings
  <2>6. QED
    BY <2>2, <2>3, <2>4, <2>5 DEF Process
<1>4. \A j \in storing : (j.hub = p /\ j.from = h /\ Brings(j, m))
          => j \in storing' \/ OnItsWay(h, p, s, m)'
  BY <1>1, <1>3
<1>5. QED
  BY <1>1, <1>4, PendingKept, WayKept

\* What the two broadcasts of a hub put on the wire.
LEMMA PushFrames ==
    ASSUME NEW h \in Hubs, NEW m \in Msgs, Push(h, m)
    PROVE  wire' = wire \cup {Messages(peers[h][q], q, ClassOf(m), {Pushed(m)}) :
                                 q \in {r \in Hubs : peers[h][r] \in up}}
  BY DEF Push, ToPeers

LEMMA BroadcastGrows ==
    ASSUME NEW h \in Hubs, BroadcastHave(h) PROVE wire \subseteq wire'
  BY DEF BroadcastHave, ToPeers

\* A push reaches every socket of the map.
LEMMA PushOnItsWay ==
    ASSUME NEW h \in Hubs, NEW p \in Hubs, NEW s, s = peers[h][p], s \in up,
           NEW m \in Msgs, RequireDataB64 => m \in Enveloped, Push(h, m)
    PROVE  wire \subseteq wire' /\ OnItsWay(h, p, s, m)'
<1> DEFINE w == Messages(s, p, ClassOf(m), {Pushed(m)})
<1>1. w \in wire' /\ wire \subseteq wire'
  BY PushFrames
<1>2. w.type = "messages" /\ w.sock = s /\ w.to = p /\ w.items = {Pushed(m)}
  BY DEF Messages
<1>3. Usable(Pushed(m), m)
  BY DEF Usable, Pushed
<1> HIDE DEF w
<1>4. Carries(w, h, p, m)
  BY <1>2, <1>3 DEF Carries
<1>5. QED
  BY <1>1, <1>2, <1>4 DEF OnItsWay, Carries, Usable

LEMMA WaySubmitStep ==
    ASSUME ConnInv, SubmitSigned, [Next]_vars, errors' = 0, NEW h \in Hubs, NEW p \in Hubs,
           NEW s, s = peers[h][p], s \in up, NEW m \in Held(h),
           OnItsWay(h, p, s, m), NEW e \in submitting, SubmitStep(e)
    PROVE  OnItsWay(h, p, s, m)'
<1>1. storing' = storing /\ greeting' = greeting
  BY DEF SubmitStep, SubmitCheck, SubmitInsert, SubmitEnvelope
<1>2. wire \subseteq wire'
  <2>1. e.hub \in Hubs /\ e.msg \in Msgs
    BY DEF ConnInv, TypeOK, SubmitJob
  <2>2. wire' = wire \/ Push(e.hub, e.msg)
    BY DEF SubmitStep, SubmitCheck, SubmitInsert, SubmitEnvelope
  <2>3. QED
    BY <2>1, <2>2, PushFrames
<1>3. ASSUME NEW j \in submitting, j.hub = h, j.msg = m, SubmitEnvelope(j)
      PROVE  OnItsWay(h, p, s, m)'
  <2>1. m \in Msgs /\ (RequireDataB64 => m \in Enveloped) /\ Push(h, m)
    BY <1>3 DEF SubmitSigned, SubmitEnvelope, Held
  <2>2. QED
    BY <2>1, PushOnItsWay
<1>4. EnvelopePending(h, m) => EnvelopePending(h, m)' \/ OnItsWay(h, p, s, m)'
  BY <1>3, PendingStep DEF Held
<1>5. QED
  BY <1>1, <1>2, <1>4, WayKept

\* The INSERT of what a client gave h puts it on the way to every peer.
LEMMA WayBegins ==
    ASSUME ConnInv, SubmitSigned, NEW h \in Hubs, NEW p \in Hubs,
           NEW s, s = peers[h][p], s \in up, NEW m \in Msgs, m \notin Held(h),
           NEW j \in submitting, j.hub = h, j.msg = m, SubmitInsert(j)
    PROVE  OnItsWay(h, p, s, m)'
<1>1. CASE m \in Dms
  <2>1. Push(h, m) /\ (RequireDataB64 => m \in Enveloped)
    BY <1>1 DEF SubmitInsert, SubmitSigned, Held
  <2>2. QED
    BY <2>1, PushOnItsWay
<1>2. CASE m \notin Dms
  <2>1. [j EXCEPT !.stage = "envelope"] \in submitting' /\ j \in SubmitJob
    BY <1>2 DEF SubmitInsert, ConnInv, TypeOK
  <2>2. EnvelopePending(h, m)'
    BY <2>1 DEF EnvelopePending, SubmitJob
  <2>3. QED
    BY <2>2 DEF OnItsWay
<1>3. QED
  BY <1>1, <1>2

\* What another socket loses was not on the way through this one.
LEMMA WayDrop ==
    ASSUME ConnInv, [Next]_vars, NEW h \in Hubs, NEW p \in Hubs, NEW s \in Dials,
           s = peers[h][p], s = peers'[h][p], NEW m \in Held(h),
           OnItsWay(h, p, s, m), NEW lost \in Dials, Drop(lost)
    PROVE  OnItsWay(h, p, s, m)'
<1>1. Ends(s) = {h, p} /\ <<h, s>> \in greeted
  BY NamesAssumption DEF ConnInv, MapHoldsOpenSockets
<1>2. Peer(s, h) = p
  BY <1>1, PeerUnique
<1>3. s # lost
  BY <1>1, <1>2, NamesAssumption DEF Drop, Close, Unmapped
<1>4. /\ \A f \in wire : f.sock = s => f \in wire'
      /\ \A g \in greeting : g.sock = s => g \in greeting'
      /\ storing' = storing /\ submitting' = submitting
  BY <1>3 DEF Drop, Close
<1>5. QED
  BY <1>4, PendingKept, WayKept

\* Every other step of a run without errors only adds to what is under way.
LEMMA WayGrows ==
    ASSUME \/ UNCHANGED vars
           \/ Tick
           \/ \E s \in Dials : Dial(s)
           \/ \E h \in Hubs : BroadcastHave(h)
           \/ \E h, p \in Hubs, since \in WalkFrom : TriggerSync(h, p, since)
           \/ \E h \in Hubs, m \in Msgs : Submit(h, m)
           \/ \E w \in walking : WalkPage(w)
    PROVE  /\ wire \subseteq wire' /\ greeting \subseteq greeting'
           /\ storing \subseteq storing' /\ submitting \subseteq submitting'
<1>1. ASSUME NEW h \in Hubs, BroadcastHave(h)
      PROVE  /\ wire \subseteq wire' /\ greeting' = greeting
             /\ storing' = storing /\ submitting' = submitting
  <2>1. wire \subseteq wire'
    BY <1>1, BroadcastGrows
  <2>2. greeting' = greeting /\ storing' = storing /\ submitting' = submitting
    BY <1>1, Zenon DEF BroadcastHave
  <2>3. QED
    BY <2>1, <2>2
<1>2. ASSUME NEW w \in walking, WalkPage(w)
      PROVE  /\ wire \subseteq wire' /\ greeting' = greeting
             /\ storing' = storing /\ submitting' = submitting
  BY <1>2 DEF WalkPage
<1>3. ASSUME NEW s \in Dials, Dial(s)
      PROVE  /\ wire \subseteq wire' /\ greeting' = greeting
             /\ storing' = storing /\ submitting' = submitting
  BY <1>3 DEF Dial
<1>4. ASSUME NEW h \in Hubs, NEW m \in Msgs, Submit(h, m)
      PROVE  /\ wire' = wire /\ greeting' = greeting
             /\ storing' = storing /\ submitting \subseteq submitting'
  BY <1>4 DEF Submit
<1>5. ASSUME NEW h \in Hubs, NEW p \in Hubs, NEW since \in WalkFrom, TriggerSync(h, p, since)
      PROVE  /\ wire' = wire /\ greeting' = greeting
             /\ storing' = storing /\ submitting' = submitting
  BY <1>5 DEF TriggerSync
<1>6. CASE Tick \/ UNCHANGED vars
  BY <1>6 DEF Tick, vars
<1>7. QED
  BY <1>1, <1>2, <1>3, <1>4, <1>5, <1>6

\* A socket enters the map with a hello, and the offer it starts is the way of
\* everything that is owed.
LEMMA WayOpens ==
    ASSUME ConnInv, [Next]_vars, errors' = 0, NEW h \in Hubs, NEW p \in Hubs,
           NEW s \in Dials, peers'[h][p] = s, peers[h][p] # s,
           NEW m \in Held(h), row[h][m].at > LastSync(h, p)
    PROVE  OnItsWay(h, p, s, m)'
<1>1. PICK f \in wire : HandleHello(f)
  <2>1. CalmStep
    BY CalmSteps
  <2>2. ASSUME NEW j \in storing, Process(j) PROVE peers' = peers
    <3>1. CASE Accept(j)
      BY <3>1 DEF Accept, net
    <3>2. CASE Reject(j)
      BY <3>2 DEF Reject, net
    <3>3. CASE StoreItem(j) \/ FinishStore(j)
      BY <3>3 DEF StoreItem, FinishStore, net
    <3>4. QED
      BY <2>2, <3>1, <3>2, <3>3 DEF Process
  <2>3. ASSUME NEW g \in Hubs, BroadcastHave(g) PROVE peers' = peers
    BY <2>3, Zenon DEF BroadcastHave, net
  <2>4. ASSUME NEW w \in walking, WalkPage(w) PROVE peers' = peers
    BY <2>4 DEF WalkPage, net
  <2>5. ASSUME NEW j \in submitting, SubmitStep(j) PROVE peers' = peers
    BY <2>5 DEF SubmitStep, SubmitCheck, SubmitInsert, SubmitEnvelope, net
  <2>6. ASSUME NEW t \in Dials, Dial(t) PROVE peers' = peers
    BY <2>6 DEF Dial
  <2>7. ASSUME NEW t \in Dials, Drop(t) PROVE FALSE
    BY <2>7, NamesAssumption DEF Drop, Close, Unmapped
  <2>8. ASSUME NEW g \in Hubs, NEW n \in Msgs, Submit(g, n) PROVE peers' = peers
    BY <2>8 DEF Submit, net
  <2>9. ASSUME NEW g \in Hubs, NEW q \in Hubs, NEW since \in WalkFrom, TriggerSync(g, q, since)
        PROVE  peers' = peers
    BY <2>9 DEF TriggerSync, net
  <2>10. ASSUME NEW g \in greeting, GreetOffer(g) PROVE peers' = peers
    BY <2>10 DEF GreetOffer, net
  <2>11. ASSUME NEW f \in wire, HandleHave(f) \/ HandleWant(f) \/ HandleMessages(f)
         PROVE  peers' = peers
    BY <2>11 DEF HandleHave, HandleWant, HandleMessages, net
  <2>12. QED
    BY <2>1, <2>2, <2>3, <2>4, <2>5, <2>6, <2>7, <2>8, <2>9, <2>10, <2>11
       DEF CalmStep, Handle, Tick, vars, net
<1>2. f.to \in Hubs /\ f.sock \in Dials /\ f.to \in Ends(f.sock)
  BY DEF ConnInv, TypeOK, Frame
<1>3. Peer(f.sock, f.to) \in Hubs
  BY <1>2, PeerProps
<1>4. peers' = [peers EXCEPT ![f.to][Peer(f.sock, f.to)] = f.sock]
  BY <1>1 DEF HandleHello
<1>5. f.to = h /\ Peer(f.sock, f.to) = p /\ f.sock = s
  BY <1>2, <1>3, <1>4 DEF ConnInv, TypeOK
<1> DEFINE g == [hub |-> f.to, sock |-> f.sock, since |-> LastSync(f.to, Peer(f.sock, f.to))]
<1>6. g \in greeting'
  BY <1>1 DEF HandleHello
<1>7. g.hub = h /\ g.sock = s /\ g.since = LastSync(h, p)
  BY <1>5
<1> HIDE DEF g
<1>8. row'[h][m] = row[h][m]
  BY OldRow
<1>9. QED
  BY <1>6, <1>7, <1>8 DEF OnItsWay

LEMMA WayStep ==
    ASSUME DataInv, NothingDenied, SubmitSigned, LocalsSigned, HeldFinite,
           [Next]_vars, errors' = 0, NEW h \in Hubs, NEW p \in Hubs,
           NEW s \in Dials, s = peers[h][p], s = peers'[h][p], FitsOneBatch(h),
           NEW m \in Msgs, Owed(h, p, m), OnItsWay(h, p, s, m)
    PROVE  OnItsWay(h, p, s, m)'
<1>1. ConnInv /\ OffersBacked
  BY DEF DataInv
<1>2. errors = 0 /\ CalmStep
  BY <1>1, CalmSteps
<1>3. s \in up /\ Ends(s) = {h, p}
  BY <1>1, NamesAssumption DEF ConnInv, MapHoldsOpenSockets
<1>4. m \in Held(h) /\ row[h][m].from = Local /\ (m \in Dms \/ ~Expired(m))
  BY DEF Owed
<1>5. ASSUME NEW f \in wire, Handle(f) PROVE OnItsWay(h, p, s, m)'
  BY <1>1, <1>2, <1>3, <1>4, <1>5, WayHello, WayHave, WayWant, WayMessages DEF Handle
<1>6. ASSUME NEW g \in greeting, GreetOffer(g) PROVE OnItsWay(h, p, s, m)'
  BY <1>1, <1>3, <1>4, <1>6, WayGreet
<1>7. ASSUME NEW j \in storing, Process(j) PROVE OnItsWay(h, p, s, m)'
  BY <1>1, <1>2, <1>4, <1>7, WayProcess
<1>8. ASSUME NEW j \in submitting, SubmitStep(j) PROVE OnItsWay(h, p, s, m)'
  BY <1>1, <1>3, <1>4, <1>8, WaySubmitStep
<1>9. ASSUME NEW t \in Dials, Drop(t) PROVE OnItsWay(h, p, s, m)'
  BY <1>1, <1>4, <1>9, WayDrop
<1>10. ASSUME wire \subseteq wire', greeting \subseteq greeting', storing \subseteq storing',
              submitting \subseteq submitting'
       PROVE  OnItsWay(h, p, s, m)'
  BY <1>1, <1>4, <1>10, PendingKept, WayKept
<1>11. QED
  BY <1>2, <1>5, <1>6, <1>7, <1>8, <1>9, <1>10, WayGrows DEF CalmStep

LEMMA NothingLostNext == ExchangeInv /\ HeldFinite' /\ [Next]_vars => NothingLost'
<1> SUFFICES ASSUME ExchangeInv, HeldFinite', [Next]_vars, errors' = 0,
                    NEW h \in Hubs, NEW p \in Hubs, FitsOneBatch(h)',
                    NEW s \in Dials, peers'[h][p] = s, NEW m \in Msgs, Owed(h, p, m)'
             PROVE  OnItsWay(h, p, s, m)'
  BY DEF NothingLost
<1>1. /\ DataInv /\ ConnInv /\ DatedInPast /\ NothingDenied /\ SubmitSigned /\ LocalsSigned
      /\ HeldFinite /\ NothingLost
  BY DEF ExchangeInv, DataInv
<1>2. errors = 0 /\ FitsOneBatch(h)
  BY <1>1, CalmSteps, FitsBefore
<1>3. CASE m \in Held(h)
  <2>1. Owed(h, p, m)
    BY <1>1, <1>3, OwedBefore
  <2>2. CASE peers[h][p] # s
    BY <1>1, <1>3, <2>1, <2>2, WayOpens DEF Owed
  <2>3. CASE peers[h][p] = s
    <3>1. OnItsWay(h, p, s, m)
      BY <1>1, <1>2, <2>1, <2>3 DEF NothingLost
    <3>2. QED
      BY <1>1, <1>2, <2>1, <2>3, <3>1, WayStep
  <2>4. QED
    BY <2>2, <2>3
<1>4. CASE m \notin Held(h)
  <2>1. m \in Held(h)' /\ row'[h][m].from = Local
    BY DEF Owed
  <2>2. PICK j \in submitting : j.hub = h /\ j.msg = m /\ SubmitInsert(j)
    BY <1>1, <1>4, <2>1, NewLocalRow
  <2>3. peers' = peers
    BY <2>2 DEF SubmitInsert, net
  <2>4. s \in up
    BY <1>1, <2>3, NamesAssumption DEF ConnInv, MapHoldsOpenSockets
  <2>5. QED
    BY <1>1, <1>4, <2>2, <2>3, <2>4, WayBegins
<1>5. QED
  BY <1>3, <1>4

LEMMA ExchangeInit == Init => ExchangeInv
<1> SUFFICES ASSUME Init PROVE ExchangeInv
  OBVIOUS
<1>1. \A h \in Hubs : Held(h) = {}
  BY DEF Init, Held
<1>2. HeldFinite
  BY <1>1, FS_EmptySet DEF HeldFinite
<1>3. NothingLost /\ LocalsSigned
  BY <1>1 DEF NothingLost, LocalsSigned, Owed
<1>4. NothingDenied /\ SubmitSigned
  BY DEF Init, NothingDenied, SubmitSigned
<1>5. QED
  BY <1>2, <1>3, <1>4, DataInit DEF ExchangeInv

LEMMA ExchangeNext == ExchangeInv /\ [Next]_vars => ExchangeInv'
<1> SUFFICES ASSUME ExchangeInv, [Next]_vars PROVE ExchangeInv'
  OBVIOUS
<1>1. /\ DataInv /\ ConnInv /\ NothingDenied /\ SubmitSigned /\ LocalsSigned /\ HeldFinite
  BY DEF ExchangeInv, DataInv
<1>2. DataInv' /\ NothingDenied' /\ SubmitSigned' /\ LocalsSigned' /\ HeldFinite'
  BY <1>1, DataNext, DeniedNext, SubmitSignedNext, LocalsSignedNext, FiniteNext
<1>3. NothingLost'
  BY <1>2, NothingLostNext
<1>4. QED
  BY <1>2, <1>3 DEF ExchangeInv

\* What is neither under way nor with a handler has arrived.
LEMMA QuietArrived ==
    ASSUME NEW h \in Hubs, NEW p \in Hubs, Quiet(h, p), NEW m \in Msgs,
           OnItsWay(h, p, peers[h][p], m)
    PROVE  m \in Held(p)
<1>1. PICK s \in up :
        /\ peers[h][p] = s
        /\ \A f \in wire : f.sock # s
        /\ \A g \in greeting : g.sock # s
        /\ \A j \in storing : {j.hub, j.from} # {h, p}
        /\ \A j \in submitting : j.hub # h
  BY DEF Quiet
<1>2. ~EnvelopePending(h, m)
  BY <1>1 DEF EnvelopePending
<1>3. \A j \in storing : ~(j.hub = p /\ j.from = h)
  BY <1>1
<1>4. QED
  BY <1>1, <1>2, <1>3 DEF OnItsWay

\* On any network and for any batch size: once the socket in a hub's map is
\* quiet, the peer has every message that a client gave the hub after its
\* last_sync_at for that peer, if no query, RPC call or process has failed, the
\* messages held fit one batch and the signed time is still in the window,
\* however often connections were lost on the way.
THEOREM SpecQuietPairExchanged == Spec => []QuietPairExchanged
<1>1. ExchangeInv => QuietPairExchanged
  <2> SUFFICES ASSUME ExchangeInv, NEW h \in Hubs, NEW p \in Hubs, errors = 0,
                      FitsOneBatch(h), Quiet(h, p), NEW m \in Held(h),
                      row[h][m].from = Local, row[h][m].at > LastSync(h, p),
                      m \in Dms \/ ~Expired(m)
               PROVE  m \in Held(p)
    BY DEF QuietPairExchanged
  <2>1. m \in Msgs /\ Owed(h, p, m)
    BY DEF Owed, Held
  <2>2. peers[h][p] \in Dials
    BY DEF Quiet, ExchangeInv, DataInv, ConnInv, TypeOK
  <2>3. OnItsWay(h, p, peers[h][p], m)
    BY <2>1, <2>2 DEF ExchangeInv, NothingLost
  <2>4. QED
    BY <2>1, <2>3, QuietArrived
<1>2. Spec => []ExchangeInv
  BY ExchangeInit, ExchangeNext, PTL DEF Spec
<1>3. QED
  BY <1>1, <1>2, PTL
=============================================================================
