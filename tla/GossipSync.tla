------------------------------ MODULE GossipSync ------------------------------
(***************************************************************************)
(* Replication of signed messages between hubs: the submit routes that     *)
(* store a client's message and push it, the hello / have / want /         *)
(* messages frames of the gossip protocol, the periodic have, and the      *)
(* operator's sync trigger.  Tweets (table messages) and one-to-one DMs    *)
(* (table dm_messages) are the two classes of message; the frames of the   *)
(* DM path carry class "dm".                                               *)
(*                                                                         *)
(* The handlers of a hub run concurrently: a WebSocket frame starts an     *)
(* async handler without waiting for the one before it, so a handler that  *)
(* writes to the database in several steps is an entry of one of the sets  *)
(* greeting, storing, walking, submitting, and steps of different entries  *)
(* interleave.  A handler that reads once and replies is one action.       *)
(***************************************************************************)
EXTENDS Integers, FiniteSets

CONSTANTS
    Hubs,            \* hub ids
    Dials,           \* <<i, a>>: hub i lists hub a's /gossip URL in PEERS
    Msgs,            \* hashes of signed messages
    Dms,             \* those that are DM_SEND envelopes; the others are tweets
    Targeted,        \* tweets-table messages whose body has target_hash, no text
    Enveloped,       \* messages their client sent with dataB64
    Origins,         \* Origins[m]: hubs m's client submits to
    SignedAt,        \* SignedAt[m]: the signed timestamp
    RequireDataB64,  \* config.requireDataB64
    MaxBatch,        \* config.maxSyncBatchSize
    MaxPages,        \* pages of one catch-up walk (100 in the code)
    MaxAge,          \* config.messageMaxAgeMs, in ticks
    DenyTicks,       \* config.appKeyNegativeCacheTtlMs, in ticks
    DayTicks,        \* the default 24 hours of getLastSyncTime, in ticks
    HaveWindow,      \* 2 * config.gossipIntervalMs, in ticks
    MsTicks,         \* ticks of the database clock per JavaScript millisecond
    WalkFrom,        \* since values of the sync trigger
    Timers,          \* hubs whose gossip timer fires within the run
    Punctual,        \* TRUE: a tick is one gossip interval, in which every
                     \* timer fires and every started handler finishes
    MaxClock, MaxDrops, MaxErrors, MaxWalks,   \* bounds on the behaviours
    Local,           \* received_from IS NULL
    NoSock, NoItem, NoRow    \* absent map entry, loop variable, table row

Classes == {"tweet", "dm"}

Row == [at : Nat, from : Hubs \cup {Local}, body : {"full", "bare"}]
Item == [msg : Msgs, body : {"full", "bare"}, data : BOOLEAN]

ASSUME DialsAssumption == Dials \subseteq {d \in Hubs \X Hubs : d[1] # d[2]}
ASSUME MsgsAssumption == /\ Timers \subseteq Hubs
                         /\ Dms \subseteq Msgs
                         /\ Enveloped \subseteq Msgs
                         /\ Origins \in [Msgs -> SUBSET Hubs]
                         /\ SignedAt \in [Msgs -> Int]
ASSUME NamesAssumption == /\ Local \notin Hubs /\ NoSock \notin Dials
                          /\ NoItem \notin Item /\ NoRow \notin Row
                          /\ RequireDataB64 \in BOOLEAN /\ Punctual \in BOOLEAN
ASSUME TimeAssumption == /\ {MsTicks, MaxBatch, MaxPages} \subseteq Nat \ {0}
                         /\ {MaxAge, DenyTicks, DayTicks, HaveWindow} \subseteq Nat
                         /\ {MaxClock, MaxDrops, MaxErrors, MaxWalks} \subseteq Nat
                         /\ WalkFrom \subseteq Nat

VARIABLES
    clock,        \* NOW() of every hub's database, in ticks
    row,          \* row[h][m]: the messages / dm_messages row of m, or NoRow
    envs,         \* envs[h]: hashes with a row in signed_envelopes
    sync,         \* sync[h][p]: sync_state.last_sync_at, 0 when there is no row
    up,           \* open sockets, named by the dial that made them
    greeted,      \* <<h, s>>: h's handler of socket s knows its peerHubId
    peers,        \* peers[h][p]: connectedPeers of h, NoSock when p is absent
    wire,         \* frames sent and not yet handled
    greeting,     \* hello handlers that still have "have" frames to send
    storing,      \* messages / dm_messages handlers in their loop
    walking,      \* broadcastHaveSince calls under way
    submitting,   \* submit requests past validation
    beaten,       \* hubs whose gossip timer fired in this tick
    denied,       \* denied[h][m]: negCachedAt of m's signer, 0 when not cached
    drops, errors, walks \* faults and catch-up walks so far

db == <<row, envs, sync>>
net == <<up, greeted, peers>>
memory == <<beaten, denied>>
faults == <<drops, errors, walks>>
vars == <<clock, db, net, wire, greeting, storing, walking, submitting,
          memory, faults>>

----------------------------------------------------------------------------
Peer(s, h) == IF s[1] = h THEN s[2] ELSE s[1]
Ends(s) == {s[1], s[2]}
ClassOf(m) == IF m \in Dms THEN "dm" ELSE "tweet"

\* new Date(...): JavaScript keeps milliseconds, the database microseconds.
Ms(t) == t - (t % MsTicks)

Hello(s, to) == [type |-> "hello", sock |-> s, to |-> to]
Have(s, to, c, ms) ==
    [type |-> "have", sock |-> s, to |-> to, class |-> c, hashes |-> ms]
Want(s, to, c, ms) ==
    [type |-> "want", sock |-> s, to |-> to, class |-> c, hashes |-> ms]
Messages(s, to, c, items) ==
    [type |-> "messages", sock |-> s, to |-> to, class |-> c, items |-> items]

Frame ==
    [type : {"hello"}, sock : Dials, to : Hubs]
    \cup [type : {"have", "want"}, sock : Dials, to : Hubs,
          class : Classes, hashes : SUBSET Msgs]
    \cup [type : {"messages"}, sock : Dials, to : Hubs,
          class : Classes, items : SUBSET Item]

----------------------------------------------------------------------------
(* The queries of sync.ts. *)

Held(h) == {m \in Msgs : row[h][m] # NoRow}
HeldOf(h, c) == {m \in Held(h) : ClassOf(m) = c}

\* Rows of class c that are newer than since.
Newer(h, c, since) == {m \in HeldOf(h, c) : row[h][m].at > since}

\* Mutant: ORDER BY created_at DESC.
BatchesNewestFirst(h, c, since) ==
    LET new == Newer(h, c, since) IN
    {page \in SUBSET new :
        /\ Cardinality(page) = IF Cardinality(new) < MaxBatch
                               THEN Cardinality(new) ELSE MaxBatch
        /\ \A m \in page, n \in new \ page : row[h][m].at >= row[h][n].at}

\* The first MaxBatch of them by created_at; rows created together come in
\* any order.
Batches(h, c, since) ==
    LET new == Newer(h, c, since) IN
    {page \in SUBSET new :
        /\ Cardinality(page) = IF Cardinality(new) < MaxBatch
                               THEN Cardinality(new) ELSE MaxBatch
        /\ \A m \in page, n \in new \ page : row[h][m].at <= row[h][n].at}

LastSync(h, p) == IF sync[h][p] = 0 THEN Ms(clock) - DayTicks ELSE Ms(sync[h][p])

\* getMessagesByHashes, getDmsByHashes: what is held of the hashes asked for.
Pulled(h, hashes) ==
    {[msg |-> m, body |-> row[h][m].body, data |-> m \in envs[h]] :
        m \in hashes \cap Held(h)}

\* What gossipMessage sends: the submit route projects the body's text and
\* parent_hash, which a body with target_hash does not have.
Pushed(m) == [msg |-> m, body |-> IF m \in Targeted THEN "bare" ELSE "full",
              data |-> m \in Enveloped]

\* send() to every connected peer of h: a closed socket is skipped.
ToPeers(h, F(_, _)) ==
    {F(peers[h][p], p) : p \in {q \in Hubs : peers[h][q] \in up}}

Expired(m) == SignedAt[m] < clock - MaxAge

\* isValid's negative cache hit.
Denied(h, m) == denied[h][m] # 0 /\ clock - denied[h][m] < DenyTicks

\* The RPC call of isValid throws: m is refused, and its signer is remembered
\* as not being an app key.
LookupFails(h, m) ==
    /\ errors < MaxErrors
    /\ errors' = errors + 1
    /\ denied' = IF DenyTicks > 0 THEN [denied EXCEPT ![h][m] = clock] ELSE denied
    /\ UNCHANGED <<drops, walks>>

----------------------------------------------------------------------------
Init ==
    /\ clock = 1
    /\ row = [h \in Hubs |-> [m \in Msgs |-> NoRow]]
    /\ envs = [h \in Hubs |-> {}]
    /\ sync = [h \in Hubs |-> [p \in Hubs |-> 0]]
    /\ up = {} /\ greeted = {}
    /\ peers = [h \in Hubs |-> [p \in Hubs |-> NoSock]]
    /\ wire = {}
    /\ greeting = {} /\ storing = {} /\ walking = {} /\ submitting = {}
    /\ beaten = {} /\ denied = [h \in Hubs |-> [m \in Msgs |-> 0]]
    /\ drops = 0 /\ errors = 0 /\ walks = 0

Settled == /\ wire = {} /\ greeting = {} /\ storing = {}
           /\ walking = {} /\ submitting = {}

Tick ==
    /\ clock < MaxClock
    /\ Punctual => beaten = Timers /\ Settled
    /\ clock' = clock + 1
    /\ beaten' = {}
    /\ UNCHANGED <<db, net, wire, greeting, storing, walking, submitting, denied, faults>>

----------------------------------------------------------------------------
(* Connections. *)

\* connectToPeer and the "open" event: the dialling side speaks first.
Dial(s) ==
    /\ s \notin up
    /\ \A p \in Hubs : peers[s[1]][p] # s
    /\ up' = up \cup {s}
    /\ wire' = wire \cup {Hello(s, s[2])}
    /\ UNCHANGED <<clock, db, greeted, peers, greeting, storing, walking,
                   submitting, memory, faults>>

\* Mutant: only the dialling side forgets a closed socket.
UnmappedByDialler(closed) ==
    [h \in Hubs |-> [p \in Hubs |->
        IF \E s \in closed : <<h, s>> \in greeted /\ s = <<h, p>>
        THEN NoSock ELSE peers[h][p]]]

\* The "close" handler of every end of the closed sockets: the map entry of
\* the peer is deleted whichever socket it holds by then.
Unmapped(closed) ==
    [h \in Hubs |-> [p \in Hubs |->
        IF \E s \in closed : <<h, s>> \in greeted /\ Peer(s, h) = p
        THEN NoSock ELSE peers[h][p]]]

\* Frames on a closed socket are lost; so is what a handler sends on it later.
Close(closed) ==
    /\ up' = up \ closed
    /\ peers' = Unmapped(closed)
    /\ greeted' = {e \in greeted : e[2] \notin closed}
    /\ wire' = {f \in wire : f.sock \notin closed}

Drop(s) ==
    /\ s \in up
    /\ drops < MaxDrops
    /\ drops' = drops + 1
    /\ Close({s})
    /\ greeting' = {g \in greeting : g.sock # s}
    /\ walking' = {w \in walking : w.sock # s}
    /\ UNCHANGED <<clock, db, storing, submitting, memory, errors, walks>>

\* Hub h stops and starts again: the database survives, handlers do not.
Crash(h) ==
    LET closed == {s \in up : h \in Ends(s)} IN
    /\ errors < MaxErrors
    /\ errors' = errors + 1
    /\ Close(closed)
    /\ greeting' = {g \in greeting : g.sock \notin closed}
    /\ walking' = {w \in walking : w.sock \notin closed}
    /\ storing' = {j \in storing : j.hub # h}
    /\ submitting' = {j \in submitting : j.hub # h}
    /\ denied' = [denied EXCEPT ![h] = [m \in Msgs |-> 0]]
    /\ UNCHANGED <<clock, db, beaten, drops, walks>>

----------------------------------------------------------------------------
(* hello: the peer enters the map, the accepting side answers, and each    *)
(* side offers what is newer than its last sync with the other.            *)

\* Mutant: every hello is answered.
HandleHelloAnswering(f) ==
    LET h == f.to
        s == f.sock
    IN  /\ f.type = "hello"
        /\ greeted' = greeted \cup {<<h, s>>}
        /\ peers' = [peers EXCEPT ![h][Peer(s, h)] = s]
        /\ wire' = (wire \ {f}) \cup {Hello(s, Peer(s, h))}
        /\ greeting' = greeting \cup {[hub |-> h, sock |-> s, since |-> LastSync(h, Peer(s, h))]}
        /\ UNCHANGED <<clock, db, up, storing, walking, submitting, memory, faults>>

\* Mutant: a hello offers only what is newer than the hello.
HandleHelloFromNow(f) ==
    LET h == f.to
        s == f.sock
        answer == IF <<h, s>> \in greeted THEN {} ELSE {Hello(s, Peer(s, h))}
    IN  /\ f.type = "hello"
        /\ greeted' = greeted \cup {<<h, s>>}
        /\ peers' = [peers EXCEPT ![h][Peer(s, h)] = s]
        /\ wire' = (wire \ {f}) \cup answer
        /\ greeting' = greeting \cup {[hub |-> h, sock |-> s, since |-> Ms(clock)]}
        /\ UNCHANGED <<clock, db, up, storing, walking, submitting, memory, faults>>

HandleHello(f) ==
    LET h == f.to
        s == f.sock
        answer == IF <<h, s>> \in greeted THEN {} ELSE {Hello(s, Peer(s, h))}
    IN  /\ f.type = "hello"
        /\ greeted' = greeted \cup {<<h, s>>}
        /\ peers' = [peers EXCEPT ![h][Peer(s, h)] = s]
        /\ wire' = (wire \ {f}) \cup answer
        /\ greeting' = greeting \cup {[hub |-> h, sock |-> s, since |-> LastSync(h, Peer(s, h))]}
        /\ UNCHANGED <<clock, db, up, storing, walking, submitting, memory, faults>>

\* getMessageHashes and getDmHashes, and a frame for each that found something.
GreetOffer(g) ==
    LET Offer(c, page) ==
            IF page = {} THEN {} ELSE {Have(g.sock, Peer(g.sock, g.hub), c, page)}
    IN  /\ \E tweets \in Batches(g.hub, "tweet", g.since),
              dms \in Batches(g.hub, "dm", g.since) :
             wire' = wire \cup Offer("tweet", tweets) \cup Offer("dm", dms)
        /\ greeting' = greeting \ {g}
        /\ UNCHANGED <<clock, db, net, storing, walking, submitting, memory, faults>>

----------------------------------------------------------------------------
(* have and want: each reads the database once and replies. *)

HandleHave(f) ==
    LET missing == f.hashes \ HeldOf(f.to, f.class) IN
    /\ f.type = "have"
    /\ wire' = (wire \ {f}) \cup
           (IF missing = {} THEN {}
            ELSE {Want(f.sock, Peer(f.sock, f.to), f.class, missing)})
    /\ UNCHANGED <<clock, db, net, greeting, storing, walking, submitting,
                   memory, faults>>

HandleWant(f) ==
    LET items == Pulled(f.to, f.hashes) IN
    /\ f.type = "want"
    /\ wire' = (wire \ {f}) \cup
           (IF items = {} THEN {}
            ELSE {Messages(f.sock, Peer(f.sock, f.to), f.class, items)})
    /\ UNCHANGED <<clock, db, net, greeting, storing, walking, submitting,
                   memory, faults>>

----------------------------------------------------------------------------
(* messages: validate, keep the envelope, insert the row, item by item;    *)
(* then, when something was stored, move last_sync_at to now.              *)

HandleMessages(f) ==
    /\ f.type = "messages"
    /\ wire' = wire \ {f}
    /\ storing' = storing \cup
           {[hub |-> f.to, from |-> Peer(f.sock, f.to), class |-> f.class,
             todo |-> f.items, cur |-> NoItem, stored |-> FALSE]}
    /\ UNCHANGED <<clock, db, net, greeting, walking, submitting, memory, faults>>

\* validateGossipMessage; the DM path has no timestamp window.
Acceptable(j, item) ==
    /\ RequireDataB64 => item.data
    /\ j.class = "tweet" => ~Expired(item.msg)
    /\ ~Denied(j.hub, item.msg)

\* Mutant: the received dataB64 is checked and not kept.
AcceptWithoutEnvelope(j) ==
    /\ j.cur = NoItem
    /\ \E item \in j.todo :
         /\ Acceptable(j, item)
         /\ storing' = (storing \ {j}) \cup
                {[j EXCEPT !.todo = @ \ {item}, !.cur = item]}
    /\ UNCHANGED <<clock, db, net, wire, greeting, walking, submitting, memory, faults>>

Accept(j) ==
    /\ j.cur = NoItem
    /\ \E item \in j.todo :
         /\ Acceptable(j, item)
         /\ envs' = IF item.data THEN [envs EXCEPT ![j.hub] = @ \cup {item.msg}]
                    ELSE envs
         /\ storing' = (storing \ {j}) \cup
                {[j EXCEPT !.todo = @ \ {item}, !.cur = item]}
    /\ UNCHANGED <<clock, row, sync, net, wire, greeting, walking, submitting,
                   memory, faults>>

Reject(j) ==
    /\ j.cur = NoItem
    /\ \E item \in j.todo :
         /\ ~Acceptable(j, item)
         /\ storing' = (storing \ {j}) \cup {[j EXCEPT !.todo = @ \ {item}]}
    /\ UNCHANGED <<clock, db, net, wire, greeting, walking, submitting, memory, faults>>

RejectOnRpc(j) ==
    /\ j.cur = NoItem
    /\ \E item \in j.todo :
         /\ Acceptable(j, item)
         /\ LookupFails(j.hub, item.msg)
         /\ storing' = (storing \ {j}) \cup {[j EXCEPT !.todo = @ \ {item}]}
    /\ UNCHANGED <<clock, db, net, wire, greeting, walking, submitting, beaten>>

\* Mutant: ON CONFLICT (hash) DO UPDATE.
InsertRowUpdating(h, m, from, body) ==
    [row EXCEPT ![h][m] = [at |-> clock, from |-> from, body |-> body]]

\* Mutant: created_at of a received row is its signed timestamp.
InsertRowSignedTime(h, m, from, body) ==
    IF row[h][m] = NoRow
    THEN [row EXCEPT ![h][m] =
             [at |-> IF from = Local THEN clock ELSE SignedAt[m], from |-> from, body |-> body]]
    ELSE row

\* INSERT ... ON CONFLICT (hash) DO NOTHING
InsertRow(h, m, from, body) ==
    IF row[h][m] = NoRow
    THEN [row EXCEPT ![h][m] = [at |-> clock, from |-> from, body |-> body]]
    ELSE row

StoreItem(j) ==
    /\ j.cur # NoItem
    /\ row' = InsertRow(j.hub, j.cur.msg, j.from, j.cur.body)
    /\ storing' = (storing \ {j}) \cup
           {[j EXCEPT !.cur = NoItem,
                      !.stored = @ \/ row[j.hub][j.cur.msg] = NoRow]}
    /\ UNCHANGED <<clock, envs, sync, net, wire, greeting, walking, submitting,
                   memory, faults>>

\* Mutant: last_sync_at moves for a frame of duplicates too.
FinishStoreAlways(j) ==
    /\ j.cur = NoItem /\ j.todo = {}
    /\ sync' = IF j.class = "tweet"
               THEN [sync EXCEPT ![j.hub][j.from] = clock] ELSE sync
    /\ storing' = storing \ {j}
    /\ UNCHANGED <<clock, row, envs, net, wire, greeting, walking, submitting,
                   memory, faults>>

\* updateSyncState; dm_messages leaves sync_state alone.
FinishStore(j) ==
    /\ j.cur = NoItem /\ j.todo = {}
    /\ sync' = IF j.stored /\ j.class = "tweet"
               THEN [sync EXCEPT ![j.hub][j.from] = clock] ELSE sync
    /\ storing' = storing \ {j}
    /\ UNCHANGED <<clock, row, envs, net, wire, greeting, walking, submitting,
                   memory, faults>>

\* A query throws: the handler's catch drops the rest of the frame.
StoreFails(j) ==
    /\ j.cur # NoItem \/ j.todo # {} \/ j.stored
    /\ errors < MaxErrors
    /\ errors' = errors + 1
    /\ storing' = storing \ {j}
    /\ UNCHANGED <<clock, db, net, wire, greeting, walking, submitting, memory, drops, walks>>

----------------------------------------------------------------------------
(* The gossip timer: offer what the last two intervals brought to every    *)
(* connected peer.  Tweets only.                                           *)

\* Mutant: the have window is one tick short.
BroadcastHaveShort(h) ==
    /\ h \in Timers \ beaten
    /\ beaten' = beaten \cup {h}
    /\ \E page \in Batches(h, "tweet", Ms(clock) - HaveWindow + 1) :
         wire' = IF page = {} THEN wire
                 ELSE wire \cup ToPeers(h, LAMBDA s, p : Have(s, p, "tweet", page))
    /\ UNCHANGED <<clock, db, net, greeting, storing, walking, submitting, denied, faults>>

BroadcastHave(h) ==
    /\ h \in Timers \ beaten
    /\ beaten' = beaten \cup {h}
    /\ \E page \in Batches(h, "tweet", Ms(clock) - HaveWindow) :
         wire' = IF page = {} THEN wire
                 ELSE wire \cup ToPeers(h, LAMBDA s, p : Have(s, p, "tweet", page))
    /\ UNCHANGED <<clock, db, net, greeting, storing, walking, submitting, denied, faults>>

----------------------------------------------------------------------------
(* POST /v1/sync/trigger: walk from since in pages of MaxBatch, tweets     *)
(* first, then DMs.  seen remembers what this class's pages have offered.  *)

\* Mutant: a peer that is not in the map is walked to all the same.
TriggerSyncUnchecked(h, p, since) ==
    /\ walks < MaxWalks
    /\ walks' = walks + 1
    /\ walking' = walking \cup
           {[hub |-> h, sock |-> peers[h][p], class |-> "tweet", since |-> since,
             cursor |-> since, left |-> MaxPages, seen |-> {}]}
    /\ UNCHANGED <<clock, db, net, wire, greeting, storing, submitting, memory,
                   drops, errors>>

TriggerSync(h, p, since) ==
    /\ walks < MaxWalks
    /\ walks' = walks + 1
    /\ peers[h][p] # NoSock
    /\ walking' = walking \cup
           {[hub |-> h, sock |-> peers[h][p], class |-> "tweet", since |-> since,
             cursor |-> since, left |-> MaxPages, seen |-> {}]}
    /\ UNCHANGED <<clock, db, net, wire, greeting, storing, submitting, memory,
                   drops, errors>>

\* The loop of a class ends on an empty or short page, or after MaxPages.
NextClass(w) ==
    IF w.class = "tweet"
    THEN {[w EXCEPT !.class = "dm", !.cursor = w.since, !.left = MaxPages, !.seen = {}]}
    ELSE {}

\* The page's last row: the newest one.
IsLast(h, m, page) == m \in page /\ \A n \in page : row[h][n].at <= row[h][m].at

\* After a full page the cursor moves one millisecond past the created_at of
\* its last row.
Turned(w, m, page) ==
    [w EXCEPT !.cursor = Ms(row[w.hub][m].at) + MsTicks, !.left = @ - 1,
              !.seen = @ \cup page]

\* One page: the query and its frame.
WalkPage(w) ==
    \E page \in Batches(w.hub, w.class, w.cursor) :
        /\ wire' = IF page = {} THEN wire
                   ELSE wire \cup {Have(w.sock, Peer(w.sock, w.hub), w.class, page)}
        /\ IF Cardinality(page) = MaxBatch /\ w.left > 1
           THEN \E m \in page :
                   /\ IsLast(w.hub, m, page)
                   /\ walking' = (walking \ {w}) \cup {Turned(w, m, page)}
           ELSE walking' = (walking \ {w}) \cup NextClass(w)
        /\ UNCHANGED <<clock, db, net, greeting, storing, submitting, memory, faults>>

----------------------------------------------------------------------------
(* Submission.  /v1/submit: duplicate check, row, envelope, push.          *)
(* /v1/dm/send: envelope, duplicate check, row, push.                      *)

Authentic(m) == /\ ~Expired(m) /\ SignedAt[m] <= clock
                /\ RequireDataB64 => m \in Enveloped

KeepEnvelope(h, m) ==
    IF m \in Enveloped THEN [envs EXCEPT ![h] = @ \cup {m}] ELSE envs
Push(h, m) ==
    wire' = wire \cup
        ToPeers(h, LAMBDA s, p : Messages(s, p, ClassOf(m), {Pushed(m)}))

\* Mutant: the push goes out before the INSERT.
SubmitPushingFirst(h, m) ==
    /\ h \in Origins[m] /\ Authentic(m) /\ ~Denied(h, m)
    /\ row[h][m] = NoRow
    /\ Push(h, m)
    /\ submitting' = submitting \cup {[hub |-> h, msg |-> m, stage |-> "insert"]}
    /\ UNCHANGED <<clock, db, net, greeting, storing, walking, memory, faults>>

Submit(h, m) ==
    LET j == [hub |-> h, msg |-> m, stage |-> "insert"] IN
    /\ h \in Origins[m]
    /\ Authentic(m) /\ ~Denied(h, m)
    /\ IF m \in Dms
       THEN /\ envs' = KeepEnvelope(h, m)
            /\ submitting' = submitting \cup {[j EXCEPT !.stage = "check"]}
       ELSE /\ row[h][m] = NoRow
            /\ submitting' = submitting \cup {j}
            /\ envs' = envs
    /\ UNCHANGED <<clock, row, sync, net, wire, greeting, storing, walking,
                   memory, faults>>

SubmitRefused(h, m) ==
    /\ h \in Origins[m]
    /\ Authentic(m) /\ ~Denied(h, m)
    /\ LookupFails(h, m)
    /\ UNCHANGED <<clock, db, net, wire, greeting, storing, walking, submitting, beaten>>

\* The DM route's duplicate check, answering 409 when the row is there.
SubmitCheck(j) ==
    /\ j.stage = "check"
    /\ submitting' = (submitting \ {j}) \cup
           IF row[j.hub][j.msg] = NoRow THEN {[j EXCEPT !.stage = "insert"]} ELSE {}
    /\ UNCHANGED <<clock, db, net, wire, greeting, storing, walking, memory, faults>>

\* A tweet's INSERT skips a row that appeared meanwhile and goes on; a DM's
\* INSERT then fails on the primary key and the request ends with it.
SubmitInsert(j) ==
    /\ j.stage = "insert"
    /\ row' = InsertRow(j.hub, j.msg, Local, "full")
    /\ submitting' = (submitting \ {j}) \cup
           IF j.msg \in Dms THEN {} ELSE {[j EXCEPT !.stage = "envelope"]}
    /\ IF j.msg \in Dms /\ row[j.hub][j.msg] = NoRow THEN Push(j.hub, j.msg)
       ELSE wire' = wire
    /\ UNCHANGED <<clock, envs, sync, net, greeting, storing, walking, memory, faults>>

SubmitEnvelope(j) ==
    /\ j.stage = "envelope"
    /\ envs' = KeepEnvelope(j.hub, j.msg)
    /\ Push(j.hub, j.msg)
    /\ submitting' = submitting \ {j}
    /\ UNCHANGED <<clock, row, sync, net, greeting, storing, walking, memory, faults>>

SubmitFails(j) ==
    /\ errors < MaxErrors
    /\ errors' = errors + 1
    /\ submitting' = submitting \ {j}
    /\ UNCHANGED <<clock, db, net, wire, greeting, storing, walking, memory, drops, walks>>

----------------------------------------------------------------------------
\* A socket delivers in order and a hub says hello before anything else; the
\* handlers of the later frames run concurrently, in any order.
Arrived(f) ==
    f.type # "hello" => \A g \in wire : g # Hello(f.sock, f.to)

Handle(f) ==
    /\ Arrived(f)
    /\ HandleHello(f) \/ HandleHave(f) \/ HandleWant(f) \/ HandleMessages(f)

Process(j) == Accept(j) \/ Reject(j) \/ StoreItem(j) \/ FinishStore(j)

SubmitStep(j) == SubmitCheck(j) \/ SubmitInsert(j) \/ SubmitEnvelope(j)

Next ==
    \/ Tick
    \/ \E s \in Dials : Dial(s) \/ Drop(s)
    \/ \E h \in Hubs : Crash(h) \/ BroadcastHave(h)
    \/ \E h, p \in Hubs, since \in WalkFrom : TriggerSync(h, p, since)
    \/ \E h \in Hubs, m \in Msgs : Submit(h, m) \/ SubmitRefused(h, m)
    \/ \E f \in wire : Handle(f)
    \/ \E g \in greeting : GreetOffer(g)
    \/ \E j \in storing : Process(j) \/ RejectOnRpc(j) \/ StoreFails(j)
    \/ \E w \in walking : WalkPage(w)
    \/ \E j \in submitting : SubmitStep(j) \/ SubmitFails(j)

Spec == Init /\ [][Next]_vars

\* One step of the event loop of hub h.
HubStep(h) ==
    \/ BroadcastHave(h)
    \/ \E f \in wire : f.to = h /\ Handle(f)
    \/ \E g \in greeting : g.hub = h /\ GreetOffer(g)
    \/ \E j \in storing : j.hub = h /\ Process(j)
    \/ \E w \in walking : w.hub = h /\ WalkPage(w)
    \/ \E j \in submitting : j.hub = h /\ SubmitStep(j)

\* Time passes, every event loop keeps turning (it finishes the handlers it
\* has started and fires its timers), and the reconnect timer dials a closed
\* peer URL again.  Clients, operators, losses and failures are not fair.
Fairness ==
    /\ WF_vars(Tick)
    /\ \A s \in Dials : WF_vars(Dial(s))
    /\ \A h \in Hubs : WF_vars(HubStep(h))

FairSpec == Spec /\ Fairness

----------------------------------------------------------------------------
(* Properties. *)

GreetJob == [hub : Hubs, sock : Dials, since : Int]
StoreJob == [hub : Hubs, from : Hubs, class : Classes, todo : SUBSET Item,
             cur : Item \cup {NoItem}, stored : BOOLEAN]
WalkJob == [hub : Hubs, sock : Dials, class : Classes, since : Int,
            cursor : Int, left : 1 .. MaxPages, seen : SUBSET Msgs]
SubmitJob == [hub : Hubs, msg : Msgs, stage : {"check", "insert", "envelope"}]

\* Every variable stays in its type: in particular a handler's peer is always
\* one of the two ends of its socket, and frames name hubs and hashes only.
TypeOK ==
    /\ clock \in Nat
    /\ row \in [Hubs -> [Msgs -> Row \cup {NoRow}]]
    /\ envs \in [Hubs -> SUBSET Msgs]
    /\ sync \in [Hubs -> [Hubs -> Nat]]
    /\ up \subseteq Dials
    /\ greeted \subseteq {e \in Hubs \X Dials : e[1] \in Ends(e[2])}
    /\ peers \in [Hubs -> [Hubs -> Dials \cup {NoSock}]]
    /\ wire \subseteq {f \in Frame : f.to \in Ends(f.sock)}
    /\ greeting \subseteq {g \in GreetJob : g.hub \in Ends(g.sock)}
    /\ storing \subseteq StoreJob
    /\ walking \subseteq {w \in WalkJob : w.hub \in Ends(w.sock)}
    /\ submitting \subseteq SubmitJob
    /\ beaten \subseteq Hubs
    /\ denied \in [Hubs -> [Msgs -> Nat]]
    /\ drops \in Nat /\ errors \in Nat /\ walks \in Nat

\* connectedPeers never holds a socket that is closed, belongs to another
\* pair of hubs or has not introduced itself, however closes, restarts and
\* new dials interleave with late hello frames (protocol.ts:436-475).
MapHoldsOpenSockets ==
    \A h, p \in Hubs : peers[h][p] # NoSock =>
        /\ peers[h][p] \in up
        /\ Ends(peers[h][p]) = {h, p}
        /\ <<h, peers[h][p]>> \in greeted

\* A hub offers, is asked for and sends only messages it has stored, so a want
\* is never answered short and a push never overtakes its own INSERT
\* (getMessagesByHashes drops what it does not find, sync.ts:92-129).
OffersBacked ==
    /\ \A f \in wire :
         /\ f.type = "have" => f.hashes \subseteq HeldOf(Peer(f.sock, f.to), f.class)
         /\ f.type = "want" => f.hashes \subseteq HeldOf(f.to, f.class)
         /\ f.type = "messages" => \A item \in f.items :
                item.msg \in HeldOf(Peer(f.sock, f.to), f.class)
    /\ \A j \in storing :
         /\ \A item \in j.todo : item.msg \in HeldOf(j.from, j.class)
         /\ j.cur # NoItem => j.cur.msg \in HeldOf(j.from, j.class)

\* When dataB64 is required, every row that came from a peer has its signed
\* bytes: a relay can always serve the message to a third hub that requires
\* them too, although the row and the envelope are written by separate
\* queries and a crash or an error may fall between them.
RequiredEnvelopes ==
    RequireDataB64 =>
        \A h \in Hubs : \A m \in Held(h) : row[h][m].from # Local => m \in envs[h]

\* received_from is true: the hub it names has the message, and had it no
\* later than the hub that says so.
ProvenanceOrdered ==
    \A h \in Hubs : \A m \in Held(h) : row[h][m].from # Local =>
        LET p == row[h][m].from IN
        m \in Held(p) /\ row[p][m].at <= row[h][m].at

\* last_sync_at of a peer is set only by having stored a tweet that peer sent,
\* at that moment or earlier.
SyncMarkEarned ==
    \A h, p \in Hubs : sync[h][p] # 0 =>
        /\ sync[h][p] <= clock
        /\ \E m \in HeldOf(h, "tweet") :
             row[h][m].from = p /\ row[h][m].at <= sync[h][p]

\* The first copy of a message wins: a row and an envelope never change and
\* never go away, and last_sync_at never moves back, whatever duplicates and
\* late frames arrive.
RowsAreFinal ==
    [][\A h \in Hubs :
         /\ \A m \in Held(h) : row'[h][m] = row[h][m]
         /\ envs[h] \subseteq envs'[h]
         /\ \A p \in Hubs : sync[h][p] <= sync'[h][p]]_db

\* p is in h's map with the socket s, and nothing is under way between them on
\* s or being submitted to h.
Quiet(h, p) ==
    \E s \in up :
        /\ peers[h][p] = s
        /\ \A f \in wire : f.sock # s
        /\ \A g \in greeting : g.sock # s
        /\ \A j \in storing : {j.hub, j.from} # {h, p}
        /\ \A j \in submitting : j.hub # h

FitsOneBatch(h) == \A c \in Classes : Cardinality(HeldOf(h, c)) <= MaxBatch

\* What the hello handshake does guarantee: once the socket in h's map is quiet,
\* the peer has every message a client gave h after h's last_sync_at for that
\* peer, unless its signed time has left the window meanwhile, even if
\* connections were lost on the way.  The other socket of two hubs that dial
\* each other keeps no such promise: the close of either takes the peer out of
\* the map (protocol.ts:436-447).
QuietPairExchanged ==
    \A h, p \in Hubs : (h # p /\ errors = 0 /\ FitsOneBatch(h) /\ Quiet(h, p)) =>
        \A m \in Held(h) :
            (/\ row[h][m].from = Local /\ row[h][m].at > LastSync(h, p)
             /\ m \in Dms \/ ~Expired(m)) => m \in Held(p)

\* "Both hubs will continuously sync" (README.md:293): two hubs that are
\* connected and quiet have no message of the last day that the have window has
\* left behind and the peer still lacks; the handshake offered what a lost
\* connection had kept back (protocol.ts:483, "since last sync with this peer").
HelloCatchesUp ==
    \A h, p \in Hubs : (h # p /\ errors = 0 /\ FitsOneBatch(h) /\ Quiet(h, p)) =>
        \A m \in Held(h) :
            (/\ row[h][m].from = Local
             /\ row[h][m].at \in Ms(clock) - DayTicks + 1 .. Ms(clock) - HaveWindow)
            => m \in Held(p)

\* A catch-up walk steps over a row only when its created_at is less than one
\* millisecond past the start of the millisecond after a row it did offer:
\* the cursor never jumps further than its page's last row justifies.
WalkGapWithinOneMs ==
    \A w \in walking : \A m \in HeldOf(w.hub, w.class) \ w.seen :
        row[w.hub][m].at \in (w.since + 1) .. w.cursor =>
            \E n \in w.seen : row[w.hub][m].at - Ms(row[w.hub][n].at) \in 0 .. MsTicks

\* Two hubs that hold a message hold the same projection of it: "what's stored
\* on disk matches what the signer hashed" (verifier.ts:282-287).
ReplicasAgree ==
    \A h, p \in Hubs : \A m \in Held(h) \cap Held(p) : row[h][m].body = row[p][m].body

Connected(h, p) == peers[h][p] \in up /\ peers[p][h] \in up

\* The have window repairs the push: a message a client gives hub h while p is
\* connected reaches p although one query, RPC call or process on the way
\* fails (protocol.ts:116-133).
PushRepaired ==
    \A h, p \in Hubs, m \in Msgs :
        (/\ Connected(h, p)
         /\ m \in Held(h) /\ row[h][m].from = Local /\ row[h][m].at = clock
         /\ clock + HaveWindow <= MaxClock) ~> m \in Held(p)

\* A connected neighbour has a message no later than two gossip intervals after
\* the hub that holds it, and this for received messages too, which are never
\* pushed on (protocol.ts:592): so a message crosses the network hub by hub.
NeighboursUpToDate ==
    \A h, p \in Hubs : (Connected(h, p) /\ Settled /\ errors + drops = 0) =>
        \A m \in Held(h) : row[h][m].at + HaveWindow <= clock => m \in Held(p)

\* The handshake ends: two hubs do not answer each other's hello for ever
\* (protocol.ts:474-481).
HandshakeSettles == <>[](\A f \in wire : f.type # "hello")

Replicas == INSTANCE MessageReplicas WITH held <- [h \in Hubs |-> Held(h)]

\* The gossip protocol implements the abstract replicated message set: a hub
\* learns a message from a client of its own or from a hub that holds it, and
\* never forgets one.
ImplementsReplicas == Replicas!Spec
=============================================================================
