------------------------------- MODULE DmInbox -------------------------------
(***************************************************************************)
(* The inbox beside the groups: x25519 keys, one-to-one conversations with *)
(* their last_message_at, read receipts, and the routes that list groups,  *)
(* conversations, messages and unread counts.  It shares the hubs, links   *)
(* and restarts of GroupSync; hello and walks offer DMs again (GossipSync  *)
(* has those frames), so here a hub may send what it holds again at will.  *)
(***************************************************************************)
EXTENDS GroupSync, FiniteSetsExt

CONSTANTS
    Mails,        \* hashes of DM_SEND envelopes
    Reads,        \* DM_READ envelopes
    Regs,         \* DM_KEY_REGISTER envelopes, each standing for its key
    AuthorOf,     \* AuthorOf[e]: the signed tid
    RecipientOf,  \* RecipientOf[m]: recipient_tid of a DM
    ReadIn,       \* ReadIn[r]: conversation_id, a pair of tids or a group
    SentAt,       \* SentAt[e]: the signed timestamp of DMs, receipts and texts
    DmHomes,      \* DmHomes[e]: the hubs its client submits it to
    DmStories,    \* what clients submit of these, beside which group envelopes
    NoKey

Pairs == {{AuthorOf[m], RecipientOf[m]} : m \in Mails}
Conversations == Pairs \cup Groups

ASSUME DmAssumption ==
    /\ AuthorOf \in [Mails \cup Reads \cup Regs -> Tids]
    /\ RecipientOf \in [Mails -> Tids]
    /\ \A m \in Mails : AuthorOf[m] # RecipientOf[m]
    /\ ReadIn \in [Reads -> Conversations]
    /\ SentAt \in [Mails \cup Reads \cup Texts -> Nat \ {0}]
    /\ DmHomes \in [Mails \cup Reads \cup Regs -> SUBSET Hubs]
    /\ DmStories \subseteq [sent : SUBSET (Mails \cup Reads \cup Regs), beside : SUBSET Envelopes,
                     faults : Nat]
    /\ NoKey \notin Regs
\* The hash covers the message type; a group's conversation_id has a prefix.
ASSUME TypesDistinct ==
    /\ Mails \cap Reads = {} /\ Mails \cap Regs = {} /\ Reads \cap Regs = {}
    /\ Pairs \cap Groups = {}

VARIABLES
    dmKey,     \* dmKey[h][t]: dm_keys, or NoKey
    conv,      \* conv[h][c]: last_message_at of the dm_conversations row, or 0
    mail,      \* mail[h]: hashes in dm_messages
    receipt,   \* receipt[h][t][c]: last_read_at, 0 without a row
    post,      \* dm_messages and dm_key frames in flight
    desk,      \* DM routes and dm_messages handlers between two queries
    letters,   \* <<h, e>>: a client has still to submit e to h
    posted     \* <<h, e>>: h accepted e from a client

dmTables == <<dmKey, conv, mail, receipt>>
dmVars == <<dmTables, post, desk, letters, posted>>

ConvOf(m) == {AuthorOf[m], RecipientOf[m]}
Post(h, e) ==
    post' = post \cup {[to |-> p, from |-> h, env |-> e] : p \in {q \in Others(h) : {h, q} \in links}}

DmInit ==
    /\ Init
    /\ dmKey = [h \in Hubs |-> [t \in Tids |-> NoKey]]
    /\ conv = [h \in Hubs |-> [c \in Pairs |-> 0]]
    /\ mail = [h \in Hubs |-> {}]
    /\ receipt = [h \in Hubs |-> [t \in Tids |-> [c \in Conversations |-> 0]]]
    /\ post = {} /\ desk = {} /\ posted = {}
    /\ \E story \in DmStories :
         /\ story.beside = {e \in Envelopes : \E h \in Hubs : <<h, e>> \in clients}
         /\ story.faults = budget
         /\ letters = UNION {DmHomes[e] \X {e} : e \in story.sent}

----------------------------------------------------------------------------
(* Keys: the last writer wins, and a frame is as good a writer as a client. *)

RegisterKey(h, r) ==
    /\ <<h, r>> \in letters /\ r \in Regs
    /\ letters' = letters \ {<<h, r>>} /\ posted' = posted \cup {<<h, r>>}
    /\ dmKey' = [dmKey EXCEPT ![h][AuthorOf[r]] = r]
    /\ Post(h, r)
    /\ UNCHANGED <<conv, mail, receipt, desk>>

HandleKey(f) ==
    /\ f.env \in Regs
    /\ dmKey' = [dmKey EXCEPT ![f.to][AuthorOf[f.env]] = f.env]
    /\ post' = post \ {f}
    /\ UNCHANGED <<conv, mail, receipt, desk, letters, posted>>

----------------------------------------------------------------------------
(* Sending and receiving a DM: conversation row, then message row. *)

\* Mutant: the message row comes before its conversation.
SendRequestRowFirst(h, m) ==
    /\ <<h, m>> \in letters /\ m \in Mails
    /\ letters' = letters \ {<<h, m>>}
    /\ desk' = IF m \in mail[h] THEN desk
               ELSE desk \cup {[hub |-> h, env |-> m, stage |-> "row", mine |-> TRUE]}
    /\ UNCHANGED <<dmTables, post, posted>>

\* Validation and the duplicate check.
SendRequest(h, m) ==
    /\ <<h, m>> \in letters /\ m \in Mails
    /\ letters' = letters \ {<<h, m>>}
    /\ desk' = IF m \in mail[h] THEN desk
               ELSE desk \cup {[hub |-> h, env |-> m, stage |-> "conv", mine |-> TRUE]}
    /\ UNCHANGED <<dmTables, post, posted>>

HandleMail(f) ==
    /\ f.env \in Mails
    /\ post' = post \ {f}
    /\ desk' = desk \cup {[hub |-> f.to, env |-> f.env, stage |-> "conv", mine |-> FALSE]}
    /\ UNCHANGED <<dmTables, letters, posted>>

\* Mutant: the gossip path overwrites last_message_at like the route does.
LastMessageAtOverwritten(j, was) == SentAt[j.env]

\* A client's DM sets last_message_at; a gossiped one only moves it forward.
LastMessageAt(j, was) ==
    IF j.mine \/ SentAt[j.env] > was THEN SentAt[j.env] ELSE was

UpsertConversation(j) ==
    LET c == ConvOf(j.env) IN
    /\ j.stage = "conv"
    /\ conv' = [conv EXCEPT ![j.hub][c] = LastMessageAt(j, @)]
    /\ desk' = (desk \ {j}) \cup {[j EXCEPT !.stage = "row"]}
    /\ UNCHANGED <<dmKey, mail, receipt, post, letters, posted>>

\* The route's INSERT fails when the hash came by gossip meanwhile; then it
\* pushes nothing.
InsertMail(j) ==
    /\ j.stage = "row"
    /\ mail' = [mail EXCEPT ![j.hub] = @ \cup {j.env}]
    /\ desk' = desk \ {j}
    /\ IF j.mine /\ j.env \notin mail[j.hub]
       THEN Post(j.hub, j.env) /\ posted' = posted \cup {<<j.hub, j.env>>}
       ELSE UNCHANGED <<post, posted>>
    /\ UNCHANGED <<dmKey, conv, receipt, letters>>

\* A want of p brings it a DM of h again.
Resend(h, p, m) ==
    /\ {h, p} \in links /\ m \in mail[h] \ mail[p]
    /\ post' = post \cup {[to |-> p, from |-> h, env |-> m]}
    /\ UNCHANGED <<dmTables, desk, letters, posted>>

----------------------------------------------------------------------------
(* POST /v1/dm/read *)

\* Mutant: ON CONFLICT DO UPDATE without the WHERE.
ReadOverwriting(h, r) ==
    /\ <<h, r>> \in letters /\ r \in Reads
    /\ letters' = letters \ {<<h, r>>} /\ posted' = posted \cup {<<h, r>>}
    /\ receipt' = [receipt EXCEPT ![h][AuthorOf[r]][ReadIn[r]] = SentAt[r]]
    /\ UNCHANGED <<dmKey, conv, mail, post, desk>>

Read(h, r) ==
    /\ <<h, r>> \in letters /\ r \in Reads
    /\ letters' = letters \ {<<h, r>>} /\ posted' = posted \cup {<<h, r>>}
    /\ receipt' = [receipt EXCEPT ![h][AuthorOf[r]][ReadIn[r]] =
                      IF @ < SentAt[r] THEN SentAt[r] ELSE @]
    /\ UNCHANGED <<dmKey, conv, mail, post, desk>>

----------------------------------------------------------------------------
(* The GET routes. *)

\* GET /v1/dm/key/:tid, NoKey being the 404.
KeyFor(h, t) == dmKey[h][t]

\* unread_count of a conversation or group: what others sent after the receipt.
Unread(h, t, c) ==
    IF c \in Groups
    THEN {m \in texts[h] : GroupOf[m] = c /\ SignerOf[m] # t /\ SentAt[m] > receipt[h][t][c]}
    ELSE {m \in mail[h] : ConvOf(m) = c /\ AuthorOf[m] # t /\ SentAt[m] > receipt[h][t][c]}

\* GET /v1/dm/conversations/:tid
ConversationList(h, t) ==
    {[id |-> c, peer |-> CHOOSE u \in c : u # t, last |-> conv[h][c],
      count |-> Cardinality({m \in mail[h] : ConvOf(m) = c}),
      unread |-> Cardinality(Unread(h, t, c))] : c \in {d \in Pairs : t \in d /\ conv[h][d] # 0}}

\* GET /v1/dm/groups/member/:tid
GroupList(h, t) ==
    {[id |-> g, members |-> Cardinality(members[h][g]),
      last |-> Max({0} \cup {SentAt[m] : m \in {n \in texts[h] : GroupOf[n] = g}}),
      unread |-> Cardinality(Unread(h, t, g))] : g \in {x \in Groups : t \in members[h][x]}}

\* GET /v1/dm/groups/:groupId/messages, {} standing for the 403 as well.
GroupPage(h, t, g) ==
    IF t \in members[h][g] THEN {m \in texts[h] : GroupOf[m] = g /\ t \in ciphers[h][m]} ELSE {}

\* Mutant: ORDER BY timestamp ASC.
MailPageOldestFirst(h, t, c, before, n) ==
    LET older == {m \in mail[h] : ConvOf(m) = c /\ SentAt[m] < before} IN
    IF t \notin c \/ conv[h][c] = 0 THEN {}
    ELSE CHOOSE page \in SUBSET older :
            /\ Cardinality(page) = IF Cardinality(older) < n THEN Cardinality(older) ELSE n
            /\ \A m \in page, o \in older \ page : SentAt[m] <= SentAt[o]

\* GET /v1/dm/messages/:conversationId, one page: the newest n before a time.
MailPage(h, t, c, before, n) ==
    LET older == {m \in mail[h] : ConvOf(m) = c /\ SentAt[m] < before} IN
    IF t \notin c \/ conv[h][c] = 0 THEN {}
    ELSE CHOOSE page \in SUBSET older :
            /\ Cardinality(page) = IF Cardinality(older) < n THEN Cardinality(older) ELSE n
            /\ \A m \in page, o \in older \ page : SentAt[m] >= SentAt[o]

\* GET /v1/dm/conversations/:conversationId/reads
ReadsIn(h, c) == {[tid |-> t, at |-> receipt[h][t][c]] : t \in {u \in Tids : receipt[h][u][c] # 0}}

----------------------------------------------------------------------------
DmStep ==
    \/ \E h \in Hubs : \/ \E r \in Regs : RegisterKey(h, r)
                       \/ \E m \in Mails : SendRequest(h, m)
                       \/ \E r \in Reads : Read(h, r)
    \/ \E f \in post : HandleKey(f) \/ HandleMail(f)
    \/ \E j \in desk : UpsertConversation(j) \/ InsertMail(j)
    \/ \E h, p \in Hubs, m \in Mails : Resend(h, p, m)

\* A lost connection loses its frames; a restart the handlers too.
Faulty ==
    \/ \E h, p \in Hubs : /\ Drop(h, p)
                          /\ post' = {f \in post : {f.to, f.from} # {h, p}}
                          /\ desk' = desk
    \/ \E h \in Hubs : /\ Crash(h)
                       /\ post' = {f \in post : h \notin {f.to, f.from}}
                       /\ desk' = {j \in desk : j.hub # h}

DmNext ==
    \/ DmStep /\ UNCHANGED vars
    \/ Step /\ UNCHANGED dmVars
    \/ Faulty /\ UNCHANGED <<dmTables, letters, posted>>

DmSpec == DmInit /\ [][DmNext]_<<vars, dmVars>>

----------------------------------------------------------------------------
(* Properties. *)

\* Every variable of the groups and the inbox stays in its type; a stored DM has
\* its conversation row, and the key served for a tid is one the tid signed.
DmTypeOK ==
    /\ TypeOK
    /\ dmKey \in [Hubs -> [Tids -> Regs \cup {NoKey}]]
    /\ conv \in [Hubs -> [Pairs -> Nat]]
    /\ mail \in [Hubs -> SUBSET Mails]
    /\ receipt \in [Hubs -> [Tids -> [Conversations -> Nat]]]
    /\ post \subseteq [to : Hubs, from : Hubs, env : Mails \cup Regs]
    /\ desk \subseteq [hub : Hubs, env : Mails, stage : {"conv", "row"}, mine : BOOLEAN]
    /\ letters \subseteq Hubs \X (Mails \cup Reads \cup Regs)
    /\ posted \subseteq Hubs \X (Mails \cup Reads \cup Regs)
    /\ \A h \in Hubs : \A m \in mail[h] : conv[h][ConvOf(m)] # 0
    /\ \A h \in Hubs, t \in Tids : KeyFor(h, t) \in {r \in Regs : AuthorOf[r] = t} \cup {NoKey}

Newest(es) == Max({0} \cup {SentAt[e] : e \in es})

\* At a hub that got every DM of a conversation by gossip, before any client
\* submits it there, the inbox order is right
\* once its handlers are through: last_message_at is the time of the newest
\* message stored, in whatever order pushes and repeated offers come
\* (sync.ts:361-376).  The hub of a sender keeps no such promise, its route
\* sets the time back (dms.ts:193-205), even for a request that then fails
\* because the message came by gossip meanwhile.
RelayInboxExact ==
    \A h \in Hubs, c \in Pairs :
        (/\ errors = 0
         /\ \A m \in mail[h] : ConvOf(m) = c => h \notin DmHomes[m] \/ <<h, m>> \in letters
         /\ \A j \in desk : ~(j.hub = h /\ ConvOf(j.env) = c)) =>
        \A t \in c : LET stored == {m \in mail[h] : ConvOf(m) = c} IN
            /\ stored # {} => \E row \in ConversationList(h, t) : row.id = c
            /\ \A row \in ConversationList(h, t) : row.id = c => row.last = Newest(stored)

\* A receipt is the newest of those the tid has submitted to the hub, however
\* late or out of order the requests come, so a late one never turns read
\* messages into unread ones, in the receipts of a conversation or in the badge
\* of a group (dms.ts:880-891).
ReceiptIsNewest ==
    \A h \in Hubs, t \in Tids, c \in Conversations :
        LET newest == Newest({r \in Reads : AuthorOf[r] = t /\ ReadIn[r] = c /\ <<h, r>> \in posted}) IN
        /\ {x.at : x \in {y \in ReadsIn(h, c) : y.tid = t}} = {newest} \ {0}
        /\ \A row \in GroupList(h, t) : row.id = c =>
             row.unread = Cardinality({m \in texts[h] : /\ GroupOf[m] = c /\ SignerOf[m] # t
                                                        /\ SentAt[m] > newest})

\* The messages a client collects page by page, each page before the oldest
\* timestamp of the last one.
Collected(h, t, c, n) ==
    LET from[b \in 0 .. Newest(mail[h]) + 1] ==
            LET page == MailPage(h, t, c, b, n) IN
            IF page = {} THEN {} ELSE page \cup from[Min({SentAt[m] : m \in page})]
    IN  from[Newest(mail[h]) + 1]

\* Paging back through a conversation misses only messages signed in the same
\* second as one it returned (dms.ts:313-336), and every unread DM is among
\* them or tied with one.  A group's page has only what was sealed for its reader.
PagesMissOnlyTies ==
    /\ \A h \in Hubs, c \in Pairs, n \in 1 .. 2 : \A t \in c :
         LET seen == {SentAt[o] : o \in Collected(h, t, c, n)} IN
         \A m \in {x \in mail[h] : ConvOf(x) = c} \cup Unread(h, t, c) : SentAt[m] \in seen
    /\ \A h \in Hubs, t \in Tids, g \in Groups :
         \A m \in GroupPage(h, t, g) : t \in Named[m]
=============================================================================
