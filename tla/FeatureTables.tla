---------------------------- MODULE FeatureTables ----------------------------
(***************************************************************************)
(* POST /v1/submit on one hub, for all 22 message types: validation, the   *)
(* look at the row a vote, RSVP or pledge is about, the one statement of   *)
(* its type, then envelope, push and answer.  Requests run concurrently    *)
(* and stop between any two queries; clients send again; a peer hub hands  *)
(* back what was pushed, and what it was given itself.                     *)
(*                                                                         *)
(* db is the database, one set of rows per table.  A message is a record:  *)
(* on is what its body is about (target, parent, id or field), to its      *)
(* mentions or recipient, val a kind, status, option text or value, num an *)
(* amount or index, until an expiry (0: none), chan its channel_id.        *)
(***************************************************************************)
EXTENDS HubClock, FiniteSets

CONSTANTS
    Tales,      \* what clients do: records, see FeatureAssumption
    MaxAge,     \* MESSAGE_MAX_AGE_MS
    StoryTtl,   \* STORY_EXPIRY_HOURS
    MaxOpen     \* requests at once

\* an empty string, a NULL column; of an edge: no operation
Blank == ""

Messages == UNION {tale.sent : tale \in Tales}
Column(field) == {m[field] : m \in Messages}

ASSUME FeatureAssumption ==
    /\ \A tale \in Tales :
         /\ tale.again \in Nat /\ tale.faults \in Nat /\ tale.abroad \subseteq tale.sent
         /\ IsFiniteSet(tale.sent)
    /\ \A m, n \in Messages : m.hash = n.hash => m = n
    /\ Blank \notin Column("hash")
    \* 0 stands for no user, as NULL does
    /\ Messages \subseteq
         [hash : Column("hash"), type : Column("type"), tid : Nat \ {0}, at : Nat,
          on : Column("on"), to : SUBSET Nat, val : Column("val"), num : Int, until : Int,
          chan : Column("chan"), form : {"json", "proto"}]
    /\ {MaxAge, StoryTtl, MaxOpen} \subseteq Nat \ {0}

VARIABLES
    db,        \* db[table]: a set of rows
    open,      \* requests between two queries
    left,      \* left[m]: how often a client still sends m
    abroad,    \* messages clients gave to another hub as well
    pushed,    \* messages pushed to peers
    accepted,  \* messages answered with their hash
    again,     \* retries left
    faults     \* failures left

featureVars == <<db, open, left, abroad, pushed, accepted, again, faults>>
unasked == <<left, abroad, again, now>>

Tables == {"messages", "user_data", "channels", "channel_memberships", "polls", "poll_votes",
           "events", "event_rsvps", "tasks", "crowdfunds", "crowdfund_pledges", "tips",
           "bookmarks", "stories", "story_views", "signed_envelopes", "social_graph"}

FeatureInit(tale) ==
    /\ db = [table \in Tables |->
               IF table = "channels" THEN {[id |-> "general", by |-> 0, kind |-> "1"]} ELSE {}]
    /\ open = {} /\ pushed = {} /\ accepted = {}
    /\ left = [m \in tale.sent |-> 1]
    /\ abroad = tale.abroad /\ again = tale.again /\ faults = tale.faults

----------------------------------------------------------------------------
(* Validation *)

\* decodeProtoToWire: the proto tweet has no post_kind, a missing channel
\* kind is 0, and a body the decoder does not know leaves the request's own.
Wire(m) ==
    IF m.form = "proto" /\ m.type = "TWEET_ADD" THEN [m EXCEPT !.val = Blank]
    ELSE IF m.form = "proto" /\ m.type = "CHANNEL_ADD" /\ m.val = Blank THEN [m EXCEPT !.val = "0"]
    ELSE m

Kind(m) == IF m.val = Blank THEN "3" ELSE m.val

\* The body checks that need no query.
WellFormed(m) ==
    /\ m.type = "TWEET_ADD" => m.chan # Blank /\ m.val \in {Blank, "photo", "reel"}
    /\ m.type = "CHANNEL_ADD" => m.on # "general" /\ Kind(m) \in {"2", "3"}
    /\ m.type = "POLL_VOTE" => m.num >= 0
    /\ m.type = "EVENT_RSVP" => m.val \in {"yes", "no", "maybe"}
    /\ m.type \in {"CROWDFUND_PLEDGE", "TIP_ADD"} => m.num > 0
    /\ m.type = "TIP_ADD" => m.tid \notin m.to
    /\ m.type # "TIP_ADD" => m.on # Blank  \/ m.type \in {"TWEET_ADD", "STORY_ADD"}

InWindow(m) == m.at >= now - MaxAge

Duplicate(m) == \E row \in db.messages : row.hash = m.hash

Looked == {"POLL_VOTE", "EVENT_RSVP", "CROWDFUND_PLEDGE"}

Submit(m) ==
    /\ m \in DOMAIN left /\ m.at <= now /\ Cardinality(open) < MaxOpen
    /\ \/ left[m] > 0 /\ left' = [left EXCEPT ![m] = 0] /\ UNCHANGED again
       \/ left[m] = 0 /\ again > 0 /\ again' = again - 1 /\ UNCHANGED left
    /\ open' = IF InWindow(m) /\ ~Duplicate(m) /\ WellFormed(Wire(m))
               THEN open \cup {[msg |-> Wire(m), sent |-> m, copy |-> again, looked |-> 0,
                                step |-> IF m.type \in Looked THEN "look" ELSE "write"]}
               ELSE open
    /\ UNCHANGED <<db, abroad, pushed, accepted, faults, now>>

Expired(poll) == poll.expires # 0 /\ poll.expires < now

\* The SELECT before a vote, an RSVP or a pledge.
Found(m) ==
    \/ m.type = "POLL_VOTE" /\ \E p \in db.polls : p.id = m.on /\ m.num < p.options /\ ~Expired(p)
    \/ m.type = "EVENT_RSVP" /\ \E e \in db.events : e.id = m.on
    \/ m.type = "CROWDFUND_PLEDGE" /\ \E c \in db.crowdfunds : c.id = m.on

Look(r) ==
    /\ r.step = "look"
    /\ open' = (open \ {r}) \cup
               (IF Found(r.msg) THEN {[r EXCEPT !.step = "write", !.looked = now]} ELSE {})
    /\ UNCHANGED <<db, pushed, accepted, faults, unasked>>

----------------------------------------------------------------------------
(* Statements *)

Same(row, other, keys) == \A k \in keys : row[k] = other[k]
\* ON CONFLICT DO NOTHING, and ON CONFLICT DO UPDATE of every other column
InsertNew(rows, keys, row) ==
    IF \E old \in rows : Same(old, row, keys) THEN rows ELSE rows \cup {row}
Upsert(rows, keys, row) == {old \in rows : ~Same(old, row, keys)} \cup {row}

Writing(r, type) == r.step = "write" /\ r.msg.type = type
Store(r, table, rows) ==
    /\ db' = [db EXCEPT ![table] = rows]
    /\ open' = (open \ {r}) \cup {[r EXCEPT !.step = "stored"]}
    /\ UNCHANGED <<pushed, accepted, faults, unasked>>
Reject(r) == open' = open \ {r} /\ UNCHANGED <<db, pushed, accepted, faults, unasked>>

MessageRow(m, text, parent) ==
    [hash |-> m.hash, tid |-> m.tid, type |-> m.type, text |-> text, parent |-> parent,
     chan |-> m.chan, to |-> m.to, at |-> m.at,
     kind |-> IF m.type = "TWEET_ADD" THEN m.val ELSE Blank]

TweetAdd(r) ==
    /\ Writing(r, "TWEET_ADD")
    /\ Store(r, "messages", InsertNew(db.messages, {"hash"}, MessageRow(r.msg, "said", r.msg.on)))

\* Mutant: the target goes to parent_hash, where reactions keep theirs.
TweetRemoveByParent(r) ==
    /\ Writing(r, "TWEET_REMOVE")
    /\ Store(r, "messages", InsertNew(db.messages, {"hash"}, MessageRow(r.msg, Blank, r.msg.on)))

TweetRemove(r) ==
    /\ Writing(r, "TWEET_REMOVE")
    /\ Store(r, "messages", InsertNew(db.messages, {"hash"}, MessageRow(r.msg, r.msg.on, Blank)))

ReactionAdd(r) ==
    /\ Writing(r, "REACTION_ADD")
    /\ Store(r, "messages", InsertNew(db.messages, {"hash"}, MessageRow(r.msg, r.msg.val, r.msg.on)))

ReactionRemove(r) ==
    /\ Writing(r, "REACTION_REMOVE")
    /\ Store(r, "messages", InsertNew(db.messages, {"hash"}, MessageRow(r.msg, Blank, r.msg.on)))

\* Mutant: one row per field, overwritten as messages arrive.
UserDataAddUpsert(r) ==
    /\ Writing(r, "USER_DATA_ADD")
    /\ Store(r, "user_data", Upsert(db.user_data, {"tid", "field"},
         [hash |-> r.msg.hash, tid |-> r.msg.tid, field |-> r.msg.on, value |-> r.msg.val, at |-> r.msg.at]))

UserDataAdd(r) ==
    /\ Writing(r, "USER_DATA_ADD")
    /\ Store(r, "user_data", InsertNew(db.user_data, {"hash"},
         [hash |-> r.msg.hash, tid |-> r.msg.tid, field |-> r.msg.on, value |-> r.msg.val, at |-> r.msg.at]))

ChannelAdd(r) ==
    /\ Writing(r, "CHANNEL_ADD")
    /\ Store(r, "channels", InsertNew(db.channels, {"id"},
         [id |-> r.msg.on, by |-> r.msg.tid, kind |-> Kind(r.msg)]))

ChannelJoin(r) ==
    /\ Writing(r, "CHANNEL_JOIN")
    /\ Store(r, "channel_memberships", Upsert(db.channel_memberships, {"channel", "tid"},
         [channel |-> r.msg.on, tid |-> r.msg.tid, joined |-> r.msg.at, left |-> 0]))

ChannelLeave(r) ==
    /\ Writing(r, "CHANNEL_LEAVE")
    /\ Store(r, "channel_memberships",
         {IF row.channel = r.msg.on /\ row.tid = r.msg.tid THEN [row EXCEPT !.left = r.msg.at] ELSE row
            : row \in db.channel_memberships})

\* Mutant: announcing a poll again moves its expiry.
PollAddUpsert(r) ==
    /\ Writing(r, "POLL_ADD")
    /\ Store(r, "polls", Upsert(db.polls, {"id"},
         [id |-> r.msg.on, creator |-> r.msg.tid, options |-> r.msg.num, expires |-> r.msg.until]))

PollAdd(r) ==
    /\ Writing(r, "POLL_ADD")
    /\ Store(r, "polls", InsertNew(db.polls, {"id"},
         [id |-> r.msg.on, creator |-> r.msg.tid, options |-> r.msg.num, expires |-> r.msg.until]))

PollVote(r) ==
    /\ Writing(r, "POLL_VOTE")
    /\ Store(r, "poll_votes", Upsert(db.poll_votes, {"poll", "tid"},
         [hash |-> r.msg.hash, poll |-> r.msg.on, tid |-> r.msg.tid, option |-> r.msg.num, at |-> r.msg.at]))

EventAdd(r) ==
    /\ Writing(r, "EVENT_ADD")
    /\ Store(r, "events", InsertNew(db.events, {"id"},
         [id |-> r.msg.on, creator |-> r.msg.tid, starts |-> r.msg.until]))

EventRsvp(r) ==
    /\ Writing(r, "EVENT_RSVP")
    /\ Store(r, "event_rsvps", Upsert(db.event_rsvps, {"event", "tid"},
         [hash |-> r.msg.hash, event |-> r.msg.on, tid |-> r.msg.tid, status |-> r.msg.val, at |-> r.msg.at]))

TaskAdd(r) ==
    /\ Writing(r, "TASK_ADD")
    /\ Store(r, "tasks", InsertNew(db.tasks, {"id"},
         [id |-> r.msg.on, creator |-> r.msg.tid, status |-> "open", claimer |-> 0, claimedAt |-> 0,
          completer |-> 0, completedAt |-> 0]))

\* An UPDATE: rows become what changed makes of them; none answers 400.
Update(r, rows, changed) ==
    IF rows = {} THEN Reject(r)
    ELSE Store(r, "tasks", (db.tasks \ rows) \cup {changed[row] : row \in rows})

Claimed(r) ==
    [row \in db.tasks |-> [row EXCEPT !.status = "claimed", !.claimer = r.msg.tid,
                                      !.claimedAt = r.msg.at]]

Completed(r) ==
    [row \in db.tasks |-> [row EXCEPT !.status = "completed", !.completer = r.msg.tid,
                                      !.completedAt = r.msg.at]]

\* Mutant: a claimed task can be claimed again.
TaskClaimAny(r) ==
    /\ Writing(r, "TASK_CLAIM")
    /\ Update(r, {row \in db.tasks : row.id = r.msg.on /\ row.status # "completed"}, Claimed(r))

TaskClaim(r) ==
    /\ Writing(r, "TASK_CLAIM")
    /\ Update(r, {row \in db.tasks : row.id = r.msg.on /\ row.status = "open"}, Claimed(r))

TaskComplete(r) ==
    /\ Writing(r, "TASK_COMPLETE")
    /\ Update(r, {row \in db.tasks : row.id = r.msg.on /\ row.status = "claimed"
                                     /\ r.msg.tid \in {row.claimer, row.creator}}, Completed(r))

CrowdfundAdd(r) ==
    /\ Writing(r, "CROWDFUND_ADD")
    /\ Store(r, "crowdfunds", InsertNew(db.crowdfunds, {"id"}, [id |-> r.msg.on, creator |-> r.msg.tid]))

\* Mutant: one pledge per pledger, the newest.
CrowdfundPledgePerPledger(r) ==
    /\ Writing(r, "CROWDFUND_PLEDGE")
    /\ Store(r, "crowdfund_pledges", Upsert(db.crowdfund_pledges, {"crowdfund", "tid"},
         [hash |-> r.msg.hash, crowdfund |-> r.msg.on, tid |-> r.msg.tid, amount |-> r.msg.num, at |-> r.msg.at]))

CrowdfundPledge(r) ==
    /\ Writing(r, "CROWDFUND_PLEDGE")
    /\ Store(r, "crowdfund_pledges", InsertNew(db.crowdfund_pledges, {"hash"},
         [hash |-> r.msg.hash, crowdfund |-> r.msg.on, tid |-> r.msg.tid, amount |-> r.msg.num, at |-> r.msg.at]))

TipAdd(r) ==
    /\ Writing(r, "TIP_ADD")
    /\ Store(r, "tips", InsertNew(db.tips, {"hash"},
         [hash |-> r.msg.hash, tid |-> r.msg.tid, to |-> r.msg.to, target |-> r.msg.on,
          amount |-> r.msg.num, at |-> r.msg.at]))

BookmarkAdd(r) ==
    /\ Writing(r, "BOOKMARK_ADD")
    /\ Store(r, "bookmarks", Upsert(db.bookmarks, {"tid", "target"},
         [tid |-> r.msg.tid, target |-> r.msg.on, at |-> r.msg.at]))

BookmarkRemove(r) ==
    /\ Writing(r, "BOOKMARK_REMOVE")
    /\ Store(r, "bookmarks", {row \in db.bookmarks : row.tid # r.msg.tid \/ row.target # r.msg.on})

StoryAdd(r) ==
    /\ Writing(r, "STORY_ADD")
    /\ Store(r, "stories", InsertNew(db.stories, {"hash"},
         [hash |-> r.msg.hash, tid |-> r.msg.tid, at |-> r.msg.at, expires |-> r.msg.at + StoryTtl]))

\* A view of a story that is not there breaks the foreign key: 500.
StoryView(r) ==
    /\ Writing(r, "STORY_VIEW")
    /\ IF \E s \in db.stories : s.hash = r.msg.on
       THEN Store(r, "story_views", InsertNew(db.story_views, {"story", "tid"},
              [story |-> r.msg.on, tid |-> r.msg.tid, at |-> r.msg.at]))
       ELSE Reject(r)

Write(r) ==
    \/ TweetAdd(r) \/ TweetRemove(r) \/ ReactionAdd(r) \/ ReactionRemove(r) \/ UserDataAdd(r)
    \/ ChannelAdd(r) \/ ChannelJoin(r) \/ ChannelLeave(r)
    \/ PollAdd(r) \/ PollVote(r) \/ EventAdd(r) \/ EventRsvp(r)
    \/ TaskAdd(r) \/ TaskClaim(r) \/ TaskComplete(r)
    \/ CrowdfundAdd(r) \/ CrowdfundPledge(r) \/ TipAdd(r)
    \/ BookmarkAdd(r) \/ BookmarkRemove(r) \/ StoryAdd(r) \/ StoryView(r)

\* Mutant: the push and the answer do not wait for the signed bytes.
FinishEarly(r) ==
    /\ r.step = "stored"
    /\ open' = open \ {r}
    /\ pushed' = pushed \cup {r.msg} /\ accepted' = accepted \cup {r.msg}
    /\ UNCHANGED <<db, faults, unasked>>

\* The signed bytes, the push and the answer.
Finish(r) ==
    /\ r.step = "stored"
    /\ db' = [db EXCEPT !.signed_envelopes = @ \cup {r.msg.hash}]
    /\ open' = open \ {r}
    /\ pushed' = pushed \cup {r.msg} /\ accepted' = accepted \cup {r.msg}
    /\ UNCHANGED <<faults, unasked>>

\* A query fails, or the answer is lost.
Fails(r) ==
    /\ faults > 0 /\ faults' = faults - 1
    /\ open' = open \ {r}
    /\ UNCHANGED <<db, pushed, accepted, unasked>>

----------------------------------------------------------------------------
(* Beside the requests *)

MessageTypes == {"TWEET_ADD", "TWEET_REMOVE", "REACTION_ADD", "REACTION_REMOVE"}

\* What a peer's copy carries: a push has text and parent_hash as the body
\* names them, a copy asked for has the columns of the peer's row; neither has
\* post_kind.
Projected(m, asked) ==
    LET copy == [m EXCEPT !.val = Blank]
    IN  IF m.type = "TWEET_ADD" THEN MessageRow(copy, "said", m.on)
        ELSE IF ~asked \/ m.type \notin MessageTypes THEN MessageRow(copy, Blank, Blank)
        ELSE IF m.type = "TWEET_REMOVE" THEN MessageRow(copy, m.on, Blank)
        ELSE MessageRow(copy, m.val, m.on)

\* A peer ships a message that the messages table has not got.  Of its own
\* submissions a hub takes back the types that have tables of their own.
StoreFromPeer(m) ==
    /\ m \in pushed \cup abroad /\ m.at <= now /\ InWindow(m) /\ ~Duplicate(m)
    /\ \E asked \in IF m \in abroad THEN BOOLEAN ELSE {FALSE} :
         db' = [db EXCEPT !.messages = @ \cup {Projected(m, asked)},
                          !.signed_envelopes = @ \cup {m.hash}]
    /\ UNCHANGED <<open, left, abroad, pushed, accepted, again, faults, now>>

\* Mutant: stories go before they expire, their views stay.
RunStoriesCleanupEarly ==
    LET dead == {s \in db.stories : s.at < now} IN
    /\ dead # {}
    /\ db' = [db EXCEPT !.stories = @ \ dead]
    /\ UNCHANGED <<open, left, abroad, pushed, accepted, again, faults, now>>

RunStoriesCleanup ==
    LET dead == {s \in db.stories : s.expires < now} IN
    /\ dead # {}
    /\ db' = [db EXCEPT !.stories = @ \ dead,
                        !.story_views = {v \in @ : \A s \in dead : s.hash # v.story}]
    /\ UNCHANGED <<open, left, abroad, pushed, accepted, again, faults, now>>

PrimaryKey == [table \in Tables |->
    CASE table \in {"messages", "user_data", "crowdfund_pledges", "tips", "stories"} -> {"hash"}
      [] table \in {"channels", "polls", "events", "tasks", "crowdfunds"} -> {"id"}
      [] table = "channel_memberships" -> {"channel", "tid"}
      [] table = "poll_votes" -> {"poll", "tid"}
      [] table = "event_rsvps" -> {"event", "tid"}
      [] table = "bookmarks" -> {"tid", "target"}
      [] table = "story_views" -> {"story", "tid"}
      [] OTHER -> {}]

FeatureTypeOK ==
    /\ DOMAIN db = Tables
    /\ \A table \in Tables : PrimaryKey[table] # {} =>
         \A row, other \in db[table] : Same(row, other, PrimaryKey[table]) => row = other
    /\ accepted \subseteq pushed
    /\ {m.hash : m \in accepted} \subseteq db.signed_envelopes
    /\ \A r \in open : r.sent \in DOMAIN left /\ r.step \in {"look", "write", "stored"}

FeatureStep ==
    \/ \E m \in DOMAIN left : Submit(m)
    \/ \E m \in pushed \cup abroad : StoreFromPeer(m)
    \/ \E r \in open : Look(r) \/ Write(r) \/ Finish(r) \/ Fails(r)
    \/ RunStoriesCleanup
=============================================================================
