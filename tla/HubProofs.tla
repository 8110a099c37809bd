------------------------------- MODULE HubProofs -------------------------------
(***************************************************************************)
(* One hub, for any number of users, messages, seeds, files and failures.  *)
(*                                                                         *)
(* Every step of a request is one of four kinds (StepKinds): it makes its  *)
(* statement, takes a copy from a peer, reaps stories, or leaves the       *)
(* tables of the features alone (Beside).  Landed are the messages whose   *)
(* statement has been made; each promise about accepted messages is        *)
(* inductive over Landed, and each part then looks only at the statements  *)
(* on its own tables: tasks, votes, stories, tweets, profiles.  Types and  *)
(* primary keys (HubIsTyped) put the parts together.                       *)
(***************************************************************************)
EXTENDS Hub, AppKeysProofs, FiniteSetTheorems

----------------------------------------------------------------------------
(* What a write does *)

\* A write stores rows in the one table of its type, or is rejected.
Stores(r, type, table) == Writing(r, type) /\ (Reject(r) \/ \E rows : Store(r, table, rows))

LEMMA TweetAddStores == \A r : TweetAdd(r) => Stores(r, "TWEET_ADD", "messages")
BY Zenon DEF Stores, TweetAdd
LEMMA TweetRemoveStores == \A r : TweetRemove(r) => Stores(r, "TWEET_REMOVE", "messages")
BY Zenon DEF Stores, TweetRemove
LEMMA ReactionAddStores == \A r : ReactionAdd(r) => Stores(r, "REACTION_ADD", "messages")
BY Zenon DEF Stores, ReactionAdd
LEMMA ReactionRemoveStores == \A r : ReactionRemove(r) => Stores(r, "REACTION_REMOVE", "messages")
BY Zenon DEF Stores, ReactionRemove
LEMMA UserDataAddStores == \A r : UserDataAdd(r) => Stores(r, "USER_DATA_ADD", "user_data")
BY Zenon DEF Stores, UserDataAdd
LEMMA ChannelAddStores == \A r : ChannelAdd(r) => Stores(r, "CHANNEL_ADD", "channels")
BY Zenon DEF Stores, ChannelAdd
LEMMA ChannelJoinStores == \A r : ChannelJoin(r) => Stores(r, "CHANNEL_JOIN", "channel_memberships")
BY Zenon DEF Stores, ChannelJoin
LEMMA ChannelLeaveStores == \A r : ChannelLeave(r) => Stores(r, "CHANNEL_LEAVE", "channel_memberships")
BY Zenon DEF Stores, ChannelLeave
LEMMA PollAddStores == \A r : PollAdd(r) => Stores(r, "POLL_ADD", "polls")
BY Zenon DEF Stores, PollAdd
LEMMA PollVoteStores == \A r : PollVote(r) => Stores(r, "POLL_VOTE", "poll_votes")
BY Zenon DEF Stores, PollVote
LEMMA EventAddStores == \A r : EventAdd(r) => Stores(r, "EVENT_ADD", "events")
BY Zenon DEF Stores, EventAdd
LEMMA EventRsvpStores == \A r : EventRsvp(r) => Stores(r, "EVENT_RSVP", "event_rsvps")
BY Zenon DEF Stores, EventRsvp
LEMMA TaskAddStores == \A r : TaskAdd(r) => Stores(r, "TASK_ADD", "tasks")
BY Zenon DEF Stores, TaskAdd
LEMMA TaskClaimStores == \A r : TaskClaim(r) => Stores(r, "TASK_CLAIM", "tasks")
BY Zenon DEF Stores, TaskClaim, Update
LEMMA TaskCompleteStores == \A r : TaskComplete(r) => Stores(r, "TASK_COMPLETE", "tasks")
BY Zenon DEF Stores, TaskComplete, Update
LEMMA CrowdfundAddStores == \A r : CrowdfundAdd(r) => Stores(r, "CROWDFUND_ADD", "crowdfunds")
BY Zenon DEF Stores, CrowdfundAdd
LEMMA CrowdfundPledgeStores == \A r : CrowdfundPledge(r) => Stores(r, "CROWDFUND_PLEDGE", "crowdfund_pledges")
BY Zenon DEF Stores, CrowdfundPledge
LEMMA TipAddStores == \A r : TipAdd(r) => Stores(r, "TIP_ADD", "tips")
BY Zenon DEF Stores, TipAdd
LEMMA BookmarkAddStores == \A r : BookmarkAdd(r) => Stores(r, "BOOKMARK_ADD", "bookmarks")
BY Zenon DEF Stores, BookmarkAdd
LEMMA BookmarkRemoveStores == \A r : BookmarkRemove(r) => Stores(r, "BOOKMARK_REMOVE", "bookmarks")
BY Zenon DEF Stores, BookmarkRemove
LEMMA StoryAddStores == \A r : StoryAdd(r) => Stores(r, "STORY_ADD", "stories")
BY Zenon DEF Stores, StoryAdd
LEMMA StoryViewStores == \A r : StoryView(r) => Stores(r, "STORY_VIEW", "story_views")
BY Zenon DEF Stores, StoryView

\* A write of none of the types stores in none of the tables.
Elsewhere(r, types, tables) ==
    r.msg.type \notin types /\ \E table \in Tables \ tables : Stores(r, r.msg.type, table)

LEMMA TaskWrites ==
    ASSUME NEW r, Write(r)
    PROVE  \/ TaskAdd(r) \/ TaskClaim(r) \/ TaskComplete(r)
           \/ Elsewhere(r, {"TASK_CLAIM", "TASK_COMPLETE"}, {"tasks", "signed_envelopes", "social_graph"})
BY TweetAddStores, TweetRemoveStores, ReactionAddStores, ReactionRemoveStores, UserDataAddStores,
   ChannelAddStores, ChannelJoinStores, ChannelLeaveStores, PollAddStores, PollVoteStores,
   EventAddStores, EventRsvpStores, CrowdfundAddStores, CrowdfundPledgeStores, TipAddStores,
   BookmarkAddStores, BookmarkRemoveStores, StoryAddStores, StoryViewStores
   DEF Write, Elsewhere, Stores, Writing, Tables

----------------------------------------------------------------------------
(* The requests, and what a step leaves alone *)

Body ==
    [hash : Column("hash"), type : Column("type"), tid : Nat \ {0}, at : Nat,
     on : Column("on"), to : SUBSET Nat, val : Column("val") \cup {Blank, "0"}, num : Int,
     until : Int, chan : Column("chan"), form : {"json", "proto"}]

Request ==
    [msg : Body, sent : Messages, copy : Nat, looked : Nat, step : {"look", "write", "stored"}]

\* The requests under way, and what was pushed, come from what clients send.
Requests ==
    /\ DOMAIN db = Tables
    /\ now \in Nat \ {0} /\ again \in Nat
    /\ DOMAIN left \subseteq Messages /\ abroad \subseteq DOMAIN left /\ IsFiniteSet(DOMAIN left)
    /\ open \subseteq Request
    /\ \A r \in open : r.sent \in DOMAIN left /\ r.msg = Wire(r.sent)
    /\ accepted \subseteq pushed
    /\ \A m \in pushed : \E sent \in DOMAIN left : m = Wire(sent)

\* The messages whose statement has been made: answered, or about to be.
Landed == accepted \cup {r.msg : r \in {x \in open : x.step = "stored"}}

\* A step that makes no statement and takes nothing from a peer.
Beside ==
    /\ Landed' \subseteq Landed /\ pushed' \subseteq pushed \cup Landed
    /\ \A table \in Tables \ {"signed_envelopes", "social_graph"} : db'[table] = db[table]
    /\ abroad' = abroad /\ DOMAIN left' = DOMAIN left
    /\ now' \in Nat /\ now <= now'
    /\ \A r \in open' : \/ r \in open \/ r.step # "write" \/ r.msg.type \notin Looked
                        \/ Found(r.msg) /\ r.looked = now

LEMMA MessagesTyped == Messages \subseteq Body
BY FeatureAssumption DEF Body

LEMMA WireKeeps ==
    ASSUME NEW m \in Body
    PROVE  /\ Wire(m) \in Body
           /\ Wire(m).hash = m.hash /\ Wire(m).type = m.type /\ Wire(m).tid = m.tid
           /\ Wire(m).at = m.at /\ Wire(m).on = m.on /\ Wire(m).num = m.num
           /\ Wire(m).until = m.until /\ Wire(m).to = m.to /\ Wire(m).chan = m.chan
<1>1. ASSUME NEW val \in {Blank, "0"}
      PROVE  LET wire == [m EXCEPT !.val = val] IN
             /\ wire \in Body /\ wire.hash = m.hash /\ wire.type = m.type /\ wire.tid = m.tid
             /\ wire.at = m.at /\ wire.on = m.on /\ wire.num = m.num /\ wire.until = m.until
             /\ wire.to = m.to /\ wire.chan = m.chan
  BY DEF Body
<1>2. Wire(m) = m \/ \E val \in {Blank, "0"} : Wire(m) = [m EXCEPT !.val = val]
  BY DEF Wire
<1>3. QED
  BY <1>1, <1>2

LEMMA StoredRequest ==
    ASSUME NEW r \in Request
    PROVE  /\ [r EXCEPT !.step = "stored"] \in Request
           /\ [r EXCEPT !.step = "stored"].msg = r.msg
           /\ [r EXCEPT !.step = "stored"].sent = r.sent
           /\ [r EXCEPT !.step = "stored"].step = "stored"
BY DEF Request

LEMMA StoreRequests ==
    ASSUME Requests, NEW r \in open, NEW table \in Tables, NEW rows, Store(r, table, rows)
    PROVE  /\ Requests'
           /\ Landed' \subseteq Landed \cup {r.msg} /\ db'[table] = rows
           /\ \A other \in Tables \ {table} : db'[other] = db[other]
           /\ UNCHANGED <<pushed, abroad, left, now>>
           /\ \A q \in open' : q \in open \/ q.step = "stored"
<1>1. UNCHANGED <<pushed, accepted, left, abroad, again, now>>
  BY DEF Store, unasked
<1>2. \A q \in open' : q \in open \/ q = [r EXCEPT !.step = "stored"]
  BY DEF Store
<1>3. DOMAIN db' = Tables /\ db'[table] = rows /\ \A other \in Tables \ {table} : db'[other] = db[other]
  BY DEF Store, Requests
<1>4. r \in Request /\ r.sent \in DOMAIN left /\ r.msg = Wire(r.sent)
  BY DEF Requests
<1>5. Requests'
  BY <1>1, <1>2, <1>3, <1>4, StoredRequest DEF Requests
<1>6. Landed' \subseteq Landed \cup {r.msg}
  BY <1>1, <1>2, <1>4, StoredRequest DEF Landed
<1>7. QED
  BY <1>1, <1>2, <1>3, <1>4, <1>5, <1>6, StoredRequest

LEMMA RejectBeside ==
    ASSUME Requests, NEW r \in open, Reject(r)
    PROVE  Requests' /\ Beside
<1>1. open' \subseteq open /\ UNCHANGED <<db, pushed, accepted, left, abroad, again, now>>
  BY DEF Reject, unasked
<1>2. Requests'
  BY <1>1 DEF Requests
<1>3. QED
  BY <1>1, <1>2 DEF Beside, Landed, Requests

LEMMA WriteStores ==
    ASSUME NEW r, Write(r)
    PROVE  \E table \in Tables \ {"signed_envelopes", "social_graph"} : Stores(r, r.msg.type, table)
BY TweetAddStores, TweetRemoveStores, ReactionAddStores, ReactionRemoveStores, UserDataAddStores,
   ChannelAddStores, ChannelJoinStores, ChannelLeaveStores, PollAddStores, PollVoteStores,
   EventAddStores, EventRsvpStores, TaskAddStores, TaskClaimStores, TaskCompleteStores,
   CrowdfundAddStores, CrowdfundPledgeStores, TipAddStores, BookmarkAddStores,
   BookmarkRemoveStores, StoryAddStores, StoryViewStores
   DEF Write, Stores, Writing, Tables

LEMMA WriteRequests ==
    ASSUME Requests, NEW r \in open, Write(r)
    PROVE  Requests'
BY WriteStores, StoreRequests, RejectBeside DEF Stores

LEMMA SubmitBeside ==
    ASSUME Requests, NEW m \in DOMAIN left, Submit(m)
    PROVE  Requests' /\ Beside
<1>1. UNCHANGED <<db, abroad, pushed, accepted, now>> /\ DOMAIN left' = DOMAIN left /\ again' \in Nat
  BY DEF Submit, Requests
<1>2. m \in Messages /\ Wire(m) \in Body /\ now \in Nat /\ again \in Nat
  BY MessagesTyped, WireKeeps DEF Requests
<1> DEFINE q == [msg |-> Wire(m), sent |-> m, copy |-> again, looked |-> 0,
                 step |-> IF m.type \in Looked THEN "look" ELSE "write"]
<1>3. q \in Request /\ q.sent = m /\ q.msg = Wire(m) /\ q.step # "stored"
  BY <1>2 DEF Request
<1>4. q.step = "write" => q.msg.type \notin Looked
  BY <1>2, WireKeeps, MessagesTyped
<1> HIDE DEF q
<1>5. open' = open \/ open' = open \cup {q}
  BY DEF Submit, q
<1>6. Requests'
  BY <1>1, <1>3, <1>5 DEF Requests
<1>7. Landed' = Landed
  BY <1>1, <1>3, <1>5 DEF Landed
<1>8. QED
  BY <1>1, <1>2, <1>4, <1>5, <1>6, <1>7 DEF Beside

LEMMA LookBeside ==
    ASSUME Requests, NEW r \in open, Look(r)
    PROVE  Requests' /\ Beside
<1>1. UNCHANGED <<db, pushed, accepted, left, abroad, again, now>>
  BY DEF Look, unasked
<1> DEFINE q == [r EXCEPT !.step = "write", !.looked = now]
<1>2. q \in Request /\ q.sent = r.sent /\ q.msg = r.msg /\ q.step = "write" /\ q.looked = now
  <2>1. r \in Request /\ now \in Nat
    BY DEF Requests
  <2>2. QED
    BY <2>1 DEF Request
<1> HIDE DEF q
<1>3. open' = open \ {r} \/ (Found(r.msg) /\ open' = (open \ {r}) \cup {q})
  BY DEF Look, q
<1>4. Requests'
  BY <1>1, <1>2, <1>3 DEF Requests
<1>5. Landed' \subseteq Landed
  BY <1>1, <1>2, <1>3 DEF Landed
<1>6. QED
  BY <1>1, <1>2, <1>3, <1>4, <1>5 DEF Beside, Requests

LEMMA FinishBeside ==
    ASSUME Requests, NEW r \in open, Finish(r)
    PROVE  Requests' /\ Beside
<1>1. /\ r.step = "stored" /\ open' = open \ {r} /\ pushed' = pushed \cup {r.msg}
      /\ accepted' = accepted \cup {r.msg} /\ UNCHANGED <<left, abroad, again, now>>
  BY DEF Finish, unasked
<1>2. DOMAIN db' = Tables /\ \A table \in Tables \ {"signed_envelopes"} : db'[table] = db[table]
  BY DEF Finish, Requests
<1>3. Requests'
  BY <1>1, <1>2 DEF Requests
<1>4. QED
  BY <1>1, <1>2, <1>3 DEF Beside, Landed, Requests

LEMMA FailsBeside ==
    ASSUME Requests, NEW r \in open, Fails(r)
    PROVE  Requests' /\ Beside
<1>1. open' \subseteq open /\ UNCHANGED <<db, pushed, accepted, left, abroad, again, now>>
  BY DEF Fails, unasked
<1>2. Requests'
  BY <1>1 DEF Requests
<1>3. QED
  BY <1>1, <1>2 DEF Beside, Landed, Requests

LEMMA FollowBeside ==
    ASSUME Requests, FollowStep, UNCHANGED <<open, left, abroad, pushed, accepted, again, faults, now>>
    PROVE  Requests' /\ Beside
<1>1. DOMAIN db' = Tables /\ \A table \in Tables \ {"social_graph"} : db'[table] = db[table]
  BY DEF FollowStep, Click, Settle, Index, Forget, Requests
<1>2. QED
  BY <1>1 DEF Requests, Beside, Landed

\* A peer's copies and the reaper leave the requests alone.
LEMMA PeerCopies ==
    ASSUME Requests, NEW m, StoreFromPeer(m)
    PROVE  /\ Requests' /\ UNCHANGED <<open, left, abroad, pushed, accepted, now, Landed>>
           /\ \A table \in Tables \ {"messages", "signed_envelopes"} : db'[table] = db[table]
           /\ \E asked \in BOOLEAN : /\ m \notin abroad => ~asked
                                     /\ db'["messages"] = db["messages"] \cup {Projected(m, asked)}
<1>1. UNCHANGED <<open, left, abroad, pushed, accepted, again, now>>
  BY DEF StoreFromPeer
<1>2. PICK asked \in BOOLEAN :
        /\ m \notin abroad => ~asked
        /\ db' = [db EXCEPT !.messages = @ \cup {Projected(m, asked)},
                            !.signed_envelopes = @ \cup {m.hash}]
  BY Zenon DEF StoreFromPeer
<1>3. DOMAIN db' = Tables /\ db'["messages"] = db["messages"] \cup {Projected(m, asked)}
      /\ \A table \in Tables \ {"messages", "signed_envelopes"} : db'[table] = db[table]
  BY <1>2 DEF Requests, Tables
<1>4. QED
  BY <1>1, <1>2, <1>3 DEF Requests, Landed

LEMMA Cleanup ==
    ASSUME Requests, RunStoriesCleanup
    PROVE  /\ Requests' /\ UNCHANGED <<open, left, abroad, pushed, accepted, now, Landed>>
           /\ \A table \in Tables \ {"stories", "story_views"} : db'[table] = db[table]
           /\ LET dead == {s \in db["stories"] : s.expires < now} IN
              /\ db'["stories"] = db["stories"] \ dead
              /\ db'["story_views"] = {v \in db["story_views"] : \A s \in dead : s.hash # v.story}
<1>1. UNCHANGED <<open, left, abroad, pushed, accepted, again, now>>
  BY DEF RunStoriesCleanup
<1>2. DOMAIN db' = Tables
  BY DEF RunStoriesCleanup, Requests
<1>3. \A table \in Tables \ {"stories", "story_views"} : db'[table] = db[table]
  BY DEF RunStoriesCleanup, Requests
<1> DEFINE dead == {s \in db["stories"] : s.expires < now}
<1>4. /\ db'["stories"] = db["stories"] \ dead
      /\ db'["story_views"] = {v \in db["story_views"] : \A s \in dead : s.hash # v.story}
  BY DEF RunStoriesCleanup, Requests, Tables
<1>5. QED
  BY <1>1, <1>2, <1>3, <1>4 DEF Requests, Landed

LEMMA StepKinds ==
    ASSUME Requests, [HubNext]_hubVars
    PROVE  /\ Requests'
           /\ \/ Beside
              \/ \E r \in open : Write(r)
              \/ \E m : StoreFromPeer(m)
              \/ RunStoriesCleanup
<1>1. CASE FeatureStep
  BY <1>1, SubmitBeside, PeerCopies, LookBeside, WriteRequests, FinishBeside, FailsBeside, Cleanup
     DEF FeatureStep
<1>2. CASE FollowStep /\ UNCHANGED <<open, left, abroad, pushed, accepted, again, faults, now>>
  BY <1>2, FollowBeside
<1>3. CASE UNCHANGED <<featureVars, now>>
  BY <1>3 DEF featureVars, Requests, Beside, Landed
<1>4. CASE KeysTick /\ UNCHANGED featureVars
  BY <1>4 DEF featureVars, KeysTick, Tick, Requests, Beside, Landed
<1>5. CASE Restart
  BY <1>5 DEF Restart, Requests, Beside, Landed
<1>6. KeyStep => now' = now
  <2>1. \A k : Revoke(k) => now' = now
    BY DEF Revoke
  <2>2. \A k, expires : Register(k, expires) => now' = now
    BY Zenon DEF Register
  <2>3. \A c, k : Ask(c, k) => now' = now
    BY Zenon DEF Ask, AskBoth
  <2>4. \A c : Read(c) \/ RpcFails(c) => now' = now
    BY Zenon DEF Read, RpcFails
  <2>5. \A c : ReturnMissing(c) \/ ReturnFound(c) => now' = now
    BY Zenon DEF ReturnMissing, ReturnFound
  <2>6. QED
    BY <2>1, <2>2, <2>3, <2>4, <2>5 DEF KeyStep
<1>7. QED
  BY <1>1, <1>2, <1>3, <1>4, <1>5, <1>6 DEF HubNext, hubVars, featureVars

LEMMA RequestsInit ==
    ASSUME HubInit
    PROVE  Requests /\ Landed = {} /\ pushed = {} /\ open = {}
           /\ \A table \in Tables \ {"channels"} : db[table] = {}
<1>1. PICK tale \in Tales : FeatureInit(tale)
  BY DEF HubInit
<1>2. tale.sent \subseteq Messages /\ tale.abroad \subseteq tale.sent /\ tale.again \in Nat
  BY FeatureAssumption DEF Messages
<1>7. IsFiniteSet(tale.sent)
  BY FeatureAssumption
<1>3. DOMAIN left = tale.sent
  BY <1>1 DEF FeatureInit
<1>4. /\ abroad = tale.abroad /\ again = tale.again /\ open = {} /\ pushed = {} /\ accepted = {}
      /\ DOMAIN db = Tables /\ \A table \in Tables \ {"channels"} : db[table] = {}
  BY <1>1 DEF FeatureInit
<1>5. now = 1
  BY DEF HubInit, ClockInit
<1>6. QED
  BY <1>2, <1>3, <1>4, <1>5, <1>7 DEF Requests, Landed

THEOREM RequestsHold == HubSpec => []Requests
<1>1. HubInit => Requests
  BY RequestsInit
<1>2. Requests /\ [HubNext]_hubVars => Requests'
  BY StepKinds
<1>3. QED
  BY <1>1, <1>2, PTL DEF HubSpec

\* Only the indexer writes the edges.
LEMMA EdgesStay ==
    ASSUME Requests, FeatureStep
    PROVE  db'["social_graph"] = db["social_graph"]
<1>0. "social_graph" \in Tables
  BY DEF Tables
<1>1. ASSUME NEW m, Submit(m) PROVE db'["social_graph"] = db["social_graph"]
  BY <1>1 DEF Submit
<1>2. ASSUME NEW m, StoreFromPeer(m) PROVE db'["social_graph"] = db["social_graph"]
  BY <1>0, <1>2, PeerCopies
<1>3. ASSUME NEW r \in open, Look(r) \/ Fails(r) PROVE db'["social_graph"] = db["social_graph"]
  BY <1>3 DEF Look, Fails
<1>4. ASSUME NEW r \in open, Write(r) PROVE db'["social_graph"] = db["social_graph"]
  BY <1>0, <1>4, WriteStores, StoreRequests DEF Stores, Reject
<1>5. ASSUME NEW r \in open, Finish(r) PROVE db'["social_graph"] = db["social_graph"]
  BY <1>0, <1>5 DEF Finish, Requests
<1>6. CASE RunStoriesCleanup
  BY <1>0, <1>6, Cleanup
<1>7. QED
  BY <1>1, <1>2, <1>3, <1>4, <1>5, <1>6 DEF FeatureStep

----------------------------------------------------------------------------
(* The app-key cache inside the hub *)

LEMMA FeatureClock == FeatureStep => now' = now
<1>1. \A m : Submit(m) \/ StoreFromPeer(m) => now' = now
  BY Zenon DEF Submit, StoreFromPeer
<1>2. \A r : Look(r) \/ Finish(r) \/ Fails(r) => now' = now
  BY Zenon DEF Look, Finish, Fails, unasked
<1>3. \A r, table : Stores(r, r.msg.type, table) => now' = now
  BY Zenon DEF Stores, Reject, Store, unasked
<1>4. \A r : Write(r) => now' = now
  <2> SUFFICES ASSUME NEW r, Write(r) PROVE \E table : Stores(r, r.msg.type, table)
    BY <1>3
  <2>1. PICK table \in Tables : Stores(r, r.msg.type, table)
    BY WriteStores
  <2>2. QED
    BY <2>1
<1>5. RunStoriesCleanup => now' = now
  BY Zenon DEF RunStoriesCleanup
<1>6. QED
  BY <1>1, <1>2, <1>4, <1>5 DEF FeatureStep

\* The hub's steps are steps of the cache's own specification, or leave it alone.
LEMMA HubRunsKeys == HubSpec => KeysSpec
<1>1. HubInit => ClockInit /\ KeysInit
  BY DEF HubInit
<1>2. [HubNext]_hubVars => [KeysNext]_<<keyVars, now>>
  <2> SUFFICES ASSUME [HubNext]_hubVars PROVE [KeysNext]_<<keyVars, now>>
    OBVIOUS
  <2>1. CASE FeatureStep /\ UNCHANGED <<followVars, keyVars, linkVars, mediaVars>>
    BY <2>1, FeatureClock
  <2>2. CASE UNCHANGED <<keyVars, now>>
    BY <2>2
  <2>3. CASE KeyStep \/ KeysTick
    BY <2>3 DEF KeysNext
  <2>4. CASE Restart
    BY <2>4 DEF Restart, KeysNext
  <2>5. QED
    BY <2>1, <2>2, <2>3, <2>4 DEF HubNext, hubVars
<1>3. QED
  BY <1>1, <1>2, PTL DEF HubSpec, KeysSpec

\* app-key-cache.ts:46-88, beside the requests of the hub that asks it: every
\* answer is recent through all its restarts.
THEOREM HubAnswersRecent == HubSpec => [](KeyTypeOK /\ KeysFresh)
BY HubRunsKeys, AnswersRecent

----------------------------------------------------------------------------
(* The media store *)

\* The map agrees with the disk, metadata is on disk only beside a whole file,
\* and a file without readable metadata is one whose upload broke off.
FilesInv ==
    /\ MediaTypeOK
    /\ \A f \in Files :
         /\ metaCache[f] # "none" => meta[f] = metaCache[f]
         /\ meta[f] # "none" => data[f] = "whole"
         /\ data[f] # "none" => meta[f] \in Types \/ f \in cut
         /\ f \in stored => data[f] # "none"

LEMMA FilesServed == FilesInv => MediaServed
BY MediaAssumption DEF FilesInv, MediaTypeOK, MediaServed, Served, GetMeta

LEMMA FilesInit == MediaInit => FilesInv
BY DEF MediaInit, FilesInv, MediaTypeOK

LEMMA FilesStep == FilesInv /\ (MediaStep \/ MediaLost) => FilesInv'
<1> SUFFICES ASSUME FilesInv, MediaStep \/ MediaLost PROVE FilesInv'
  OBVIOUS
<1> USE MediaAssumption DEF FilesInv, MediaTypeOK
<1>1. ASSUME NEW f \in Files, StoreKnown(f) PROVE FilesInv'
  BY <1>1 DEF StoreKnown
<1>2. ASSUME NEW f \in Files, NEW type \in Types, StoreNew(f, type) PROVE FilesInv'
  BY <1>2 DEF StoreNew
<1>3. ASSUME NEW f \in Files, NEW type \in Types, StoreCut(f, type) PROVE FilesInv'
  <2>1. PICK kept \in Remains(type) : data' = [data EXCEPT ![f] = kept[1]] /\ meta' = [meta EXCEPT ![f] = kept[2]]
    BY <1>3 DEF StoreCut
  <2>2. kept[1] \in {"part", "whole"} /\ kept[2] \in {"none", "torn"} /\ (kept[2] # "none" => kept[1] = "whole")
    BY DEF Remains
  <2>3. /\ data[f] = "none" /\ cut' = cut \cup {f} /\ UNCHANGED <<metaCache, stored>>
    BY <1>3 DEF StoreCut
  <2>4. meta[f] = "none" /\ metaCache[f] = "none"
    BY <2>3
  <2>5. MediaTypeOK'
    BY <2>1, <2>2, <2>3
  <2>6. QED
    BY <2>1, <2>2, <2>3, <2>4, <2>5
<1>4. ASSUME NEW f \in Files, Retrieve(f) PROVE FilesInv'
  BY <1>4 DEF Retrieve, GetMeta
<1>5. CASE MediaLost
  BY <1>5 DEF MediaLost
<1>6. QED
  BY <1>1, <1>2, <1>3, <1>4, <1>5 DEF MediaStep

\* media-store.ts:26-52, upload.ts:36-66: any number of uploads of any files,
\* each of which a crash or a full disk may cut short, with restarts between.
THEOREM MediaIsServed == HubSpec => [](MediaTypeOK /\ MediaServed)
<1>1. HubInit => FilesInv
  BY FilesInit DEF HubInit
<1>2. FilesInv /\ [HubNext]_hubVars => FilesInv'
  <2> SUFFICES ASSUME FilesInv, [HubNext]_hubVars PROVE FilesInv'
    OBVIOUS
  <2>1. CASE UNCHANGED mediaVars
    BY <2>1 DEF mediaVars, FilesInv, MediaTypeOK
  <2>2. CASE MediaStep \/ Restart
    BY <2>2, FilesStep DEF Restart
  <2>3. QED
    BY <2>1, <2>2 DEF HubNext, hubVars
<1>3. FilesInv => MediaTypeOK /\ MediaServed
  BY FilesServed DEF FilesInv
<1>4. QED
  BY <1>1, <1>2, <1>3, PTL DEF HubSpec

----------------------------------------------------------------------------
(* Follows *)

Operations == {Blank, "follow", "unfollow"}

\* What the ER reports is the last click; an operation it has dropped has landed
\* and waits for the indexer, or is indexed; one that waits changes the edge.
FollowInv ==
    /\ er \in [Edges -> Operations] /\ settled \in [Edges -> Operations]
    /\ wish \in [Edges -> Operations]
    /\ DOMAIN db = Tables /\ db["social_graph"] \subseteq Edges
    /\ \A e \in Edges :
         /\ er[e] # Blank => er[e] = wish[e]
         /\ er[e] = Blank /\ settled[e] # Blank => settled[e] = wish[e]
         /\ er[e] = Blank /\ settled[e] = Blank =>
              (e \in db["social_graph"] <=> wish[e] = "follow")
         /\ settled[e] # Blank => (settled[e] = "follow" <=> e \notin db["social_graph"])

LEMMA Operation == Blank # "follow" /\ Blank # "unfollow"
BY Zenon DEF Blank

LEMMA FollowsInit ==
    ASSUME FollowInit, NEW tale, FeatureInit(tale)
    PROVE  FollowInv
BY Operation DEF FollowInit, FeatureInit, FollowInv, Operations, Tables

LEMMA FollowsStep ==
    ASSUME FollowInv, FollowStep
    PROVE  FollowInv'
<1> USE Operation DEF FollowInv, Operations
<1>0. "social_graph" \in Tables
  BY DEF Tables
<1>1. ASSUME NEW e \in Edges, Click(e) PROVE FollowInv'
  BY <1>1 DEF Click
<1>2. ASSUME NEW e \in Edges, Settle(e) PROVE FollowInv'
  BY <1>2 DEF Settle
<1>3. ASSUME NEW e \in Edges, Index(e) PROVE FollowInv'
  BY <1>0, <1>3 DEF Index
<1>4. ASSUME NEW e \in Edges, Forget(e) PROVE FollowInv'
  BY <1>4 DEF Forget
<1>5. QED
  BY <1>1, <1>2, <1>3, <1>4 DEF FollowStep

LEMMA FollowListed ==
    ASSUME FollowInv, NEW e \in Edges
    PROVE  /\ e[1] \in Followers(e[2]) <=> (er[e] = "follow" \/ (er[e] = Blank /\ e \in db["social_graph"]))
           /\ e[2] \in Following(e[1]) <=> (er[e] = "follow" \/ (er[e] = Blank /\ e \in db["social_graph"]))
<1>1. \A d \in Edges : d = <<d[1], d[2]>>
  BY ViewsAssumption
<1>2. ASSUME NEW S \in SUBSET Edges
      PROVE  (e[1] \in Sources(S, e[2]) <=> e \in S) /\ (e[2] \in Targets(S, e[1]) <=> e \in S)
  BY <1>1 DEF Sources, Targets
<1>3. Reported("follow") \subseteq Edges /\ Reported("unfollow") \subseteq Edges
  BY DEF Reported
<1>4. db.social_graph \subseteq Edges /\ er[e] \in Operations
  BY DEF FollowInv
<1>5. QED
  BY <1>2, <1>3, <1>4, Operation DEF Followers, Following, Merged, Reported, Operations

LEMMA FollowsHold == HubSpec => []FollowInv
<1>1. HubInit => FollowInv
  BY FollowsInit DEF HubInit
<1>2. FollowInv /\ Requests /\ [HubNext]_hubVars => FollowInv'
  <2> SUFFICES ASSUME FollowInv, Requests, [HubNext]_hubVars PROVE FollowInv'
    OBVIOUS
  <2>1. CASE FollowStep
    BY <2>1, FollowsStep
  <2>2. ASSUME UNCHANGED followVars, db'["social_graph"] = db["social_graph"], DOMAIN db' = Tables PROVE FollowInv'
    BY <2>2 DEF followVars, FollowInv
  <2>3. CASE FeatureStep /\ UNCHANGED followVars
    BY <2>2, <2>3, EdgesStay, StepKinds DEF Requests
  <2>4. CASE UNCHANGED <<db, followVars>>
    BY <2>2, <2>4 DEF Requests
  <2>5. CASE Restart
    BY <2>2, <2>5 DEF Restart, Requests
  <2>6. QED
    BY <2>1, <2>3, <2>4, <2>5 DEF HubNext, hubVars, featureVars
<1>3. QED
  BY <1>1, <1>2, RequestsHold, PTL DEF HubSpec

\* er-client.ts:62-76, social.ts:89-98: the lists show the last click on every
\* edge, whatever other edges, requests and restarts do meanwhile.
THEOREM FollowsShown == HubSpec => []FollowsAsClicked
<1>1. FollowInv => FollowsAsClicked
  BY FollowListed, Operation DEF FollowInv, FollowsAsClicked, Operations
<1>2. QED
  BY <1>1, FollowsHold, PTL

----------------------------------------------------------------------------
(* The outgoing connections *)

Of(url) == {s \in sockets : s.url = url}

\* The sockets of a start: one for each seed the constructor accepts.
Dials == {Socket(seeds[i], i) : i \in {j \in DOMAIN seeds : seeds[j] \notin Malformed}}

IsSocket(s) ==
    s \in [url : Urls \ Malformed, n : {s.n}, state : {"connecting", "open", "closing"},
           greeted : BOOLEAN]

\* A mapped socket of ours has said hello to the hub it is mapped for.
Mapped(h) == \E s \in sockets : peers[h] = Name(s) /\ s.greeted /\ HubAt[s.url] = h

LinksInv ==
    /\ seeds \in Seq(DOMAIN HubAt)
    /\ IsFiniteSet(sockets) /\ \A s \in sockets : IsSocket(s)
    /\ timers \subseteq Urls
    /\ DOMAIN peers = Others
    /\ \A h \in Others : peers[h] \in {None, Incoming} \/ Mapped(h)
    /\ SeedsTended

LEMMA Swap ==
    ASSUME NEW S, IsFiniteSet(S), NEW s \in S, NEW t
    PROVE  /\ IsFiniteSet((S \ {s}) \cup {t})
           /\ Cardinality((S \ {s}) \cup {t}) \in 1 .. Cardinality(S)
<1>1. IsFiniteSet(S \ {s}) /\ Cardinality(S \ {s}) = Cardinality(S) - 1
  BY FS_RemoveElement
<1> DEFINE rest == S \ {s}
<1>2. /\ IsFiniteSet(rest \cup {t})
      /\ Cardinality(rest \cup {t}) = Cardinality(rest) \/ Cardinality(rest \cup {t}) = Cardinality(rest) + 1
  <2> HIDE DEF rest
  <2>1. QED
    BY <1>1, FS_AddElement DEF rest
<1>3. Cardinality((S \ {s}) \cup {t}) # 0
  BY <1>2, FS_EmptySet
<1>4. Cardinality(S) \in Nat /\ Cardinality((S \ {s}) \cup {t}) \in Nat
  BY <1>2, FS_CardinalityType
<1>5. QED
  BY <1>1, <1>2, <1>3, <1>4

LEMMA SeedUrls ==
    ASSUME seeds \in Seq(DOMAIN HubAt)
    PROVE  /\ Urls \subseteq DOMAIN HubAt /\ "none" \notin Urls /\ "incoming" \notin Urls
           /\ \A url \in Urls : Listed(url) \in Nat /\ Listed(url) >= 1
<1>1. Urls \subseteq DOMAIN HubAt
  BY DEF Urls
<1>2. IsFiniteSet(DOMAIN seeds)
  BY FS_Interval
<1>3. ASSUME NEW url \in Urls PROVE Listed(url) \in Nat /\ Listed(url) >= 1
  <2> DEFINE at == {i \in DOMAIN seeds : seeds[i] = url}
  <2>1. at # {}
    BY DEF Urls
  <2>2. IsFiniteSet(at)
    BY <1>2, FS_Subset
  <2>3. Cardinality(at) # 0 /\ Cardinality(at) \in Nat
    BY <2>1, <2>2, FS_EmptySet, FS_CardinalityType
  <2>4. QED
    BY <2>3 DEF Listed
<1>4. QED
  BY <1>1, <1>3, LinksAssumption

LEMMA DialsTend ==
    ASSUME seeds \in Seq(DOMAIN HubAt)
    PROVE  /\ IsFiniteSet(Dials) /\ \A s \in Dials : IsSocket(s)
           /\ \A url \in Urls :
                LET of == {s \in Dials : s.url = url} IN
                /\ url \in Malformed => of = {}
                /\ url \notin Malformed => Cardinality(of) \in 1 .. Listed(url)
<1>1. IsFiniteSet(DOMAIN seeds)
  BY FS_Interval
<1>2. \A s \in Dials : IsSocket(s) /\ s.n \in DOMAIN seeds /\ s = Socket(seeds[s.n], s.n)
  <2> SUFFICES ASSUME NEW i \in DOMAIN seeds, seeds[i] \notin Malformed
               PROVE  LET s == Socket(seeds[i], i) IN IsSocket(s) /\ s.n = i
    BY DEF Dials
  <2>1. seeds[i] \in Urls
    BY DEF Urls
  <2>2. QED
    BY <2>1 DEF Socket, IsSocket
<1>3. IsFiniteSet(Dials)
  <2> DEFINE f == [s \in Dials |-> s.n]
  <2>1. f \in Injection(Dials, DOMAIN seeds)
    BY <1>2 DEF Injection, IsInjective
  <2>2. QED
    BY <1>1, <2>1, FS_Injection
<1>4. ASSUME NEW url \in Urls, url \in Malformed PROVE {s \in Dials : s.url = url} = {}
  BY <1>2, <1>4 DEF IsSocket
<1>5. ASSUME NEW url \in Urls, url \notin Malformed
      PROVE  Cardinality({s \in Dials : s.url = url}) \in 1 .. Listed(url)
  <2> DEFINE of == {s \in Dials : s.url = url}
             at == {i \in DOMAIN seeds : seeds[i] = url}
             f == [s \in of |-> s.n]
  <2>1. IsFiniteSet(at) /\ IsFiniteSet(of)
    BY <1>1, <1>3, FS_Subset
  <2>2. \A s \in of : s.n \in at
    BY <1>2 DEF Socket
  <2>3. f \in Injection(of, at)
    BY <1>2, <2>2 DEF Injection, IsInjective
  <2>4. Cardinality(of) <= Cardinality(at)
    BY <2>1, <2>3, FS_Injection
  <2>5. PICK i \in DOMAIN seeds : seeds[i] = url
    BY DEF Urls
  <2>6. Socket(url, i) \in of
    BY <1>5, <2>5 DEF Dials, Socket
  <2>7. Cardinality(of) # 0 /\ Cardinality(of) \in Nat /\ Cardinality(at) \in Nat
    BY <2>1, <2>6, FS_EmptySet, FS_CardinalityType
  <2>8. QED
    BY <2>4, <2>7 DEF Listed
<1>6. QED
  BY <1>2, <1>3, <1>4, <1>5

\* The start, in an initial state and after a restart.
LEMMA LinksStart ==
    ASSUME seeds \in Seq(DOMAIN HubAt), LinksInit
    PROVE  LinksInv
<1>1. sockets = Dials /\ timers = Urls \cap Malformed /\ DOMAIN peers = Others
      /\ \A h \in Others : peers[h] = None
  BY DEF LinksInit, Dials
<1>2. SeedsTended
  <2> SUFFICES ASSUME NEW url \in Urls PROVE Tended(url) \in 1 .. Listed(url)
    BY DEF SeedsTended
  <2>1. Cardinality({}) = 0
    BY FS_EmptySet
  <2>2. Listed(url) \in Nat /\ Listed(url) >= 1
    BY SeedUrls
  <2> DEFINE of == {s \in Dials : s.url = url}
  <2>3. (url \in Malformed /\ of = {}) \/ (url \notin Malformed /\ Cardinality(of) \in 1 .. Listed(url))
    BY DialsTend
  <2>4. Tended(url) = Cardinality(of) + (IF url \in Malformed THEN 1 ELSE 0)
    BY <1>1 DEF Tended
  <2> HIDE DEF of
  <2>5. CASE url \in Malformed /\ of = {}
    BY <2>1, <2>2, <2>4, <2>5
  <2>6. CASE url \notin Malformed /\ Cardinality(of) \in 1 .. Listed(url)
    BY <2>2, <2>4, <2>6
  <2>7. QED
    BY <2>3, <2>5, <2>6
<1>3. QED
  BY <1>1, <1>2, DialsTend DEF LinksInv

LEMMA LinksRestart ==
    ASSUME LinksInv, LinksLost
    PROVE  LinksInv'
<1>1. /\ sockets' = Dials /\ timers' = Urls \cap Malformed /\ DOMAIN peers' = Others
      /\ \A h \in Others : peers'[h] = None
      /\ seeds' = seeds
  BY DEF LinksLost, Dials
<1>2. seeds \in Seq(DOMAIN HubAt)
  BY DEF LinksInv
<1>3. SeedsTended'
  <2> SUFFICES ASSUME NEW url \in Urls PROVE Tended(url)' \in 1 .. Listed(url)
    BY <1>1 DEF SeedsTended, Urls, Listed
  <2>1. Cardinality({}) = 0
    BY FS_EmptySet
  <2>2. Listed(url) \in Nat /\ Listed(url) >= 1
    BY <1>2, SeedUrls
  <2> DEFINE of == {s \in Dials : s.url = url}
  <2>3. (url \in Malformed /\ of = {}) \/ (url \notin Malformed /\ Cardinality(of) \in 1 .. Listed(url))
    BY <1>2, DialsTend
  <2>4. Tended(url)' = Cardinality(of) + (IF url \in Malformed THEN 1 ELSE 0)
    BY <1>1 DEF Tended
  <2> HIDE DEF of
  <2>5. QED
    BY <2>1, <2>2, <2>3, <2>4
<1>4. QED
  BY <1>1, <1>2, <1>3, DialsTend DEF LinksInv, Mapped, Urls, IsSocket

\* One socket replaced by another of its URL, and its URL's timer cleared.
LEMMA Replaced ==
    ASSUME LinksInv, NEW s \in sockets, NEW t, IsSocket(t), t.url = s.url, t.n = s.n,
           sockets' = (sockets \ {s}) \cup {t}, seeds' = seeds,
           timers' \subseteq timers, timers \subseteq timers' \cup {s.url}
    PROVE  /\ IsFiniteSet(sockets)' /\ (\A x \in sockets : IsSocket(x))'
           /\ (timers \subseteq Urls)' /\ SeedsTended'
<1>1. Urls' = Urls /\ \A url : Listed(url)' = Listed(url)
  BY DEF Urls, Listed
<1>2. IsFiniteSet(sockets') /\ \A x \in sockets' : IsSocket(x)
  BY Swap DEF LinksInv
<1>3. (\A x \in sockets : IsSocket(x))' /\ (timers \subseteq Urls)'
  BY <1>1, <1>2 DEF LinksInv, IsSocket
<1>4. ASSUME NEW url \in Urls PROVE Tended(url)' \in 1 .. Listed(url)
  <2>1. IsFiniteSet(Of(url))
    BY FS_Subset DEF Of, LinksInv
  <2>2. Tended(url) \in 1 .. Listed(url) /\ Listed(url) \in Nat
    BY SeedUrls DEF LinksInv, SeedsTended
  <2>3. Cardinality(Of(url)) \in Nat
    BY <2>1, FS_CardinalityType
  <2>4. Tended(url) = Cardinality(Of(url)) + (IF url \in timers THEN 1 ELSE 0)
    BY DEF Tended, Of
  <2>5. Tended(url)' = Cardinality(Of(url)') + (IF url \in timers' THEN 1 ELSE 0)
    BY DEF Tended, Of
  <2>6. CASE url # s.url
    <3>1. Of(url)' = Of(url) /\ (url \in timers' <=> url \in timers)
      BY <2>6 DEF Of
    <3>2. QED
      BY <2>2, <2>4, <2>5, <3>1
  <2>7. CASE url = s.url
    <3>1. Of(url)' = (Of(url) \ {s}) \cup {t} /\ s \in Of(url)
      BY <2>7 DEF Of
    <3>2. Cardinality(Of(url)') \in 1 .. Cardinality(Of(url))
      BY <2>1, <3>1, Swap
    <3>3. QED
      BY <2>2, <2>3, <2>4, <2>5, <3>2
  <2>8. QED
    BY <2>6, <2>7
<1>5. SeedsTended'
  BY <1>1, <1>4 DEF SeedsTended
<1>6. QED
  BY <1>2, <1>3, <1>5

\* The map keeps its places when a replaced socket keeps its name and greeting.
LEMMA ReplacedMapped ==
    ASSUME LinksInv, NEW s \in sockets, NEW t, t.url = s.url, t.n = s.n, s.greeted => t.greeted,
           sockets' = (sockets \ {s}) \cup {t}, NEW h \in Others, peers'[h] = peers[h]
    PROVE  peers'[h] \in {None, Incoming} \/ Mapped(h)'
<1>1. CASE peers[h] \in {None, Incoming}
  BY <1>1
<1>2. CASE Mapped(h)
  <2>1. PICK x \in sockets : peers[h] = Name(x) /\ x.greeted /\ HubAt[x.url] = h
    BY <1>2 DEF Mapped
  <2>2. CASE x = s
    BY <2>1, <2>2 DEF Mapped, Name
  <2>3. CASE x # s
    BY <2>1, <2>3 DEF Mapped
  <2>4. QED
    BY <2>2, <2>3
<1>3. QED
  BY <1>1, <1>2 DEF LinksInv

LEMMA BecomeKeeps ==
    ASSUME LinksInv, NEW s \in sockets, NEW state \in {"connecting", "open", "closing"},
           Become(s, state), seeds' = seeds, peers' = peers,
           timers' \subseteq timers, timers \subseteq timers' \cup {s.url}
    PROVE  LinksInv'
<1> DEFINE t == [s EXCEPT !.state = state]
<1>1. IsSocket(s)
  BY DEF LinksInv
<1>2. IsSocket(t) /\ t.url = s.url /\ t.n = s.n /\ t.greeted = s.greeted
  BY <1>1 DEF IsSocket
<1> HIDE DEF t
<1>3. sockets' = (sockets \ {s}) \cup {t}
  BY DEF Become, t
<1>4. \A h \in Others : peers'[h] \in {None, Incoming} \/ Mapped(h)'
  BY <1>2, <1>3, ReplacedMapped
<1>5. QED
  BY <1>2, <1>3, <1>4, Replaced DEF LinksInv

LEMMA OpenedKeeps == ASSUME LinksInv, NEW s \in sockets, Opened(s) PROVE LinksInv'
BY BecomeKeeps DEF Opened

LEMMA BreaksKeeps == ASSUME LinksInv, NEW s \in sockets, Breaks(s) PROVE LinksInv'
BY BecomeKeeps DEF Breaks

LEMMA HelloKeeps == ASSUME LinksInv, NEW s \in sockets, Hello(s) PROVE LinksInv'
<1>1. CASE HubAt[s.url] = Self
  BY <1>1, BecomeKeeps DEF Hello
<1>2. CASE HubAt[s.url] # Self
  <2> DEFINE t == [s EXCEPT !.greeted = TRUE]
  <2>1. IsSocket(s)
    BY DEF LinksInv
  <2>2. IsSocket(t) /\ t.url = s.url /\ t.n = s.n /\ t.greeted
    BY <2>1 DEF IsSocket
  <2> HIDE DEF t
  <2>3. /\ sockets' = (sockets \ {s}) \cup {t} /\ seeds' = seeds /\ timers' = timers
        /\ peers' = [peers EXCEPT ![HubAt[s.url]] = Name(s)]
    BY <1>2 DEF Hello, t
  <2>4. HubAt[s.url] \in Others
    BY <1>2, <2>1, SeedUrls DEF LinksInv, Others, IsSocket
  <2>5. Mapped(HubAt[s.url])' /\ DOMAIN peers' = Others
    BY <2>2, <2>3, <2>4 DEF Mapped, Name, LinksInv
  <2>6. \A h \in Others \ {HubAt[s.url]} : peers'[h] \in {None, Incoming} \/ Mapped(h)'
    <3> SUFFICES ASSUME NEW h \in Others \ {HubAt[s.url]} PROVE peers'[h] \in {None, Incoming} \/ Mapped(h)'
      OBVIOUS
    <3>1. peers'[h] = peers[h]
      BY <2>3 DEF LinksInv
    <3>2. QED
      BY <2>2, <2>3, <3>1, ReplacedMapped
  <2>7. QED
    BY <2>2, <2>3, <2>5, <2>6, Replaced DEF LinksInv
<1>3. QED
  BY <1>1, <1>2

LEMMA ClosedKeeps == ASSUME LinksInv, NEW s \in sockets, Closed(s) PROVE LinksInv'
<1>1. /\ sockets' = sockets \ {s} /\ timers' = timers \cup {s.url} /\ seeds' = seeds
      /\ peers' = IF s.greeted THEN [peers EXCEPT ![HubAt[s.url]] = None] ELSE peers
  BY DEF Closed
<1>2. Urls' = Urls /\ \A url : Listed(url)' = Listed(url)
  BY <1>1 DEF Urls, Listed
<1>3. IsFiniteSet(sockets') /\ \A x \in sockets' : IsSocket(x)
  BY <1>1, FS_Subset DEF LinksInv
<1>4. (\A x \in sockets : IsSocket(x))' /\ timers' \subseteq Urls
  BY <1>1, <1>2, <1>3 DEF LinksInv, IsSocket
<1>5. ASSUME NEW url \in Urls PROVE Tended(url)' \in 1 .. Listed(url)
  <2>1. IsFiniteSet(Of(url))
    BY FS_Subset DEF Of, LinksInv
  <2>2. Tended(url) \in 1 .. Listed(url) /\ Listed(url) \in Nat
    BY SeedUrls DEF LinksInv, SeedsTended
  <2>3. Cardinality(Of(url)) \in Nat
    BY <2>1, FS_CardinalityType
  <2>4. Tended(url) = Cardinality(Of(url)) + (IF url \in timers THEN 1 ELSE 0)
    BY DEF Tended, Of
  <2>5. Tended(url)' = Cardinality(Of(url)') + (IF url \in timers' THEN 1 ELSE 0)
    BY DEF Tended, Of
  <2>6. CASE url # s.url
    <3>1. Of(url)' = Of(url) /\ (url \in timers' <=> url \in timers)
      BY <1>1, <2>6 DEF Of
    <3>2. QED
      BY <2>2, <2>4, <2>5, <3>1
  <2>7. CASE url = s.url
    <3>1. Of(url)' = Of(url) \ {s} /\ s \in Of(url) /\ url \in timers'
      BY <1>1, <2>7 DEF Of
    <3>2. Cardinality(Of(url)') = Cardinality(Of(url)) - 1 /\ Cardinality(Of(url)') \in Nat
      BY <2>1, <3>1, FS_RemoveElement, FS_CardinalityType
    <3>3. QED
      BY <2>2, <2>3, <2>4, <2>5, <3>1, <3>2
  <2>8. QED
    BY <2>6, <2>7
<1>6. ASSUME NEW h \in Others PROVE peers'[h] \in {None, Incoming} \/ Mapped(h)'
  <2>1. CASE peers'[h] = None
    BY <2>1
  <2>2. CASE peers'[h] = peers[h] /\ (s.greeted => h # HubAt[s.url])
    BY <1>1, <2>2 DEF LinksInv, Mapped
  <2>3. QED
    BY <1>1, <2>1, <2>2 DEF LinksInv
<1>7. QED
  BY <1>1, <1>2, <1>3, <1>4, <1>5, <1>6 DEF LinksInv, SeedsTended

LEMMA RedialKeeps == ASSUME LinksInv, NEW url \in timers, Redial(url) PROVE LinksInv'
<1> DEFINE mapped == \E h \in Others : peers[h][1] = url
           n == CHOOSE i \in 1 .. Cardinality(sockets) + 1 : \A s \in sockets : Name(s) # <<url, i>>
<1>1. /\ seeds' = seeds /\ peers' = peers
      /\ timers' = IF ~mapped /\ url \in Malformed THEN timers ELSE timers \ {url}
      /\ sockets' = IF mapped \/ url \in Malformed THEN sockets ELSE sockets \cup {Socket(url, n)}
  BY DEF Redial
<1> HIDE DEF n
<1>2. Urls' = Urls /\ (\A u : Listed(u)' = Listed(u)) /\ url \in Urls
  BY <1>1 DEF Urls, Listed, LinksInv
<1>3. \A h \in Others : peers'[h] \in {None, Incoming} \/ Mapped(h)'
  BY <1>1 DEF LinksInv, Mapped
\* A mapped URL has its socket: the timer is one too many.
<1>4. mapped => Of(url) # {}
  <2> SUFFICES ASSUME NEW h \in Others, peers[h][1] = url PROVE Of(url) # {}
    OBVIOUS
  <2>1. peers[h] \notin {None, Incoming}
    BY <1>2, SeedUrls DEF None, Incoming, LinksInv
  <2>2. QED
    BY <2>1 DEF LinksInv, Mapped, Name, Of
<1>5. \A u : IsFiniteSet(Of(u)) /\ Cardinality(Of(u)) \in Nat
  BY FS_Subset, FS_CardinalityType DEF Of, LinksInv
<1>6. \A u \in Urls : /\ Tended(u) \in 1 .. Listed(u) /\ Listed(u) \in Nat
                      /\ Tended(u) = Cardinality(Of(u)) + (IF u \in timers THEN 1 ELSE 0)
                      /\ Tended(u)' = Cardinality(Of(u)') + (IF u \in timers' THEN 1 ELSE 0)
  BY SeedUrls DEF LinksInv, SeedsTended, Tended, Of
<1>7. CASE sockets' = sockets /\ timers' = timers
  BY <1>1, <1>2, <1>3, <1>7 DEF LinksInv, SeedsTended, Tended, IsSocket
<1>8. CASE mapped /\ sockets' = sockets /\ timers' = timers \ {url}
  <2>1. Cardinality(Of(url)) # 0
    BY <1>4, <1>5, <1>8, FS_EmptySet
  <2>2. \A u \in Urls : Of(u)' = Of(u) /\ (u # url => (u \in timers' <=> u \in timers))
    BY <1>8 DEF Of
  <2>3. \A u \in Urls : Tended(u)' \in 1 .. Listed(u)
    BY <1>5, <1>6, <1>8, <2>1, <2>2
  <2>4. QED
    BY <1>1, <1>2, <1>3, <1>8, <2>3 DEF LinksInv, SeedsTended, IsSocket
<1>9. CASE url \notin Malformed /\ sockets' = sockets \cup {Socket(url, n)} /\ timers' = timers \ {url}
  <2>1. IsSocket(Socket(url, n)) /\ Socket(url, n).url = url
    BY <1>2, <1>9 DEF Socket, IsSocket
  <2>2. Of(url)' = Of(url) \cup {Socket(url, n)} /\ \A u \in Urls : u # url => Of(u)' = Of(u)
    BY <1>9, <2>1 DEF Of
  <2>3. /\ Cardinality(Of(url)') \in {Cardinality(Of(url)), Cardinality(Of(url)) + 1}
        /\ IsFiniteSet(Of(url)')
    BY <1>5, <2>2, FS_AddElement
  <2>4. Cardinality(Of(url)') # 0
    BY <2>2, <2>3, FS_EmptySet
  <2>5. Tended(url)' \in 1 .. Listed(url)
    BY <1>2, <1>5, <1>6, <1>9, <2>3, <2>4
  <2>6. \A u \in Urls \ {url} : Tended(u)' \in 1 .. Listed(u)
    BY <1>6, <1>9, <2>2
  <2>7. IsFiniteSet(sockets')
    BY <1>9, FS_AddElement DEF LinksInv
  <2>8. (\A s \in sockets : IsSocket(s))'
    BY <1>2, <1>9, <2>1 DEF LinksInv, IsSocket
  <2>9. QED
    BY <1>1, <1>2, <1>3, <1>9, <2>5, <2>6, <2>7, <2>8 DEF LinksInv, SeedsTended
<1>10. QED
  BY <1>1, <1>7, <1>8, <1>9

LEMMA LinksFrame ==
    ASSUME LinksInv, UNCHANGED <<seeds, sockets, timers>>
    PROVE  /\ (seeds \in Seq(DOMAIN HubAt))' /\ IsFiniteSet(sockets)'
           /\ (\A s \in sockets : IsSocket(s))' /\ (timers \subseteq Urls)' /\ SeedsTended'
<1>1. Urls' = Urls /\ \A url : Listed(url)' = Listed(url) /\ Tended(url)' = Tended(url)
  BY DEF Urls, Listed, Tended
<1>2. SeedsTended'
  BY <1>1 DEF SeedsTended, LinksInv
<1>3. (\A s \in sockets : IsSocket(s))' /\ (timers \subseteq Urls)'
  BY <1>1 DEF IsSocket, LinksInv
<1>4. QED
  BY <1>2, <1>3 DEF LinksInv

LEMMA MapKeeps ==
    ASSUME LinksInv, PingSweep \/ \E h \in Others : IncomingHello(h) \/ IncomingClosed(h)
    PROVE  LinksInv'
<1>1. UNCHANGED <<seeds, sockets, timers>> /\ DOMAIN peers' = Others
  BY DEF PingSweep, IncomingHello, IncomingClosed, LinksInv
<1>2. \A h \in Others : peers'[h] \in {None, Incoming, peers[h]}
  BY DEF PingSweep, IncomingHello, IncomingClosed, LinksInv
<1>3. \A h \in Others : peers'[h] \in {None, Incoming} \/ Mapped(h)'
  BY <1>1, <1>2 DEF LinksInv, Mapped
<1>4. QED
  BY <1>1, <1>3, LinksFrame DEF LinksInv

\* peer-manager.ts:12-72: however many seeds, repeated ones and ones that are
\* the hub's own URL included, and however often connections break.
THEOREM SeedsAreTended == HubSpec => [](LinksTypeOK /\ SeedsTended)
<1>1. HubInit => LinksInv
  <2> SUFFICES ASSUME HubInit PROVE LinksInv
    OBVIOUS
  <2>1. seeds \in Seq(DOMAIN HubAt)
    BY TalesAssumption DEF HubInit
  <2>2. QED
    BY <2>1, LinksStart DEF HubInit
<1>2. LinksInv /\ [HubNext]_hubVars => LinksInv'
  <2> SUFFICES ASSUME LinksInv, [HubNext]_hubVars PROVE LinksInv'
    OBVIOUS
  <2>1. CASE LinkStep
    BY <2>1, OpenedKeeps, HelloKeeps, BreaksKeeps, ClosedKeeps, RedialKeeps, MapKeeps DEF LinkStep
  <2>2. CASE UNCHANGED linkVars
    BY <2>2, LinksFrame DEF linkVars, LinksInv, Mapped
  <2>3. CASE Restart
    BY <2>3, LinksRestart DEF Restart
  <2>4. QED
    BY <2>1, <2>2, <2>3 DEF HubNext, hubVars
<1>3. LinksInv => LinksTypeOK /\ SeedsTended
  BY SeedUrls DEF LinksInv, LinksTypeOK, IsSocket, Mapped
<1>4. QED
  BY <1>1, <1>2, <1>3, PTL DEF HubSpec

----------------------------------------------------------------------------
(* Tasks *)

LEMMA LandedBody == Requests => Landed \subseteq Body /\ pushed \subseteq Body /\ abroad \subseteq Body
BY MessagesTyped, WireKeeps DEF Requests, Landed, Request

TaskRows ==
    [id : Column("on"), creator : Nat \ {0}, status : {"open", "claimed", "completed"},
     claimer : Nat, claimedAt : Nat, completer : Nat, completedAt : Nat]

\* Who claimed and who completed stands in the row exactly from that status on.
TaskRowSound(t) ==
    /\ t \in TaskRows
    /\ t.status = "open" => t.claimer = 0
    /\ t.status # "open" => t.claimer # 0
    /\ t.status # "completed" => t.completer = 0
    /\ t.status = "completed" => t.completer \in {t.claimer, t.creator}

HasClaim(tasks, m) == \E t \in tasks : t.id = m.on /\ t.claimer = m.tid
HasCompletion(tasks, m) == \E t \in tasks : t.id = m.on /\ t.completer = m.tid

TaskInv ==
    /\ \A t \in db["tasks"] : TaskRowSound(t)
    /\ \A m \in Landed :
         /\ m.type = "TASK_CLAIM" => HasClaim(db["tasks"], m)
         /\ m.type = "TASK_COMPLETE" => HasCompletion(db["tasks"], m)

\* No statement takes a claim or a completion away.
LEMMA TasksPersist ==
    ASSUME NEW old, NEW new, NEW m \in Body,
           \A t \in old : \E u \in new : /\ u.id = t.id
                                         /\ t.claimer # 0 => u.claimer = t.claimer
                                         /\ t.completer # 0 => u.completer = t.completer
    PROVE  (HasClaim(old, m) => HasClaim(new, m)) /\ (HasCompletion(old, m) => HasCompletion(new, m))
<1>1. m.tid # 0
  BY DEF Body
<1>2. QED
  BY <1>1 DEF HasClaim, HasCompletion

LEMMA TaskAddKeeps ==
    ASSUME Requests, TaskInv, NEW r \in open, TaskAdd(r)
    PROVE  TaskInv'
<1>1. r.msg \in Body /\ r.msg.type = "TASK_ADD"
  BY DEF Requests, Request, TaskAdd, Writing
<1> DEFINE row == [id |-> r.msg.on, creator |-> r.msg.tid, status |-> "open", claimer |-> 0,
                   claimedAt |-> 0, completer |-> 0, completedAt |-> 0]
<1>2. TaskRowSound(row)
  BY <1>1 DEF Body, TaskRowSound, TaskRows
<1> HIDE DEF row
<1>3. PICK rows : Store(r, "tasks", rows) /\ (rows = db["tasks"] \/ rows = db["tasks"] \cup {row})
  BY DEF TaskAdd, InsertNew, row
<1>4. db'["tasks"] = rows /\ Landed' \subseteq Landed \cup {r.msg}
  BY <1>3, StoreRequests DEF Tables
<1>5. \A m \in Body : /\ HasClaim(db["tasks"], m) => HasClaim(rows, m)
                      /\ HasCompletion(db["tasks"], m) => HasCompletion(rows, m)
  BY <1>3 DEF HasClaim, HasCompletion
<1>6. QED
  BY <1>1, <1>2, <1>3, <1>4, <1>5, LandedBody DEF TaskInv

LEMMA ClaimedRow ==
    ASSUME NEW r, r.msg \in Body, NEW row \in db["tasks"], TaskRowSound(row), row.status = "open"
    PROVE  /\ TaskRowSound(Claimed(r)[row]) /\ Claimed(r)[row].id = row.id
           /\ Claimed(r)[row].claimer = r.msg.tid /\ Claimed(r)[row].completer = row.completer /\ row.claimer = 0
<1>1. Claimed(r)[row] = [row EXCEPT !.status = "claimed", !.claimer = r.msg.tid, !.claimedAt = r.msg.at]
  <2>1. row \in db.tasks
    OBVIOUS
  <2>2. QED
    BY <2>1, Zenon DEF Claimed
<1>2. QED
  BY <1>1 DEF TaskRowSound, TaskRows, Body

LEMMA CompletedRow ==
    ASSUME NEW r, r.msg \in Body, NEW row \in db["tasks"], TaskRowSound(row), row.status = "claimed",
           r.msg.tid \in {row.claimer, row.creator}
    PROVE  /\ TaskRowSound(Completed(r)[row]) /\ Completed(r)[row].id = row.id
           /\ Completed(r)[row].completer = r.msg.tid /\ Completed(r)[row].claimer = row.claimer /\ row.completer = 0
<1>1. Completed(r)[row] = [row EXCEPT !.status = "completed", !.completer = r.msg.tid, !.completedAt = r.msg.at]
  <2>1. row \in db.tasks
    OBVIOUS
  <2>2. QED
    BY <2>1, Zenon DEF Completed
<1>2. QED
  BY <1>1 DEF TaskRowSound, TaskRows, Body

LEMMA TaskClaimKeeps ==
    ASSUME Requests, TaskInv, NEW r \in open, TaskClaim(r)
    PROVE  TaskInv' \/ Reject(r)
<1> SUFFICES ASSUME ~Reject(r) PROVE TaskInv'
  OBVIOUS
<1>1. r.msg \in Body /\ r.msg.type = "TASK_CLAIM"
  BY DEF Requests, Request, TaskClaim, Writing
<1> DEFINE rows == {row \in db["tasks"] : row.id = r.msg.on /\ row.status = "open"}
           after == (db["tasks"] \ rows) \cup {Claimed(r)[row] : row \in rows}
<1>2. rows # {} /\ Store(r, "tasks", after)
  BY DEF TaskClaim, Update
<1> HIDE DEF after
<1>3. db'["tasks"] = after /\ Landed' \subseteq Landed \cup {r.msg}
  BY <1>2, StoreRequests DEF Tables
<1>4. \A row \in rows : /\ TaskRowSound(Claimed(r)[row]) /\ Claimed(r)[row].id = r.msg.on
                        /\ Claimed(r)[row].claimer = r.msg.tid /\ Claimed(r)[row].completer = row.completer
                        /\ row.claimer = 0 /\ row.id = r.msg.on
  BY <1>1, ClaimedRow DEF TaskInv
<1>5. \A t \in after : TaskRowSound(t)
  BY <1>4 DEF TaskInv, after
<1>6. HasClaim(after, r.msg)
  BY <1>2, <1>4 DEF after, HasClaim
<1>7. \A t \in db["tasks"] : \E u \in after : /\ u.id = t.id
                                              /\ t.claimer # 0 => u.claimer = t.claimer
                                              /\ t.completer # 0 => u.completer = t.completer
  BY <1>4 DEF after
<1>8. \A m \in Body : /\ HasClaim(db["tasks"], m) => HasClaim(after, m)
                      /\ HasCompletion(db["tasks"], m) => HasCompletion(after, m)
  BY <1>7, TasksPersist
<1>9. QED
  BY <1>1, <1>3, <1>5, <1>6, <1>8, LandedBody DEF TaskInv

LEMMA TaskCompleteKeeps ==
    ASSUME Requests, TaskInv, NEW r \in open, TaskComplete(r)
    PROVE  TaskInv' \/ Reject(r)
<1> SUFFICES ASSUME ~Reject(r) PROVE TaskInv'
  OBVIOUS
<1>1. r.msg \in Body /\ r.msg.type = "TASK_COMPLETE"
  BY DEF Requests, Request, TaskComplete, Writing
<1> DEFINE rows == {row \in db["tasks"] : row.id = r.msg.on /\ row.status = "claimed"
                                          /\ r.msg.tid \in {row.claimer, row.creator}}
           after == (db["tasks"] \ rows) \cup {Completed(r)[row] : row \in rows}
<1>2. rows # {} /\ Store(r, "tasks", after)
  BY DEF TaskComplete, Update
<1> HIDE DEF after
<1>3. db'["tasks"] = after /\ Landed' \subseteq Landed \cup {r.msg}
  BY <1>2, StoreRequests DEF Tables
<1>4. \A row \in rows : /\ TaskRowSound(Completed(r)[row]) /\ Completed(r)[row].id = r.msg.on
                        /\ Completed(r)[row].completer = r.msg.tid /\ Completed(r)[row].claimer = row.claimer
                        /\ row.completer = 0 /\ row.id = r.msg.on
  BY <1>1, CompletedRow DEF TaskInv
<1>5. \A t \in after : TaskRowSound(t)
  BY <1>4 DEF TaskInv, after
<1>6. HasCompletion(after, r.msg)
  BY <1>2, <1>4 DEF after, HasCompletion
<1>7. \A t \in db["tasks"] : \E u \in after : /\ u.id = t.id
                                              /\ t.claimer # 0 => u.claimer = t.claimer
                                              /\ t.completer # 0 => u.completer = t.completer
  BY <1>4 DEF after
<1>8. \A m \in Body : /\ HasClaim(db["tasks"], m) => HasClaim(after, m)
                      /\ HasCompletion(db["tasks"], m) => HasCompletion(after, m)
  BY <1>7, TasksPersist
<1>9. QED
  BY <1>1, <1>3, <1>5, <1>6, <1>8, LandedBody DEF TaskInv

LEMMA TasksElsewhere ==
    ASSUME Requests, TaskInv, NEW r \in open,
           Elsewhere(r, {"TASK_CLAIM", "TASK_COMPLETE"}, {"tasks", "signed_envelopes", "social_graph"})
    PROVE  TaskInv'
<1>1. PICK table \in Tables \ {"tasks", "signed_envelopes", "social_graph"} : Stores(r, r.msg.type, table)
  BY DEF Elsewhere
<1>2. "tasks" \in Tables
  BY DEF Tables
<1>3. CASE Reject(r)
  BY <1>2, <1>3, RejectBeside DEF Beside, TaskInv
<1>4. CASE \E rows : Store(r, table, rows)
  <2>1. Landed' \subseteq Landed \cup {r.msg} /\ db'["tasks"] = db["tasks"]
    BY <1>1, <1>2, <1>4, StoreRequests
  <2>2. QED
    BY <2>1 DEF TaskInv, Elsewhere
<1>5. QED
  BY <1>1, <1>3, <1>4 DEF Stores

LEMMA TasksHold == HubSpec => []TaskInv
<1>1. HubInit => TaskInv
  BY RequestsInit DEF TaskInv, Tables
<1>2. Requests /\ TaskInv /\ [HubNext]_hubVars => TaskInv'
  <2> SUFFICES ASSUME Requests, TaskInv, [HubNext]_hubVars PROVE TaskInv'
    OBVIOUS
  <2>0. "tasks" \in Tables
    BY DEF Tables
  <2>1. CASE Beside
    BY <2>0, <2>1 DEF Beside, TaskInv
  <2>2. ASSUME NEW r \in open, Write(r) PROVE TaskInv'
    <3>1. CASE Reject(r)
      BY <2>0, <3>1, RejectBeside DEF Beside, TaskInv
    <3>2. CASE ~Reject(r)
      BY <2>2, <3>2, TaskWrites, TaskAddKeeps, TaskClaimKeeps, TaskCompleteKeeps, TasksElsewhere
    <3>3. QED
      BY <3>1, <3>2
  <2>3. ASSUME NEW m, StoreFromPeer(m) PROVE TaskInv'
    BY <2>0, <2>3, PeerCopies DEF TaskInv
  <2>4. CASE RunStoriesCleanup
    BY <2>0, <2>4, Cleanup DEF TaskInv
  <2>5. QED
    BY <2>1, <2>2, <2>3, <2>4, StepKinds
<1>3. QED
  BY <1>1, <1>2, RequestsHold, PTL DEF HubSpec

\* submit.ts:564-607: any number of tasks, users, competing claims, retries and
\* lost answers.
THEOREM TasksHaveOutcomes == HubSpec => []TaskOutcome
<1>1. TaskInv => TaskOutcome
  BY DEF TaskInv, TaskOutcome, TasksIn, TaskRowSound, Landed, HasClaim, HasCompletion
<1>2. QED
  BY <1>1, TasksHold, PTL

----------------------------------------------------------------------------
(* Votes *)

LEMMA VoteWrites ==
    ASSUME NEW r, Write(r)
    PROVE  \/ PollAdd(r) \/ PollVote(r)
           \/ Elsewhere(r, {}, {"polls", "poll_votes", "signed_envelopes", "social_graph"})
BY TweetAddStores, TweetRemoveStores, ReactionAddStores, ReactionRemoveStores, UserDataAddStores,
   ChannelAddStores, ChannelJoinStores, ChannelLeaveStores, EventAddStores, EventRsvpStores,
   TaskAddStores, TaskClaimStores, TaskCompleteStores, CrowdfundAddStores, CrowdfundPledgeStores,
   TipAddStores, BookmarkAddStores, BookmarkRemoveStores, StoryAddStores, StoryViewStores
   DEF Write, Elsewhere, Stores, Writing, Tables

\* A poll has one row, which never changes: what a vote's request saw of it holds on.
PollsInv ==
    /\ \A p, q \in db["polls"] : p.id = q.id => p = q
    /\ \A p \in db["polls"] : p.expires \in Int
    /\ \A r \in open : r.step = "write" /\ r.msg.type = "POLL_VOTE" =>
         /\ r.looked \in Nat \ {0}
         /\ \E p \in db["polls"] : p.id = r.msg.on /\ (p.expires = 0 \/ r.looked <= p.expires)

VoteSawPoll ==
    \A v \in db'.poll_votes \ db.poll_votes : \A p \in db'.polls :
        p.id = v.poll /\ p.expires # 0 =>
            \E r \in open : r.msg.hash = v.hash /\ r.looked \in 1 .. p.expires

LEMMA FoundPoll ==
    ASSUME PollsInv, NEW m, m.type = "POLL_VOTE", Found(m), now \in Nat \ {0}
    PROVE  \E p \in db["polls"] : p.id = m.on /\ (p.expires = 0 \/ now <= p.expires)
BY DEF Found, Expired, PollsInv

LEMMA VotesBeside ==
    ASSUME Requests, PollsInv, Beside
    PROVE  PollsInv' /\ db'["poll_votes"] = db["poll_votes"]
<1>1. db'["polls"] = db["polls"] /\ db'["poll_votes"] = db["poll_votes"]
  BY DEF Beside, Tables
<1>2. ASSUME NEW r \in open', r.step = "write", r.msg.type = "POLL_VOTE"
      PROVE  /\ r.looked \in Nat \ {0}
             /\ \E p \in db["polls"] : p.id = r.msg.on /\ (p.expires = 0 \/ r.looked <= p.expires)
  <2>1. r \in open \/ (Found(r.msg) /\ r.looked = now)
    BY <1>2 DEF Beside, Looked
  <2>2. QED
    BY <1>2, <2>1, FoundPoll DEF PollsInv, Requests
<1>3. QED
  BY <1>1, <1>2 DEF PollsInv

LEMMA PollAddKeeps ==
    ASSUME Requests, PollsInv, NEW r \in open, PollAdd(r)
    PROVE  PollsInv' /\ db'["poll_votes"] = db["poll_votes"]
<1>1. r.msg \in Body
  BY DEF Requests, Request
<1> DEFINE row == [id |-> r.msg.on, creator |-> r.msg.tid, options |-> r.msg.num, expires |-> r.msg.until]
<1>2. row.expires \in Int /\ row.id = r.msg.on
  BY <1>1 DEF Body
<1> HIDE DEF row
<1>3. PICK rows : /\ Store(r, "polls", rows)
                  /\ rows = InsertNew(db["polls"], {"id"}, row)
  BY DEF PollAdd, row
<1>4. db'["polls"] = rows /\ db'["poll_votes"] = db["poll_votes"] /\ \A q \in open' : q \in open \/ q.step = "stored"
  BY <1>3, StoreRequests DEF Tables
<1>5. rows = db["polls"] \/ (rows = db["polls"] \cup {row} /\ \A old \in db["polls"] : old.id # row.id)
  BY <1>3 DEF InsertNew, Same
<1>6. QED
  BY <1>2, <1>4, <1>5 DEF PollsInv

LEMMA PollVoteKeeps ==
    ASSUME Requests, PollsInv, NEW r \in open, PollVote(r)
    PROVE  PollsInv' /\ VoteSawPoll
<1>1. r.step = "write" /\ r.msg.type = "POLL_VOTE"
  BY DEF PollVote, Writing
<1> DEFINE row == [hash |-> r.msg.hash, poll |-> r.msg.on, tid |-> r.msg.tid, option |-> r.msg.num, at |-> r.msg.at]
<1>2. row.hash = r.msg.hash /\ row.poll = r.msg.on
  OBVIOUS
<1> HIDE DEF row
<1>3. PICK rows : Store(r, "poll_votes", rows) /\ rows = Upsert(db["poll_votes"], {"poll", "tid"}, row)
  BY DEF PollVote, row
<1>4. /\ db'["poll_votes"] = rows /\ db'["polls"] = db["polls"]
      /\ \A q \in open' : q \in open \/ q.step = "stored"
  BY <1>3, StoreRequests DEF Tables
<1>5. \A v \in rows \ db["poll_votes"] : v = row
  BY <1>3 DEF Upsert
<1>6. PollsInv'
  BY <1>4 DEF PollsInv
<1>7. VoteSawPoll
  <2> SUFFICES ASSUME NEW v \in db'["poll_votes"] \ db["poll_votes"], NEW p \in db'["polls"],
                      p.id = v.poll, p.expires # 0
               PROVE  r.msg.hash = v.hash /\ r.looked \in 1 .. p.expires
    BY DEF VoteSawPoll
  <2>1. v = row /\ p \in db["polls"] /\ p.id = r.msg.on
    BY <1>2, <1>4, <1>5
  <2>2. PICK q \in db["polls"] : q.id = r.msg.on /\ (q.expires = 0 \/ r.looked <= q.expires)
    BY <1>1 DEF PollsInv
  <2>3. q = p /\ p.expires \in Int /\ r.looked \in Nat \ {0}
    BY <1>1, <2>1, <2>2 DEF PollsInv
  <2>4. QED
    BY <1>2, <2>1, <2>2, <2>3
<1>8. QED
  BY <1>6, <1>7

LEMMA VotesElsewhere ==
    ASSUME Requests, PollsInv, NEW r \in open,
           Elsewhere(r, {}, {"polls", "poll_votes", "signed_envelopes", "social_graph"})
    PROVE  PollsInv' /\ db'["poll_votes"] = db["poll_votes"]
<1>1. PICK table \in Tables \ {"polls", "poll_votes", "signed_envelopes", "social_graph"} :
          Stores(r, r.msg.type, table)
  BY DEF Elsewhere
<1>2. CASE Reject(r)
  BY <1>2, RejectBeside, VotesBeside
<1>3. CASE \E rows : Store(r, table, rows)
  <2>1. /\ db'["polls"] = db["polls"] /\ db'["poll_votes"] = db["poll_votes"]
        /\ \A q \in open' : q \in open \/ q.step = "stored"
    BY <1>1, <1>3, StoreRequests DEF Tables
  <2>2. QED
    BY <2>1 DEF PollsInv
<1>4. QED
  BY <1>1, <1>2, <1>3 DEF Stores

\* submit.ts:389-435: however many votes, polls and repeated announcements, and
\* however the requests overlap.
THEOREM VotesAreInTime == HubSpec => VotesInTime
<1>1. HubInit => PollsInv
  BY RequestsInit DEF PollsInv, Tables
<1>2. Requests /\ PollsInv /\ [HubNext]_hubVars => PollsInv' /\ [VoteSawPoll]_db
  <2> SUFFICES ASSUME Requests, PollsInv, [HubNext]_hubVars PROVE PollsInv' /\ [VoteSawPoll]_db
    OBVIOUS
  <2>0. db'["poll_votes"] = db["poll_votes"] => VoteSawPoll
    BY DEF VoteSawPoll
  <2>1. CASE Beside
    BY <2>0, <2>1, VotesBeside
  <2>2. ASSUME NEW r \in open, Write(r) PROVE PollsInv' /\ VoteSawPoll
    BY <2>0, <2>2, VoteWrites, PollAddKeeps, PollVoteKeeps, VotesElsewhere
  <2>3. ASSUME NEW m, StoreFromPeer(m) PROVE PollsInv' /\ VoteSawPoll
    <3>1. db'["polls"] = db["polls"] /\ db'["poll_votes"] = db["poll_votes"] /\ open' = open
      BY <2>3, PeerCopies DEF Tables
    <3>2. QED
      BY <2>0, <3>1 DEF PollsInv
  <2>4. CASE RunStoriesCleanup
    <3>1. db'["polls"] = db["polls"] /\ db'["poll_votes"] = db["poll_votes"] /\ open' = open
      BY <2>4, Cleanup DEF Tables
    <3>2. QED
      BY <2>0, <3>1 DEF PollsInv
  <2>5. QED
    BY <2>1, <2>2, <2>3, <2>4, StepKinds
<1>3. QED
  BY <1>1, <1>2, RequestsHold, PTL DEF HubSpec, VotesInTime, VoteSawPoll

----------------------------------------------------------------------------
(* Stories *)

\* A body that a request has, or that was answered or pushed, is the one message
\* of its hash, but for what decoding changed.
LEMMA Origin ==
    ASSUME Requests, NEW m \in Landed \cup pushed \cup {r.msg : r \in open}
    PROVE  /\ m \in Body /\ \E x \in Messages : x.hash = m.hash
           /\ \A x \in Messages : x.hash = m.hash =>
                x.type = m.type /\ x.tid = m.tid /\ x.at = m.at /\ x.on = m.on
<1>1. PICK x \in Messages : m = Wire(x)
  BY DEF Requests, Landed
<1>2. \A y \in Messages : y.hash = x.hash => y = x
  BY FeatureAssumption
<1>3. QED
  BY <1>1, <1>2, MessagesTyped, WireKeeps

LEMMA StoryWrites ==
    ASSUME NEW r, Write(r)
    PROVE  \/ StoryAdd(r) \/ StoryView(r)
           \/ Elsewhere(r, {"STORY_ADD", "STORY_VIEW"}, {"stories", "story_views", "signed_envelopes", "social_graph"})
BY TweetAddStores, TweetRemoveStores, ReactionAddStores, ReactionRemoveStores, UserDataAddStores,
   ChannelAddStores, ChannelJoinStores, ChannelLeaveStores, PollAddStores, PollVoteStores,
   EventAddStores, EventRsvpStores, TaskAddStores, TaskClaimStores, TaskCompleteStores,
   CrowdfundAddStores, CrowdfundPledgeStores, TipAddStores, BookmarkAddStores, BookmarkRemoveStores
   DEF Write, Elsewhere, Stores, Writing, Tables

\* A row's expiry is its message's, so an expired story takes only views of itself;
\* a view that was accepted is there, or its story has expired for good.
StoriesInv ==
    /\ \A s \in db["stories"] : \E x \in Messages :
         s.hash = x.hash /\ s.tid = x.tid /\ s.expires = x.at + StoryTtl
    /\ \A v \in db["story_views"] : \E s \in db["stories"] : s.hash = v.story
    /\ \A m \in Landed :
         /\ m.type = "STORY_ADD" /\ now <= m.at + StoryTtl => \E s \in db["stories"] : s.hash = m.hash
         /\ m.type = "STORY_VIEW" =>
              \/ \E v \in db["story_views"] : v.story = m.on /\ v.tid = m.tid
              \/ \A x \in Messages : x.hash = m.on => x.at + StoryTtl < now

LEMMA StoryNumbers == StoryTtl \in Nat /\ \A x \in Messages : x.at \in Nat
BY FeatureAssumption, MessagesTyped DEF Body

LEMMA StoriesBeside ==
    ASSUME Requests, StoriesInv, Landed' \subseteq Landed, now' \in Nat, now <= now',
           db'["stories"] = db["stories"], db'["story_views"] = db["story_views"]
    PROVE  StoriesInv'
<1>1. now \in Nat /\ Landed \subseteq Body
  BY LandedBody DEF Requests
<1>2. ASSUME NEW m \in Landed, now' <= m.at + StoryTtl PROVE now <= m.at + StoryTtl
  BY <1>1, <1>2, StoryNumbers DEF Body
<1>3. ASSUME NEW x \in Messages, x.at + StoryTtl < now PROVE x.at + StoryTtl < now'
  BY <1>1, <1>3, StoryNumbers
<1>4. QED
  BY <1>2, <1>3 DEF StoriesInv

LEMMA StoryAddKeeps ==
    ASSUME Requests, StoriesInv, NEW r \in open, StoryAdd(r)
    PROVE  StoriesInv'
<1>1. r.msg.type = "STORY_ADD"
  BY DEF StoryAdd, Writing
<1> DEFINE row == [hash |-> r.msg.hash, tid |-> r.msg.tid, at |-> r.msg.at, expires |-> r.msg.at + StoryTtl]
<1>2. \E x \in Messages : row.hash = x.hash /\ row.tid = x.tid /\ row.expires = x.at + StoryTtl
  BY Origin
<1>3. row.hash = r.msg.hash
  OBVIOUS
<1> HIDE DEF row
<1>4. PICK rows : Store(r, "stories", rows) /\ rows = InsertNew(db["stories"], {"hash"}, row)
  BY DEF StoryAdd, row
<1>5. /\ db'["stories"] = rows /\ db'["story_views"] = db["story_views"] /\ now' = now
      /\ Landed' \subseteq Landed \cup {r.msg}
  BY <1>4, StoreRequests DEF Tables
<1>6. (rows = db["stories"] \/ rows = db["stories"] \cup {row}) /\ \E s \in rows : s.hash = row.hash
  BY <1>4 DEF InsertNew, Same
<1>7. QED
  BY <1>1, <1>2, <1>3, <1>5, <1>6 DEF StoriesInv

LEMMA StoryViewKeeps ==
    ASSUME Requests, StoriesInv, NEW r \in open, StoryView(r)
    PROVE  StoriesInv' \/ Reject(r)
<1> SUFFICES ASSUME ~Reject(r) PROVE StoriesInv'
  OBVIOUS
<1>1. r.msg.type = "STORY_VIEW" /\ \E s \in db["stories"] : s.hash = r.msg.on
  BY DEF StoryView, Writing
<1> DEFINE row == [story |-> r.msg.on, tid |-> r.msg.tid, at |-> r.msg.at]
<1>2. row.story = r.msg.on /\ row.tid = r.msg.tid
  OBVIOUS
<1> HIDE DEF row
<1>3. PICK rows : Store(r, "story_views", rows) /\ rows = InsertNew(db["story_views"], {"story", "tid"}, row)
  BY DEF StoryView, row
<1>4. /\ db'["story_views"] = rows /\ db'["stories"] = db["stories"] /\ now' = now
      /\ Landed' \subseteq Landed \cup {r.msg}
  BY <1>3, StoreRequests DEF Tables
<1>5. /\ rows = db["story_views"] \/ rows = db["story_views"] \cup {row}
      /\ \E v \in rows : v.story = row.story /\ v.tid = row.tid
  BY <1>3 DEF InsertNew, Same
<1>6. QED
  BY <1>1, <1>2, <1>4, <1>5 DEF StoriesInv

LEMMA CleanupKeeps ==
    ASSUME Requests, StoriesInv, RunStoriesCleanup
    PROVE  StoriesInv'
<1> DEFINE dead == {s \in db["stories"] : s.expires < now}
<1>1. /\ db'["stories"] = db["stories"] \ dead
      /\ db'["story_views"] = {v \in db["story_views"] : \A s \in dead : s.hash # v.story}
      /\ now' = now /\ Landed' = Landed
  BY Cleanup
<1>2. now \in Nat
  BY DEF Requests
<1>3. ASSUME NEW m \in Landed, m.type = "STORY_ADD", now <= m.at + StoryTtl
      PROVE  \E s \in db["stories"] \ dead : s.hash = m.hash
  <2>1. PICK s \in db["stories"] : s.hash = m.hash
    BY <1>3 DEF StoriesInv
  <2>2. PICK x \in Messages : s.hash = x.hash /\ s.expires = x.at + StoryTtl
    BY DEF StoriesInv
  <2>3. x.at = m.at
    BY <2>1, <2>2, Origin
  <2>4. QED
    BY <1>2, <1>3, <2>1, <2>2, <2>3, StoryNumbers
<1>4. ASSUME NEW v \in db["story_views"], NEW s \in dead, s.hash = v.story
      PROVE  \A x \in Messages : x.hash = v.story => x.at + StoryTtl < now
  <2>1. PICK x \in Messages : s.hash = x.hash /\ s.expires = x.at + StoryTtl
    BY DEF StoriesInv
  <2>2. \A y \in Messages : y.hash = x.hash => y = x
    BY FeatureAssumption
  <2>3. QED
    BY <1>4, <2>1, <2>2
<1>5. QED
  BY <1>1, <1>3, <1>4 DEF StoriesInv

LEMMA StoriesElsewhere ==
    ASSUME Requests, StoriesInv, NEW r \in open,
           Elsewhere(r, {"STORY_ADD", "STORY_VIEW"}, {"stories", "story_views", "signed_envelopes", "social_graph"})
    PROVE  StoriesInv'
<1>1. PICK table \in Tables \ {"stories", "story_views", "signed_envelopes", "social_graph"} :
          Stores(r, r.msg.type, table)
  BY DEF Elsewhere
<1>2. CASE Reject(r)
  BY <1>2, RejectBeside, StoriesBeside DEF Beside, Tables
<1>3. CASE \E rows : Store(r, table, rows)
  <2>1. /\ db'["stories"] = db["stories"] /\ db'["story_views"] = db["story_views"] /\ now' = now
        /\ Landed' \subseteq Landed \cup {r.msg}
    BY <1>1, <1>3, StoreRequests DEF Tables
  <2>2. QED
    BY <2>1 DEF StoriesInv, Elsewhere
<1>4. QED
  BY <1>1, <1>2, <1>3 DEF Stores

LEMMA StoriesAreKept == Requests /\ StoriesInv => StoriesKept
<1> SUFFICES ASSUME Requests, StoriesInv PROVE StoriesKept
  OBVIOUS
<1>1. accepted \subseteq Landed /\ now \in Nat
  BY DEF Landed, Requests
<1>2. ASSUME NEW m \in accepted, m.type = "STORY_ADD", m.at + StoryTtl > now
      PROVE  \E s \in Stories(m.tid) \cap StoriesOf(m.tid) : s.hash = m.hash
  <2>1. m.at \in Nat
    BY <1>1, Origin DEF Body
  <2>2. PICK s \in db["stories"] : s.hash = m.hash
    BY <1>1, <1>2, <2>1, StoryNumbers DEF StoriesInv
  <2>3. PICK x \in Messages : s.hash = x.hash /\ s.tid = x.tid /\ s.expires = x.at + StoryTtl
    BY DEF StoriesInv
  <2>4. s.tid = m.tid /\ s.expires > now
    BY <1>1, <1>2, <2>2, <2>3, Origin
  <2>5. QED
    BY <2>2, <2>4 DEF Stories, StoriesOf
<1>3. ASSUME NEW m \in accepted, m.type = "STORY_VIEW",
             NEW s \in db["stories"], s.hash = m.on, s.expires > now
      PROVE  \E v \in Viewers(m.on, s.tid) : v.tid = m.tid
  <2>1. PICK x \in Messages : s.hash = x.hash /\ s.expires = x.at + StoryTtl
    BY DEF StoriesInv
  <2>2. ~(x.at + StoryTtl < now)
    BY <1>1, <1>3, <2>1, StoryNumbers
  <2>3. PICK v \in db["story_views"] : v.story = m.on /\ v.tid = m.tid
    BY <1>1, <1>3, <2>1, <2>2 DEF StoriesInv
  <2>4. QED
    BY <1>3, <2>3 DEF Viewers
<1>4. QED
  BY <1>2, <1>3 DEF StoriesKept, StoriesInv

\* submit.ts:815-884, stories-cleanup.ts: however often the reaper runs, between
\* whatever requests, retries, lost answers and restarts.
THEOREM StoriesStay == HubSpec => []StoriesKept
<1>1. HubInit => StoriesInv
  BY RequestsInit DEF StoriesInv, Tables
<1>2. Requests /\ StoriesInv /\ [HubNext]_hubVars => StoriesInv'
  <2> SUFFICES ASSUME Requests, StoriesInv, [HubNext]_hubVars PROVE StoriesInv'
    OBVIOUS
  <2>1. CASE Beside
    BY <2>1, StoriesBeside DEF Beside, Tables
  <2>2. ASSUME NEW r \in open, Write(r) PROVE StoriesInv'
    <3>1. CASE Reject(r)
      BY <3>1, RejectBeside, StoriesBeside DEF Beside, Tables
    <3>2. CASE ~Reject(r)
      BY <2>2, <3>2, StoryWrites, StoryAddKeeps, StoryViewKeeps, StoriesElsewhere
    <3>3. QED
      BY <3>1, <3>2
  <2>3. ASSUME NEW m, StoreFromPeer(m) PROVE StoriesInv'
    BY <2>3, PeerCopies, StoriesBeside DEF Tables, Requests
  <2>4. QED
    BY <2>1, <2>2, <2>3, CleanupKeeps, StepKinds
<1>3. QED
  BY <1>1, <1>2, StoriesAreKept, RequestsHold, PTL DEF HubSpec

----------------------------------------------------------------------------
(* Removed tweets *)

\* What a statement on the messages table adds, if its hash is new.
AddsMessage(r) ==
    \E text, parent :
        /\ r.msg.type \in MessageTypes /\ (r.msg.type = "TWEET_REMOVE" => text = r.msg.on)
        /\ r.msg.type \in {"REACTION_ADD", "REACTION_REMOVE"} => parent = r.msg.on
        /\ Store(r, "messages", InsertNew(db["messages"], {"hash"}, MessageRow(r.msg, text, parent)))

LEMMA TweetAddAdds == \A r : TweetAdd(r) => AddsMessage(r)
BY Zenon DEF TweetAdd, AddsMessage, Writing, MessageTypes
LEMMA TweetRemoveAdds == \A r : TweetRemove(r) => AddsMessage(r)
BY Zenon DEF TweetRemove, AddsMessage, Writing, MessageTypes
LEMMA ReactionAddAdds == \A r : ReactionAdd(r) => AddsMessage(r)
BY Zenon DEF ReactionAdd, AddsMessage, Writing, MessageTypes
LEMMA ReactionRemoveAdds == \A r : ReactionRemove(r) => AddsMessage(r)
BY Zenon DEF ReactionRemove, AddsMessage, Writing, MessageTypes

LEMMA MessageWrites ==
    ASSUME NEW r, Write(r)
    PROVE  AddsMessage(r) \/ Elsewhere(r, MessageTypes, {"messages", "signed_envelopes", "social_graph"})
BY TweetAddAdds, TweetRemoveAdds, ReactionAddAdds, ReactionRemoveAdds, UserDataAddStores,
   ChannelAddStores, ChannelJoinStores, ChannelLeaveStores, PollAddStores, PollVoteStores,
   EventAddStores, EventRsvpStores, TaskAddStores, TaskClaimStores, TaskCompleteStores,
   CrowdfundAddStores, CrowdfundPledgeStores, TipAddStores, BookmarkAddStores, BookmarkRemoveStores,
   StoryAddStores, StoryViewStores
   DEF Write, Elsewhere, Stores, Writing, Tables, MessageTypes

Hides(row, x) == row.type = "TWEET_REMOVE" /\ row.tid = x.tid /\ row.text = x.on

\* A removal's row names its tweet unless a peer may have sent it: the hub had
\* it in its table before it pushed it, and takes no copy of a message it has.
RemovalInv ==
    \A x \in Messages \ abroad : x.type = "TWEET_REMOVE" =>
        /\ \A row \in db["messages"] : row.hash = x.hash => Hides(row, x)
        /\ \A m \in Landed \cup pushed : m.hash = x.hash => \E row \in db["messages"] : row.hash = x.hash

LEMMA MessageAddKeeps ==
    ASSUME Requests, RemovalInv, NEW r \in open, AddsMessage(r)
    PROVE  RemovalInv'
<1>1. PICK text, parent :
        /\ r.msg.type \in MessageTypes /\ (r.msg.type = "TWEET_REMOVE" => text = r.msg.on)
        /\ r.msg.type \in {"REACTION_ADD", "REACTION_REMOVE"} => parent = r.msg.on
        /\ Store(r, "messages", InsertNew(db["messages"], {"hash"}, MessageRow(r.msg, text, parent)))
  BY DEF AddsMessage
<1> DEFINE row == MessageRow(r.msg, text, parent)
           rows == InsertNew(db["messages"], {"hash"}, row)
<1>2. row.hash = r.msg.hash /\ row.tid = r.msg.tid /\ row.type = r.msg.type /\ row.text = text
  BY DEF MessageRow
<1>3. /\ db'["messages"] = rows /\ UNCHANGED <<pushed, abroad>> /\ Landed' \subseteq Landed \cup {r.msg}
  BY <1>1, StoreRequests DEF Tables
<1> HIDE DEF row
<1>4. (rows = db["messages"] \/ rows = db["messages"] \cup {row}) /\ \E old \in rows : old.hash = row.hash
  BY DEF InsertNew, Same
<1>5. ASSUME NEW x \in Messages, x.type = "TWEET_REMOVE", row.hash = x.hash PROVE Hides(row, x)
  BY <1>1, <1>2, <1>5, Origin DEF Hides
<1> HIDE DEF rows
<1>6. QED
  BY <1>2, <1>3, <1>4, <1>5 DEF RemovalInv

LEMMA ProjectedHash ==
    ASSUME Requests, NEW m, StoreFromPeer(m), NEW asked
    PROVE  Projected(m, asked).hash = m.hash
<1>1. m \in Body
  BY LandedBody DEF StoreFromPeer
<1>2. \A text, parent : MessageRow([m EXCEPT !.val = Blank], text, parent).hash = m.hash
  BY <1>1 DEF MessageRow, Body
<1>3. QED
  BY <1>2 DEF Projected

LEMMA PeerCopyKeeps ==
    ASSUME Requests, RemovalInv, NEW m, StoreFromPeer(m)
    PROVE  RemovalInv'
<1>1. m \in pushed \cup abroad /\ ~Duplicate(m)
  BY DEF StoreFromPeer
<1>2. PICK asked \in BOOLEAN : db'["messages"] = db["messages"] \cup {Projected(m, asked)}
  BY PeerCopies
<1>3. UNCHANGED <<pushed, abroad, Landed>>
  BY PeerCopies
<1>4. Projected(m, asked).hash = m.hash
  BY ProjectedHash
<1>5. ASSUME NEW x \in Messages \ abroad, x.type = "TWEET_REMOVE" PROVE x.hash # m.hash
  <2>1. CASE m \in abroad
    BY <2>1, FeatureAssumption DEF Requests
  <2>2. CASE m \in pushed
    BY <1>1, <1>5, <2>2 DEF RemovalInv, Duplicate
  <2>3. QED
    BY <1>1, <2>1, <2>2
<1>6. QED
  BY <1>2, <1>3, <1>4, <1>5 DEF RemovalInv

LEMMA MessagesElsewhere ==
    ASSUME Requests, RemovalInv, NEW r \in open,
           Elsewhere(r, MessageTypes, {"messages", "signed_envelopes", "social_graph"})
    PROVE  RemovalInv'
<1>1. PICK table \in Tables \ {"messages", "signed_envelopes", "social_graph"} : Stores(r, r.msg.type, table)
  BY DEF Elsewhere
<1>2. CASE Reject(r)
  BY <1>2, RejectBeside DEF Beside, Tables, RemovalInv
<1>3. CASE \E rows : Store(r, table, rows)
  <2>1. /\ db'["messages"] = db["messages"] /\ UNCHANGED <<pushed, abroad>>
        /\ Landed' \subseteq Landed \cup {r.msg}
    BY <1>1, <1>3, StoreRequests DEF Tables
  <2>2. ASSUME NEW x \in Messages, x.type = "TWEET_REMOVE" PROVE r.msg.hash # x.hash
    BY <2>2, Origin DEF Elsewhere, MessageTypes
  <2>3. QED
    BY <2>1, <2>2 DEF RemovalInv
<1>4. QED
  BY <1>1, <1>2, <1>3 DEF Stores

LEMMA HiddenEverywhere == Requests /\ RemovalInv => RemovedTweetsHidden
<1> SUFFICES ASSUME Requests, RemovalInv, NEW x \in accepted \ abroad, x.type = "TWEET_REMOVE"
             PROVE  LET gone(rows) == \A t \in rows : t.hash # x.on \/ t.tid # x.tid IN
                    /\ gone(Feed) /\ gone(Message(x.on)) /\ gone(Search("said")) /\ gone(Reels)
                    /\ \A t \in Rows("TWEET_ADD") : gone(Replies(t.hash)) /\ gone(ChannelFeed(t.chan))
                    /\ \A tid \in Tids :
                         /\ gone({u.tweet : u \in UserFeed(tid)}) /\ gone(Likes(tid))
                         /\ gone({a.row : a \in {y \in Activity(tid) : y.kind \in {"tweet", "tweet_reply"}}})
  BY Zenon DEF RemovedTweetsHidden
<1> DEFINE gone(rows) == \A t \in rows : t.hash # x.on \/ t.tid # x.tid
<1>1. x \in Messages \ abroad
  <2>1. PICK sent \in Messages : x = Wire(sent)
    BY DEF Requests
  <2>2. sent.type = "TWEET_REMOVE"
    BY <2>1, MessagesTyped, WireKeeps
  <2>3. QED
    BY <2>1, <2>2 DEF Wire
<1>2. PICK row \in db.messages : row.type = "TWEET_REMOVE" /\ row.tid = x.tid /\ row.text = x.on
  BY <1>1 DEF RemovalInv, Hides, Landed
<1>3. \A t : t.hash = x.on /\ t.tid = x.tid => Removed(t)
  BY <1>2 DEF Removed, Rows
<1>4. ASSUME NEW rows, \A t \in rows : ~Removed(t) PROVE gone(rows)
  BY <1>3, <1>4
<1>5. gone(Feed) /\ gone(Message(x.on)) /\ gone(Search("said"))
  BY <1>4 DEF Feed, Message, Search
<1>6. gone(Reels)
  BY <1>5 DEF Reels
<1>7. \A t \in Rows("TWEET_ADD") : gone(Replies(t.hash)) /\ gone(ChannelFeed(t.chan))
  BY <1>4 DEF Replies, ChannelFeed
<1>8. ASSUME NEW tid \in Tids PROVE gone({u.tweet : u \in UserFeed(tid)})
  <2>1. \A u \in UserFeed(tid) : ~Removed(u.tweet)
    BY DEF UserFeed
  <2>2. QED
    BY <1>4, <2>1
<1>9. ASSUME NEW tid \in Tids PROVE gone(Likes(tid))
  BY <1>4 DEF Likes
<1>10. ASSUME NEW tid \in Tids
       PROVE  gone({a.row : a \in {y \in Activity(tid) : y.kind \in {"tweet", "tweet_reply"}}})
  <2>1. \A a \in Activity(tid) : a.kind \in {"tweet", "tweet_reply"} => ~Removed(a.row)
    BY DEF Activity
  <2>2. QED
    BY <1>4, <2>1
<1>11. QED
  BY <1>5, <1>6, <1>7, <1>8, <1>9, <1>10

\* submit.ts:176-196: every route over tweets, whichever of a tweet and its
\* removal came first, whatever is handed back by peers.
THEOREM RemovedStayHidden == HubSpec => []RemovedTweetsHidden
<1>1. HubInit => RemovalInv
  BY RequestsInit DEF RemovalInv, Tables
<1>2. Requests /\ RemovalInv /\ [HubNext]_hubVars => RemovalInv'
  <2> SUFFICES ASSUME Requests, RemovalInv, [HubNext]_hubVars PROVE RemovalInv'
    OBVIOUS
  <2>1. CASE Beside
    BY <2>1 DEF Beside, Tables, RemovalInv
  <2>2. ASSUME NEW r \in open, Write(r) PROVE RemovalInv'
    BY <2>2, MessageWrites, MessageAddKeeps, MessagesElsewhere
  <2>3. CASE RunStoriesCleanup
    BY <2>3, Cleanup DEF Tables, RemovalInv
  <2>4. QED
    BY <2>1, <2>2, <2>3, PeerCopyKeeps, StepKinds
<1>3. QED
  BY <1>1, <1>2, HiddenEverywhere, RequestsHold, PTL DEF HubSpec

----------------------------------------------------------------------------
(* Profiles *)

\* LIMIT 1 of a non-empty answer is a row.
LEMMA NewestExists ==
    ASSUME NEW rows, IsFiniteSet(rows), rows # {}, \A row \in rows : row.at \in Nat
    PROVE  Newest(rows) # {}
<1> DEFINE later(row) == {w \in rows : w.at > row.at}
           R == StrictSubsetOrdering(rows)
           T == {later(row) : row \in rows}
<1>1. FiniteSubsetsOf(rows) = SUBSET rows
  BY FS_FiniteSubsetsOfFinite
<1>2. IsWellFoundedOn(R, SUBSET rows)
  BY <1>1, FS_StrictSubsetOrderingWellFounded
<1>3. T \subseteq SUBSET rows /\ T # {}
  OBVIOUS
<1>4. \E x \in T : \A y \in T : <<y, x>> \notin R
  <2> HIDE DEF R, T
  <2>1. QED
    BY <1>2, <1>3, WFMin
<1>5. PICK row \in rows : \A y \in T : <<y, later(row)>> \notin R
  BY <1>4
<1>6. ASSUME NEW w \in later(row) PROVE FALSE
  <2>1. later(w) \subseteq later(row) /\ w \notin later(w) /\ later(w) \in T
    BY <1>6
  <2>2. <<later(w), later(row)>> \in R
    BY <1>6, <2>1 DEF StrictSubsetOrdering
  <2>3. QED
    BY <1>5, <2>1, <2>2
<1>7. row \in Newest(rows)
  BY <1>6 DEF Newest
<1>8. QED
  BY <1>7

LEMMA ProfileWrites ==
    ASSUME NEW r, Write(r)
    PROVE  UserDataAdd(r) \/ Elsewhere(r, {"USER_DATA_ADD"}, {"user_data", "signed_envelopes", "social_graph"})
BY TweetAddStores, TweetRemoveStores, ReactionAddStores, ReactionRemoveStores, ChannelAddStores,
   ChannelJoinStores, ChannelLeaveStores, PollAddStores, PollVoteStores, EventAddStores,
   EventRsvpStores, TaskAddStores, TaskClaimStores, TaskCompleteStores, CrowdfundAddStores,
   CrowdfundPledgeStores, TipAddStores, BookmarkAddStores, BookmarkRemoveStores, StoryAddStores,
   StoryViewStores
   DEF Write, Elsewhere, Stores, Writing, Tables

FieldOf(u, x) == u.hash = x.hash /\ u.tid = x.tid /\ u.field = x.on /\ u.at = x.at

\* A value has the user, field and time of its message, and the one of every
\* accepted message stays.
ProfileInv ==
    /\ IsFiniteSet(db["user_data"])
    /\ \A u \in db["user_data"] : \E x \in Messages : FieldOf(u, x)
    /\ \A m \in Landed : m.type = "USER_DATA_ADD" => \E u \in db["user_data"] : u.hash = m.hash

LEMMA UserDataKeeps ==
    ASSUME Requests, ProfileInv, NEW r \in open, UserDataAdd(r)
    PROVE  ProfileInv'
<1> DEFINE row == [hash |-> r.msg.hash, tid |-> r.msg.tid, field |-> r.msg.on, value |-> r.msg.val, at |-> r.msg.at]
<1>1. \E x \in Messages : FieldOf(row, x)
  BY Origin DEF FieldOf
<1>2. row.hash = r.msg.hash
  OBVIOUS
<1> HIDE DEF row
<1>3. PICK rows : Store(r, "user_data", rows) /\ rows = InsertNew(db["user_data"], {"hash"}, row)
  BY DEF UserDataAdd, row
<1>4. db'["user_data"] = rows /\ Landed' \subseteq Landed \cup {r.msg}
  BY <1>3, StoreRequests DEF Tables
<1>5. (rows = db["user_data"] \/ rows = db["user_data"] \cup {row}) /\ \E u \in rows : u.hash = row.hash
  BY <1>3 DEF InsertNew, Same
<1>6. IsFiniteSet(rows)
  BY <1>5, FS_AddElement DEF ProfileInv
<1>7. QED
  BY <1>1, <1>2, <1>4, <1>5, <1>6 DEF ProfileInv

LEMMA ProfilesElsewhere ==
    ASSUME Requests, ProfileInv, NEW r \in open,
           Elsewhere(r, {"USER_DATA_ADD"}, {"user_data", "signed_envelopes", "social_graph"})
    PROVE  ProfileInv'
<1>1. PICK table \in Tables \ {"user_data", "signed_envelopes", "social_graph"} : Stores(r, r.msg.type, table)
  BY DEF Elsewhere
<1>2. CASE Reject(r)
  BY <1>2, RejectBeside DEF Beside, Tables, ProfileInv
<1>3. CASE \E rows : Store(r, table, rows)
  <2>1. db'["user_data"] = db["user_data"] /\ Landed' \subseteq Landed \cup {r.msg}
    BY <1>1, <1>3, StoreRequests DEF Tables
  <2>2. QED
    BY <2>1 DEF ProfileInv, Elsewhere
<1>4. QED
  BY <1>1, <1>2, <1>3 DEF Stores

LEMMA ProfileShown == Requests /\ ProfileInv => ProfileIsNewest
<1> SUFFICES ASSUME Requests, ProfileInv PROVE ProfileIsNewest
  OBVIOUS
<1> DEFINE ofField(m, tid, field) == m.type = "USER_DATA_ADD" /\ m.tid = tid /\ m.on = field
           current(u) == \A m \in accepted : ofField(m, u.tid, u.field) => m.at <= u.at
           rows(tid, field) == {u \in db.user_data : u.tid = tid /\ u.field = field}
<1>1. \A u \in db.user_data : u.at \in Nat
  BY MessagesTyped DEF ProfileInv, FieldOf, Body
<1>2. ASSUME NEW m \in accepted, m.type = "USER_DATA_ADD"
      PROVE  \E w \in db.user_data : w.tid = m.tid /\ w.field = m.on /\ w.at = m.at
  <2>1. PICK w \in db["user_data"] : w.hash = m.hash
    BY <1>2 DEF ProfileInv, Landed
  <2>2. PICK x \in Messages : FieldOf(w, x)
    BY DEF ProfileInv
  <2>3. QED
    BY <2>1, <2>2, Origin DEF FieldOf, Landed
<1>3. ASSUME NEW tid, NEW field, NEW u \in Profile(tid, field)
      PROVE  u \in db.user_data /\ u.tid = tid /\ u.field = field /\ current(u)
  <2>1. u \in rows(tid, field) /\ \A other \in rows(tid, field) : other.at <= u.at
    BY DEF Profile, Newest
  <2>2. QED
    BY <1>2, <2>1
<1>4. ASSUME NEW m \in accepted, m.type = "USER_DATA_ADD"
      PROVE  Profile(m.tid, m.on) # {} /\ \A u \in Profile(m.tid, m.on) : u.at >= m.at
  <2>1. rows(m.tid, m.on) # {} /\ rows(m.tid, m.on) \subseteq db.user_data
    BY <1>2, <1>4
  <2>2. IsFiniteSet(rows(m.tid, m.on))
    BY FS_Subset DEF ProfileInv
  <2>3. Profile(m.tid, m.on) # {}
    BY <1>1, <2>1, <2>2, NewestExists DEF Profile
  <2>4. m.at \in Nat
    BY LandedBody DEF Requests, Body
  <2>5. \A u \in Profile(m.tid, m.on) : u.at >= m.at
    BY <1>1, <1>3, <1>4, <2>4
  <2>6. QED
    BY <2>3, <2>5
<1> DEFINE holds(tid, fields, value) ==
             \E u \in db.user_data : /\ u.tid = tid /\ u.field \in fields /\ u.value = value
                                     /\ \A m \in accepted : ofField(m, tid, u.field) => m.at <= u.at
<1>5. ASSUME NEW fields, NEW tid, NEW field \in fields, NEW value \in Values(tid, field)
      PROVE  holds(tid, fields, value)
  BY <1>3 DEF Values
<1>6. \A value : \A tid \in SearchUsers(value) : holds(tid, {"displayName", "bio"}, value)
  <2> SUFFICES ASSUME NEW value, NEW tid \in SearchUsers(value)
               PROVE  holds(tid, {"displayName", "bio"}, value)
    OBVIOUS
  <2>1. PICK field \in {"displayName", "bio"} : value \in Values(tid, field)
    BY DEF SearchUsers
  <2> HIDE DEF holds
  <2>2. QED
    BY <1>5, <2>1
<1>7. \A row \in Users : \A value \in row.bio : holds(row.tid, {"bio"}, value)
  <2> SUFFICES ASSUME NEW row \in Users, NEW value \in row.bio PROVE holds(row.tid, {"bio"}, value)
    OBVIOUS
  <2>1. \A tid, bio, in, out :
          LET user == [tid |-> tid, bio |-> bio, followers |-> in, following |-> out] IN
          user.tid = tid /\ user.bio = bio
    OBVIOUS
  <2>2. \E tid, in, out :
          row = [tid |-> tid, bio |-> Values(tid, "bio"), followers |-> in, following |-> out]
    BY Zenon DEF Users, UserRows
  <2>3. value \in Values(row.tid, "bio")
    BY <2>1, <2>2
  <2> HIDE DEF holds
  <2>4. QED
    BY <1>5, <2>3
<1>8. \A m \in {x \in accepted : x.type = "USER_DATA_ADD"} :
        LET shown == Profile(m.tid, m.on) IN shown # {} /\ \A u \in shown : u.at >= m.at
  BY <1>4
<1>9. \A u \in db.user_data : \A tid \in SearchUsers(u.value) : holds(tid, {"displayName", "bio"}, u.value)
  <2> HIDE DEF holds
  <2>1. QED
    BY <1>6
<1>10. QED
  BY <1>7, <1>8, <1>9, Zenon DEF ProfileIsNewest

\* 003_user_data.sql:2, users.ts, search.ts: whatever order values arrive in.
THEOREM ProfilesAreNewest == HubSpec => []ProfileIsNewest
<1>1. HubInit => ProfileInv
  BY RequestsInit, FS_EmptySet DEF ProfileInv, Tables
<1>2. Requests /\ ProfileInv /\ [HubNext]_hubVars => ProfileInv'
  <2> SUFFICES ASSUME Requests, ProfileInv, [HubNext]_hubVars PROVE ProfileInv'
    OBVIOUS
  <2>1. CASE Beside
    BY <2>1 DEF Beside, Tables, ProfileInv
  <2>2. ASSUME NEW r \in open, Write(r) PROVE ProfileInv'
    BY <2>2, ProfileWrites, UserDataKeeps, ProfilesElsewhere
  <2>3. ASSUME NEW m, StoreFromPeer(m) PROVE ProfileInv'
    BY <2>3, PeerCopies DEF Tables, ProfileInv
  <2>4. CASE RunStoriesCleanup
    BY <2>4, Cleanup DEF Tables, ProfileInv
  <2>5. QED
    BY <2>1, <2>2, <2>3, <2>4, StepKinds
<1>3. QED
  BY <1>1, <1>2, ProfileShown, RequestsHold, PTL DEF HubSpec

----------------------------------------------------------------------------
(* Primary keys and signed bytes *)

Unique(rows, keys) == \A row, other \in rows : Same(row, other, keys) => row = other

LEMMA InsertNewUnique ==
    ASSUME NEW rows, NEW keys, NEW row, Unique(rows, keys)
    PROVE  Unique(InsertNew(rows, keys, row), keys)
BY DEF Unique, InsertNew, Same

LEMMA UpsertUnique ==
    ASSUME NEW rows, NEW keys, NEW row, Unique(rows, keys)
    PROVE  Unique(Upsert(rows, keys, row), keys)
BY DEF Unique, Upsert, Same

\* An UPDATE that leaves the key alone.
LEMMA ChangedUnique ==
    ASSUME NEW all, NEW keys, Unique(all, keys), NEW rows \in SUBSET all, NEW changed,
           \A row \in rows : Same(changed[row], row, keys)
    PROVE  Unique((all \ rows) \cup {changed[row] : row \in rows}, keys)
<1> DEFINE after == (all \ rows) \cup {changed[row] : row \in rows}
<1>1. ASSUME NEW a \in after
      PROVE  \E row \in all : /\ a = (IF row \in rows THEN changed[row] ELSE row)
                              /\ Same(a, row, keys)
  BY DEF Same
<1> HIDE DEF after
<1>2. ASSUME NEW a \in after, NEW b \in after, Same(a, b, keys) PROVE a = b
  <2>1. PICK x \in all : a = (IF x \in rows THEN changed[x] ELSE x) /\ Same(a, x, keys)
    BY <1>1
  <2>2. PICK y \in all : b = (IF y \in rows THEN changed[y] ELSE y) /\ Same(b, y, keys)
    BY <1>1
  <2>3. Same(x, y, keys)
    BY <1>2, <2>1, <2>2 DEF Same
  <2>4. QED
    BY <2>1, <2>2, <2>3 DEF Unique
<1>3. QED
  BY <1>2 DEF Unique, after

LEMMA KeyOf ==
    /\ \A table \in {"messages", "user_data", "crowdfund_pledges", "tips", "stories"} :
         PrimaryKey[table] = {"hash"}
    /\ \A table \in {"channels", "polls", "events", "tasks", "crowdfunds"} : PrimaryKey[table] = {"id"}
    /\ PrimaryKey["channel_memberships"] = {"channel", "tid"}
    /\ PrimaryKey["poll_votes"] = {"poll", "tid"} /\ PrimaryKey["event_rsvps"] = {"event", "tid"}
    /\ PrimaryKey["bookmarks"] = {"tid", "target"} /\ PrimaryKey["story_views"] = {"story", "tid"}
    /\ PrimaryKey["signed_envelopes"] = {} /\ PrimaryKey["social_graph"] = {}
BY DEF PrimaryKey, Tables

\* An INSERT or a DELETE, of a table other than the memberships.
Keyed(r) ==
    \E table \in Tables \ {"channel_memberships", "signed_envelopes", "social_graph"} : \E row, rows :
        /\ Store(r, table, rows)
        /\ \/ rows = InsertNew(db[table], PrimaryKey[table], row)
           \/ rows = Upsert(db[table], PrimaryKey[table], row)
           \/ rows \subseteq db[table]

LEMMA InsertKeyed ==
    ASSUME NEW r, NEW table \in Tables \ {"channel_memberships", "signed_envelopes", "social_graph"},
           NEW keys, NEW row, keys = PrimaryKey[table],
           Store(r, table, InsertNew(db[table], keys, row)) \/ Store(r, table, Upsert(db[table], keys, row))
    PROVE  Keyed(r)
BY Zenon DEF Keyed

LEMMA KeyedWrites ==
    ASSUME NEW r, Write(r)
    PROVE  \/ Keyed(r) \/ Reject(r)
           \/ ChannelJoin(r) \/ ChannelLeave(r) \/ TaskClaim(r) \/ TaskComplete(r)
<1> USE KeyOf, InsertKeyed DEF Tables
<1>1. TweetAdd(r) => Keyed(r)
  BY DEF TweetAdd
<1>2. TweetRemove(r) => Keyed(r)
  BY DEF TweetRemove
<1>3. ReactionAdd(r) => Keyed(r)
  BY DEF ReactionAdd
<1>4. ReactionRemove(r) => Keyed(r)
  BY DEF ReactionRemove
<1>5. UserDataAdd(r) => Keyed(r)
  BY DEF UserDataAdd
<1>6. ChannelAdd(r) => Keyed(r)
  BY DEF ChannelAdd
<1>7. PollAdd(r) => Keyed(r)
  BY DEF PollAdd
<1>8. PollVote(r) => Keyed(r)
  BY DEF PollVote
<1>9. EventAdd(r) => Keyed(r)
  BY DEF EventAdd
<1>10. EventRsvp(r) => Keyed(r)
  BY DEF EventRsvp
<1>11. TaskAdd(r) => Keyed(r)
  BY DEF TaskAdd
<1>12. CrowdfundAdd(r) => Keyed(r)
  BY DEF CrowdfundAdd
<1>13. CrowdfundPledge(r) => Keyed(r)
  BY DEF CrowdfundPledge
<1>14. TipAdd(r) => Keyed(r)
  BY DEF TipAdd
<1>15. BookmarkAdd(r) => Keyed(r)
  BY DEF BookmarkAdd
<1>16. BookmarkRemove(r) => Keyed(r)
  BY DEF BookmarkRemove, Keyed
<1>17. StoryAdd(r) => Keyed(r)
  BY DEF StoryAdd
<1>18. StoryView(r) => Keyed(r) \/ Reject(r)
  BY DEF StoryView
<1>19. QED
  BY <1>1, <1>2, <1>3, <1>4, <1>5, <1>6, <1>7, <1>8, <1>9, <1>10, <1>11, <1>12, <1>13, <1>14, <1>15,
     <1>16, <1>17, <1>18 DEF Write

Memberships == [channel : Column("on"), tid : Nat, joined : Nat, left : Nat]

RowsInv ==
    /\ \A table \in Tables : PrimaryKey[table] # {} => Unique(db[table], PrimaryKey[table])
    /\ db["channel_memberships"] \subseteq Memberships

LEMMA KeyedKeeps ==
    ASSUME Requests, RowsInv, NEW r \in open, Keyed(r)
    PROVE  RowsInv'
<1>1. PICK table \in Tables \ {"channel_memberships", "signed_envelopes", "social_graph"} : \E row, rows :
        /\ Store(r, table, rows)
        /\ \/ rows = InsertNew(db[table], PrimaryKey[table], row)
           \/ rows = Upsert(db[table], PrimaryKey[table], row)
           \/ rows \subseteq db[table]
  BY DEF Keyed
<1>2. PICK row, rows :
        /\ Store(r, table, rows)
        /\ \/ rows = InsertNew(db[table], PrimaryKey[table], row)
           \/ rows = Upsert(db[table], PrimaryKey[table], row)
           \/ rows \subseteq db[table]
  BY <1>1
<1>3. db'[table] = rows /\ \A other \in Tables \ {table} : db'[other] = db[other]
  BY <1>2, StoreRequests
<1>4. Unique(db[table], PrimaryKey[table])
  BY KeyOf DEF RowsInv, Tables
<1>5. Unique(rows, PrimaryKey[table])
  <2>1. CASE rows \subseteq db[table]
    BY <1>4, <2>1 DEF Unique
  <2>2. QED
    BY <1>2, <1>4, <2>1, InsertNewUnique, UpsertUnique
<1>6. "channel_memberships" \in Tables \ {table}
  BY DEF Tables
<1>7. QED
  BY <1>3, <1>5, <1>6 DEF RowsInv

LEMMA JoinKeeps ==
    ASSUME Requests, RowsInv, NEW r \in open, ChannelJoin(r)
    PROVE  RowsInv'
<1> DEFINE row == [channel |-> r.msg.on, tid |-> r.msg.tid, joined |-> r.msg.at, left |-> 0]
           rows == Upsert(db["channel_memberships"], {"channel", "tid"}, row)
<1>1. row \in Memberships
  BY Origin DEF Body, Memberships
<1>2. db'["channel_memberships"] = rows
      /\ \A other \in Tables \ {"channel_memberships"} : db'[other] = db[other]
  BY StoreRequests DEF ChannelJoin, Tables
<1>3. Unique(rows, {"channel", "tid"})
  <2>1. Unique(db["channel_memberships"], {"channel", "tid"})
    BY KeyOf DEF RowsInv, Tables
  <2> HIDE DEF row
  <2>2. QED
    BY <2>1, UpsertUnique
<1>4. rows \subseteq Memberships
  BY <1>1 DEF Upsert, RowsInv
<1>5. QED
  BY <1>2, <1>3, <1>4, KeyOf DEF RowsInv

\* An UPDATE of rows that leaves their key alone.
Updates(r, table) ==
    \E rows \in SUBSET db[table] : \E changed :
        /\ Store(r, table, (db[table] \ rows) \cup {changed[row] : row \in rows})
        /\ \A row \in rows : Same(changed[row], row, PrimaryKey[table])

LEMMA LeaveUpdates ==
    ASSUME Requests, RowsInv, NEW r \in open, ChannelLeave(r)
    PROVE  \E rows \in SUBSET db["channel_memberships"] : \E changed :
             /\ Store(r, "channel_memberships",
                      (db["channel_memberships"] \ rows) \cup {changed[row] : row \in rows})
             /\ \A row \in rows : /\ row.channel = r.msg.on /\ row.tid = r.msg.tid
                                  /\ changed[row] \in Memberships
                                  /\ Same(changed[row], row, {"channel", "tid"})
<1> DEFINE all == db["channel_memberships"]
           leaves(row) == row.channel = r.msg.on /\ row.tid = r.msg.tid
           away(row) == [row EXCEPT !.left = r.msg.at]
           rows == {row \in all : leaves(row)}
           changed == [row \in all |-> away(row)]
<1>1. r.msg.at \in Nat
  BY Origin DEF Body
<1>2. \A row \in all : away(row) \in Memberships /\ away(row).channel = row.channel /\ away(row).tid = row.tid
  BY <1>1 DEF RowsInv, Memberships
<1>3. Store(r, "channel_memberships", {IF leaves(row) THEN away(row) ELSE row : row \in all})
  BY DEF ChannelLeave
<1> HIDE DEF leaves, away, all
<1>4. {IF leaves(row) THEN away(row) ELSE row : row \in all} = (all \ rows) \cup {changed[row] : row \in rows}
  OBVIOUS
<1>5. \A row \in rows : changed[row] \in Memberships /\ Same(changed[row], row, {"channel", "tid"}) /\ leaves(row)
  BY <1>2 DEF Same
<1>6. rows \in SUBSET all
  OBVIOUS
<1> HIDE DEF rows, changed
<1>7. QED
  BY <1>3, <1>4, <1>5, <1>6 DEF leaves, all

LEMMA LeaveKeeps ==
    ASSUME Requests, RowsInv, NEW r \in open, ChannelLeave(r)
    PROVE  RowsInv'
<1> DEFINE all == db["channel_memberships"]
<1>1. PICK rows \in SUBSET all : \E changed :
        /\ Store(r, "channel_memberships", (all \ rows) \cup {changed[row] : row \in rows})
        /\ \A row \in rows : changed[row] \in Memberships /\ Same(changed[row], row, {"channel", "tid"})
  BY LeaveUpdates
<1>2. PICK changed :
        /\ Store(r, "channel_memberships", (all \ rows) \cup {changed[row] : row \in rows})
        /\ \A row \in rows : changed[row] \in Memberships /\ Same(changed[row], row, {"channel", "tid"})
  BY <1>1
<1> DEFINE after == (all \ rows) \cup {changed[row] : row \in rows}
<1>3. db'["channel_memberships"] = after
      /\ \A other \in Tables \ {"channel_memberships"} : db'[other] = db[other]
  BY <1>2, StoreRequests DEF Tables
<1>4. Unique(all, {"channel", "tid"}) /\ all \subseteq Memberships
  BY KeyOf DEF RowsInv, Tables
<1>5. Unique(after, {"channel", "tid"})
  <2> HIDE DEF all
  <2>1. QED
    BY <1>2, <1>4, ChangedUnique
<1>6. after \subseteq Memberships
  BY <1>2, <1>4
<1>7. QED
  BY <1>3, <1>5, <1>6, KeyOf DEF RowsInv

LEMMA TaskUpdates ==
    ASSUME Requests, TaskInv, NEW r \in open, TaskClaim(r) \/ TaskComplete(r), ~Reject(r)
    PROVE  Updates(r, "tasks")
<1> DEFINE all == db["tasks"]
<1>1. r.msg \in Body
  BY Origin
<1>2. \E rows \in SUBSET all : \E changed :
        /\ Store(r, "tasks", (all \ rows) \cup {changed[row] : row \in rows})
        /\ \A row \in rows : Same(changed[row], row, {"id"})
  <2>1. CASE TaskClaim(r)
    <3> DEFINE rows == {row \in db["tasks"] : row.id = r.msg.on /\ row.status = "open"}
    <3>1. Store(r, "tasks", (all \ rows) \cup {Claimed(r)[row] : row \in rows})
      BY <2>1 DEF TaskClaim, Update
    <3>2. \A row \in rows : Same(Claimed(r)[row], row, {"id"})
      BY <1>1, ClaimedRow DEF TaskInv, Same
    <3>3. rows \in SUBSET all
      OBVIOUS
    <3> HIDE DEF rows, all
    <3>4. QED
      BY <3>1, <3>2, <3>3
  <2>2. CASE TaskComplete(r)
    <3> DEFINE rows == {row \in db["tasks"] : row.id = r.msg.on /\ row.status = "claimed"
                                              /\ r.msg.tid \in {row.claimer, row.creator}}
    <3>1. Store(r, "tasks", (all \ rows) \cup {Completed(r)[row] : row \in rows})
      BY <2>2 DEF TaskComplete, Update
    <3>2. \A row \in rows : Same(Completed(r)[row], row, {"id"})
      BY <1>1, CompletedRow DEF TaskInv, Same
    <3>3. rows \in SUBSET all
      OBVIOUS
    <3> HIDE DEF rows, all
    <3>4. QED
      BY <3>1, <3>2, <3>3
  <2>3. QED
    BY <2>1, <2>2
<1>3. PrimaryKey["tasks"] = {"id"}
  BY KeyOf
<1>4. QED
  BY <1>2, <1>3 DEF Updates

LEMMA TaskUpdateKeeps ==
    ASSUME Requests, TaskInv, RowsInv, NEW r \in open, TaskClaim(r) \/ TaskComplete(r)
    PROVE  RowsInv' \/ Reject(r)
<1> SUFFICES ASSUME ~Reject(r) PROVE RowsInv'
  OBVIOUS
<1> DEFINE all == db["tasks"]
<1>1. Unique(all, {"id"}) /\ PrimaryKey["tasks"] = {"id"}
  BY KeyOf DEF RowsInv, Tables
<1>2. PICK rows \in SUBSET all : \E changed :
        /\ Store(r, "tasks", (all \ rows) \cup {changed[row] : row \in rows})
        /\ \A row \in rows : Same(changed[row], row, {"id"})
  BY <1>1, TaskUpdates DEF Updates
<1>3. PICK changed :
        /\ Store(r, "tasks", (all \ rows) \cup {changed[row] : row \in rows})
        /\ \A row \in rows : Same(changed[row], row, {"id"})
  BY <1>2
<1>8. rows \in SUBSET all
  BY <1>2
<1>4. /\ db'["tasks"] = (all \ rows) \cup {changed[row] : row \in rows}
      /\ \A other \in Tables \ {"tasks"} : db'[other] = db[other]
  BY <1>3, StoreRequests DEF Tables
<1>5. Unique((all \ rows) \cup {changed[row] : row \in rows}, {"id"})
  <2> HIDE DEF all
  <2>1. QED
    BY <1>1, <1>3, <1>8, ChangedUnique
<1>6. db'["channel_memberships"] = db["channel_memberships"]
  BY <1>4 DEF Tables
<1>7. QED
  BY <1>4, <1>5, <1>6, KeyOf DEF RowsInv

\* The signed bytes of an answered message are stored, and stay.
SignedInv == \A m \in accepted : m.hash \in db["signed_envelopes"]

LEMMA SignedKept ==
    ASSUME SignedInv, accepted' = accepted, db["signed_envelopes"] \subseteq db'["signed_envelopes"]
    PROVE  SignedInv'
BY DEF SignedInv

LEMMA SignedStep ==
    ASSUME Requests, SignedInv, FeatureStep
    PROVE  SignedInv'
<1>0. "signed_envelopes" \in Tables
  BY DEF Tables
<1>1. ASSUME NEW m, Submit(m) PROVE SignedInv'
  BY <1>1, SignedKept DEF Submit
<1>2. ASSUME NEW m, StoreFromPeer(m) PROVE SignedInv'
  <2>1. PICK copy :
          db' = [db EXCEPT !.messages = @ \cup {copy}, !.signed_envelopes = @ \cup {m.hash}]
    BY <1>2, Zenon DEF StoreFromPeer
  <2>2. db["signed_envelopes"] \subseteq db'["signed_envelopes"]
    BY <1>0, <2>1 DEF Requests
  <2>3. QED
    BY <1>2, <2>2, SignedKept, PeerCopies
<1>3. ASSUME NEW r \in open, Look(r) \/ Fails(r) PROVE SignedInv'
  BY <1>3, SignedKept DEF Look, Fails
<1>4. ASSUME NEW r \in open, Write(r) PROVE SignedInv'
  <2>1. accepted' = accepted
    BY <1>4, WriteStores DEF Stores, Store, Reject
  <2>2. db'["signed_envelopes"] = db["signed_envelopes"]
    BY <1>0, <1>4, WriteStores, StoreRequests DEF Stores, Reject
  <2>3. QED
    BY <2>1, <2>2, SignedKept
<1>5. ASSUME NEW r \in open, Finish(r) PROVE SignedInv'
  BY <1>0, <1>5 DEF Finish, Requests, SignedInv
<1>6. CASE RunStoriesCleanup
  BY <1>0, <1>6, Cleanup, SignedKept DEF Tables
<1>7. QED
  BY <1>1, <1>2, <1>3, <1>4, <1>5, <1>6 DEF FeatureStep

LEMMA SignedFollow ==
    ASSUME Requests, SignedInv, FollowStep, accepted' = accepted
    PROVE  SignedInv'
<1>1. "signed_envelopes" \in Tables /\ "signed_envelopes" # "social_graph"
  BY DEF Tables
<1>2. db'["signed_envelopes"] = db["signed_envelopes"]
  BY <1>1 DEF FollowStep, Click, Settle, Index, Forget, Requests
<1>3. QED
  BY <1>2, SignedKept

LEMMA RowsUnchanged ==
    ASSUME RowsInv, \A table \in Tables \ {"signed_envelopes", "social_graph"} : db'[table] = db[table]
    PROVE  RowsInv'
<1>1. "channel_memberships" \in Tables \ {"signed_envelopes", "social_graph"}
  BY DEF Tables
<1>2. ASSUME NEW table \in Tables, PrimaryKey[table] # {} PROVE db'[table] = db[table]
  BY <1>2, KeyOf
<1>3. QED
  BY <1>1, <1>2 DEF RowsInv

\* A copy of a message whose hash no row has.
LEMMA CopyUnique ==
    ASSUME Requests, RowsInv, NEW m, StoreFromPeer(m)
    PROVE  RowsInv'
<1>1. ~Duplicate(m)
  BY DEF StoreFromPeer
<1>2. PICK asked \in BOOLEAN : db'["messages"] = db["messages"] \cup {Projected(m, asked)}
  BY PeerCopies
<1>3. Projected(m, asked).hash = m.hash
  BY ProjectedHash
<1>4. Unique(db'["messages"], {"hash"})
  <2>1. Unique(db["messages"], {"hash"})
    BY KeyOf DEF RowsInv, Tables
  <2>2. QED
    BY <1>1, <1>2, <1>3, <2>1 DEF Unique, Same, Duplicate
<1>5. \A table \in Tables \ {"messages", "signed_envelopes"} : db'[table] = db[table]
  BY PeerCopies
<1>6. "channel_memberships" \in Tables \ {"messages", "signed_envelopes"}
  BY DEF Tables
<1>7. QED
  BY <1>4, <1>5, <1>6, KeyOf DEF RowsInv

LEMMA ReapUnique ==
    ASSUME Requests, RowsInv, RunStoriesCleanup
    PROVE  RowsInv'
<1>1. /\ db'["stories"] \subseteq db["stories"] /\ db'["story_views"] \subseteq db["story_views"]
      /\ \A table \in Tables \ {"stories", "story_views"} : db'[table] = db[table]
  BY Cleanup
<1>2. \A table \in Tables : db'[table] \subseteq db[table]
  BY <1>1
<1>3. "channel_memberships" \in Tables
  BY DEF Tables
<1>4. QED
  BY <1>2, <1>3 DEF RowsInv, Unique

LEMMA RowsHold == HubSpec => []RowsInv
<1>1. HubInit => RowsInv
  <2> SUFFICES ASSUME HubInit PROVE RowsInv
    OBVIOUS
  <2>1. db["channels"] = {[id |-> "general", by |-> 0, kind |-> "1"]}
    BY DEF HubInit, FeatureInit, Tables
  <2>2. \A table \in Tables \ {"channels"} : db[table] = {}
    BY RequestsInit
  <2>3. QED
    BY <2>1, <2>2 DEF RowsInv, Unique, Tables
<1>2. Requests /\ TaskInv /\ RowsInv /\ [HubNext]_hubVars => RowsInv'
  <2> SUFFICES ASSUME Requests, TaskInv, RowsInv, [HubNext]_hubVars PROVE RowsInv'
    OBVIOUS
  <2>1. CASE Beside
    BY <2>1, RowsUnchanged DEF Beside
  <2>2. ASSUME NEW r \in open, Write(r) PROVE RowsInv'
    <3>1. CASE Reject(r)
      BY <3>1, RowsUnchanged DEF Reject
    <3>2. CASE ~Reject(r)
      BY <2>2, <3>2, KeyedWrites, KeyedKeeps, JoinKeeps, LeaveKeeps, TaskUpdateKeeps
    <3>3. QED
      BY <3>1, <3>2
  <2>3. QED
    BY <2>1, <2>2, CopyUnique, ReapUnique, StepKinds
<1>3. QED
  BY <1>1, <1>2, RequestsHold, TasksHold, PTL DEF HubSpec

LEMMA SignedHold == HubSpec => []SignedInv
<1>1. HubInit => SignedInv
  BY DEF HubInit, FeatureInit, SignedInv
<1>2. Requests /\ SignedInv /\ [HubNext]_hubVars => SignedInv'
  <2> SUFFICES ASSUME Requests, SignedInv, [HubNext]_hubVars PROVE SignedInv'
    OBVIOUS
  <2>1. CASE UNCHANGED <<db, accepted>>
    BY <2>1 DEF SignedInv
  <2>2. QED
    BY <2>1, SignedStep, SignedFollow DEF HubNext, hubVars, featureVars, Restart
<1>3. QED
  BY <1>1, <1>2, RequestsHold, PTL DEF HubSpec

\* submit.ts:152-884, schema.sql and the migrations: every table keeps its primary
\* key and every answered message its signed bytes, through statements of 22 types,
\* copies from peers, the reaper and restarts; and the types of the other parts.
THEOREM HubIsTyped == HubSpec => []HubTypeOK
<1>1. Requests /\ RowsInv /\ SignedInv => FeatureTypeOK
  <2> SUFFICES ASSUME Requests, RowsInv, SignedInv PROVE FeatureTypeOK
    OBVIOUS
  <2>1. \A table \in Tables : PrimaryKey[table] # {} =>
          \A row, other \in db[table] : Same(row, other, PrimaryKey[table]) => row = other
    BY DEF RowsInv, Unique
  <2>2. {m.hash : m \in accepted} \subseteq db.signed_envelopes
    BY DEF SignedInv
  <2>3. \A r \in open : r.sent \in DOMAIN left /\ r.step \in {"look", "write", "stored"}
    BY DEF Requests, Request
  <2>4. QED
    BY <2>1, <2>2, <2>3 DEF FeatureTypeOK, Requests
<1>2. FeatureTypeOK /\ (KeyTypeOK /\ KeysFresh) /\ (LinksTypeOK /\ SeedsTended) /\ (MediaTypeOK /\ MediaServed)
        => HubTypeOK
  BY DEF HubTypeOK
<1>3. QED
  BY <1>1, <1>2, RequestsHold, RowsHold, SignedHold, HubAnswersRecent, SeedsAreTended, MediaIsServed, PTL
=============================================================================
