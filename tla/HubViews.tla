------------------------------- MODULE HubViews -------------------------------
(***************************************************************************)
(* What the read routes answer from the tables of FeatureTables, each as   *)
(* the set of its rows (LIMIT and paging are left out), and the follow     *)
(* lists, which merge the indexed edges with the follows and unfollows     *)
(* that the rollup server (ER, external) still reports.                    *)
(***************************************************************************)
EXTENDS FeatureTables, FiniteSetsExt

CONSTANTS
    Tids,   \* users
    Edges   \* the <<follower, followed>> pairs clicked on in the run

\* All users, and 0 is none of them.
ASSUME ViewsAssumption ==
    Tids \subseteq Nat \ {0} /\ Column("tid") \subseteq Tids /\ Edges \subseteq Tids \X Tids

VARIABLES
    er,       \* er[e]: the operation the ER reports for edge e, or Blank
    settled,  \* settled[e]: the operation on chain that is not indexed yet, or Blank
    wish,     \* wish[e]: the last operation its user clicked, or Blank
    clicks    \* clicks left

followVars == <<er, settled, wish, clicks>>

----------------------------------------------------------------------------
(* Tweets and reactions *)

Rows(type) == {m \in db.messages : m.type = type}

Removed(t) == \E x \in Rows("TWEET_REMOVE") : x.tid = t.tid /\ x.text = t.hash

Active(r) ==
    ~\E u \in Rows("REACTION_REMOVE") : u.tid = r.tid /\ u.parent = r.parent /\ u.at > r.at

Feed == {t \in Rows("TWEET_ADD") : ~Removed(t)}
Message(hash) == {m \in db.messages : m.hash = hash /\ ~Removed(m)}
ChannelFeed(id) == {t \in Rows("TWEET_ADD") : t.chan = id /\ ~Removed(t)}
Search(text) == {t \in Rows("TWEET_ADD") : t.text = text /\ ~Removed(t)}
Replies(hash) == {t \in Rows("TWEET_ADD") : t.parent = hash /\ ~Removed(t)}
\* /v1/feed/:tid: own tweets, and the tweets behind active retweets.
UserFeed(tid) ==
    {[tweet |-> t, sort |-> t.at] : t \in {x \in Rows("TWEET_ADD") : x.tid = tid /\ ~Removed(x)}}
    \cup {[tweet |-> pair[2], sort |-> pair[1].at] : pair \in
            {p \in Rows("REACTION_ADD") \X Rows("TWEET_ADD") :
               /\ p[1].tid = tid /\ p[1].text = "2" /\ p[2].hash = p[1].parent
               /\ Active(p[1]) /\ ~Removed(p[2])}}

Reactions(tid, type) ==
    {r \in Rows("REACTION_ADD") : r.tid = tid /\ type \in {Blank, r.text} /\ Active(r)}
Likes(tid) ==
    {t \in Rows("TWEET_ADD") : ~Removed(t) /\ \E r \in Reactions(tid, "1") : r.parent = t.hash}

\* The likes shown on a card of /v1/feed and /v1/reels.
ReactionCount(t) ==
    Cardinality({r.tid : r \in {x \in Rows("REACTION_ADD") :
        x.parent = t.hash /\ x.text = "1"
        /\ ~\E u \in Rows("REACTION_REMOVE") : u.tid = x.tid /\ u.parent = t.hash /\ u.at > x.at}})
Reels == {t \in Feed : t.kind = "reel"}

----------------------------------------------------------------------------
(* Profiles, channels, stories and the other features *)

Newest(rows) == {row \in rows : \A other \in rows : other.at <= row.at}
\* Each of the rows with the newest timestamp may be the one of LIMIT 1.
Profile(tid, field) == Newest({u \in db.user_data : u.tid = tid /\ u.field = field})
Values(tid, field) == {u.value : u \in Profile(tid, field)}
SearchUsers(value) == {tid \in Tids : \E field \in {"displayName", "bio"} : value \in Values(tid, field)}
\* The rows of a list of users have the counts of the indexed edges.
UserRows(tids) ==
    {[tid |-> tid, bio |-> Values(tid, "bio"),
      followers |-> Cardinality({e \in db.social_graph : e[2] = tid}),
      following |-> Cardinality({e \in db.social_graph : e[1] = tid})] : tid \in tids}
Users == UserRows(Tids)

Members(id) == {c \in db.channel_memberships : c.channel = id /\ c.left = 0}
ChannelList ==
    {c.id : c \in db.channels} \cup {t.chan : t \in Rows("TWEET_ADD")}

SearchChannels(id) == {c \in ChannelList : c = id}

Tally(poll, option) == Cardinality({v \in db.poll_votes : v.poll = poll /\ v.option = option})
TotalVotes(poll) == Cardinality({v \in db.poll_votes : v.poll = poll})
Rsvps(event, status) == Cardinality({r \in db.event_rsvps : r.event = event /\ r.status = status})
Upcoming == {e \in db.events : e.starts >= now}
\* /v1/search/events: the id and yes_count of each
SearchEvents == {<<e.id, Cardinality({r \in db.event_rsvps : r.event = e.id /\ r.status = "yes"})>> : e \in db.events}
TasksIn(status) == {t \in db.tasks : t.status = status}

Sum(rows) == MapThenSumSet(LAMBDA row : row.amount, rows)
Pledges(id) == {p \in db.crowdfund_pledges : p.crowdfund = id}
Raised(id) == Sum(Pledges(id))
PledgerCount(id) == Cardinality({p.tid : p \in Pledges(id)})
\* /v1/search/crowdfunds: pledger_count counts the pledges.
SearchCrowdfunds ==
    {[id |-> c.id, raised |-> Sum({p \in db.crowdfund_pledges : p.crowdfund = c.id}),
      pledgers |-> Cardinality({p \in db.crowdfund_pledges : p.crowdfund = c.id})] : c \in db.crowdfunds}

TipsSent(tid) == {t \in db.tips : t.tid = tid}
TipsReceived(tid) == {t \in db.tips : tid \in t.to}
\* Bookmarks are joined with the target's row, removed or not.
BookmarksOf(tid) == {b \in db.bookmarks : b.tid = tid}

StoriesOf(tid) == {s \in db.stories : s.tid = tid /\ s.expires > now}
Stories(viewer) ==
    {s \in db.stories : s.expires > now /\ (s.tid = viewer \/ <<viewer, s.tid>> \in db.social_graph)}
Viewers(hash, viewer) ==
    {v \in db.story_views : v.story = hash /\ \E s \in db.stories : s.hash = hash /\ s.tid = viewer}

----------------------------------------------------------------------------
(* Notifications, activity, karma *)

On(rows, tid) == {r \in rows : \E m \in db.messages : m.hash = r.parent /\ m.tid = tid}
Note(kind, tid, row) == [kind |-> kind, actor |-> tid, row |-> row]
Hosting(rows, tid) == {row.id : row \in {x \in rows : x.creator = tid}}

Notifications(tid) ==
    {Note("follow", e[1], <<>>) : e \in {x \in db.social_graph : x[2] = tid}}
    \cup {Note("reaction", r.tid, r) : r \in On(Rows("REACTION_ADD"), tid)}
    \cup {Note("reply", c.tid, c) : c \in {x \in On(Rows("TWEET_ADD"), tid) : x.tid # tid}}
    \cup {Note("tip", t.tid, t) : t \in TipsReceived(tid)}
    \cup {Note("mention", m.tid, m) : m \in {x \in Rows("TWEET_ADD") : tid \in x.to /\ x.tid # tid}}
    \cup {Note("poll_vote", v.tid, v) : v \in
            {x \in db.poll_votes : x.poll \in Hosting(db.polls, tid) /\ x.tid # tid}}
    \cup {Note("event_rsvp", r.tid, r) : r \in
            {x \in db.event_rsvps : x.event \in Hosting(db.events, tid) /\ x.tid # tid}}
    \cup {Note("task_claim", t.claimer, t) : t \in
            {x \in db.tasks : x.creator = tid /\ x.claimer \notin {0, tid}}}
    \cup {Note("task_complete", t.completer, t) : t \in
            {x \in db.tasks : x.creator = tid /\ x.completer \notin {0, tid}}}
    \cup {Note("crowdfund_pledge", p.tid, p) : p \in
            {x \in db.crowdfund_pledges : x.crowdfund \in Hosting(db.crowdfunds, tid) /\ x.tid # tid}}

\* /count adds up one COUNT per kind; replies is the count of replies.
CountOf(tid, replies) ==
    LET others(rows) == Cardinality({r \in rows : r.tid # tid})
        about(rows, column, hosts) == others({r \in rows : r[column] \in Hosting(hosts, tid)})
        task(column) == Cardinality({t \in db.tasks : t.creator = tid /\ t[column] \notin {0, tid}})
    IN  Cardinality({e \in db.social_graph : e[2] = tid})
        + Cardinality(On(Rows("REACTION_ADD"), tid)) + replies
        + Cardinality({t \in db.tips : tid \in t.to})
        + others({m \in Rows("TWEET_ADD") : tid \in m.to})
        + about(db.poll_votes, "poll", db.polls) + about(db.event_rsvps, "event", db.events)
        + task("claimer") + task("completer")
        + about(db.crowdfund_pledges, "crowdfund", db.crowdfunds)

\* Mutant: an answer to oneself is counted.
NotificationCountOwnReplies(tid) == CountOf(tid, Cardinality(On(Rows("TWEET_ADD"), tid)))

NotificationCount(tid) ==
    CountOf(tid, Cardinality({c \in On(Rows("TWEET_ADD"), tid) : c.tid # tid}))

\* The hub's half of /v1/users/:tid/activity.
Activity(tid) ==
    {[kind |-> IF t.parent = Blank THEN "tweet" ELSE "tweet_reply", row |-> t]
        : t \in {x \in Rows("TWEET_ADD") : x.tid = tid /\ ~Removed(x)}}
    \cup {[kind |-> IF r.text = "2" THEN "reaction_recast" ELSE "reaction_like", row |-> r]
            : r \in Reactions(tid, Blank)}
    \cup {[kind |-> "bookmark", row |-> b] : b \in BookmarksOf(tid)}
    \cup {[kind |-> "tip_sent", row |-> t] : t \in TipsSent(tid)}
    \cup {[kind |-> "tip_received", row |-> t] : t \in TipsReceived(tid)}

\* Removed tweets and taken-back reactions keep their points.
Karma(tid) ==
    Cardinality({t \in Rows("TWEET_ADD") : t.tid = tid})
    + 2 * Cardinality({r \in Rows("REACTION_ADD") :
            \E t \in Rows("TWEET_ADD") : t.tid = tid /\ t.hash = r.parent})
    + 5 * Cardinality({e \in db.social_graph : e[2] = tid})
    + 10 * Cardinality(TipsReceived(tid))
    + 20 * Cardinality({t \in TasksIn("completed") : t.completer = tid})

----------------------------------------------------------------------------
(* Follows *)

FollowInit ==
    /\ er = [e \in Edges |-> Blank] /\ settled = er /\ wish = er
    /\ clicks \in Nat

\* The ER keeps the newest operation of an edge.
Click(e) ==
    /\ clicks > 0 /\ clicks' = clicks - 1
    /\ LET op == IF wish[e] = "follow" THEN "unfollow" ELSE "follow" IN
         wish' = [wish EXCEPT ![e] = op] /\ er' = [er EXCEPT ![e] = op]
    /\ UNCHANGED <<db, settled>>

\* Its transaction lands, one after the other.
Settle(e) ==
    /\ er[e] # Blank /\ settled[e] = Blank
    /\ er[e] = "follow" <=> e \notin db.social_graph
    /\ settled' = [settled EXCEPT ![e] = er[e]]
    /\ UNCHANGED <<db, er, wish, clicks>>

\* The indexer picks the event up (EventIndexer).
Index(e) ==
    /\ settled[e] # Blank
    /\ db' = [db EXCEPT !.social_graph = IF settled[e] = "follow" THEN @ \cup {e} ELSE @ \ {e}]
    /\ settled' = [settled EXCEPT ![e] = Blank]
    /\ UNCHANGED <<er, wish, clicks>>

\* The ER drops an operation whose transaction has landed.
Forget(e) ==
    /\ er[e] # Blank
    /\ \/ er[e] = settled[e]
       \/ settled[e] = Blank /\ (er[e] = "follow" <=> e \in db.social_graph)
    /\ er' = [er EXCEPT ![e] = Blank]
    /\ UNCHANGED <<db, settled, wish, clicks>>

FollowStep == \E e \in Edges : Click(e) \/ Settle(e) \/ Index(e) \/ Forget(e)

\* fetchErLinks
Reported(op) == {e \in Edges : er[e] = op}
Sources(edges, tid) == {e[1] : e \in {x \in edges : x[2] = tid}}
Targets(edges, tid) == {e[2] : e \in {x \in edges : x[1] = tid}}

\* Mutant: an unfollow takes effect when it is indexed.
MergedSettled(social, adds, removes) == social \cup (adds \ removes)

\* The lists: the indexed ones without the unfollowers, after the ER's own.
Merged(social, adds, removes) ==
    LET kept == social \ removes IN kept \cup ((adds \ kept) \ removes)

\* mergedCount, in /v1/user
MergedCount(social, adds, removes) == Cardinality((social \cup adds) \ removes)

Followers(tid) ==
    Merged(Sources(db.social_graph, tid), Sources(Reported("follow"), tid), Sources(Reported("unfollow"), tid))
Following(tid) ==
    Merged(Targets(db.social_graph, tid), Targets(Reported("follow"), tid), Targets(Reported("unfollow"), tid))
User(tid) ==
    [followers |-> MergedCount(Sources(db.social_graph, tid), Sources(Reported("follow"), tid),
                               Sources(Reported("unfollow"), tid)),
     following |-> MergedCount(Targets(db.social_graph, tid), Targets(Reported("follow"), tid),
                               Targets(Reported("unfollow"), tid))]

----------------------------------------------------------------------------
(* Properties *)

\* submit.ts:564-607.  Of competing claims at most one is accepted, and it is
\* the row's; a task is completed by its claimer or creator, once.
TaskOutcome ==
    /\ \A t \in TasksIn("completed") : t.claimer # 0 /\ t.completer \in {t.claimer, t.creator}
    /\ \A m \in accepted :
         /\ m.type = "TASK_CLAIM" => \E t \in db.tasks : t.id = m.on /\ t.claimer = m.tid
         /\ m.type = "TASK_COMPLETE" => \E t \in db.tasks : t.id = m.on /\ t.completer = m.tid

\* submit.ts:389-435.  A vote is written only by a request that saw the poll
\* open, whatever is announced or voted meanwhile.
VotesInTime ==
    [][\A v \in db'.poll_votes \ db.poll_votes : \A p \in db'.polls :
         p.id = v.poll /\ p.expires # 0 =>
             \E r \in open : r.msg.hash = v.hash /\ r.looked \in 1 .. p.expires]_db

\* 003_user_data.sql:2 "Latest value per (tid, field) wins": the routes show a
\* value no older than any accepted one, whatever order they arrived in, and
\* nobody is found, or listed with a bio, by a value that an accepted one replaced.
ProfileIsNewest ==
    LET ofField(m, tid, field) == m.type = "USER_DATA_ADD" /\ m.tid = tid /\ m.on = field
        holds(tid, fields, value) ==
            \E u \in db.user_data :
                /\ u.tid = tid /\ u.field \in fields /\ u.value = value
                /\ \A m \in accepted : ofField(m, tid, u.field) => m.at <= u.at
    IN  /\ \A m \in {x \in accepted : x.type = "USER_DATA_ADD"} :
             LET shown == Profile(m.tid, m.on) IN shown # {} /\ \A u \in shown : u.at >= m.at
        /\ \A u \in db.user_data : \A tid \in SearchUsers(u.value) :
             holds(tid, {"displayName", "bio"}, u.value)
        /\ \A row \in Users : \A value \in row.bio : holds(row.tid, {"bio"}, value)

\* submit.ts:815-884, stories-cleanup.ts.  An accepted story is listed until it
\* expires, with every accepted view, however the reaper, retries and late
\* requests interleave; no view outlives its story.
StoriesKept ==
    /\ \A m \in accepted :
         /\ m.type = "STORY_ADD" /\ m.at + StoryTtl > now =>
              \E s \in Stories(m.tid) \cap StoriesOf(m.tid) : s.hash = m.hash
         /\ m.type = "STORY_VIEW" =>
              \A s \in {x \in db.stories : x.hash = m.on /\ x.expires > now} :
                  \E v \in Viewers(m.on, s.tid) : v.tid = m.tid
    /\ \A v \in db.story_views : \E s \in db.stories : s.hash = v.story

\* submit.ts:176-196 and every route over tweets.  Once a removal is accepted
\* here, and the client gave it to no other hub, its tweet is on no route,
\* whichever of the two came first.
RemovedTweetsHidden ==
    \A x \in {m \in accepted \ abroad : m.type = "TWEET_REMOVE"} :
        LET gone(rows) == \A t \in rows : t.hash # x.on \/ t.tid # x.tid IN
        /\ gone(Feed) /\ gone(Message(x.on)) /\ gone(Search("said")) /\ gone(Reels)
        /\ \A t \in Rows("TWEET_ADD") : gone(Replies(t.hash)) /\ gone(ChannelFeed(t.chan))
        /\ \A tid \in Tids :
             /\ gone({u.tweet : u \in UserFeed(tid)}) /\ gone(Likes(tid))
             /\ gone({a.row : a \in {y \in Activity(tid) : y.kind \in {"tweet", "tweet_reply"}}})

TakesBack == [TWEET_ADD |-> "TWEET_REMOVE", REACTION_ADD |-> "REACTION_REMOVE",
              CHANNEL_JOIN |-> "CHANNEL_LEAVE", BOOKMARK_ADD |-> "BOOKMARK_REMOVE"]

Shown(m) ==
    LET id(rows) == \E row \in rows : row.id = m.on
        hash(rows) == \E row \in rows : row.hash = m.hash
        own(rows) == \E row \in rows : row.tid = m.tid
    IN  CASE m.type = "TWEET_ADD" -> hash(Feed) /\ hash(ChannelFeed(m.chan)) /\ m.chan \in ChannelList
          [] m.type = "REACTION_ADD" -> hash(Reactions(m.tid, Blank))
          [] m.type = "CHANNEL_ADD" -> m.on \in SearchChannels(m.on)
          [] m.type = "CHANNEL_JOIN" -> own(Members(m.on))
          [] m.type = "POLL_VOTE" -> TotalVotes(m.on) > 0 /\ own({v \in db.poll_votes : v.poll = m.on})
          \* The first announcement of an id stays.
          [] m.type = "EVENT_ADD" ->
               \/ id(Upcoming)
               \/ \E x \in DOMAIN left : x.type = "EVENT_ADD" /\ x.on = m.on /\ x.until < now
          [] m.type = "EVENT_RSVP" ->
               \E s \in {"yes", "no", "maybe"} :
                   Rsvps(m.on, s) > 0 /\ own({r \in db.event_rsvps : r.event = m.on /\ r.status = s})
          [] m.type = "TASK_ADD" -> id(UNION {TasksIn(s) : s \in {"open", "claimed", "completed"}})
          [] m.type = "CROWDFUND_PLEDGE" -> hash(Pledges(m.on))
          [] m.type = "TIP_ADD" -> hash(TipsSent(m.tid)) /\ \A tid \in m.to : hash(TipsReceived(tid))
          [] m.type = "BOOKMARK_ADD" -> \E b \in BookmarksOf(m.tid) : b.target = m.on
          [] OTHER -> TRUE

TakenBack(m) ==
    /\ m.type \in DOMAIN TakesBack
    /\ \E x \in DOMAIN left :
         /\ x.type = TakesBack[m.type] /\ x.tid = m.tid
         /\ x.on = IF m.type = "TWEET_ADD" THEN m.hash ELSE m.on
         /\ m.type = "REACTION_ADD" => x.at > m.at

PledgesOf(ms, id) == {m \in ms : m.type = "CROWDFUND_PLEDGE" /\ m.on = id /\ m.num > 0}
Pledged(ms, id) == MapThenSumSet(LAMBDA m : m.num, PledgesOf(ms, id))

\* submit.ts:891-918: what was answered with its hash is on the routes of its
\* type and counted, until its user may have taken it back (or, for a reaction,
\* a peer may have handed its copy without a target first); pledges add up to
\* at least the accepted ones and at most what was signed, retries or not.
AcceptedShown ==
    /\ \A m \in accepted :
         Shown(m) \/ TakenBack(m) \/ (m.type = "REACTION_ADD" /\ m \in abroad)
    /\ \A c \in db.crowdfunds :
         Raised(c.id) \in Pledged(accepted, c.id) .. Pledged(DOMAIN left, c.id)

\* notifications.ts, users.ts, feed.ts, karma.ts, social.ts, polls.ts: routes that derive
\* the same fact by different queries give the same answer.
ViewsAgree ==
    /\ \A tid \in Tids :
         LET notes(kind) == {n \in Notifications(tid) : n.kind = kind} IN
         /\ NotificationCount(tid) = Cardinality(Notifications(tid))
         /\ User(tid) = [followers |-> Cardinality(Followers(tid)), following |-> Cardinality(Following(tid))]
         /\ \A row \in Users : row.tid = tid => row.followers = Cardinality(notes("follow"))
         /\ Karma(tid) =
                Cardinality({a \in Rows("TWEET_ADD") : a.tid = tid})
                + 2 * Cardinality({n \in notes("reaction") :
                          \E t \in Rows("TWEET_ADD") : t.hash = n.row.parent})
                + 5 * Cardinality(notes("follow")) + 10 * Cardinality(notes("tip"))
                + 20 * Cardinality({t \in db.tasks : t.completer = tid})
    /\ \A t \in Feed : ReactionCount(t) = Cardinality({tid \in Tids : t \in Likes(tid)})
    /\ \A p \in db.polls :
         TotalVotes(p.id) = MapThenSumSet(LAMBDA option : Tally(p.id, option), 0 .. p.options - 1)
    /\ \A e \in SearchEvents : e[2] = Rsvps(e[1], "yes")
    /\ \A c \in SearchCrowdfunds : c.raised = Raised(c.id) /\ PledgerCount(c.id) \in 0 .. c.pledgers

\* er-client.ts:62-76, social.ts:89-98.  The follower lists show what was clicked
\* last while the ER reports it, and again once the indexer has it, through
\* follows and unfollows whose transactions are on their way.
FollowsAsClicked ==
    \A e \in Edges :
        er[e] # Blank \/ settled[e] = Blank =>
            /\ e[1] \in Followers(e[2]) <=> wish[e] = "follow"
            /\ e[2] \in Following(e[1]) <=> wish[e] = "follow"
=============================================================================
