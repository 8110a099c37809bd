--------------------------------- MODULE MCHub ---------------------------------
(* Two users of one hub, and what its clients, peers and seeds do, for TLC. *)
EXTENDS Hub

Draft == [hash |-> "", type |-> "", tid |-> 1, at |-> 1, on |-> "", to |-> {}, val |-> "",
          num |-> 0, until |-> 0, chan |-> "", form |-> "json"]
By(hash, type, tid, at, on) ==
    [Draft EXCEPT !.hash = hash, !.type = type, !.tid = tid, !.at = at, !.on = on]
Proto(m) == [m EXCEPT !.form = "proto"]

t1 == [By("t1", "TWEET_ADD", 1, 1, "") EXCEPT !.chan = "general", !.val = "reel"]
t2 == [By("t2", "TWEET_ADD", 2, 2, "t1") EXCEPT !.chan = "c", !.to = {1}]
t3 == [By("t3", "TWEET_ADD", 1, 2, "t1") EXCEPT !.chan = "c", !.val = "photo"]
t4 == Proto([By("t4", "TWEET_ADD", 1, 1, "") EXCEPT !.chan = "c", !.val = "reel"])
x1 == By("x1", "TWEET_REMOVE", 1, 1, "t1")
like == [By("like", "REACTION_ADD", 2, 1, "t1") EXCEPT !.val = "1"]
recast == [By("recast", "REACTION_ADD", 2, 2, "t1") EXCEPT !.val = "2"]
unlike == By("unlike", "REACTION_REMOVE", 2, 2, "t1")
n1 == [By("n1", "USER_DATA_ADD", 1, 1, "bio") EXCEPT !.val = "old"]
n2 == [By("n2", "USER_DATA_ADD", 1, 2, "bio") EXCEPT !.val = "new"]
chan == Proto(By("chan", "CHANNEL_ADD", 1, 1, "c"))
chan2 == [By("chan2", "CHANNEL_ADD", 2, 1, "c") EXCEPT !.val = "2"]
join == By("join", "CHANNEL_JOIN", 2, 1, "c")
leave == By("leave", "CHANNEL_LEAVE", 2, 2, "c")
mark == By("mark", "BOOKMARK_ADD", 2, 1, "t1")
unmark == By("unmark", "BOOKMARK_REMOVE", 2, 2, "t1")
poll == [By("poll", "POLL_ADD", 1, 1, "p") EXCEPT !.num = 2, !.until = 2]
poll2 == [By("poll2", "POLL_ADD", 1, 1, "p") EXCEPT !.num = 1, !.until = 1]
vote == [By("vote", "POLL_VOTE", 2, 1, "p") EXCEPT !.num = 1]
vote2 == By("vote2", "POLL_VOTE", 2, 2, "p")
event == [By("event", "EVENT_ADD", 1, 1, "e") EXCEPT !.until = 3]
rsvp == [By("rsvp", "EVENT_RSVP", 2, 1, "e") EXCEPT !.val = "yes"]
rsvp2 == [By("rsvp2", "EVENT_RSVP", 2, 2, "e") EXCEPT !.val = "no"]
task == By("task", "TASK_ADD", 1, 1, "w")
claim1 == By("claim1", "TASK_CLAIM", 1, 1, "w")
claim2 == By("claim2", "TASK_CLAIM", 2, 1, "w")
done1 == By("done1", "TASK_COMPLETE", 1, 1, "w")
done2 == By("done2", "TASK_COMPLETE", 2, 2, "w")
fund == By("fund", "CROWDFUND_ADD", 1, 1, "f")
pledge == [By("pledge", "CROWDFUND_PLEDGE", 2, 1, "f") EXCEPT !.num = 1]
pledge2 == [By("pledge2", "CROWDFUND_PLEDGE", 2, 2, "f") EXCEPT !.num = 2]
tip == [By("tip", "TIP_ADD", 2, 1, "t1") EXCEPT !.num = 1, !.to = {1}]
tip2 == [By("tip2", "TIP_ADD", 2, 1, "") EXCEPT !.num = 1, !.to = {1}]
story == By("story", "STORY_ADD", 1, 1, "")
view == By("view", "STORY_VIEW", 2, 1, "story")
view2 == By("view2", "STORY_VIEW", 2, 2, "story")

Quiet == [sent |-> {}, abroad |-> {}, again |-> 0, faults |-> 0,
          seeds |-> <<>>, asks |-> 0, drops |-> 0, uploads |-> 0, clicks |-> 0]
Sent(ms) == [Quiet EXCEPT !.sent = ms]
Retried(ms) == [Quiet EXCEPT !.sent = ms, !.again = 1, !.faults = 1]
TwoHubs(ms, others) == [Quiet EXCEPT !.sent = ms, !.abroad = others]

Stories4 == {
    Sent({t1, x1, t2, like, recast}), Sent({t1, x1, t3, recast, mark}), Retried({t1, like, unlike}),
    TwoHubs({t1, x1, like}, {x1}), TwoHubs({t4, t2}, {t2}),
    Retried({n1, n2}), Sent({n1, n2, tip, t1, t2}),
    Sent({chan, chan2, join, leave}), Retried({chan, join}),
    Retried({mark, unmark}), Sent({t1, mark, tip2}),
    Sent({poll, poll2, vote, vote2}), Retried({poll, vote, vote2}),
    Sent({event, rsvp, rsvp2}), Retried({event, rsvp}),
    Sent({task, claim1, claim2, done1, done2}), Retried({task, claim2, done2}), TwoHubs({task, claim2, done2}, {claim2}),
    Retried({fund, pledge, pledge2}), Retried({tip, tip2}),
    Retried({story, view, view2}), TwoHubs({story, view, t1}, {story}),
    [Quiet EXCEPT !.asks = 4], [Quiet EXCEPT !.asks = 2, !.faults = 1],
    [Quiet EXCEPT !.seeds = <<"ws://b", "ws://b2", "ws://b">>, !.drops = 3],
    [Quiet EXCEPT !.seeds = <<"ws://b", "bad", "ws://me">>, !.drops = 2, !.faults = 1],
    [Quiet EXCEPT !.uploads = 3, !.faults = 2],
    [Quiet EXCEPT !.clicks = 3],
    [Quiet EXCEPT !.sent = {t1, like}, !.clicks = 1, !.faults = 1]}

Places == [u \in {"ws://b", "ws://b2", "ws://me", "bad"} |->
    IF u = "ws://me" THEN "me" ELSE "b"]
Follows == {<<1, 2>>, <<2, 1>>}
=============================================================================
