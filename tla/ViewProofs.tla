------------------------------ MODULE ViewProofs ------------------------------
(***************************************************************************)
(* Proofs about the answers of HubViews, for any messages, users, follows, *)
(* faults, retries, restarts and peers: what a request was answered for is *)
(* on the routes of its type and counted, and routes that derive one fact  *)
(* by different queries agree.                                             *)
(*                                                                         *)
(* Sums come first: over a finite set a sum has one value, whatever order  *)
(* it is taken in, and one set's sum is at most another's when its members *)
(* map one to one to members as heavy.  Then what each table is made of:   *)
(* its rows are few, a plain row is that of a well-formed message, a copy  *)
(* in messages is that of a message sent, who has left sent a leave, a     *)
(* vote names an option.  The routes follow from these and from the keys   *)
(* of HubProofs.                                                           *)
(***************************************************************************)
EXTENDS HubProofs

----------------------------------------------------------------------------
(* Sums over finite sets *)

\* A set of subsets of a finite set has a least one.
LEMMA LeastSubset ==
    ASSUME NEW S, IsFiniteSet(S), NEW T \in SUBSET SUBSET S, T # {}
    PROVE  \E u \in T : \A v \in T : v \subseteq u => v = u
<1> DEFINE R == StrictSubsetOrdering(S)
<1>1. FiniteSubsetsOf(S) = SUBSET S
  BY FS_FiniteSubsetsOfFinite
<1>2. IsWellFoundedOn(R, SUBSET S)
  BY <1>1, FS_StrictSubsetOrderingWellFounded
<1>3. \E x \in T : \A y \in T : <<y, x>> \notin R
  <2> HIDE DEF R
  <2>1. QED
    BY <1>2, WFMin
<1>4. PICK u \in T : \A y \in T : <<y, u>> \notin R
  BY <1>3
<1>5. ASSUME NEW v \in T, v \subseteq u, v # u PROVE FALSE
  <2>1. <<v, u>> \in R
    BY <1>5 DEF StrictSubsetOrdering
  <2>2. QED
    BY <1>4, <2>1
<1>6. QED
  BY <1>5

Any(s) == CHOOSE x \in s : TRUE
\* The sums of the weights of the subsets of S, as MapThenSumSet builds them
IsSum(F, S, w) == F = [s \in SUBSET S |-> IF s = {} THEN 0 ELSE w[Any(s)] + F[s \ {Any(s)}]]

LEMMA AnyMember == \A s : s # {} => Any(s) \in s
BY DEF Any

LEMMA SumAt ==
    ASSUME NEW F, NEW S, NEW w, IsSum(F, S, w), NEW s \in SUBSET S
    PROVE  /\ s = {} => F[s] = 0
           /\ s # {} => F[s] = w[Any(s)] + F[s \ {Any(s)}]
BY DEF IsSum

LEMMA SumsMatch ==
    ASSUME NEW S, IsFiniteSet(S), NEW T, NEW F, NEW G, NEW w, IsSum(F, S, w), IsSum(G, T, w),
           NEW s \in SUBSET S, s \subseteq T
    PROVE  F[s] = G[s]
<1> DEFINE bad == {u \in SUBSET s : F[u] # G[u]}
<1> SUFFICES ASSUME bad # {} PROVE FALSE
  OBVIOUS
<1>1. IsFiniteSet(s)
  BY FS_Subset
<1>2. PICK u \in bad : \A v \in bad : v \subseteq u => v = u
  <2> HIDE DEF bad
  <2>1. bad \in SUBSET SUBSET s
    BY DEF bad
  <2>2. QED
    BY <1>1, <2>1, LeastSubset
<1>3. u # {}
  BY <1>2, SumAt
<1>4. Any(u) \in u
  BY <1>3, AnyMember
<1>5. F[u \ {Any(u)}] = G[u \ {Any(u)}]
  BY <1>2, <1>4
<1>6. F[u] = G[u]
  <2>1. u \in SUBSET S /\ u \in SUBSET T
    OBVIOUS
  <2>2. F[u] = w[Any(u)] + F[u \ {Any(u)}]
    BY <1>3, <2>1, SumAt
  <2>3. G[u] = w[Any(u)] + G[u \ {Any(u)}]
    BY <1>3, <2>1, SumAt
  <2>4. QED
    BY <1>5, <2>2, <2>3
<1>7. QED
  BY <1>6

LEMMA SumExists ==
    ASSUME NEW S, IsFiniteSet(S), NEW w
    PROVE  \E F : IsSum(F, S, w)
<1> DEFINE bad == {s \in SUBSET S : ~\E F : IsSum(F, s, w)}
<1> SUFFICES ASSUME bad # {} PROVE FALSE
  OBVIOUS
<1>1. PICK t \in bad : \A v \in bad : v \subseteq t => v = t
  <2> HIDE DEF bad
  <2>1. bad \in SUBSET SUBSET S
    BY DEF bad
  <2>2. QED
    BY <2>1, LeastSubset
<1> DEFINE of(s) == CHOOSE F : IsSum(F, s, w)
           rest(s) == s \ {Any(s)}
           value(s) == IF s = {} THEN 0 ELSE w[Any(s)] + of(rest(s))[rest(s)]
           G == [s \in SUBSET t |-> value(s)]
<1>2. \A s \in SUBSET t : s # t => IsSum(of(s), s, w)
  <2> SUFFICES ASSUME NEW s \in SUBSET t, s # t PROVE IsSum(of(s), s, w)
    OBVIOUS
  <2>1. \E F : IsSum(F, s, w)
    BY <1>1
  <2> HIDE DEF IsSum
  <2>2. QED
    BY <2>1
<1>3. ASSUME NEW s \in SUBSET t, s # {} PROVE rest(s) \in SUBSET t /\ rest(s) # t /\ rest(s) # s
  BY <1>3, AnyMember
<1>4. ASSUME NEW s \in SUBSET t, s # t PROVE of(s)[s] = value(s)
  <2>1. IsSum(of(s), s, w)
    BY <1>2, <1>4
  <2> HIDE DEF of
  <2>2. CASE s = {}
    BY <2>1, <2>2, SumAt
  <2>3. CASE s # {}
    <3>1. of(s)[s] = w[Any(s)] + of(s)[rest(s)]
      BY <2>1, <2>3, SumAt
    <3>2. IsSum(of(rest(s)), rest(s), w)
      BY <1>2, <1>3, <2>3
    <3>3. IsFiniteSet(s)
      <4>1. s \in SUBSET S
        OBVIOUS
      <4>2. QED
        BY <4>1, FS_Subset
    <3>4. of(s)[rest(s)] = of(rest(s))[rest(s)]
      <4>1. rest(s) \in SUBSET s /\ rest(s) \subseteq rest(s)
        OBVIOUS
      <4> HIDE DEF rest
      <4>2. QED
        BY <2>1, <3>2, <3>3, <4>1, SumsMatch
    <3>5. QED
      BY <2>3, <3>1, <3>4
  <2>4. QED
    BY <2>2, <2>3
<1>5. IsSum(G, t, w)
  <2>1. \A s \in SUBSET t : s # {} => G[rest(s)] = of(rest(s))[rest(s)]
    <3> SUFFICES ASSUME NEW s \in SUBSET t, s # {} PROVE G[rest(s)] = of(rest(s))[rest(s)]
      OBVIOUS
    <3>1. rest(s) \in SUBSET t /\ rest(s) # t
      BY <1>3
    <3> HIDE DEF of, value, rest
    <3>2. QED
      BY <1>4, <3>1
  <2>2. ASSUME NEW s \in SUBSET t
        PROVE  G[s] = IF s = {} THEN 0 ELSE w[Any(s)] + G[s \ {Any(s)}]
    <3>1. G[s] = value(s)
      OBVIOUS
    <3>2. s # {} => G[s \ {Any(s)}] = of(rest(s))[rest(s)]
      BY <2>1
    <3> HIDE DEF G, of
    <3>3. QED
      BY <3>1, <3>2
  <2>3. G = [s \in SUBSET t |-> IF s = {} THEN 0 ELSE w[Any(s)] + G[s \ {Any(s)}]]
    <3>1. G = [s \in SUBSET t |-> G[s]]
      OBVIOUS
    <3> HIDE DEF G
    <3>2. QED
      BY <2>2, <3>1
  <2>4. QED
    BY <2>3 DEF IsSum
<1>6. QED
  BY <1>1, <1>5

LEMMA SumNat ==
    ASSUME NEW S, IsFiniteSet(S), NEW F, NEW w, IsSum(F, S, w), \A x \in S : w[x] \in Nat
    PROVE  \A s \in SUBSET S : F[s] \in Nat
<1> DEFINE bad == {s \in SUBSET S : F[s] \notin Nat}
<1> SUFFICES ASSUME bad # {} PROVE FALSE
  OBVIOUS
<1>1. PICK u \in bad : \A v \in bad : v \subseteq u => v = u
  <2> HIDE DEF bad
  <2>1. bad \in SUBSET SUBSET S
    BY DEF bad
  <2>2. QED
    BY <2>1, LeastSubset
<1>0. u \in SUBSET S
  BY <1>1
<1>2. u # {}
  <2>1. u = {} => F[u] = 0
    BY <1>0, SumAt
  <2>2. QED
    BY <1>1, <2>1
<1>3. Any(u) \in u
  BY <1>2, AnyMember
<1>4. F[u \ {Any(u)}] \in Nat
  BY <1>1, <1>3
<1>5. F[u] = w[Any(u)] + F[u \ {Any(u)}]
  <2> HIDE DEF bad
  <2>1. QED
    BY <1>0, <1>2, SumAt
<1>6. QED
  BY <1>1, <1>3, <1>4, <1>5

\* Any member may be taken out first.
LEMMA SumPeel ==
    ASSUME NEW S, IsFiniteSet(S), NEW F, NEW w, IsSum(F, S, w), \A x \in S : w[x] \in Nat,
           NEW s \in SUBSET S, NEW x \in s
    PROVE  F[s] = w[x] + F[s \ {x}]
<1> DEFINE bad == {u \in SUBSET S : \E y \in u : F[u] # w[y] + F[u \ {y}]}
<1> SUFFICES ASSUME bad # {} PROVE FALSE
  OBVIOUS
<1>1. PICK u \in bad : \A v \in bad : v \subseteq u => v = u
  <2> HIDE DEF bad
  <2>1. bad \in SUBSET SUBSET S
    BY DEF bad
  <2>2. QED
    BY <2>1, LeastSubset
<1>2. PICK y \in u : F[u] # w[y] + F[u \ {y}]
  BY <1>1
<1> DEFINE c == Any(u)
<1>3. c \in u
  BY AnyMember
<1>4. F[u] = w[c] + F[u \ {c}]
  BY SumAt
<1> HIDE DEF c
<1>5. c # y
  BY <1>2, <1>4
<1>6. F[u \ {c}] = w[y] + F[(u \ {c}) \ {y}]
  <2>1. u \ {c} \notin bad /\ y \in u \ {c} /\ u \ {c} \in SUBSET S
    BY <1>1, <1>3, <1>5
  <2>2. QED
    BY <2>1
<1>7. F[u \ {y}] = w[c] + F[(u \ {y}) \ {c}]
  <2>1. u \ {y} \notin bad /\ c \in u \ {y} /\ u \ {y} \in SUBSET S
    BY <1>1, <1>3, <1>5
  <2>2. QED
    BY <2>1
<1>8. (u \ {c}) \ {y} = (u \ {y}) \ {c}
  OBVIOUS
<1>9. /\ F[(u \ {c}) \ {y}] \in Nat /\ w[y] \in Nat /\ w[c] \in Nat
  <2>1. (u \ {c}) \ {y} \in SUBSET S
    OBVIOUS
  <2>2. QED
    BY <1>3, <2>1, SumNat
<1> DEFINE z == F[(u \ {c}) \ {y}]
           a == w[y]
           b == w[c]
<1>10. F[u] = b + (a + z) /\ F[u \ {y}] = b + z /\ F[u] # a + F[u \ {y}]
       /\ a \in Nat /\ b \in Nat /\ z \in Nat
  BY <1>2, <1>4, <1>6, <1>7, <1>8, <1>9
<1> HIDE DEF z, a, b
<1>11. QED
  BY <1>10

\* A sum over images one to one, each at least as heavy, is no smaller.
LEMMA SumInjects ==
    ASSUME NEW S, IsFiniteSet(S), NEW T, IsFiniteSet(T), NEW F, NEW G, NEW w, NEW v,
           IsSum(F, S, w), IsSum(G, T, v), \A x \in S : w[x] \in Nat, \A y \in T : v[y] \in Nat,
           NEW h, \A x \in S : h[x] \in T /\ w[x] <= v[h[x]],
           \A x, y \in S : h[x] = h[y] => x = y
    PROVE  F[S] <= G[T]
<1> DEFINE bad == {s \in SUBSET S : \E t \in SUBSET T : (\A x \in s : h[x] \in t) /\ ~(F[s] <= G[t])}
<1> SUFFICES ASSUME bad # {} PROVE FALSE
  OBVIOUS
<1>1. PICK s \in bad : \A u \in bad : u \subseteq s => u = s
  <2> HIDE DEF bad
  <2>1. bad \in SUBSET SUBSET S
    BY DEF bad
  <2>2. QED
    BY <2>1, LeastSubset
<1>2. PICK t \in SUBSET T : (\A x \in s : h[x] \in t) /\ ~(F[s] <= G[t])
  BY <1>1
<1>3. G[t] \in Nat
  BY SumNat
<1>4. s # {}
  <2>1. s \in SUBSET S
    BY <1>1
  <2>2. s = {} => F[s] = 0
    BY <2>1, SumAt
  <2>3. QED
    BY <1>2, <1>3, <2>2
<1>5. PICK x \in s : TRUE
  BY <1>4
<1>6. F[s] = w[x] + F[s \ {x}]
  BY SumPeel
<1>7. G[t] = v[h[x]] + G[t \ {h[x]}]
  <2>1. h[x] \in t
    BY <1>2
  <2> HIDE DEF bad
  <2>2. \A y \in t : G[t] = v[y] + G[t \ {y}]
    BY SumPeel
  <2>3. QED
    BY <2>1, <2>2
<1>8. F[s \ {x}] <= G[t \ {h[x]}]
  <2>1. s \ {x} \notin bad /\ s \ {x} \in SUBSET S /\ t \ {h[x]} \in SUBSET T
    BY <1>1
  <2>2. \A y \in s \ {x} : h[y] \in t \ {h[x]}
    BY <1>2
  <2>3. QED
    BY <2>1, <2>2
<1>9. F[s \ {x}] \in Nat /\ G[t \ {h[x]}] \in Nat /\ w[x] \in Nat /\ v[h[x]] \in Nat /\ w[x] <= v[h[x]]
  <2>1. s \ {x} \in SUBSET S /\ t \ {h[x]} \in SUBSET T
    OBVIOUS
  <2>2. QED
    BY <2>1, SumNat
<1>10. QED
  BY <1>2, <1>6, <1>7, <1>8, <1>9

----------------------------------------------------------------------------
(* What a statement leaves in its table *)

\* The table and the row of the types that insert a row or replace the row of
\* its key.
MadeIn ==
    [CHANNEL_ADD |-> "channels", CHANNEL_JOIN |-> "channel_memberships", POLL_ADD |-> "polls",
     POLL_VOTE |-> "poll_votes", EVENT_ADD |-> "events", EVENT_RSVP |-> "event_rsvps",
     TASK_ADD |-> "tasks", CROWDFUND_PLEDGE |-> "crowdfund_pledges", TIP_ADD |-> "tips"]

MadeTypes == {"CHANNEL_ADD", "CHANNEL_JOIN", "POLL_ADD", "POLL_VOTE", "EVENT_ADD", "EVENT_RSVP",
              "TASK_ADD", "CROWDFUND_PLEDGE", "TIP_ADD"}
MadeTables == {"channels", "channel_memberships", "polls", "poll_votes", "events", "event_rsvps",
               "tasks", "crowdfund_pledges", "tips"}

MadeBy(m) ==
    CASE m.type = "CHANNEL_ADD" -> [id |-> m.on, by |-> m.tid, kind |-> Kind(m)]
      [] m.type = "CHANNEL_JOIN" -> [channel |-> m.on, tid |-> m.tid, joined |-> m.at, left |-> 0]
      [] m.type = "POLL_ADD" -> [id |-> m.on, creator |-> m.tid, options |-> m.num, expires |-> m.until]
      [] m.type = "POLL_VOTE" ->
           [hash |-> m.hash, poll |-> m.on, tid |-> m.tid, option |-> m.num, at |-> m.at]
      [] m.type = "EVENT_ADD" -> [id |-> m.on, creator |-> m.tid, starts |-> m.until]
      [] m.type = "EVENT_RSVP" ->
           [hash |-> m.hash, event |-> m.on, tid |-> m.tid, status |-> m.val, at |-> m.at]
      [] m.type = "TASK_ADD" ->
           [id |-> m.on, creator |-> m.tid, status |-> "open", claimer |-> 0, claimedAt |-> 0,
            completer |-> 0, completedAt |-> 0]
      [] m.type = "CROWDFUND_PLEDGE" ->
           [hash |-> m.hash, crowdfund |-> m.on, tid |-> m.tid, amount |-> m.num, at |-> m.at]
      [] m.type = "TIP_ADD" ->
           [hash |-> m.hash, tid |-> m.tid, to |-> m.to, target |-> m.on, amount |-> m.num, at |-> m.at]

Makes(r) ==
    LET table == MadeIn[r.msg.type]
        keys == PrimaryKey[table]
    IN  /\ r.msg.type \in MadeTypes
        /\ \E rows \in {InsertNew(db[table], keys, MadeBy(r.msg)), Upsert(db[table], keys, MadeBy(r.msg))} :
             Store(r, table, rows)

LEMMA Making ==
    ASSUME NEW r, NEW table, r.msg.type \in MadeTypes, table = MadeIn[r.msg.type],
           NEW keys, keys = PrimaryKey[table], NEW row, row = MadeBy(r.msg),
           Store(r, table, InsertNew(db[table], keys, row)) \/ Store(r, table, Upsert(db[table], keys, row))
    PROVE  Makes(r)
BY Zenon DEF Makes

LEMMA MakeWrites ==
    ASSUME NEW r, Write(r)
    PROVE  \/ Makes(r)
           \/ /\ r.msg.type \notin MadeTypes
              /\ ChannelLeave(r) \/ TaskClaim(r) \/ TaskComplete(r)
           \/ Elsewhere(r, MadeTypes, MadeTables \cup {"signed_envelopes", "social_graph"})
<1> USE KeyOf, Making DEF Writing
<1>1. ChannelAdd(r) => Makes(r)
  <2> SUFFICES ASSUME ChannelAdd(r) PROVE Makes(r)
    OBVIOUS
  <2>1. r.msg.type = "CHANNEL_ADD" /\ MadeIn[r.msg.type] = "channels" /\ r.msg.type \in MadeTypes
    BY DEF ChannelAdd, MadeIn, MadeTypes
  <2>2. MadeBy(r.msg) = [id |-> r.msg.on, by |-> r.msg.tid, kind |-> Kind(r.msg)]
    BY <2>1 DEF MadeBy
  <2>3. QED
    BY <2>1, <2>2 DEF ChannelAdd
<1>2. ChannelJoin(r) => Makes(r)
  <2> SUFFICES ASSUME ChannelJoin(r) PROVE Makes(r)
    OBVIOUS
  <2>1. r.msg.type = "CHANNEL_JOIN" /\ MadeIn[r.msg.type] = "channel_memberships" /\ r.msg.type \in MadeTypes
    BY DEF ChannelJoin, MadeIn, MadeTypes
  <2>2. MadeBy(r.msg) = [channel |-> r.msg.on, tid |-> r.msg.tid, joined |-> r.msg.at, left |-> 0]
    BY <2>1 DEF MadeBy
  <2>3. QED
    BY <2>1, <2>2 DEF ChannelJoin
<1>3. PollAdd(r) => Makes(r)
  <2> SUFFICES ASSUME PollAdd(r) PROVE Makes(r)
    OBVIOUS
  <2>1. r.msg.type = "POLL_ADD" /\ MadeIn[r.msg.type] = "polls" /\ r.msg.type \in MadeTypes
    BY DEF PollAdd, MadeIn, MadeTypes
  <2>2. MadeBy(r.msg) = [id |-> r.msg.on, creator |-> r.msg.tid, options |-> r.msg.num, expires |-> r.msg.until]
    BY <2>1 DEF MadeBy
  <2>3. QED
    BY <2>1, <2>2 DEF PollAdd
<1>4. PollVote(r) => Makes(r)
  <2> SUFFICES ASSUME PollVote(r) PROVE Makes(r)
    OBVIOUS
  <2>1. r.msg.type = "POLL_VOTE" /\ MadeIn[r.msg.type] = "poll_votes" /\ r.msg.type \in MadeTypes
    BY DEF PollVote, MadeIn, MadeTypes
  <2>2. MadeBy(r.msg) =
        [hash |-> r.msg.hash, poll |-> r.msg.on, tid |-> r.msg.tid, option |-> r.msg.num, at |-> r.msg.at]
    BY <2>1 DEF MadeBy
  <2>3. QED
    BY <2>1, <2>2 DEF PollVote
<1>5. EventAdd(r) => Makes(r)
  <2> SUFFICES ASSUME EventAdd(r) PROVE Makes(r)
    OBVIOUS
  <2>1. r.msg.type = "EVENT_ADD" /\ MadeIn[r.msg.type] = "events" /\ r.msg.type \in MadeTypes
    BY DEF EventAdd, MadeIn, MadeTypes
  <2>2. MadeBy(r.msg) = [id |-> r.msg.on, creator |-> r.msg.tid, starts |-> r.msg.until]
    BY <2>1 DEF MadeBy
  <2>3. QED
    BY <2>1, <2>2 DEF EventAdd
<1>6. EventRsvp(r) => Makes(r)
  <2> SUFFICES ASSUME EventRsvp(r) PROVE Makes(r)
    OBVIOUS
  <2>1. r.msg.type = "EVENT_RSVP" /\ MadeIn[r.msg.type] = "event_rsvps" /\ r.msg.type \in MadeTypes
    BY DEF EventRsvp, MadeIn, MadeTypes
  <2>2. MadeBy(r.msg) =
        [hash |-> r.msg.hash, event |-> r.msg.on, tid |-> r.msg.tid, status |-> r.msg.val, at |-> r.msg.at]
    BY <2>1 DEF MadeBy
  <2>3. QED
    BY <2>1, <2>2 DEF EventRsvp
<1>7. TaskAdd(r) => Makes(r)
  <2> SUFFICES ASSUME TaskAdd(r) PROVE Makes(r)
    OBVIOUS
  <2>1. r.msg.type = "TASK_ADD" /\ MadeIn[r.msg.type] = "tasks" /\ r.msg.type \in MadeTypes
    BY DEF TaskAdd, MadeIn, MadeTypes
  <2>2. MadeBy(r.msg) =
        [id |-> r.msg.on, creator |-> r.msg.tid, status |-> "open", claimer |-> 0, claimedAt |-> 0,
         completer |-> 0, completedAt |-> 0]
    BY <2>1 DEF MadeBy
  <2>3. QED
    BY <2>1, <2>2 DEF TaskAdd
<1>8. CrowdfundPledge(r) => Makes(r)
  <2> SUFFICES ASSUME CrowdfundPledge(r) PROVE Makes(r)
    OBVIOUS
  <2>1. r.msg.type = "CROWDFUND_PLEDGE" /\ MadeIn[r.msg.type] = "crowdfund_pledges" /\ r.msg.type \in MadeTypes
    BY DEF CrowdfundPledge, MadeIn, MadeTypes
  <2>2. MadeBy(r.msg) =
        [hash |-> r.msg.hash, crowdfund |-> r.msg.on, tid |-> r.msg.tid, amount |-> r.msg.num, at |-> r.msg.at]
    BY <2>1 DEF MadeBy
  <2>3. QED
    BY <2>1, <2>2 DEF CrowdfundPledge
<1>9. TipAdd(r) => Makes(r)
  <2> SUFFICES ASSUME TipAdd(r) PROVE Makes(r)
    OBVIOUS
  <2>1. r.msg.type = "TIP_ADD" /\ MadeIn[r.msg.type] = "tips" /\ r.msg.type \in MadeTypes
    BY DEF TipAdd, MadeIn, MadeTypes
  <2>2. MadeBy(r.msg) =
        [hash |-> r.msg.hash, tid |-> r.msg.tid, to |-> r.msg.to, target |-> r.msg.on, amount |-> r.msg.num,
         at |-> r.msg.at]
    BY <2>1 DEF MadeBy
  <2>3. QED
    BY <2>1, <2>2 DEF TipAdd
<1>10. CASE ChannelLeave(r) \/ TaskClaim(r) \/ TaskComplete(r)
  BY <1>10 DEF ChannelLeave, TaskClaim, TaskComplete, MadeTypes
<1>11. CASE \E type \in {"TWEET_ADD", "TWEET_REMOVE", "REACTION_ADD", "REACTION_REMOVE"} :
             Stores(r, type, "messages")
  BY <1>11 DEF Elsewhere, Stores, MadeTypes, MadeTables, Tables
<1>12. CASE \/ Stores(r, "USER_DATA_ADD", "user_data") \/ Stores(r, "CROWDFUND_ADD", "crowdfunds")
            \/ Stores(r, "BOOKMARK_ADD", "bookmarks") \/ Stores(r, "BOOKMARK_REMOVE", "bookmarks")
            \/ Stores(r, "STORY_ADD", "stories") \/ Stores(r, "STORY_VIEW", "story_views")
  BY <1>12 DEF Elsewhere, Stores, MadeTypes, MadeTables, Tables
<1>13. QED
  BY <1>1, <1>2, <1>3, <1>4, <1>5, <1>6, <1>7, <1>8, <1>9, <1>10, <1>11, <1>12, TweetAddStores,
     TweetRemoveStores, ReactionAddStores, ReactionRemoveStores, UserDataAddStores, CrowdfundAddStores,
     BookmarkAddStores, BookmarkRemoveStores, StoryAddStores, StoryViewStores
     DEF Write

----------------------------------------------------------------------------
(* Tables are finite, and what lands was well formed *)

FiniteInv == \A table \in Tables \ {"signed_envelopes", "social_graph"} : IsFiniteSet(db[table])

LEMMA InsertNewFinite ==
    ASSUME NEW rows, IsFiniteSet(rows), NEW keys, NEW row
    PROVE  IsFiniteSet(InsertNew(rows, keys, row)) /\ IsFiniteSet(Upsert(rows, keys, row))
<1>1. IsFiniteSet(rows \cup {row})
  BY FS_AddElement
<1>2. InsertNew(rows, keys, row) \subseteq rows \cup {row} /\ Upsert(rows, keys, row) \subseteq rows \cup {row}
  BY DEF InsertNew, Upsert
<1>3. QED
  BY <1>1, <1>2, FS_Subset

LEMMA ChangedFinite ==
    ASSUME NEW all, IsFiniteSet(all), NEW rows \in SUBSET all, NEW changed
    PROVE  IsFiniteSet((all \ rows) \cup {changed[row] : row \in rows})
<1>1. IsFiniteSet(rows) /\ IsFiniteSet(all \ rows)
  BY FS_Subset
<1>2. IsFiniteSet({changed[row] : row \in rows})
  <2> DEFINE f == [row \in rows |-> changed[row]]
  <2>1. f \in Surjection(rows, {changed[row] : row \in rows})
    BY DEF Surjection
  <2> HIDE DEF f
  <2>2. QED
    BY <1>1, <2>1, FS_Surjection
<1>3. QED
  BY <1>1, <1>2, FS_Union

LEMMA WriteFinite ==
    ASSUME Requests, FiniteInv, NEW r \in open, Write(r)
    PROVE  FiniteInv'
<1> DEFINE kept == Tables \ {"signed_envelopes", "social_graph"}
<1>1. ASSUME NEW table \in kept, NEW rows, Store(r, table, rows), IsFiniteSet(rows) PROVE FiniteInv'
  BY <1>1, StoreRequests DEF FiniteInv
<1>2. CASE Keyed(r)
  <2>1. PICK table \in Tables \ {"channel_memberships", "signed_envelopes", "social_graph"} : \E row, rows :
          /\ Store(r, table, rows)
          /\ \/ rows = InsertNew(db[table], PrimaryKey[table], row)
             \/ rows = Upsert(db[table], PrimaryKey[table], row)
             \/ rows \subseteq db[table]
    BY <1>2 DEF Keyed
  <2>2. PICK row, rows :
          /\ Store(r, table, rows)
          /\ \/ rows = InsertNew(db[table], PrimaryKey[table], row)
             \/ rows = Upsert(db[table], PrimaryKey[table], row)
             \/ rows \subseteq db[table]
    BY <2>1
  <2>3. IsFiniteSet(db[table])
    BY DEF FiniteInv
  <2>4. IsFiniteSet(rows)
    BY <2>2, <2>3, InsertNewFinite, FS_Subset
  <2>5. QED
    BY <1>1, <2>2, <2>4
<1>3. CASE Reject(r)
  BY <1>3 DEF Reject, FiniteInv
<1>4. CASE ChannelJoin(r)
  <2>1. PICK row : Store(r, "channel_memberships", Upsert(db["channel_memberships"], {"channel", "tid"}, row))
    BY <1>4 DEF ChannelJoin
  <2>2. IsFiniteSet(Upsert(db["channel_memberships"], {"channel", "tid"}, row))
    BY InsertNewFinite DEF FiniteInv, Tables
  <2>3. QED
    BY <1>1, <2>1, <2>2 DEF Tables
<1>5. CASE ChannelLeave(r)
  <2> DEFINE all == db["channel_memberships"]
             change(row) == IF row.channel = r.msg.on /\ row.tid = r.msg.tid
                            THEN [row EXCEPT !.left = r.msg.at] ELSE row
             changed == [row \in all |-> change(row)]
             rows == {change(row) : row \in all}
  <2>1. Store(r, "channel_memberships", rows)
    BY <1>5 DEF ChannelLeave
  <2>2. IsFiniteSet(all)
    BY DEF FiniteInv, Tables
  <2>3. rows = (all \ all) \cup {changed[row] : row \in all}
    <3> HIDE DEF change
    <3>1. QED
      OBVIOUS
  <2> HIDE DEF all, changed, rows
  <2>4. IsFiniteSet(rows)
    BY <2>2, <2>3, ChangedFinite
  <2>5. QED
    BY <1>1, <2>1, <2>4 DEF Tables
<1>6. ASSUME NEW rows \in SUBSET db["tasks"], NEW changed,
             Store(r, "tasks", (db["tasks"] \ rows) \cup {changed[row] : row \in rows})
      PROVE  FiniteInv'
  <2>1. IsFiniteSet(db["tasks"])
    BY DEF FiniteInv, Tables
  <2>2. IsFiniteSet((db["tasks"] \ rows) \cup {changed[row] : row \in rows})
    BY <2>1, ChangedFinite
  <2>3. QED
    BY <1>1, <1>6, <2>2 DEF Tables
<1>7. CASE TaskClaim(r)
  <2> DEFINE rows == {row \in db["tasks"] : row.id = r.msg.on /\ row.status = "open"}
  <2>1. Reject(r) \/ Store(r, "tasks", (db["tasks"] \ rows) \cup {Claimed(r)[row] : row \in rows})
    BY <1>7 DEF TaskClaim, Update
  <2>2. rows \in SUBSET db["tasks"]
    OBVIOUS
  <2> HIDE DEF rows
  <2>3. QED
    BY <1>3, <1>6, <2>1, <2>2
<1>8. CASE TaskComplete(r)
  <2> DEFINE rows == {row \in db["tasks"] : row.id = r.msg.on /\ row.status = "claimed"
                                            /\ r.msg.tid \in {row.claimer, row.creator}}
  <2>1. Reject(r) \/ Store(r, "tasks", (db["tasks"] \ rows) \cup {Completed(r)[row] : row \in rows})
    BY <1>8 DEF TaskComplete, Update
  <2>2. rows \in SUBSET db["tasks"]
    OBVIOUS
  <2> HIDE DEF rows
  <2>3. QED
    BY <1>3, <1>6, <2>1, <2>2
<1>9. QED
  BY <1>2, <1>3, <1>4, <1>5, <1>7, <1>8, KeyedWrites

LEMMA TablesFinite == HubSpec => []FiniteInv
<1>1. HubInit => FiniteInv
  <2> SUFFICES ASSUME HubInit PROVE FiniteInv
    OBVIOUS
  <2>1. db["channels"] = {[id |-> "general", by |-> 0, kind |-> "1"]}
    BY DEF HubInit, FeatureInit, Tables
  <2>2. \A table \in Tables \ {"channels"} : db[table] = {}
    BY RequestsInit
  <2>3. \A x : IsFiniteSet({x})
    BY FS_Singleton
  <2>4. QED
    BY <2>1, <2>2, <2>3, FS_EmptySet DEF FiniteInv
<1>2. Requests /\ FiniteInv /\ [HubNext]_hubVars => FiniteInv'
  <2> SUFFICES ASSUME Requests, FiniteInv, [HubNext]_hubVars PROVE FiniteInv'
    OBVIOUS
  <2>1. CASE Beside
    BY <2>1 DEF Beside, FiniteInv
  <2>2. ASSUME NEW m, StoreFromPeer(m) PROVE FiniteInv'
    <3>1. PICK copy : db'["messages"] = db["messages"] \cup {copy}
      BY <2>2, PeerCopies
    <3>2. IsFiniteSet(db["messages"] \cup {copy})
      BY FS_AddElement DEF FiniteInv, Tables
    <3>3. QED
      BY <2>2, <3>1, <3>2, PeerCopies DEF FiniteInv
  <2>3. CASE RunStoriesCleanup
    <3>1. /\ db'["stories"] \subseteq db["stories"] /\ db'["story_views"] \subseteq db["story_views"]
          /\ \A table \in Tables \ {"stories", "story_views"} : db'[table] = db[table]
      BY <2>3, Cleanup
    <3>2. \A table \in Tables : db'[table] \subseteq db[table]
      BY <3>1
    <3>3. QED
      BY <3>2, FS_Subset DEF FiniteInv
  <2>4. QED
    BY <2>1, <2>2, <2>3, WriteFinite, StepKinds
<1>3. QED
  BY <1>1, <1>2, RequestsHold, PTL DEF HubSpec

\* What a request carries, and what was answered, passed the body checks.
WellInv == (\A r \in open : WellFormed(r.msg)) /\ \A m \in accepted : WellFormed(m)

LEMMA WellStep ==
    ASSUME Requests, WellInv, FeatureStep
    PROVE  WellInv'
<1>1. ASSUME NEW m, Submit(m) PROVE WellInv'
  <2>1. accepted' = accepted /\ \A r \in open' : r \in open \/ (r.msg = Wire(m) /\ WellFormed(Wire(m)))
    BY <1>1 DEF Submit
  <2>2. QED
    BY <2>1 DEF WellInv
<1>2. ASSUME NEW r \in open, NEW q, open' \subseteq (open \ {r}) \cup {q}, q.msg = r.msg, accepted' = accepted
      PROVE  WellInv'
  BY <1>2 DEF WellInv
<1>3. ASSUME NEW r \in open, Look(r) PROVE WellInv'
  <2> DEFINE q == [r EXCEPT !.step = "write", !.looked = now]
  <2>1. q.msg = r.msg
    BY DEF Requests, Request
  <2>2. open' \subseteq (open \ {r}) \cup {q} /\ accepted' = accepted
    BY <1>3 DEF Look
  <2> HIDE DEF q
  <2>3. QED
    BY <1>2, <2>1, <2>2
<1>4. ASSUME NEW r \in open, Write(r) PROVE WellInv'
  <2>1. accepted' = accepted /\ open' \subseteq (open \ {r}) \cup {[r EXCEPT !.step = "stored"]}
    BY <1>4, WriteStores DEF Stores, Store, Reject
  <2>2. [r EXCEPT !.step = "stored"].msg = r.msg
    BY StoredRequest DEF Requests
  <2>3. QED
    BY <1>2, <2>1, <2>2
<1>5. ASSUME NEW r \in open, Finish(r) PROVE WellInv'
  BY <1>5 DEF Finish, WellInv
<1>6. ASSUME NEW r \in open, Fails(r) PROVE WellInv'
  BY <1>6 DEF Fails, WellInv
<1>7. ASSUME NEW m, StoreFromPeer(m) PROVE WellInv'
  BY <1>7 DEF StoreFromPeer, WellInv
<1>8. CASE RunStoriesCleanup
  BY <1>8 DEF RunStoriesCleanup, WellInv
<1>9. QED
  BY <1>1, <1>3, <1>4, <1>5, <1>6, <1>7, <1>8 DEF FeatureStep

LEMMA WellHolds == HubSpec => []WellInv
<1>1. HubInit => WellInv
  BY DEF HubInit, FeatureInit, WellInv
<1>2. Requests /\ WellInv /\ [HubNext]_hubVars => WellInv'
  <2> SUFFICES ASSUME Requests, WellInv, [HubNext]_hubVars PROVE WellInv'
    OBVIOUS
  <2>1. CASE UNCHANGED <<open, accepted>>
    BY <2>1 DEF WellInv
  <2>2. CASE Restart
    BY <2>2 DEF Restart, WellInv
  <2>3. QED
    BY <2>1, <2>2, WellStep DEF HubNext, hubVars, featureVars
<1>3. QED
  BY <1>1, <1>2, RequestsHold, PTL DEF HubSpec

LEMMA LandedWell == Requests /\ WellInv => \A m \in Landed : WellFormed(m)
BY DEF WellInv, Landed

----------------------------------------------------------------------------
(* The tables whose rows one type of message makes *)

HasKey(rows, row, keys) == \E old \in rows : Same(old, row, keys)

LEMMA InsertedKey ==
    ASSUME NEW rows, NEW keys, NEW row
    PROVE  /\ HasKey(InsertNew(rows, keys, row), row, keys) /\ HasKey(Upsert(rows, keys, row), row, keys)
           /\ \A old : HasKey(rows, old, keys) =>
                /\ HasKey(InsertNew(rows, keys, row), old, keys)
                /\ HasKey(Upsert(rows, keys, row), old, keys)
<1>1. Same(row, row, keys)
  BY DEF Same
<1>2. \A old, one : Same(old, one, keys) => Same(one, old, keys)
  BY DEF Same
<1>3. \A old, one, other : Same(old, one, keys) /\ Same(old, other, keys) => Same(one, other, keys)
  BY DEF Same
<1>4. HasKey(InsertNew(rows, keys, row), row, keys) /\ HasKey(Upsert(rows, keys, row), row, keys)
  BY <1>1 DEF HasKey, InsertNew, Upsert
<1>5. ASSUME NEW old, NEW one \in rows, Same(one, old, keys)
      PROVE  /\ HasKey(InsertNew(rows, keys, row), old, keys) /\ HasKey(Upsert(rows, keys, row), old, keys)
  <2>1. one \in InsertNew(rows, keys, row)
    BY DEF InsertNew
  <2>2. one \in Upsert(rows, keys, row) \/ Same(row, old, keys)
    BY <1>3, <1>5 DEF Upsert
  <2>3. row \in Upsert(rows, keys, row)
    BY DEF Upsert
  <2>4. QED
    BY <1>5, <2>1, <2>2, <2>3 DEF HasKey
<1>6. QED
  BY <1>4, <1>5 DEF HasKey

LEMMA UpdatedKey ==
    ASSUME NEW all, NEW keys, NEW rows \in SUBSET all, NEW changed,
           \A row \in rows : Same(changed[row], row, keys), NEW old, HasKey(all, old, keys)
    PROVE  HasKey((all \ rows) \cup {changed[row] : row \in rows}, old, keys)
<1>1. PICK one \in all : Same(one, old, keys)
  BY DEF HasKey
<1>2. one \in rows => Same(changed[one], old, keys)
  BY <1>1 DEF Same
<1>3. QED
  BY <1>1, <1>2 DEF HasKey

\* The tables in which a row stays as its statement made it.
PlainTables == {"polls", "poll_votes", "events", "event_rsvps", "crowdfund_pledges", "tips"}

MadeOf(row, m, table) ==
    m.type \in MadeTypes /\ MadeIn[m.type] = table /\ WellFormed(m) /\ row = MadeBy(m)

\* A statement's row keeps its place, and a plain row is that of a message sent here.
MadeInv ==
    /\ \A m \in Landed : m.type \in MadeTypes =>
         HasKey(db[MadeIn[m.type]], MadeBy(m), PrimaryKey[MadeIn[m.type]])
    /\ \A table \in PlainTables : \A row \in db[table] :
         \E x \in DOMAIN left : MadeOf(row, Wire(x), table)

LEMMA MadePlaces ==
    /\ MadeTables \subseteq Tables \ {"messages", "user_data", "bookmarks", "crowdfunds", "stories",
                                      "story_views", "signed_envelopes", "social_graph"}
    /\ PlainTables \subseteq MadeTables \ {"channel_memberships", "tasks"}
    /\ \A type \in MadeTypes : MadeIn[type] \in MadeTables
BY DEF MadeTables, PlainTables, Tables, MadeTypes, MadeIn

LEMMA MadeKept ==
    ASSUME MadeInv, \A m \in Landed' : m \in Landed \/ m.type \notin MadeTypes, DOMAIN left' = DOMAIN left,
           \A table \in MadeTables : db'[table] = db[table]
    PROVE  MadeInv'
BY MadePlaces DEF MadeInv

LEMMA MakesKeeps ==
    ASSUME Requests, WellInv, MadeInv, NEW r \in open, Makes(r)
    PROVE  MadeInv'
<1> DEFINE table == MadeIn[r.msg.type]
           keys == PrimaryKey[table]
           row == MadeBy(r.msg)
<1>1. r.msg.type \in MadeTypes /\ table \in MadeTables /\ table \in Tables
  BY MadePlaces DEF Makes
<1>2. PICK rows \in {InsertNew(db[table], keys, row), Upsert(db[table], keys, row)} : Store(r, table, rows)
  BY DEF Makes
<1>3. /\ Landed' \subseteq Landed \cup {r.msg} /\ db'[table] = rows
      /\ \A other \in Tables \ {table} : db'[other] = db[other]
      /\ left' = left
  <2> HIDE DEF table
  <2>1. QED
    BY <1>1, <1>2, StoreRequests
<1>4. ASSUME NEW m \in Landed', m.type \in MadeTypes
      PROVE  HasKey(db'[MadeIn[m.type]], MadeBy(m), PrimaryKey[MadeIn[m.type]])
  <2>1. CASE m = r.msg
    BY <1>2, <1>3, <2>1, InsertedKey
  <2>2. CASE m \in Landed /\ MadeIn[m.type] = table
    <3>1. HasKey(db[table], MadeBy(m), keys)
      BY <1>4, <2>2 DEF MadeInv
    <3>2. HasKey(rows, MadeBy(m), keys)
      BY <1>2, <3>1, InsertedKey
    <3>3. QED
      BY <1>3, <2>2, <3>2
  <2>3. CASE m \in Landed /\ MadeIn[m.type] # table
    <3>1. db'[MadeIn[m.type]] = db[MadeIn[m.type]]
      BY <1>3, <1>4, <2>3, MadePlaces
    <3>2. QED
      BY <1>4, <2>3, <3>1 DEF MadeInv
  <2>4. QED
    BY <1>3, <2>1, <2>2, <2>3
<1>5. ASSUME NEW plain \in PlainTables, NEW one \in db'[plain]
      PROVE  \E x \in DOMAIN left' : MadeOf(one, Wire(x), plain)
  <2>1. CASE one \in db[plain]
    BY <1>3, <2>1 DEF MadeInv
  <2>2. CASE one \notin db[plain]
    <3>1. plain = table
      BY <1>3, <2>2, MadePlaces
    <3>2. one = row
      BY <1>2, <1>3, <2>2, <3>1 DEF InsertNew, Upsert
    <3>3. r.sent \in DOMAIN left /\ r.msg = Wire(r.sent) /\ WellFormed(r.msg)
      BY DEF Requests, WellInv
    <3>4. MadeOf(one, r.msg, plain)
      BY <1>1, <3>1, <3>2, <3>3 DEF MadeOf
    <3>5. QED
      BY <1>3, <3>3, <3>4
  <2>3. QED
    BY <2>1, <2>2
<1>6. QED
  BY <1>4, <1>5 DEF MadeInv

LEMMA UpdatesKeep ==
    ASSUME Requests, MadeInv, NEW r \in open, r.msg.type \notin MadeTypes,
           NEW table \in {"channel_memberships", "tasks"}, Updates(r, table)
    PROVE  MadeInv'
<1> DEFINE keys == PrimaryKey[table]
           all == db[table]
<1>1. PICK rows \in SUBSET all : \E changed :
        /\ Store(r, table, (all \ rows) \cup {changed[row] : row \in rows})
        /\ \A row \in rows : Same(changed[row], row, keys)
  BY DEF Updates
<1>2. PICK changed :
        /\ Store(r, table, (all \ rows) \cup {changed[row] : row \in rows})
        /\ \A row \in rows : Same(changed[row], row, keys)
  BY <1>1
<1>3. rows \in SUBSET all /\ table \in Tables /\ table \notin PlainTables
  BY <1>1 DEF Tables, PlainTables
<1>4. /\ Landed' \subseteq Landed \cup {r.msg} /\ db'[table] = (all \ rows) \cup {changed[row] : row \in rows}
      /\ \A other \in Tables \ {table} : db'[other] = db[other]
      /\ left' = left
  <2> HIDE DEF all
  <2>1. QED
    BY <1>2, <1>3, StoreRequests
<1>5. ASSUME NEW m \in Landed', m.type \in MadeTypes
      PROVE  HasKey(db'[MadeIn[m.type]], MadeBy(m), PrimaryKey[MadeIn[m.type]])
  <2>1. m \in Landed
    BY <1>4, <1>5
  <2>2. HasKey(db[MadeIn[m.type]], MadeBy(m), PrimaryKey[MadeIn[m.type]])
    BY <1>5, <2>1 DEF MadeInv
  <2>3. CASE MadeIn[m.type] # table
    BY <1>4, <1>5, <2>2, <2>3, MadePlaces
  <2>4. CASE MadeIn[m.type] = table
    <3>1. HasKey(all, MadeBy(m), keys)
      BY <2>2, <2>4
    <3>2. \A row \in rows : Same(changed[row], row, keys)
      BY <1>2
    <3> DEFINE old == MadeBy(m)
    <3> HIDE DEF all, keys, old
    <3>3. HasKey((all \ rows) \cup {changed[row] : row \in rows}, old, keys)
      BY <1>3, <3>1, <3>2, UpdatedKey DEF old
    <3>4. QED
      BY <1>4, <2>4, <3>3 DEF keys, old
  <2>5. QED
    BY <2>3, <2>4
<1>6. \A plain \in PlainTables : db'[plain] = db[plain]
  BY <1>3, <1>4, MadePlaces
<1>7. QED
  BY <1>4, <1>5, <1>6 DEF MadeInv

LEMMA MadeStep ==
    ASSUME Requests, WellInv, RowsInv, TaskInv, MadeInv, [HubNext]_hubVars
    PROVE  MadeInv'
<1>1. CASE Beside
  BY <1>1, MadeKept, MadePlaces DEF Beside
<1>2. ASSUME NEW m, StoreFromPeer(m) PROVE MadeInv'
  BY <1>2, PeerCopies, MadeKept, MadePlaces
<1>3. CASE RunStoriesCleanup
  BY <1>3, Cleanup, MadeKept, MadePlaces
<1>4. ASSUME NEW r \in open, Write(r) PROVE MadeInv'
  <2>1. CASE Makes(r)
    BY <2>1, MakesKeeps
  <2>2. CASE Reject(r)
    BY <2>2, <1>1, RejectBeside
  <2>3. CASE r.msg.type \notin MadeTypes /\ ChannelLeave(r)
    <3>1. Updates(r, "channel_memberships")
      <4>1. PrimaryKey["channel_memberships"] = {"channel", "tid"}
        BY KeyOf
      <4>2. PICK rows \in SUBSET db["channel_memberships"] : \E changed :
              /\ Store(r, "channel_memberships",
                       (db["channel_memberships"] \ rows) \cup {changed[row] : row \in rows})
              /\ \A row \in rows : Same(changed[row], row, {"channel", "tid"})
        BY <2>3, LeaveUpdates
      <4>3. QED
        BY <4>1, <4>2 DEF Updates
    <3>2. QED
      BY <2>3, <3>1, UpdatesKeep
  <2>4. CASE r.msg.type \notin MadeTypes /\ (TaskClaim(r) \/ TaskComplete(r)) /\ ~Reject(r)
    BY <2>4, TaskUpdates, UpdatesKeep
  <2>5. CASE Elsewhere(r, MadeTypes, MadeTables \cup {"signed_envelopes", "social_graph"}) /\ ~Reject(r)
    <3>1. PICK table \in Tables \ MadeTables : \E rows : Store(r, table, rows)
      BY <2>5 DEF Elsewhere, Stores
    <3>2. /\ Landed' \subseteq Landed \cup {r.msg} /\ left' = left
          /\ \A other \in Tables \ {table} : db'[other] = db[other]
      BY <3>1, StoreRequests
    <3>3. r.msg.type \notin MadeTypes
      BY <2>5 DEF Elsewhere
    <3>4. \A made \in MadeTables : db'[made] = db[made]
      BY <3>1, <3>2, MadePlaces
    <3>5. QED
      BY <3>2, <3>3, <3>4, MadeKept
  <2>6. QED
    BY <1>4, <2>1, <2>2, <2>3, <2>4, <2>5, MakeWrites
<1>5. QED
  BY <1>1, <1>2, <1>3, <1>4, StepKinds

LEMMA MadeHolds == HubSpec => []MadeInv
<1>1. HubInit => MadeInv
  <2> SUFFICES ASSUME HubInit PROVE MadeInv
    OBVIOUS
  <2>1. \A table \in PlainTables : db[table] = {}
    BY RequestsInit DEF Tables, PlainTables
  <2>2. QED
    BY <2>1, RequestsInit DEF MadeInv
<1>2. Requests /\ WellInv /\ RowsInv /\ TaskInv /\ MadeInv /\ [HubNext]_hubVars => MadeInv'
  BY MadeStep
<1>3. QED
  BY <1>1, <1>2, RequestsHold, WellHolds, RowsHold, TasksHold, PTL DEF HubSpec

----------------------------------------------------------------------------
(* The messages table *)

\* A row is a message clients sent, here or elsewhere; a copy that was not asked
\* for has lost what it is about.
Copied(row, x) ==
    /\ row.hash = x.hash /\ row.type = x.type /\ row.tid = x.tid /\ row.at = x.at /\ row.chan = x.chan
    /\ x.type = "TWEET_REMOVE" => row.text \in {x.on, Blank}
    /\ x.type = "REACTION_REMOVE" => row.parent \in {x.on, Blank}
    /\ x.type = "REACTION_ADD" => row.parent = x.on \/ x \in abroad

\* The hub has what it pushed, so it takes back no copy of its own.
CopiesInv ==
    /\ \A row \in db["messages"] : \E x \in DOMAIN left : Copied(row, x)
    /\ \A m \in Landed \cup pushed : m.type \in MessageTypes => \E row \in db["messages"] : row.hash = m.hash

LEMMA SentAs ==
    ASSUME Requests
    PROVE  /\ \A m \in Landed \cup pushed \cup {r.msg : r \in open} : \E x \in DOMAIN left : m = Wire(x)
           /\ \A x \in DOMAIN left : x \in Body /\ x \in Messages /\ Wire(x) \in Body
BY MessagesTyped, WireKeeps DEF Requests, Landed

LEMMA CopiesKept ==
    ASSUME Requests, CopiesInv, db'["messages"] = db["messages"], DOMAIN left' = DOMAIN left, abroad' = abroad,
           \A m \in Landed' : m \in Landed \/ m.type \notin MessageTypes, pushed' \subseteq pushed \cup Landed
    PROVE  CopiesInv'
BY DEF CopiesInv, Copied

LEMMA AddsCopy ==
    ASSUME Requests, CopiesInv, NEW r \in open, AddsMessage(r)
    PROVE  CopiesInv'
<1>1. PICK text, parent :
        /\ r.msg.type \in MessageTypes /\ (r.msg.type = "TWEET_REMOVE" => text = r.msg.on)
        /\ r.msg.type \in {"REACTION_ADD", "REACTION_REMOVE"} => parent = r.msg.on
        /\ Store(r, "messages", InsertNew(db["messages"], {"hash"}, MessageRow(r.msg, text, parent)))
  BY DEF AddsMessage
<1> DEFINE row == MessageRow(r.msg, text, parent)
           rows == InsertNew(db["messages"], {"hash"}, row)
<1>2. /\ row.hash = r.msg.hash /\ row.tid = r.msg.tid /\ row.type = r.msg.type /\ row.text = text
      /\ row.at = r.msg.at /\ row.chan = r.msg.chan /\ row.parent = parent
  BY DEF MessageRow
<1>3. /\ db'["messages"] = rows /\ UNCHANGED <<pushed, abroad, left>> /\ Landed' \subseteq Landed \cup {r.msg}
  BY <1>1, StoreRequests DEF Tables
<1> DEFINE x == r.sent
<1>4. x \in DOMAIN left /\ r.msg = Wire(x)
  BY DEF Requests
<1>5. /\ x.hash = r.msg.hash /\ x.type = r.msg.type /\ x.tid = r.msg.tid /\ x.at = r.msg.at
      /\ x.chan = r.msg.chan /\ x.on = r.msg.on
  <2> HIDE DEF x
  <2>1. x \in Body
    BY <1>4, SentAs
  <2>2. QED
    BY <1>4, <2>1, WireKeeps
<1> HIDE DEF row, x
<1>6. (rows = db["messages"] \/ rows = db["messages"] \cup {row}) /\ \E old \in rows : old.hash = row.hash
  BY DEF InsertNew, Same
<1>7. Copied(row, x)
  BY <1>1, <1>2, <1>5 DEF Copied
<1>8. \A old \in rows : \E y \in DOMAIN left : Copied(old, y)
  BY <1>4, <1>6, <1>7 DEF CopiesInv
<1> HIDE DEF rows
<1>9. \A old, y : Copied(old, y)' <=> Copied(old, y)
  BY <1>3 DEF Copied
<1>10. \A m \in Landed' \cup pushed' : m.type \in MessageTypes => \E old \in rows : old.hash = m.hash
  BY <1>2, <1>3, <1>6 DEF CopiesInv
<1>11. \A old \in rows : \E y \in DOMAIN left' : Copied(old, y)'
  BY <1>3, <1>8, <1>9
<1>12. QED
  BY <1>3, <1>10, <1>11 DEF CopiesInv

LEMMA ProjectedCopy ==
    ASSUME NEW m \in Body, NEW asked \in BOOLEAN
    PROVE  LET row == Projected(m, asked) IN
           /\ row.hash = m.hash /\ row.type = m.type /\ row.tid = m.tid /\ row.at = m.at /\ row.chan = m.chan
           /\ m.type = "TWEET_REMOVE" => row.text \in {m.on, Blank}
           /\ m.type = "REACTION_REMOVE" => row.parent \in {m.on, Blank}
<1> DEFINE copy == [m EXCEPT !.val = Blank]
<1>1. /\ copy.hash = m.hash /\ copy.type = m.type /\ copy.tid = m.tid /\ copy.at = m.at /\ copy.chan = m.chan
  BY DEF Body
<1> HIDE DEF copy
<1>2. \A text, parent : LET row == MessageRow(copy, text, parent) IN
        /\ row.hash = m.hash /\ row.type = m.type /\ row.tid = m.tid /\ row.at = m.at /\ row.chan = m.chan
        /\ row.text = text /\ row.parent = parent
  BY <1>1 DEF MessageRow
<1>3. Projected(m, asked) =
        IF m.type = "TWEET_ADD" THEN MessageRow(copy, "said", m.on)
        ELSE IF ~asked \/ m.type \notin MessageTypes THEN MessageRow(copy, Blank, Blank)
        ELSE IF m.type = "TWEET_REMOVE" THEN MessageRow(copy, m.on, Blank)
        ELSE MessageRow(copy, m.val, m.on)
  BY DEF Projected, copy
<1>4. QED
  BY <1>2, <1>3

LEMMA PeerCopied ==
    ASSUME Requests, CopiesInv, NEW m, StoreFromPeer(m)
    PROVE  CopiesInv'
<1>1. m \in pushed \cup abroad /\ ~Duplicate(m)
  BY DEF StoreFromPeer
<1>2. PICK asked \in BOOLEAN : db'["messages"] = db["messages"] \cup {Projected(m, asked)}
  BY PeerCopies
<1>3. UNCHANGED <<pushed, abroad, Landed, left>>
  BY PeerCopies
<1>4. PICK x \in DOMAIN left : m = Wire(x) \/ (m = x /\ m \in abroad)
  BY <1>1, SentAs DEF Requests
<1>5. m \in Body /\ x \in Body
  BY <1>4, SentAs
<1>6. /\ x.hash = m.hash /\ x.type = m.type /\ x.tid = m.tid /\ x.at = m.at /\ x.chan = m.chan /\ x.on = m.on
  BY <1>4, <1>5, WireKeeps
<1>7. ASSUME m.type = "REACTION_ADD" PROVE x \in abroad
  <2>1. m \notin pushed
    BY <1>1, <1>7 DEF CopiesInv, MessageTypes, Duplicate
  <2>2. m \in abroad
    BY <1>1, <2>1
  <2>3. CASE m = Wire(x)
    <3>1. Wire(x) = x
      BY <1>6, <1>7 DEF Wire
    <3>2. QED
      BY <2>2, <2>3, <3>1
  <2>4. QED
    BY <1>4, <2>2, <2>3
<1> DEFINE row == Projected(m, asked)
<1>8. Copied(row, x)
  <2>1. /\ row.hash = m.hash /\ row.type = m.type /\ row.tid = m.tid /\ row.at = m.at /\ row.chan = m.chan
        /\ m.type = "TWEET_REMOVE" => row.text \in {m.on, Blank}
        /\ m.type = "REACTION_REMOVE" => row.parent \in {m.on, Blank}
    BY <1>5, ProjectedCopy
  <2> HIDE DEF row
  <2>2. QED
    BY <1>6, <1>7, <2>1 DEF Copied
<1> HIDE DEF row
<1>9. \A old, y : Copied(old, y)' <=> Copied(old, y)
  BY <1>3 DEF Copied
<1>10. \A old \in db'["messages"] : \E y \in DOMAIN left' : Copied(old, y)'
  <2>1. \A old \in db["messages"] \cup {row} : \E y \in DOMAIN left : Copied(old, y)
    BY <1>8 DEF CopiesInv
  <2>2. db'["messages"] = db["messages"] \cup {row}
    BY <1>2 DEF row
  <2>3. QED
    BY <1>3, <1>9, <2>1, <2>2
<1>11. db["messages"] \subseteq db'["messages"]
  BY <1>2
<1>12. QED
  BY <1>3, <1>10, <1>11 DEF CopiesInv

LEMMA CopiesHold == HubSpec => []CopiesInv
<1>1. HubInit => CopiesInv
  BY RequestsInit DEF CopiesInv, Tables
<1>2. Requests /\ CopiesInv /\ [HubNext]_hubVars => CopiesInv'
  <2> SUFFICES ASSUME Requests, CopiesInv, [HubNext]_hubVars PROVE CopiesInv'
    OBVIOUS
  <2>0. "messages" \in Tables \ {"signed_envelopes", "social_graph", "stories", "story_views"}
    BY DEF Tables
  <2>1. CASE Beside
    BY <2>0, <2>1, CopiesKept DEF Beside
  <2>2. ASSUME NEW r \in open, Write(r) PROVE CopiesInv'
    <3>1. CASE AddsMessage(r)
      BY <3>1, AddsCopy
    <3>2. CASE Reject(r)
      BY <3>2, <2>1, RejectBeside
    <3>3. CASE Elsewhere(r, MessageTypes, {"messages", "signed_envelopes", "social_graph"}) /\ ~Reject(r)
      <4>1. PICK table \in Tables \ {"messages"} : \E rows : Store(r, table, rows)
        BY <3>3 DEF Elsewhere, Stores
      <4>2. /\ Landed' \subseteq Landed \cup {r.msg} /\ UNCHANGED <<left, abroad, pushed>>
            /\ db'["messages"] = db["messages"]
        BY <2>0, <4>1, StoreRequests
      <4>3. r.msg.type \notin MessageTypes
        BY <3>3 DEF Elsewhere
      <4>4. QED
        BY <4>2, <4>3, CopiesKept
    <3>4. QED
      BY <2>2, <3>1, <3>2, <3>3, MessageWrites
  <2>3. CASE RunStoriesCleanup
    BY <2>0, <2>3, Cleanup, CopiesKept
  <2>4. QED
    BY <2>1, <2>2, <2>3, PeerCopied, StepKinds
<1>3. QED
  BY <1>1, <1>2, RequestsHold, PTL DEF HubSpec

----------------------------------------------------------------------------
(* Memberships and bookmarks, which a later message may take back *)

\* Who has left a channel sent a leave of it; a bookmark stays, or its user
\* sent a removal.
TakenInv ==
    /\ \A row \in db["channel_memberships"] :
         row.left = 0 \/ \E x \in DOMAIN left : x.type = "CHANNEL_LEAVE" /\ x.tid = row.tid /\ x.on = row.channel
    /\ \A m \in Landed : m.type = "BOOKMARK_ADD" =>
         \/ \E b \in db["bookmarks"] : b.tid = m.tid /\ b.target = m.on
         \/ \E x \in DOMAIN left : x.type = "BOOKMARK_REMOVE" /\ x.tid = m.tid /\ x.on = m.on

LEMMA TakenWrites ==
    ASSUME NEW r, Write(r)
    PROVE  \/ ChannelJoin(r) \/ ChannelLeave(r) \/ BookmarkAdd(r) \/ BookmarkRemove(r)
           \/ Elsewhere(r, {"BOOKMARK_ADD"}, {"channel_memberships", "bookmarks", "signed_envelopes", "social_graph"})
BY TweetAddStores, TweetRemoveStores, ReactionAddStores, ReactionRemoveStores, UserDataAddStores,
   ChannelAddStores, PollAddStores, PollVoteStores,
   EventAddStores, EventRsvpStores, TaskAddStores, TaskClaimStores, TaskCompleteStores,
   CrowdfundAddStores, CrowdfundPledgeStores, TipAddStores, StoryAddStores, StoryViewStores
   DEF Write, Elsewhere, Stores, Writing, Tables

LEMMA TakenKept ==
    ASSUME TakenInv, DOMAIN left' = DOMAIN left, \A m \in Landed' : m \in Landed \/ m.type # "BOOKMARK_ADD",
           db'["channel_memberships"] = db["channel_memberships"], db'["bookmarks"] = db["bookmarks"]
    PROVE  TakenInv'
BY DEF TakenInv

\* The message a request carries, as its client sent it.
LEMMA RequestSent ==
    ASSUME Requests, NEW r \in open
    PROVE  \E x \in DOMAIN left : x.type = r.msg.type /\ x.tid = r.msg.tid /\ x.on = r.msg.on
<1>1. r.sent \in DOMAIN left /\ r.msg = Wire(r.sent)
  BY DEF Requests
<1>2. r.sent \in Body
  BY <1>1, SentAs
<1>3. r.sent.type = r.msg.type /\ r.sent.tid = r.msg.tid /\ r.sent.on = r.msg.on
  BY <1>1, <1>2, WireKeeps
<1>4. QED
  BY <1>1, <1>3

LEMMA TakenWrite ==
    ASSUME Requests, RowsInv, TakenInv, NEW r \in open, Write(r), ~Reject(r)
    PROVE  TakenInv'
<1>0. {"channel_memberships", "bookmarks"} \subseteq Tables
  BY DEF Tables
<1> DEFINE all == db["channel_memberships"]
           Left(row) == row.left = 0 \/ \E x \in DOMAIN left :
                          x.type = "CHANNEL_LEAVE" /\ x.tid = row.tid /\ x.on = row.channel
<1>1. \A row \in all : Left(row)
  BY DEF TakenInv
<1>2. ASSUME NEW rows, Store(r, "channel_memberships", rows), \A row \in rows : Left(row),
             r.msg.type # "BOOKMARK_ADD"
      PROVE  TakenInv'
  <2>1. /\ db'["channel_memberships"] = rows /\ db'["bookmarks"] = db["bookmarks"]
        /\ Landed' \subseteq Landed \cup {r.msg} /\ left' = left
    BY <1>0, <1>2, StoreRequests
  <2>2. QED
    BY <1>2, <2>1 DEF TakenInv
<1>3. CASE ChannelJoin(r)
  <2> DEFINE row == [channel |-> r.msg.on, tid |-> r.msg.tid, joined |-> r.msg.at, left |-> 0]
  <2>1. Store(r, "channel_memberships", Upsert(all, {"channel", "tid"}, row)) /\ r.msg.type = "CHANNEL_JOIN"
    BY <1>3 DEF ChannelJoin, Writing
  <2>2. Left(row)
    OBVIOUS
  <2> HIDE DEF row
  <2>3. \A one \in Upsert(all, {"channel", "tid"}, row) : Left(one)
    BY <1>1, <2>2 DEF Upsert
  <2> HIDE DEF Left, all
  <2>4. QED
    BY <1>2, <2>1, <2>3
<1>4. CASE ChannelLeave(r)
  <2>1. PICK rows \in SUBSET all : \E changed :
          /\ Store(r, "channel_memberships", (all \ rows) \cup {changed[row] : row \in rows})
          /\ \A row \in rows : /\ row.channel = r.msg.on /\ row.tid = r.msg.tid
                               /\ Same(changed[row], row, {"channel", "tid"})
    BY <1>4, LeaveUpdates
  <2>2. PICK changed :
          /\ Store(r, "channel_memberships", (all \ rows) \cup {changed[row] : row \in rows})
          /\ \A row \in rows : /\ row.channel = r.msg.on /\ row.tid = r.msg.tid
                               /\ Same(changed[row], row, {"channel", "tid"})
    BY <2>1
  <2>3. r.msg.type = "CHANNEL_LEAVE"
    BY <1>4 DEF ChannelLeave, Writing
  <2>4. \A row \in rows : Left(changed[row])
    BY <2>2, <2>3, RequestSent DEF Same
  <2>5. \A row \in (all \ rows) \cup {changed[row] : row \in rows} : Left(row)
    <3> HIDE DEF Left
    <3>1. QED
      BY <1>1, <2>4
  <2> HIDE DEF Left, all
  <2>6. QED
    BY <1>2, <2>2, <2>3, <2>5
<1>5. ASSUME NEW rows, Store(r, "bookmarks", rows),
             \A m \in Landed \cup {r.msg} : m.type = "BOOKMARK_ADD" =>
               \/ \E b \in rows : b.tid = m.tid /\ b.target = m.on
               \/ \E x \in DOMAIN left : x.type = "BOOKMARK_REMOVE" /\ x.tid = m.tid /\ x.on = m.on
      PROVE  TakenInv'
  <2>1. /\ db'["bookmarks"] = rows /\ db'["channel_memberships"] = db["channel_memberships"]
        /\ Landed' \subseteq Landed \cup {r.msg} /\ left' = left
    BY <1>0, <1>5, StoreRequests
  <2>2. QED
    BY <1>5, <2>1 DEF TakenInv
<1>6. CASE BookmarkAdd(r)
  <2> DEFINE row == [tid |-> r.msg.tid, target |-> r.msg.on, at |-> r.msg.at]
             rows == Upsert(db["bookmarks"], {"tid", "target"}, row)
  <2>1. Store(r, "bookmarks", rows)
    BY <1>6 DEF BookmarkAdd
  <2>2. row.tid = r.msg.tid /\ row.target = r.msg.on
    OBVIOUS
  <2> HIDE DEF row
  <2>3. row \in rows /\ \A b \in db["bookmarks"] : b \in rows \/ (b.tid = row.tid /\ b.target = row.target)
    BY DEF Upsert, Same
  <2> HIDE DEF rows
  <2>4. QED
    BY <1>5, <2>1, <2>2, <2>3 DEF TakenInv
<1>7. CASE BookmarkRemove(r)
  <2> DEFINE rows == {row \in db["bookmarks"] : row.tid # r.msg.tid \/ row.target # r.msg.on}
  <2>1. Store(r, "bookmarks", rows) /\ r.msg.type = "BOOKMARK_REMOVE"
    BY <1>7 DEF BookmarkRemove, Writing
  <2>2. \A b \in db["bookmarks"] : b \in rows \/ (b.tid = r.msg.tid /\ b.target = r.msg.on)
    OBVIOUS
  <2>3. \E x \in DOMAIN left : x.type = "BOOKMARK_REMOVE" /\ x.tid = r.msg.tid /\ x.on = r.msg.on
    BY <2>1, RequestSent
  <2> HIDE DEF rows
  <2>4. QED
    BY <1>5, <2>1, <2>2, <2>3 DEF TakenInv
<1>8. CASE Elsewhere(r, {"BOOKMARK_ADD"}, {"channel_memberships", "bookmarks", "signed_envelopes", "social_graph"})
  <2>1. PICK table \in Tables \ {"channel_memberships", "bookmarks"} : \E rows : Store(r, table, rows)
    BY <1>8 DEF Elsewhere, Stores
  <2>2. /\ Landed' \subseteq Landed \cup {r.msg} /\ left' = left
        /\ db'["channel_memberships"] = db["channel_memberships"] /\ db'["bookmarks"] = db["bookmarks"]
    BY <1>0, <2>1, StoreRequests
  <2>3. r.msg.type # "BOOKMARK_ADD"
    BY <1>8 DEF Elsewhere
  <2>4. QED
    BY <2>2, <2>3, TakenKept
<1>9. QED
  BY <1>3, <1>4, <1>6, <1>7, <1>8, TakenWrites

LEMMA TakenHold == HubSpec => []TakenInv
<1>1. HubInit => TakenInv
  BY RequestsInit DEF TakenInv, Tables
<1>2. Requests /\ RowsInv /\ TakenInv /\ [HubNext]_hubVars => TakenInv'
  <2> SUFFICES ASSUME Requests, RowsInv, TakenInv, [HubNext]_hubVars PROVE TakenInv'
    OBVIOUS
  <2>0. {"channel_memberships", "bookmarks"} \subseteq
            Tables \ {"messages", "signed_envelopes", "social_graph", "stories", "story_views"}
    BY DEF Tables
  <2>1. CASE Beside
    BY <2>0, <2>1, TakenKept DEF Beside
  <2>2. ASSUME NEW r \in open, Write(r) PROVE TakenInv'
    BY <2>1, <2>2, RejectBeside, TakenWrite
  <2>3. ASSUME NEW m, StoreFromPeer(m) PROVE TakenInv'
    BY <2>0, <2>3, PeerCopies, TakenKept
  <2>4. CASE RunStoriesCleanup
    BY <2>0, <2>4, Cleanup, TakenKept
  <2>5. QED
    BY <2>1, <2>2, <2>3, <2>4, StepKinds
<1>3. QED
  BY <1>1, <1>2, RequestsHold, RowsHold, PTL DEF HubSpec

----------------------------------------------------------------------------
(* What was accepted is shown *)

\* The sums of the routes are sums in the sense above.
LEMMA SumRows ==
    ASSUME NEW S, IsFiniteSet(S)
    PROVE  \E F : IsSum(F, S, [x \in S |-> x.amount]) /\ Sum(S) = F[S]
<1> DEFINE w == [x \in S |-> x.amount]
           body(F) == [s \in SUBSET S |-> IF s = {} THEN 0 ELSE Any(s).amount + F[s \ {Any(s)}]]
           F0 == CHOOSE F : F = body(F)
<1>1. Sum(S) = F0[S]
  BY DEF Sum, MapThenSumSet, MapThenFoldSet, Any
<1>2. PICK F : IsSum(F, S, w)
  BY SumExists
<1>3. \A G : IsSum(G, S, w) <=> G = body(G)
  <2>1. \A s \in SUBSET S : s # {} => w[Any(s)] = Any(s).amount
    BY AnyMember
  <2> HIDE DEF w
  <2>2. QED
    BY <2>1 DEF IsSum
<1>4. F0 = body(F0)
  <2>1. F = body(F)
    BY <1>2, <1>3
  <2> HIDE DEF body
  <2>2. QED
    BY <2>1
<1>5. IsSum(F0, S, w)
  BY <1>3, <1>4
<1>6. QED
  BY <1>1, <1>5

LEMMA PledgedSum ==
    ASSUME NEW ms, NEW id, IsFiniteSet(PledgesOf(ms, id))
    PROVE  LET S == PledgesOf(ms, id) IN \E F : IsSum(F, S, [m \in S |-> m.num]) /\ Pledged(ms, id) = F[S]
<1> DEFINE S == PledgesOf(ms, id)
           w == [x \in S |-> x.num]
           body(F) == [s \in SUBSET S |-> IF s = {} THEN 0 ELSE Any(s).num + F[s \ {Any(s)}]]
           F0 == CHOOSE F : F = body(F)
<1>1. Pledged(ms, id) = F0[S]
  BY DEF Pledged, MapThenSumSet, MapThenFoldSet, Any
<1> HIDE DEF S
<1>2. PICK F : IsSum(F, S, w)
  BY SumExists DEF S
<1>3. \A G : IsSum(G, S, w) <=> G = body(G)
  <2>1. \A s \in SUBSET S : s # {} => w[Any(s)] = Any(s).num
    BY AnyMember
  <2> HIDE DEF w
  <2>2. QED
    BY <2>1 DEF IsSum
<1>4. F0 = body(F0)
  <2>1. F = body(F)
    BY <1>2, <1>3
  <2> HIDE DEF body
  <2>2. QED
    BY <2>1
<1>5. IsSum(F0, S, w)
  BY <1>3, <1>4
<1>6. QED
  BY <1>1, <1>5 DEF S

TablesSound == Requests /\ WellInv /\ RowsInv /\ TaskInv /\ FiniteInv /\ MadeInv /\ CopiesInv /\ TakenInv

\* The message a landed one was sent as.
LEMMA LandedSent ==
    ASSUME TablesSound, NEW m \in Landed
    PROVE  \E x \in DOMAIN left : m = Wire(x) /\ x \in Body /\ m \in Body /\ x \in Messages
BY SentAs DEF TablesSound

\* Of messages sent here those of one hash are one.
LEMMA SameMessage ==
    ASSUME Requests, NEW x \in DOMAIN left, NEW y \in DOMAIN left, x.hash = y.hash
    PROVE  x = y /\ x.hash # Blank
BY FeatureAssumption DEF Requests, Column

LEMMA TweetShown ==
    ASSUME TablesSound, NEW m \in accepted, m.type = "TWEET_ADD"
    PROVE  Shown(m) \/ TakenBack(m)
<1>1. PICK x \in DOMAIN left : m = Wire(x) /\ x \in Body
  BY LandedSent DEF Landed
<1>2. x.hash = m.hash /\ x.type = m.type /\ x.tid = m.tid /\ x.chan = m.chan
  BY <1>1, WireKeeps
<1>3. PICK row \in db.messages : row.hash = m.hash
  BY DEF TablesSound, CopiesInv, MessageTypes, Landed
<1>4. PICK y \in DOMAIN left : Copied(row, y)
  BY <1>3 DEF TablesSound, CopiesInv
<1>5. y = x /\ m.hash # Blank
  BY <1>2, <1>3, <1>4, SameMessage DEF TablesSound, Copied
<1>6. row.type = "TWEET_ADD" /\ row.tid = m.tid /\ row.chan = m.chan
  BY <1>2, <1>4, <1>5 DEF Copied
<1>7. CASE Removed(row)
  <2>1. PICK z \in db.messages : z.type = "TWEET_REMOVE" /\ z.tid = row.tid /\ z.text = row.hash
    BY <1>7 DEF Removed, Rows
  <2>2. PICK w \in DOMAIN left : Copied(z, w)
    BY <2>1 DEF TablesSound, CopiesInv
  <2>3. w.type = "TWEET_REMOVE" /\ w.tid = m.tid /\ w.on = m.hash
    BY <1>3, <1>5, <1>6, <2>1, <2>2 DEF Copied
  <2>4. QED
    BY <2>3 DEF TakenBack, TakesBack
<1>8. CASE ~Removed(row)
  <2>1. row \in Feed /\ row \in ChannelFeed(m.chan) /\ m.chan \in ChannelList
    BY <1>3, <1>6, <1>8 DEF Feed, ChannelFeed, ChannelList, Rows
  <2>2. QED
    BY <1>3, <2>1 DEF Shown
<1>9. QED
  BY <1>7, <1>8

LEMMA ReactionShown ==
    ASSUME TablesSound, NEW m \in accepted, m.type = "REACTION_ADD"
    PROVE  Shown(m) \/ TakenBack(m) \/ m \in abroad
<1>1. PICK x \in DOMAIN left : m = Wire(x) /\ x \in Body
  BY LandedSent DEF Landed
<1>2. x.hash = m.hash /\ x.type = m.type /\ x.tid = m.tid /\ x.on = m.on /\ x.at = m.at
  BY <1>1, WireKeeps
<1>3. m = x
  BY <1>1, <1>2 DEF Wire
<1>4. PICK row \in db.messages : row.hash = m.hash
  BY DEF TablesSound, CopiesInv, MessageTypes, Landed
<1>5. PICK y \in DOMAIN left : Copied(row, y)
  BY <1>4 DEF TablesSound, CopiesInv
<1>6. y = x
  BY <1>2, <1>4, <1>5, SameMessage DEF TablesSound, Copied
<1> SUFFICES ASSUME m \notin abroad PROVE Shown(m) \/ TakenBack(m)
  OBVIOUS
<1>7. row.type = "REACTION_ADD" /\ row.tid = m.tid /\ row.parent = m.on /\ row.at = m.at
  BY <1>2, <1>3, <1>5, <1>6 DEF Copied
<1>8. m.on # Blank
  BY LandedWell DEF WellFormed, Landed, TablesSound
<1>9. CASE Active(row)
  <2>1. row \in Reactions(m.tid, Blank)
    BY <1>4, <1>7, <1>9 DEF Reactions, Rows
  <2>2. QED
    BY <1>4, <2>1 DEF Shown
<1>10. CASE ~Active(row)
  <2>1. PICK u \in db.messages : /\ u.type = "REACTION_REMOVE" /\ u.tid = row.tid
                                 /\ u.parent = row.parent /\ u.at > row.at
    BY <1>10 DEF Active, Rows
  <2>2. PICK w \in DOMAIN left : Copied(u, w)
    BY <2>1 DEF TablesSound, CopiesInv
  <2>3. w.type = "REACTION_REMOVE" /\ w.tid = m.tid /\ w.on = m.on /\ w.at > m.at
    BY <1>7, <1>8, <2>1, <2>2 DEF Copied
  <2>4. QED
    BY <2>3 DEF TakenBack, TakesBack
<1>11. QED
  BY <1>9, <1>10

\* The row of the key of a landed message.
LEMMA RowMade ==
    ASSUME TablesSound, NEW m \in accepted, m.type \in MadeTypes
    PROVE  \E row \in db[MadeIn[m.type]] : Same(row, MadeBy(m), PrimaryKey[MadeIn[m.type]])
BY DEF TablesSound, MadeInv, HasKey, Landed

LEMMA PlainMade ==
    ASSUME TablesSound, NEW table \in PlainTables, NEW row \in db[table]
    PROVE  \E x \in DOMAIN left : MadeOf(row, Wire(x), table) /\ x \in Body /\ Wire(x) \in Body
BY SentAs DEF TablesSound, MadeInv

LEMMA ChannelShown ==
    ASSUME TablesSound, NEW m \in accepted, m.type = "CHANNEL_ADD"
    PROVE  Shown(m)
<1>1. m.type \in MadeTypes /\ MadeIn[m.type] = "channels"
  BY DEF MadeTypes, MadeIn
<1>2. MadeBy(m).id = m.on
  BY DEF MadeBy
<1>3. \E row \in db["channels"] : row.id = m.on
  BY <1>1, <1>2, RowMade, KeyOf DEF Same
<1>4. m.on \in SearchChannels(m.on)
  BY <1>3 DEF SearchChannels, ChannelList
<1>5. QED
  BY <1>4 DEF Shown

LEMMA JoinShown ==
    ASSUME TablesSound, NEW m \in accepted, m.type = "CHANNEL_JOIN"
    PROVE  Shown(m) \/ TakenBack(m)
<1>1. m.type \in MadeTypes /\ MadeIn[m.type] = "channel_memberships"
  BY DEF MadeTypes, MadeIn
<1>2. MadeBy(m).channel = m.on /\ MadeBy(m).tid = m.tid
  BY DEF MadeBy
<1>3. PICK row \in db["channel_memberships"] : row.channel = m.on /\ row.tid = m.tid
  BY <1>1, <1>2, RowMade, KeyOf DEF Same
<1>4. CASE row.left = 0
  <2>1. row \in Members(m.on)
    BY <1>3, <1>4 DEF Members
  <2>2. QED
    BY <1>3, <2>1 DEF Shown
<1>5. CASE row.left # 0
  BY <1>3, <1>5 DEF TablesSound, TakenInv, TakenBack, TakesBack
<1>6. QED
  BY <1>4, <1>5

LEMMA MarkShown ==
    ASSUME TablesSound, NEW m \in accepted, m.type = "BOOKMARK_ADD"
    PROVE  Shown(m) \/ TakenBack(m)
<1>1. CASE \E b \in db["bookmarks"] : b.tid = m.tid /\ b.target = m.on
  BY <1>1 DEF Shown, BookmarksOf
<1>2. CASE \E x \in DOMAIN left : x.type = "BOOKMARK_REMOVE" /\ x.tid = m.tid /\ x.on = m.on
  BY <1>2 DEF TakenBack, TakesBack
<1>3. QED
  BY <1>1, <1>2 DEF TablesSound, TakenInv, Landed

LEMMA TaskShown ==
    ASSUME TablesSound, NEW m \in accepted, m.type = "TASK_ADD"
    PROVE  Shown(m)
<1>1. m.type \in MadeTypes /\ MadeIn[m.type] = "tasks"
  BY DEF MadeTypes, MadeIn
<1>2. MadeBy(m).id = m.on
  BY DEF MadeBy
<1>3. PICK row \in db["tasks"] : row.id = m.on
  BY <1>1, <1>2, RowMade, KeyOf DEF Same
<1>4. row.status \in {"open", "claimed", "completed"}
  BY <1>3 DEF TablesSound, TaskInv, TaskRowSound, TaskRows
<1>5. row \in UNION {TasksIn(s) : s \in {"open", "claimed", "completed"}}
  BY <1>3, <1>4 DEF TasksIn
<1>6. QED
  BY <1>3, <1>5 DEF Shown

LEMMA SomeCounted ==
    ASSUME NEW S, IsFiniteSet(S), S # {}
    PROVE  Cardinality(S) \in Nat /\ Cardinality(S) > 0
BY FS_CardinalityType, FS_EmptySet

LEMMA VoteShown ==
    ASSUME TablesSound, NEW m \in accepted, m.type = "POLL_VOTE"
    PROVE  Shown(m)
<1>1. m.type \in MadeTypes /\ MadeIn[m.type] = "poll_votes"
  BY DEF MadeTypes, MadeIn
<1>2. MadeBy(m).poll = m.on /\ MadeBy(m).tid = m.tid
  BY DEF MadeBy
<1>3. PICK row \in db["poll_votes"] : row.poll = m.on /\ row.tid = m.tid
  BY <1>1, <1>2, RowMade, KeyOf DEF Same
<1> DEFINE votes == {v \in db.poll_votes : v.poll = m.on}
<1>4. row \in votes
  BY <1>3
<1>5. IsFiniteSet(votes)
  <2>1. IsFiniteSet(db["poll_votes"])
    BY DEF TablesSound, FiniteInv, Tables
  <2>2. QED
    BY <2>1, FS_Subset
<1>6. TotalVotes(m.on) = Cardinality(votes)
  BY DEF TotalVotes
<1>7. TotalVotes(m.on) > 0
  <2> HIDE DEF votes
  <2>1. QED
    BY <1>4, <1>5, <1>6, SomeCounted
<1>8. QED
  BY <1>3, <1>4, <1>7 DEF Shown

LEMMA EventShown ==
    ASSUME TablesSound, NEW m \in accepted, m.type = "EVENT_ADD"
    PROVE  Shown(m)
<1>1. m.type \in MadeTypes /\ MadeIn[m.type] = "events" /\ "events" \in PlainTables
  BY DEF MadeTypes, MadeIn, PlainTables
<1>2. MadeBy(m).id = m.on
  BY DEF MadeBy
<1>3. PICK row \in db["events"] : row.id = m.on
  BY <1>1, <1>2, RowMade, KeyOf DEF Same
<1>4. PICK x \in DOMAIN left : MadeOf(row, Wire(x), "events") /\ x \in Body
  BY <1>1, <1>3, PlainMade
<1>5. Wire(x).type = "EVENT_ADD"
  BY <1>4 DEF MadeOf, MadeTypes, MadeIn
<1>6. row.id = Wire(x).on /\ row.starts = Wire(x).until
  BY <1>4, <1>5 DEF MadeOf, MadeBy
<1>7. x.type = "EVENT_ADD" /\ x.on = m.on /\ row.starts = x.until /\ x.until \in Int /\ now \in Nat
  BY <1>3, <1>4, <1>5, <1>6, WireKeeps DEF TablesSound, Requests, Body
<1>8. CASE x.until < now
  BY <1>7, <1>8 DEF Shown
<1>9. CASE x.until >= now
  BY <1>3, <1>7, <1>9 DEF Shown, Upcoming
<1>10. QED
  BY <1>7, <1>8, <1>9

LEMMA RsvpShown ==
    ASSUME TablesSound, NEW m \in accepted, m.type = "EVENT_RSVP"
    PROVE  Shown(m)
<1>1. m.type \in MadeTypes /\ MadeIn[m.type] = "event_rsvps" /\ "event_rsvps" \in PlainTables
  BY DEF MadeTypes, MadeIn, PlainTables
<1>2. MadeBy(m).event = m.on /\ MadeBy(m).tid = m.tid
  BY DEF MadeBy
<1>3. PICK row \in db["event_rsvps"] : row.event = m.on /\ row.tid = m.tid
  BY <1>1, <1>2, RowMade, KeyOf DEF Same
<1>4. PICK x \in DOMAIN left : MadeOf(row, Wire(x), "event_rsvps")
  BY <1>1, <1>3, PlainMade
<1>5. Wire(x).type = "EVENT_RSVP" /\ WellFormed(Wire(x))
  BY <1>4 DEF MadeOf, MadeTypes, MadeIn
<1>6. row.status = Wire(x).val
  BY <1>4, <1>5 DEF MadeOf, MadeBy
<1>7. row.status \in {"yes", "no", "maybe"}
  BY <1>5, <1>6 DEF WellFormed
<1> DEFINE same == {r \in db.event_rsvps : r.event = m.on /\ r.status = row.status}
<1>8. row \in same
  BY <1>3
<1>9. IsFiniteSet(same)
  <2>1. IsFiniteSet(db["event_rsvps"])
    BY DEF TablesSound, FiniteInv, Tables
  <2>2. QED
    BY <2>1, FS_Subset
<1>10. Rsvps(m.on, row.status) = Cardinality(same)
  BY DEF Rsvps
<1>11. Rsvps(m.on, row.status) > 0
  <2> HIDE DEF same
  <2>1. QED
    BY <1>8, <1>9, <1>10, SomeCounted
<1>12. QED
  BY <1>3, <1>7, <1>8, <1>11 DEF Shown

LEMMA TipShown ==
    ASSUME TablesSound, NEW m \in accepted, m.type = "TIP_ADD"
    PROVE  Shown(m)
<1>1. m.type \in MadeTypes /\ MadeIn[m.type] = "tips" /\ "tips" \in PlainTables
  BY DEF MadeTypes, MadeIn, PlainTables
<1>2. MadeBy(m).hash = m.hash
  BY DEF MadeBy
<1>3. PICK row \in db["tips"] : row.hash = m.hash
  BY <1>1, <1>2, RowMade, KeyOf DEF Same
<1>4. PICK y \in DOMAIN left : MadeOf(row, Wire(y), "tips") /\ y \in Body
  BY <1>1, <1>3, PlainMade
<1>5. Wire(y).type = "TIP_ADD"
  BY <1>4 DEF MadeOf, MadeTypes, MadeIn
<1>6. row.hash = Wire(y).hash /\ row.tid = Wire(y).tid /\ row.to = Wire(y).to
  BY <1>4, <1>5 DEF MadeOf, MadeBy
<1>7. PICK x \in DOMAIN left : m = Wire(x) /\ x \in Body
  BY LandedSent DEF Landed
<1>8. x = y
  <2>1. x.hash = y.hash
    BY <1>3, <1>4, <1>6, <1>7, WireKeeps
  <2>2. QED
    BY <2>1, SameMessage DEF TablesSound
<1>9. row.tid = m.tid /\ row.to = m.to
  BY <1>6, <1>7, <1>8
<1>10. row \in TipsSent(m.tid) /\ \A tid \in m.to : row \in TipsReceived(tid)
  BY <1>3, <1>9 DEF TipsSent, TipsReceived
<1>11. QED
  BY <1>3, <1>10 DEF Shown

\* An accepted pledge has a row of its amount.
LEMMA PledgeRow ==
    ASSUME TablesSound, NEW m \in accepted, m.type = "CROWDFUND_PLEDGE"
    PROVE  \E row \in db["crowdfund_pledges"] :
             row.hash = m.hash /\ row.crowdfund = m.on /\ row.amount = m.num
<1>1. m.type \in MadeTypes /\ MadeIn[m.type] = "crowdfund_pledges" /\ "crowdfund_pledges" \in PlainTables
  BY DEF MadeTypes, MadeIn, PlainTables
<1>2. MadeBy(m).hash = m.hash
  BY DEF MadeBy
<1>3. PICK row \in db["crowdfund_pledges"] : row.hash = m.hash
  BY <1>1, <1>2, RowMade, KeyOf DEF Same
<1>4. PICK y \in DOMAIN left : MadeOf(row, Wire(y), "crowdfund_pledges") /\ y \in Body
  BY <1>1, <1>3, PlainMade
<1>5. Wire(y).type = "CROWDFUND_PLEDGE"
  BY <1>4 DEF MadeOf, MadeTypes, MadeIn
<1>6. row.hash = Wire(y).hash /\ row.crowdfund = Wire(y).on /\ row.amount = Wire(y).num
  BY <1>4, <1>5 DEF MadeOf, MadeBy
<1>7. PICK x \in DOMAIN left : m = Wire(x) /\ x \in Body
  BY LandedSent DEF Landed
<1>8. x = y
  <2>1. x.hash = y.hash
    BY <1>3, <1>4, <1>6, <1>7, WireKeeps
  <2>2. QED
    BY <2>1, SameMessage DEF TablesSound
<1>9. QED
  BY <1>3, <1>6, <1>7, <1>8

LEMMA PledgeShown ==
    ASSUME TablesSound, NEW m \in accepted, m.type = "CROWDFUND_PLEDGE"
    PROVE  Shown(m)
<1>1. PICK row \in db["crowdfund_pledges"] : row.hash = m.hash /\ row.crowdfund = m.on
  BY PledgeRow
<1>2. row \in Pledges(m.on)
  BY <1>1 DEF Pledges
<1>3. QED
  BY <1>1, <1>2 DEF Shown

LEMMA PledgesAddUp ==
    ASSUME TablesSound, NEW id
    PROVE  Raised(id) \in Pledged(accepted, id) .. Pledged(DOMAIN left, id)
<1> DEFINE A == PledgesOf(accepted, id)
           P == Pledges(id)
           B == PledgesOf(DOMAIN left, id)
           u == [m \in A |-> m.num]
           v == [row \in P |-> row.amount]
           w == [x \in B |-> x.num]
<1>1. IsFiniteSet(P)
  <2>1. IsFiniteSet(db["crowdfund_pledges"])
    BY DEF TablesSound, FiniteInv, Tables
  <2>2. QED
    BY <2>1, FS_Subset DEF Pledges
<1>2. IsFiniteSet(B) /\ IsFiniteSet(DOMAIN left)
  <2>1. IsFiniteSet(DOMAIN left)
    BY DEF TablesSound, Requests
  <2>2. QED
    BY <2>1, FS_Subset DEF PledgesOf
<1>3. IsFiniteSet(A)
  <2> DEFINE f == [x \in DOMAIN left |-> Wire(x)]
             sent == {f[x] : x \in DOMAIN left}
  <2>1. f \in Surjection(DOMAIN left, sent)
    BY DEF Surjection
  <2>2. A \subseteq sent
    BY DEF TablesSound, Requests, PledgesOf
  <2> HIDE DEF f, sent
  <2>3. IsFiniteSet(sent)
    BY <1>2, <2>1, FS_Surjection
  <2>4. QED
    BY <2>2, <2>3, FS_Subset
<1>4. ASSUME NEW m \in A
      PROVE  /\ m \in accepted /\ m.type = "CROWDFUND_PLEDGE" /\ m.on = id /\ m.num \in Nat
  <2>1. m \in accepted /\ m.type = "CROWDFUND_PLEDGE" /\ m.on = id /\ m.num > 0
    BY DEF PledgesOf
  <2>2. m \in Body
    BY <2>1, LandedSent DEF Landed
  <2>3. QED
    BY <2>1, <2>2 DEF Body
<1>5. ASSUME NEW row \in P
      PROVE  \E x \in B : x.num = row.amount /\ row = MadeBy(Wire(x))
  <2>1. row \in db["crowdfund_pledges"] /\ row.crowdfund = id /\ "crowdfund_pledges" \in PlainTables
    BY DEF Pledges, PlainTables
  <2>2. PICK x \in DOMAIN left : MadeOf(row, Wire(x), "crowdfund_pledges") /\ x \in Body
    BY <2>1, PlainMade
  <2>3. Wire(x).type = "CROWDFUND_PLEDGE" /\ WellFormed(Wire(x)) /\ row = MadeBy(Wire(x))
    BY <2>2 DEF MadeOf, MadeTypes, MadeIn
  <2>4. row.crowdfund = Wire(x).on /\ row.amount = Wire(x).num
    BY <2>3 DEF MadeBy
  <2>5. x.type = "CROWDFUND_PLEDGE" /\ x.on = id /\ x.num = row.amount
    BY <2>1, <2>2, <2>3, <2>4, WireKeeps
  <2>6. x.num > 0
    BY <2>2, <2>3, <2>4, <2>5 DEF WellFormed
  <2>7. x \in B
    BY <2>5, <2>6 DEF PledgesOf
  <2>8. QED
    BY <2>3, <2>5, <2>7
<1>6. ASSUME NEW x \in B PROVE x.num \in Nat
  <2>1. x \in Body /\ x.num > 0
    BY SentAs DEF PledgesOf, TablesSound
  <2>2. QED
    BY <2>1 DEF Body
<1>7. \A row \in P : row.amount \in Nat
  BY <1>5, <1>6
<1>8. \E F : IsSum(F, A, u) /\ Pledged(accepted, id) = F[A]
  BY <1>3, PledgedSum
<1>9. \E F : IsSum(F, P, v) /\ Raised(id) = F[P]
  BY <1>1, SumRows DEF Raised
<1>10. \E F : IsSum(F, B, w) /\ Pledged(DOMAIN left, id) = F[B]
  BY <1>2, PledgedSum
<1> DEFINE h == [m \in A |-> CHOOSE row \in P : row.hash = m.hash /\ row.amount = m.num]
           g == [row \in P |-> CHOOSE x \in B : x.num = row.amount /\ row = MadeBy(Wire(x))]
<1>11. \A m \in A : h[m] \in P /\ h[m].hash = m.hash /\ h[m].amount = m.num
  <2> SUFFICES ASSUME NEW m \in A PROVE h[m] \in P /\ h[m].hash = m.hash /\ h[m].amount = m.num
    OBVIOUS
  <2>1. \E row \in P : row.hash = m.hash /\ row.amount = m.num
    BY <1>4, PledgeRow DEF Pledges
  <2>2. h[m] = CHOOSE row \in P : row.hash = m.hash /\ row.amount = m.num
    OBVIOUS
  <2> HIDE DEF P, h
  <2>3. QED
    BY <2>1, <2>2
<1>12. \A row \in P : g[row] \in B /\ g[row].num = row.amount /\ row = MadeBy(Wire(g[row]))
  <2> SUFFICES ASSUME NEW row \in P
               PROVE  g[row] \in B /\ g[row].num = row.amount /\ row = MadeBy(Wire(g[row]))
    OBVIOUS
  <2>1. g[row] = CHOOSE x \in B : x.num = row.amount /\ row = MadeBy(Wire(x))
    OBVIOUS
  <2>2. \E x \in B : x.num = row.amount /\ row = MadeBy(Wire(x))
    BY <1>5
  <2> HIDE DEF B, P, g
  <2>3. QED
    BY <2>1, <2>2
<1>13. \A m, n \in A : h[m] = h[n] => m = n
  <2> SUFFICES ASSUME NEW m \in A, NEW n \in A, h[m] = h[n] PROVE m = n
    OBVIOUS
  <2>1. m.hash = n.hash
    BY <1>11
  <2>2. PICK x \in DOMAIN left : m = Wire(x) /\ x \in Body
    BY <1>4, LandedSent DEF Landed
  <2>3. PICK y \in DOMAIN left : n = Wire(y) /\ y \in Body
    BY <1>4, LandedSent DEF Landed
  <2>4. x.hash = y.hash
    BY <2>1, <2>2, <2>3, WireKeeps
  <2>5. x = y
    BY <2>4, SameMessage DEF TablesSound
  <2>6. QED
    BY <2>2, <2>3, <2>5
<1>14. \A row, one \in P : g[row] = g[one] => row = one
  BY <1>12
<1>15. /\ \A m \in A : u[m] \in Nat /\ h[m] \in P /\ u[m] <= v[h[m]]
       /\ \A row \in P : v[row] \in Nat /\ g[row] \in B /\ v[row] <= w[g[row]]
       /\ \A x \in B : w[x] \in Nat
  <2> HIDE DEF h, g
  <2>1. \A m \in A : u[m] = m.num
    OBVIOUS
  <2>2. \A row \in P : v[row] = row.amount
    OBVIOUS
  <2>3. \A x \in B : w[x] = x.num
    OBVIOUS
  <2> HIDE DEF u, v, w, A, B, P
  <2>4. QED
    BY <1>4, <1>6, <1>7, <1>11, <1>12, <2>1, <2>2, <2>3
<1> HIDE DEF A, P, B, u, v, w, h, g
<1>16. PICK F : IsSum(F, A, u) /\ Pledged(accepted, id) = F[A]
  BY <1>8
<1>17. PICK G : IsSum(G, P, v) /\ Raised(id) = G[P]
  BY <1>9
<1>18. PICK H : IsSum(H, B, w) /\ Pledged(DOMAIN left, id) = H[B]
  BY <1>10
<1>19. F[A] <= G[P]
  BY <1>1, <1>3, <1>13, <1>15, <1>16, <1>17, SumInjects
<1>20. G[P] <= H[B]
  BY <1>1, <1>2, <1>14, <1>15, <1>17, <1>18, SumInjects
<1>21. F[A] \in Nat /\ G[P] \in Nat /\ H[B] \in Nat
  BY <1>1, <1>2, <1>3, <1>15, <1>16, <1>17, <1>18, SumNat
<1>22. QED
  BY <1>16, <1>17, <1>18, <1>19, <1>20, <1>21

\* submit.ts:891-918 and the routes of each type: for any messages, users, faults,
\* retries, restarts and peers, what was answered is shown, and pledges add up.
THEOREM AcceptedAreShown == HubSpec => []AcceptedShown
<1>1. TablesSound => AcceptedShown
  <2> SUFFICES ASSUME TablesSound PROVE AcceptedShown
    OBVIOUS
  <2>1. ASSUME NEW m \in accepted
        PROVE  Shown(m) \/ TakenBack(m) \/ (m.type = "REACTION_ADD" /\ m \in abroad)
    <3>1. CASE m.type \in {"TWEET_ADD", "REACTION_ADD", "CHANNEL_ADD", "CHANNEL_JOIN", "POLL_VOTE", "EVENT_ADD",
                           "EVENT_RSVP", "TASK_ADD", "CROWDFUND_PLEDGE", "TIP_ADD", "BOOKMARK_ADD"}
      BY <3>1, TweetShown, ReactionShown, ChannelShown, JoinShown, VoteShown, EventShown, RsvpShown,
         TaskShown, PledgeShown, TipShown, MarkShown
    <3>2. CASE m.type \notin {"TWEET_ADD", "REACTION_ADD", "CHANNEL_ADD", "CHANNEL_JOIN", "POLL_VOTE",
                              "EVENT_ADD", "EVENT_RSVP", "TASK_ADD", "CROWDFUND_PLEDGE", "TIP_ADD",
                              "BOOKMARK_ADD"}
      BY <3>2 DEF Shown
    <3>3. QED
      BY <3>1, <3>2
  <2>2. QED
    BY <2>1, PledgesAddUp DEF AcceptedShown
<1>2. QED
  BY <1>1, RequestsHold, WellHolds, RowsHold, TasksHold, TablesFinite, MadeHolds, CopiesHold, TakenHold, PTL
     DEF TablesSound

----------------------------------------------------------------------------
(* Edges are few, and votes are for options of their poll *)

EdgesInv == IsFiniteSet(db["social_graph"])

LEMMA EdgesFinite == HubSpec => []EdgesInv
<1>1. HubInit => EdgesInv
  BY RequestsInit, FS_EmptySet DEF EdgesInv, Tables
<1>2. Requests /\ EdgesInv /\ [HubNext]_hubVars => EdgesInv'
  <2> SUFFICES ASSUME Requests, EdgesInv, [HubNext]_hubVars PROVE EdgesInv'
    OBVIOUS
  <2>1. CASE FollowStep
    <3>1. "social_graph" \in Tables
      BY DEF Tables
    <3>2. \/ db' = db
          \/ \E e \in Edges : \/ db'["social_graph"] = db["social_graph"] \cup {e}
                              \/ db'["social_graph"] = db["social_graph"] \ {e}
      BY <2>1, <3>1 DEF FollowStep, Click, Settle, Index, Forget, Requests
    <3>3. QED
      BY <3>2, FS_AddElement, FS_RemoveElement DEF EdgesInv
  <2>2. CASE FeatureStep
    BY <2>2, EdgesStay DEF EdgesInv
  <2>3. CASE UNCHANGED db
    BY <2>3 DEF EdgesInv
  <2>4. QED
    BY <2>1, <2>2, <2>3 DEF HubNext, hubVars, featureVars, Restart
<1>3. QED
  BY <1>1, <1>2, RequestsHold, PTL DEF HubSpec

Fits(id, num) == num >= 0 /\ \E p \in db["polls"] : p.id = id /\ num < p.options

\* A vote, and a request about to vote, names an option its poll has.
VotesFit ==
    /\ \A v \in db["poll_votes"] : Fits(v.poll, v.option)
    /\ \A r \in open : r.step = "write" /\ r.msg.type = "POLL_VOTE" => Fits(r.msg.on, r.msg.num)

LEMMA FitsGrows ==
    ASSUME NEW id, NEW num, Fits(id, num), db["polls"] \subseteq db'["polls"]
    PROVE  Fits(id, num)'
BY DEF Fits

LEMMA FoundFits ==
    ASSUME NEW m, m.type = "POLL_VOTE", Found(m), WellFormed(m)
    PROVE  Fits(m.on, m.num)
BY DEF Found, WellFormed, Fits

LEMMA FitBeside ==
    ASSUME Requests, VotesFit, WellInv', Beside
    PROVE  VotesFit'
<1>1. db'["polls"] = db["polls"] /\ db'["poll_votes"] = db["poll_votes"]
  BY DEF Beside, Tables
<1>2. ASSUME NEW r \in open', r.step = "write", r.msg.type = "POLL_VOTE"
      PROVE  Fits(r.msg.on, r.msg.num)
  <2>1. r \in open \/ Found(r.msg)
    BY <1>2 DEF Beside, Looked
  <2>2. WellFormed(r.msg)
    BY DEF WellInv
  <2>3. QED
    BY <1>2, <2>1, <2>2, FoundFits DEF VotesFit
<1>3. QED
  BY <1>1, <1>2 DEF VotesFit, Fits

LEMMA FitWrite ==
    ASSUME Requests, VotesFit, NEW r \in open, Write(r), ~Reject(r)
    PROVE  VotesFit'
<1>0. {"polls", "poll_votes"} \subseteq Tables
  BY DEF Tables
<1>1. ASSUME db["polls"] \subseteq db'["polls"], \A v \in db'["poll_votes"] : Fits(v.poll, v.option),
             \A q \in open' : q \in open \/ q.step = "stored"
      PROVE  VotesFit'
  BY <1>1, FitsGrows DEF VotesFit
<1>2. CASE PollAdd(r)
  <2>1. PICK row : Store(r, "polls", InsertNew(db["polls"], {"id"}, row))
    BY <1>2 DEF PollAdd
  <2>2. /\ db'["polls"] = InsertNew(db["polls"], {"id"}, row) /\ db'["poll_votes"] = db["poll_votes"]
        /\ \A q \in open' : q \in open \/ q.step = "stored"
    BY <1>0, <2>1, StoreRequests
  <2>3. db["polls"] \subseteq db'["polls"]
    BY <2>2 DEF InsertNew
  <2>4. QED
    BY <1>1, <2>2, <2>3 DEF VotesFit
<1>3. CASE PollVote(r)
  <2> DEFINE row == [hash |-> r.msg.hash, poll |-> r.msg.on, tid |-> r.msg.tid, option |-> r.msg.num,
                     at |-> r.msg.at]
             rows == Upsert(db["poll_votes"], {"poll", "tid"}, row)
  <2>1. Store(r, "poll_votes", rows) /\ r.step = "write" /\ r.msg.type = "POLL_VOTE"
    BY <1>3 DEF PollVote, Writing
  <2>2. row.poll = r.msg.on /\ row.option = r.msg.num
    OBVIOUS
  <2> HIDE DEF row
  <2>3. \A v \in rows : v \in db["poll_votes"] \/ v = row
    BY DEF Upsert
  <2> HIDE DEF rows
  <2>4. /\ db'["poll_votes"] = rows /\ db'["polls"] = db["polls"]
        /\ \A q \in open' : q \in open \/ q.step = "stored"
    BY <1>0, <2>1, StoreRequests
  <2>5. \A v \in rows : Fits(v.poll, v.option)
    BY <2>1, <2>2, <2>3 DEF VotesFit
  <2>6. QED
    BY <1>1, <2>4, <2>5
<1>4. CASE Elsewhere(r, {}, {"polls", "poll_votes", "signed_envelopes", "social_graph"})
  <2>1. PICK table \in Tables \ {"polls", "poll_votes"} : \E rows : Store(r, table, rows)
    BY <1>4 DEF Elsewhere, Stores
  <2>2. /\ db'["polls"] = db["polls"] /\ db'["poll_votes"] = db["poll_votes"]
        /\ \A q \in open' : q \in open \/ q.step = "stored"
    BY <1>0, <2>1, StoreRequests
  <2>3. QED
    BY <1>1, <2>2 DEF VotesFit
<1>5. QED
  BY <1>2, <1>3, <1>4, VoteWrites

LEMMA VotesAreOptions == HubSpec => []VotesFit
<1>1. HubInit => VotesFit
  BY RequestsInit DEF VotesFit, Tables
<1>2. Requests /\ WellInv' /\ VotesFit /\ [HubNext]_hubVars => VotesFit'
  <2> SUFFICES ASSUME Requests, WellInv', VotesFit, [HubNext]_hubVars PROVE VotesFit'
    OBVIOUS
  <2>1. CASE Beside
    BY <2>1, FitBeside
  <2>2. ASSUME NEW r \in open, Write(r) PROVE VotesFit'
    BY <2>1, <2>2, RejectBeside, FitWrite
  <2>3. ASSUME UNCHANGED open, db'["polls"] = db["polls"], db'["poll_votes"] = db["poll_votes"] PROVE VotesFit'
    BY <2>3 DEF VotesFit, Fits
  <2>4. ASSUME NEW m, StoreFromPeer(m) PROVE VotesFit'
    BY <2>3, <2>4, PeerCopies DEF Tables
  <2>5. CASE RunStoriesCleanup
    BY <2>3, <2>5, Cleanup DEF Tables
  <2>6. QED
    BY <2>1, <2>2, <2>4, <2>5, StepKinds
<1>3. QED
  BY <1>1, <1>2, RequestsHold, WellHolds, PTL DEF HubSpec

----------------------------------------------------------------------------
(* Views that agree *)

LEMMA OneToOne ==
    ASSUME NEW S, IsFiniteSet(S), NEW f, \A x, y \in S : f[x] = f[y] => x = y
    PROVE  IsFiniteSet({f[x] : x \in S}) /\ Cardinality({f[x] : x \in S}) = Cardinality(S)
<1> DEFINE g == [x \in S |-> f[x]]
           T == {f[x] : x \in S}
<1>1. g \in Surjection(S, T) /\ g \in Injection(S, T)
  BY DEF Surjection, Injection, IsInjective
<1> HIDE DEF g, T
<1>2. IsFiniteSet(T) /\ Cardinality(T) = Cardinality(S)
  BY <1>1, FS_Surjection
<1>3. QED
  BY <1>2 DEF T

Noted(kind, rows, actor) == {Note(kind, actor[row], row) : row \in rows}

LEMMA NotesOf ==
    ASSUME NEW rows, IsFiniteSet(rows), NEW kind, NEW actor
    PROVE  /\ IsFiniteSet(Noted(kind, rows, actor))
           /\ Cardinality(Noted(kind, rows, actor)) = Cardinality(rows)
           /\ \A n \in Noted(kind, rows, actor) : n.kind = kind
<1> DEFINE f == [row \in rows |-> Note(kind, actor[row], row)]
<1>1. Noted(kind, rows, actor) = {f[row] : row \in rows}
  BY DEF Noted
<1>2. \A row, one \in rows : f[row] = f[one] => row = one
  BY DEF Note
<1>3. \A row \in rows : f[row].kind = kind
  BY DEF Note
<1> HIDE DEF f
<1>4. IsFiniteSet({f[row] : row \in rows}) /\ Cardinality({f[row] : row \in rows}) = Cardinality(rows)
  BY <1>2, OneToOne
<1>5. \A n \in {f[row] : row \in rows} : n.kind = kind
  BY <1>3
<1>6. QED
  BY <1>1, <1>4, <1>5

LEMMA FollowNotes ==
    ASSUME FollowInv, EdgesInv, NEW tid
    PROVE  LET edges == {e \in db.social_graph : e[2] = tid}
               notes == {Note("follow", e[1], <<>>) : e \in edges}
           IN  /\ IsFiniteSet(notes) /\ Cardinality(notes) = Cardinality(edges)
               /\ \A n \in notes : n.kind = "follow"
<1> DEFINE edges == {e \in db.social_graph : e[2] = tid}
           f == [e \in edges |-> Note("follow", e[1], <<>>)]
<1>1. {Note("follow", e[1], <<>>) : e \in edges} = {f[e] : e \in edges}
  OBVIOUS
<1>2. \A e, d \in edges : f[e] = f[d] => e = d
  <2> SUFFICES ASSUME NEW e \in edges, NEW d \in edges, f[e] = f[d] PROVE e = d
    OBVIOUS
  <2>1. e[1] = d[1]
    BY DEF Note
  <2>2. e \in Tids \X Tids /\ d \in Tids \X Tids
    BY ViewsAssumption DEF FollowInv
  <2>3. QED
    BY <2>1, <2>2
<1>3. \A e \in edges : f[e].kind = "follow"
  BY DEF Note
<1>4. IsFiniteSet(edges)
  BY FS_Subset DEF EdgesInv
<1> HIDE DEF f, edges
<1>5. IsFiniteSet({f[e] : e \in edges}) /\ Cardinality({f[e] : e \in edges}) = Cardinality(edges)
  BY <1>2, <1>4, OneToOne
<1>6. QED
  BY <1>1, <1>3, <1>5 DEF edges

\* Notes of another kind are other notes.
LEMMA NotesJoin ==
    ASSUME NEW N, IsFiniteSet(N), NEW M, IsFiniteSet(M), NEW kind,
           \A n \in N : n.kind # kind, \A n \in M : n.kind = kind
    PROVE  IsFiniteSet(N \cup M) /\ Cardinality(N \cup M) = Cardinality(N) + Cardinality(M)
<1>1. Cardinality(N \cap M) = 0
  <2>1. N \cap M = {}
    OBVIOUS
  <2>2. QED
    BY <2>1, FS_EmptySet
<1>2. /\ IsFiniteSet(N \cup M)
      /\ Cardinality(N \cup M) = Cardinality(N) + Cardinality(M) - Cardinality(N \cap M)
  BY FS_Union
<1>3. Cardinality(N) \in Nat /\ Cardinality(M) \in Nat
  BY FS_CardinalityType
<1>4. QED
  BY <1>1, <1>2, <1>3

LEMMA NotesCounted ==
    ASSUME TablesSound, FollowInv, EdgesInv, NEW tid
    PROVE  LET notes(kind) == {n \in Notifications(tid) : n.kind = kind} IN
           /\ NotificationCount(tid) = Cardinality(Notifications(tid))
           /\ Cardinality(notes("follow")) = Cardinality({e \in db.social_graph : e[2] = tid})
           /\ notes("reaction") = {Note("reaction", r.tid, r) : r \in On(Rows("REACTION_ADD"), tid)}
           /\ Cardinality(notes("tip")) = Cardinality(TipsReceived(tid))
<1> DEFINE notes(kind) == {n \in Notifications(tid) : n.kind = kind}
           R1 == {e \in db.social_graph : e[2] = tid}
           R2 == On(Rows("REACTION_ADD"), tid)
           R3 == {x \in On(Rows("TWEET_ADD"), tid) : x.tid # tid}
           R4 == TipsReceived(tid)
           R5 == {x \in Rows("TWEET_ADD") : tid \in x.to /\ x.tid # tid}
           R6 == {x \in db.poll_votes : x.poll \in Hosting(db.polls, tid) /\ x.tid # tid}
           R7 == {x \in db.event_rsvps : x.event \in Hosting(db.events, tid) /\ x.tid # tid}
           R8 == {x \in db.tasks : x.creator = tid /\ x.claimer \notin {0, tid}}
           R9 == {x \in db.tasks : x.creator = tid /\ x.completer \notin {0, tid}}
           R10 == {x \in db.crowdfund_pledges : x.crowdfund \in Hosting(db.crowdfunds, tid) /\ x.tid # tid}
           N1 == {Note("follow", e[1], <<>>) : e \in R1}
           N2 == {Note("reaction", r.tid, r) : r \in R2}
           N3 == {Note("reply", c.tid, c) : c \in R3}
           N4 == {Note("tip", t.tid, t) : t \in R4}
           N5 == {Note("mention", m.tid, m) : m \in R5}
           N6 == {Note("poll_vote", v.tid, v) : v \in R6}
           N7 == {Note("event_rsvp", r.tid, r) : r \in R7}
           N8 == {Note("task_claim", t.claimer, t) : t \in R8}
           N9 == {Note("task_complete", t.completer, t) : t \in R9}
           N10 == {Note("crowdfund_pledge", p.tid, p) : p \in R10}
<1>1. Notifications(tid) = N1 \cup N2 \cup N3 \cup N4 \cup N5 \cup N6 \cup N7 \cup N8 \cup N9 \cup N10
  BY DEF Notifications
<1>2. NotificationCount(tid) =
        Cardinality(R1) + Cardinality(R2) + Cardinality(R3) + Cardinality(R4) + Cardinality(R5)
        + Cardinality(R6) + Cardinality(R7) + Cardinality(R8) + Cardinality(R9) + Cardinality(R10)
  <2>1. {r \in {m \in Rows("TWEET_ADD") : tid \in m.to} : r.tid # tid} = R5
    OBVIOUS
  <2>2. {r \in {x \in db.poll_votes : x["poll"] \in Hosting(db.polls, tid)} : r.tid # tid} = R6
    OBVIOUS
  <2>3. {r \in {x \in db.event_rsvps : x["event"] \in Hosting(db.events, tid)} : r.tid # tid} = R7
    OBVIOUS
  <2>4. {r \in {x \in db.crowdfund_pledges : x["crowdfund"] \in Hosting(db.crowdfunds, tid)} : r.tid # tid} = R10
    OBVIOUS
  <2>5. {t \in db.tasks : t.creator = tid /\ t["claimer"] \notin {0, tid}} = R8
    OBVIOUS
  <2>6. {t \in db.tasks : t.creator = tid /\ t["completer"] \notin {0, tid}} = R9
    OBVIOUS
  <2>7. {t \in db.tips : tid \in t.to} = R4 /\ {c \in On(Rows("TWEET_ADD"), tid) : c.tid # tid} = R3
    BY DEF TipsReceived
  <2> HIDE DEF R1, R2, R3, R4, R5, R6, R7, R8, R9, R10
  <2>8. QED
    BY <2>1, <2>2, <2>3, <2>4, <2>5, <2>6, <2>7 DEF NotificationCount, CountOf, R1, R2
<1>3. /\ IsFiniteSet(R1) /\ IsFiniteSet(R2) /\ IsFiniteSet(R3) /\ IsFiniteSet(R4) /\ IsFiniteSet(R5)
      /\ IsFiniteSet(R6) /\ IsFiniteSet(R7) /\ IsFiniteSet(R8) /\ IsFiniteSet(R9) /\ IsFiniteSet(R10)
  <2>1. \A table \in {"messages", "tips", "poll_votes", "event_rsvps", "tasks", "crowdfund_pledges"} :
          IsFiniteSet(db[table])
    BY DEF TablesSound, FiniteInv, Tables
  <2>2. \A type : \A rows \in SUBSET Rows(type) : rows \in SUBSET db["messages"]
    BY DEF Rows
  <2>3. R2 \in SUBSET db["messages"] /\ R3 \in SUBSET db["messages"] /\ R5 \in SUBSET db["messages"]
    BY DEF On, Rows
  <2>4. /\ R4 \in SUBSET db["tips"] /\ R6 \in SUBSET db["poll_votes"] /\ R7 \in SUBSET db["event_rsvps"]
        /\ R8 \in SUBSET db["tasks"] /\ R9 \in SUBSET db["tasks"] /\ R10 \in SUBSET db["crowdfund_pledges"]
        /\ R1 \in SUBSET db["social_graph"]
    BY DEF TipsReceived
  <2>5. IsFiniteSet(db["social_graph"])
    BY DEF EdgesInv
  <2> HIDE DEF R1, R2, R3, R4, R5, R6, R7, R8, R9, R10
  <2>6. \A S, T : IsFiniteSet(S) /\ T \in SUBSET S => IsFiniteSet(T)
    BY FS_Subset
  <2>7. QED
    BY <2>1, <2>3, <2>4, <2>5, <2>6
<1>4. IsFiniteSet(N1) /\ Cardinality(N1) = Cardinality(R1) /\ \A n \in N1 : n.kind = "follow"
  BY FollowNotes
<1> HIDE DEF R1, R2, R3, R4, R5, R6, R7, R8, R9, R10
<1>5. ASSUME NEW rows, IsFiniteSet(rows), NEW kind
      PROVE  LET of == {Note(kind, row.tid, row) : row \in rows} IN
             /\ IsFiniteSet(of) /\ Cardinality(of) = Cardinality(rows)
             /\ \A n \in of : n.kind = kind
  <2> DEFINE actor == [row \in rows |-> row.tid]
             of == {Note(kind, row.tid, row) : row \in rows}
             mapped == Noted(kind, rows, actor)
  <2>1. of = mapped
    BY DEF Noted
  <2>2. IsFiniteSet(mapped) /\ Cardinality(mapped) = Cardinality(rows) /\ \A n \in mapped : n.kind = kind
    <3> HIDE DEF actor
    <3>1. QED
      BY <1>5, NotesOf
  <2> HIDE DEF of, mapped
  <2>3. IsFiniteSet(of) /\ Cardinality(of) = Cardinality(rows) /\ \A n \in of : n.kind = kind
    BY <2>1, <2>2
  <2>4. QED
    BY <2>3 DEF of
<1>6. IsFiniteSet(N2) /\ Cardinality(N2) = Cardinality(R2) /\ \A n \in N2 : n.kind = "reaction"
  BY <1>3, <1>5
<1>7. IsFiniteSet(N3) /\ Cardinality(N3) = Cardinality(R3) /\ \A n \in N3 : n.kind = "reply"
  BY <1>3, <1>5
<1>8. IsFiniteSet(N4) /\ Cardinality(N4) = Cardinality(R4) /\ \A n \in N4 : n.kind = "tip"
  BY <1>3, <1>5
<1>9. IsFiniteSet(N5) /\ Cardinality(N5) = Cardinality(R5) /\ \A n \in N5 : n.kind = "mention"
  BY <1>3, <1>5
<1>10. IsFiniteSet(N6) /\ Cardinality(N6) = Cardinality(R6) /\ \A n \in N6 : n.kind = "poll_vote"
  BY <1>3, <1>5
<1>11. IsFiniteSet(N7) /\ Cardinality(N7) = Cardinality(R7) /\ \A n \in N7 : n.kind = "event_rsvp"
  BY <1>3, <1>5
<1>12. IsFiniteSet(N8) /\ Cardinality(N8) = Cardinality(R8) /\ \A n \in N8 : n.kind = "task_claim"
  <2> DEFINE actor == [row \in R8 |-> row.claimer]
             mapped == Noted("task_claim", R8, actor)
  <2>1. N8 = mapped
    BY DEF Noted
  <2>2. IsFiniteSet(mapped) /\ Cardinality(mapped) = Cardinality(R8) /\ \A n \in mapped : n.kind = "task_claim"
    <3> HIDE DEF actor
    <3>1. QED
      BY <1>3, NotesOf
  <2> HIDE DEF mapped, N8
  <2>3. QED
    BY <2>1, <2>2
<1>13. IsFiniteSet(N9) /\ Cardinality(N9) = Cardinality(R9) /\ \A n \in N9 : n.kind = "task_complete"
  <2> DEFINE actor == [row \in R9 |-> row.completer]
             mapped == Noted("task_complete", R9, actor)
  <2>1. N9 = mapped
    BY DEF Noted
  <2>2. IsFiniteSet(mapped) /\ Cardinality(mapped) = Cardinality(R9) /\ \A n \in mapped : n.kind = "task_complete"
    <3> HIDE DEF actor
    <3>1. QED
      BY <1>3, NotesOf
  <2> HIDE DEF mapped, N9
  <2>3. QED
    BY <2>1, <2>2
<1>14. IsFiniteSet(N10) /\ Cardinality(N10) = Cardinality(R10) /\ \A n \in N10 : n.kind = "crowdfund_pledge"
  BY <1>3, <1>5
<1> HIDE DEF N1, N2, N3, N4, N5, N6, N7, N8, N9, N10
<1> DEFINE U2 == N1 \cup N2
           U3 == U2 \cup N3
           U4 == U3 \cup N4
           U5 == U4 \cup N5
           U6 == U5 \cup N6
           U7 == U6 \cup N7
           U8 == U7 \cup N8
           U9 == U8 \cup N9
           U10 == U9 \cup N10
<1>15. /\ IsFiniteSet(U2) /\ Cardinality(U2) = Cardinality(R1) + Cardinality(R2)
       /\ \A n \in U2 : n.kind \in {"follow", "reaction"}
  BY <1>4, <1>6, NotesJoin
<1> HIDE DEF U2
<1>16. /\ IsFiniteSet(U3) /\ Cardinality(U3) = Cardinality(U2) + Cardinality(R3)
       /\ \A n \in U3 : n.kind \in {"follow", "reaction", "reply"}
  BY <1>7, <1>15, NotesJoin
<1> HIDE DEF U3
<1>17. /\ IsFiniteSet(U4) /\ Cardinality(U4) = Cardinality(U3) + Cardinality(R4)
       /\ \A n \in U4 : n.kind \in {"follow", "reaction", "reply", "tip"}
  BY <1>8, <1>16, NotesJoin
<1> HIDE DEF U4
<1>18. /\ IsFiniteSet(U5) /\ Cardinality(U5) = Cardinality(U4) + Cardinality(R5)
       /\ \A n \in U5 : n.kind \in {"follow", "reaction", "reply", "tip", "mention"}
  BY <1>9, <1>17, NotesJoin
<1> HIDE DEF U5
<1>19. /\ IsFiniteSet(U6) /\ Cardinality(U6) = Cardinality(U5) + Cardinality(R6)
       /\ \A n \in U6 : n.kind \in {"follow", "reaction", "reply", "tip", "mention", "poll_vote"}
  BY <1>10, <1>18, NotesJoin
<1> HIDE DEF U6
<1>20. /\ IsFiniteSet(U7) /\ Cardinality(U7) = Cardinality(U6) + Cardinality(R7)
       /\ \A n \in U7 : n.kind \in {"follow", "reaction", "reply", "tip", "mention", "poll_vote", "event_rsvp"}
  BY <1>11, <1>19, NotesJoin
<1> HIDE DEF U7
<1>21. /\ IsFiniteSet(U8) /\ Cardinality(U8) = Cardinality(U7) + Cardinality(R8)
       /\ \A n \in U8 : n.kind # "task_complete" /\ n.kind # "crowdfund_pledge"
  BY <1>12, <1>20, NotesJoin
<1> HIDE DEF U8
<1>22. /\ IsFiniteSet(U9) /\ Cardinality(U9) = Cardinality(U8) + Cardinality(R9)
       /\ \A n \in U9 : n.kind # "crowdfund_pledge"
  BY <1>13, <1>21, NotesJoin
<1> HIDE DEF U9
<1>23. Cardinality(U10) = Cardinality(U9) + Cardinality(R10)
  <2>1. Cardinality(U9 \cup N10) = Cardinality(U9) + Cardinality(N10)
    BY <1>14, <1>22, NotesJoin
  <2>2. QED
    BY <1>14, <2>1
<1> HIDE DEF U10
<1>24. Notifications(tid) = U10
  BY <1>1 DEF U2, U3, U4, U5, U6, U7, U8, U9, U10
<1>25. NotificationCount(tid) = Cardinality(Notifications(tid))
  BY <1>2, <1>15, <1>16, <1>17, <1>18, <1>19, <1>20, <1>21, <1>22, <1>23, <1>24
<1>26. notes("follow") = N1 /\ notes("reaction") = N2 /\ notes("tip") = N4
  BY <1>1, <1>4, <1>6, <1>7, <1>8, <1>9, <1>10, <1>11, <1>12, <1>13, <1>14
<1>27. QED
  BY <1>4, <1>8, <1>25, <1>26 DEF R1, R2, R4, N2

LEMMA UserCounted ==
    ASSUME NEW tid
    PROVE  User(tid) = [followers |-> Cardinality(Followers(tid)), following |-> Cardinality(Following(tid))]
<1>1. \A S, A, R : MergedCount(S, A, R) = Cardinality(Merged(S, A, R))
  <2> TAKE S, A, R
  <2>1. (S \cup A) \ R = Merged(S, A, R)
    BY DEF Merged
  <2>2. QED
    BY <2>1 DEF MergedCount
<1>2. QED
  BY <1>1 DEF User, Followers, Following

\* A message's hash names one row, so karma and notifications count the same reactions.
LEMMA KarmaCounted ==
    ASSUME TablesSound, FollowInv, EdgesInv, NEW tid \in Tids
    PROVE  LET notes(kind) == {n \in Notifications(tid) : n.kind = kind} IN
           Karma(tid) =
                Cardinality({a \in Rows("TWEET_ADD") : a.tid = tid})
                + 2 * Cardinality({n \in notes("reaction") :
                          \E t \in Rows("TWEET_ADD") : t.hash = n.row.parent})
                + 5 * Cardinality(notes("follow")) + 10 * Cardinality(notes("tip"))
                + 20 * Cardinality({t \in db.tasks : t.completer = tid})
<1> DEFINE notes(kind) == {n \in Notifications(tid) : n.kind = kind}
           of(r) == \E t \in Rows("TWEET_ADD") : t.hash = r.parent
           rows == {r \in Rows("REACTION_ADD") :
                      \E t \in Rows("TWEET_ADD") : t.tid = tid /\ t.hash = r.parent}
           on == On(Rows("REACTION_ADD"), tid)
           noted == {n \in notes("reaction") : \E t \in Rows("TWEET_ADD") : t.hash = n.row.parent}
           actor == [r \in rows |-> r.tid]
<1>1. \A m, t \in db["messages"] : m.hash = t.hash => m = t
  <2>1. Unique(db["messages"], {"hash"})
    BY KeyOf DEF TablesSound, RowsInv, Tables
  <2>2. QED
    BY <2>1 DEF Unique, Same
<1>2. rows = {r \in on : of(r)}
  BY <1>1 DEF On, Rows
<1>3. noted = Noted("reaction", rows, actor)
  <2>1. notes("reaction") = {Note("reaction", r.tid, r) : r \in on}
    BY NotesCounted
  <2>2. \A r : Note("reaction", r.tid, r).row = r
    BY DEF Note
  <2>3. noted = {Note("reaction", r.tid, r) : r \in {x \in on : of(x)}}
    <3> HIDE DEF on
    <3>1. QED
      BY <2>1, <2>2
  <2>4. noted = {Note("reaction", r.tid, r) : r \in rows}
    BY <1>2, <2>3
  <2> HIDE DEF rows, noted
  <2>5. QED
    BY <2>4 DEF Noted
<1>4. IsFiniteSet(rows)
  <2>1. IsFiniteSet(db["messages"])
    BY DEF TablesSound, FiniteInv, Tables
  <2>2. rows \in SUBSET db["messages"]
    BY DEF Rows
  <2> HIDE DEF rows
  <2>3. QED
    BY <2>1, <2>2, FS_Subset
<1>5. Cardinality(noted) = Cardinality(rows)
  <2> HIDE DEF rows, noted, actor
  <2>1. QED
    BY <1>3, <1>4, NotesOf
<1>6. {t \in TasksIn("completed") : t.completer = tid} = {t \in db.tasks : t.completer = tid}
  <2>1. tid # 0
    BY ViewsAssumption
  <2>2. \A t \in db["tasks"] : t.completer = tid => t.status = "completed"
    BY <2>1 DEF TablesSound, TaskInv, TaskRowSound
  <2>3. QED
    BY <2>2 DEF TasksIn
<1>7. /\ Cardinality(notes("follow")) = Cardinality({e \in db.social_graph : e[2] = tid})
      /\ Cardinality(notes("tip")) = Cardinality(TipsReceived(tid))
  BY NotesCounted
<1>8. Karma(tid) =
        Cardinality({a \in Rows("TWEET_ADD") : a.tid = tid}) + 2 * Cardinality(rows)
        + 5 * Cardinality({e \in db.social_graph : e[2] = tid}) + 10 * Cardinality(TipsReceived(tid))
        + 20 * Cardinality({t \in TasksIn("completed") : t.completer = tid})
  BY DEF Karma
<1>9. Karma(tid) =
        Cardinality({a \in Rows("TWEET_ADD") : a.tid = tid}) + 2 * Cardinality(noted)
        + 5 * Cardinality(notes("follow")) + 10 * Cardinality(notes("tip"))
        + 20 * Cardinality({t \in db.tasks : t.completer = tid})
  <2> HIDE DEF rows, noted, notes
  <2>1. QED
    BY <1>5, <1>6, <1>7, <1>8
<1>10. QED
  BY <1>9

LEMMA LikesCounted ==
    ASSUME TablesSound, NEW t \in Feed
    PROVE  ReactionCount(t) = Cardinality({tid \in Tids : t \in Likes(tid)})
<1> DEFINE likers == {r.tid : r \in {x \in Rows("REACTION_ADD") :
                        /\ x.parent = t.hash /\ x.text = "1"
                        /\ ~\E u \in Rows("REACTION_REMOVE") :
                              u.tid = x.tid /\ u.parent = t.hash /\ u.at > x.at}}
<1>1. Blank # "1"
  BY Zenon DEF Blank
<1>2. \A r \in db["messages"] : r.tid \in Tids
  <2> SUFFICES ASSUME NEW r \in db["messages"] PROVE r.tid \in Tids
    OBVIOUS
  <2>1. PICK x \in DOMAIN left : r.tid = x.tid
    BY DEF TablesSound, CopiesInv, Copied
  <2>2. QED
    BY <2>1, ViewsAssumption DEF TablesSound, Requests, Column
<1>3. \A tid : t \in Likes(tid) <=> \E r \in Rows("REACTION_ADD") :
                                      r.tid = tid /\ r.text = "1" /\ Active(r) /\ r.parent = t.hash
  BY <1>1 DEF Likes, Reactions, Feed
<1>4. likers = {tid \in Tids : t \in Likes(tid)}
  <2>1. \A r \in Rows("REACTION_ADD") : r.tid \in Tids
    BY <1>2 DEF Rows
  <2>2. \A tid : tid \in likers <=> \E r \in Rows("REACTION_ADD") :
                                      r.tid = tid /\ r.text = "1" /\ Active(r) /\ r.parent = t.hash
    BY DEF Active
  <2> HIDE DEF likers
  <2>3. QED
    BY <1>3, <2>1, <2>2
<1>5. ReactionCount(t) = Cardinality(likers)
  BY DEF ReactionCount
<1>6. QED
  BY <1>4, <1>5

\* The rows of some options, counted option by option.
Choosing(rows, s) == {v \in rows : v.option \in s}

LEMMA SumCounts ==
    ASSUME NEW S, IsFiniteSet(S), NEW rows, IsFiniteSet(rows), NEW F, NEW w, IsSum(F, S, w),
           \A o \in S : w[o] = Cardinality(Choosing(rows, {o}))
    PROVE  F[S] = Cardinality(Choosing(rows, S))
<1> DEFINE with(s) == Choosing(rows, s)
           bad == {s \in SUBSET S : F[s] # Cardinality(with(s))}
<1> SUFFICES ASSUME bad # {} PROVE FALSE
  OBVIOUS
<1>1. PICK u \in bad : \A v \in bad : v \subseteq u => v = u
  <2> HIDE DEF bad
  <2>1. bad \in SUBSET SUBSET S
    BY DEF bad
  <2>2. QED
    BY <2>1, LeastSubset
<1>2. u \in SUBSET S /\ F[u] # Cardinality(with(u))
  BY <1>1
<1>3. u # {}
  <2>1. u = {} => with(u) = {}
    BY DEF Choosing
  <2>2. u = {} => F[u] = 0
    BY <1>2, SumAt
  <2> HIDE DEF with
  <2>3. QED
    BY <1>2, <2>1, <2>2, FS_EmptySet
<1> DEFINE c == Any(u)
           rest == u \ {c}
           one == Choosing(rows, {c})
<1>4. c \in u
  BY <1>3, AnyMember
<1>5. F[rest] = Cardinality(with(rest))
  BY <1>1, <1>4
<1>6. F[u] = w[c] + F[rest]
  <2> HIDE DEF bad, with
  <2>1. QED
    BY <1>2, <1>3, SumAt
<1>7. w[c] = Cardinality(one)
  BY <1>2, <1>4
<1>8. IsFiniteSet(one) /\ IsFiniteSet(with(rest))
  <2>1. one \in SUBSET rows /\ with(rest) \in SUBSET rows
    BY DEF Choosing
  <2> HIDE DEF one, with
  <2>2. QED
    BY <2>1, FS_Subset
<1>9. with(u) = one \cup with(rest) /\ one \cap with(rest) = {}
  BY <1>4 DEF Choosing
<1>10. Cardinality(one \cup with(rest)) =
         Cardinality(one) + Cardinality(with(rest)) - Cardinality(one \cap with(rest))
  <2> HIDE DEF one, with, rest
  <2>1. QED
    BY <1>8, FS_Union
<1>11. Cardinality(one) \in Nat /\ Cardinality(with(rest)) \in Nat /\ Cardinality(one \cap with(rest)) = 0
  <2> HIDE DEF one, with, rest
  <2>1. QED
    BY <1>8, <1>9, FS_CardinalityType, FS_EmptySet
<1> HIDE DEF one, with, rest, c, bad
<1>12. QED
  BY <1>2, <1>5, <1>6, <1>7, <1>9, <1>10, <1>11

Tallied(id, S) == MapThenSumSet(LAMBDA option : Tally(id, option), S)

LEMMA TallySum ==
    ASSUME NEW S, IsFiniteSet(S), NEW id
    PROVE  \E F : /\ IsSum(F, S, [o \in S |-> Tally(id, o)])
                  /\ Tallied(id, S) = F[S]
<1> DEFINE w == [o \in S |-> Tally(id, o)]
           body(F) == [s \in SUBSET S |-> IF s = {} THEN 0 ELSE Tally(id, Any(s)) + F[s \ {Any(s)}]]
           F0 == CHOOSE F : F = body(F)
<1>1. Tallied(id, S) = F0[S]
  BY DEF Tallied, MapThenSumSet, MapThenFoldSet, Any
<1>2. PICK F : IsSum(F, S, w)
  BY SumExists
<1>3. \A G : IsSum(G, S, w) <=> G = body(G)
  <2>1. \A s \in SUBSET S : s # {} => w[Any(s)] = Tally(id, Any(s))
    BY AnyMember
  <2> HIDE DEF w
  <2>2. QED
    BY <2>1 DEF IsSum
<1>4. F0 = body(F0)
  <2>1. F = body(F)
    BY <1>2, <1>3
  <2> HIDE DEF body
  <2>2. QED
    BY <2>1
<1>5. IsSum(F0, S, w)
  BY <1>3, <1>4
<1>6. QED
  BY <1>1, <1>5

LEMMA PollCounted ==
    ASSUME TablesSound, VotesFit, NEW p \in db["polls"]
    PROVE  TotalVotes(p.id) = MapThenSumSet(LAMBDA option : Tally(p.id, option), 0 .. p.options - 1)
<1> DEFINE S == 0 .. p.options - 1
           rows == {v \in db["poll_votes"] : v.poll = p.id}
           w == [o \in S |-> Tally(p.id, o)]
<1>1. p.options \in Int
  <2>1. PICK x \in DOMAIN left : MadeOf(p, Wire(x), "polls") /\ Wire(x) \in Body
    BY PlainMade DEF PlainTables
  <2>2. Wire(x).type = "POLL_ADD"
    BY <2>1 DEF MadeOf, MadeTypes, MadeIn
  <2>3. p.options = Wire(x).num
    BY <2>1, <2>2 DEF MadeOf, MadeBy
  <2>4. QED
    BY <2>1, <2>3 DEF Body
<1>2. \A v \in rows : v.option \in S
  <2> SUFFICES ASSUME NEW v \in rows PROVE v.option \in S
    OBVIOUS
  <2>1. PICK x \in DOMAIN left : MadeOf(v, Wire(x), "poll_votes") /\ Wire(x) \in Body
    BY PlainMade DEF PlainTables
  <2>2. Wire(x).type = "POLL_VOTE"
    BY <2>1 DEF MadeOf, MadeTypes, MadeIn
  <2>3. v.option = Wire(x).num
    BY <2>1, <2>2 DEF MadeOf, MadeBy
  <2>4. v.option \in Int
    BY <2>1, <2>3 DEF Body
  <2>5. PICK q \in db["polls"] : v.option >= 0 /\ q.id = p.id /\ v.option < q.options
    BY DEF VotesFit, Fits
  <2>6. q = p
    <3>1. Unique(db["polls"], {"id"})
      BY KeyOf DEF TablesSound, RowsInv, Tables
    <3>2. QED
      BY <2>5, <3>1 DEF Unique, Same
  <2>7. v.option >= 0 /\ v.option < p.options
    BY <2>5, <2>6
  <2>8. QED
    BY <1>1, <2>4, <2>7
<1>3. IsFiniteSet(S)
  BY <1>1, FS_Interval
<1>4. IsFiniteSet(rows)
  <2>1. IsFiniteSet(db["poll_votes"])
    BY DEF TablesSound, FiniteInv, Tables
  <2>2. rows \in SUBSET db["poll_votes"]
    OBVIOUS
  <2> HIDE DEF rows
  <2>3. QED
    BY <2>1, <2>2, FS_Subset
<1>5. \A o \in S : w[o] = Cardinality(Choosing(rows, {o}))
  <2>1. \A o : Choosing(rows, {o}) = {v \in db["poll_votes"] : v.poll = p.id /\ v.option = o}
    BY DEF Choosing
  <2> HIDE DEF rows, S
  <2>2. QED
    BY <2>1 DEF Tally
<1>6. Choosing(rows, S) = rows
  <2> HIDE DEF S
  <2>1. QED
    BY <1>2 DEF Choosing
<1>7. TotalVotes(p.id) = Cardinality(rows)
  BY DEF TotalVotes
<1> HIDE DEF rows, S
<1>8. PICK F : IsSum(F, S, w) /\ Tallied(p.id, S) = F[S]
  BY <1>3, TallySum
<1> HIDE DEF w
<1>9. F[S] = Cardinality(Choosing(rows, S))
  BY <1>3, <1>4, <1>5, <1>8, SumCounts
<1>10. TotalVotes(p.id) = Tallied(p.id, S)
  BY <1>6, <1>7, <1>8, <1>9
<1>11. QED
  BY <1>10 DEF Tallied, S

LEMMA PledgersCounted ==
    ASSUME TablesSound, NEW c \in SearchCrowdfunds
    PROVE  c.raised = Raised(c.id) /\ PledgerCount(c.id) \in 0 .. c.pledgers
<1> DEFINE rows == Pledges(c.id)
           users == {p.tid : p \in rows}
           f == [p \in rows |-> p.tid]
<1>1. PICK fund \in db.crowdfunds :
        /\ c.id = fund.id
        /\ c.raised = Sum({p \in db.crowdfund_pledges : p.crowdfund = fund.id})
        /\ c.pledgers = Cardinality({p \in db.crowdfund_pledges : p.crowdfund = fund.id})
  BY DEF SearchCrowdfunds
<1>2. rows = {p \in db.crowdfund_pledges : p.crowdfund = fund.id}
  BY <1>1 DEF Pledges
<1>3. c.raised = Raised(c.id) /\ c.pledgers = Cardinality(rows)
  BY <1>1, <1>2 DEF Raised
<1>4. IsFiniteSet(rows)
  <2>1. IsFiniteSet(db["crowdfund_pledges"])
    BY DEF TablesSound, FiniteInv, Tables
  <2>2. rows \in SUBSET db["crowdfund_pledges"]
    BY DEF Pledges
  <2> HIDE DEF rows
  <2>3. QED
    BY <2>1, <2>2, FS_Subset
<1> HIDE DEF rows
<1>5. f \in Surjection(rows, users)
  BY DEF Surjection
<1> HIDE DEF users, f
<1>6. IsFiniteSet(users) /\ Cardinality(users) <= Cardinality(rows)
  BY <1>4, <1>5, FS_Surjection
<1>7. Cardinality(users) \in Nat /\ Cardinality(rows) \in Nat
  BY <1>4, <1>6, FS_CardinalityType
<1>8. PledgerCount(c.id) = Cardinality(users)
  BY DEF PledgerCount, users, rows
<1>9. QED
  BY <1>3, <1>6, <1>7, <1>8

\* notifications.ts, users.ts, feed.ts, karma.ts, social.ts, polls.ts: for any
\* messages, users, follows, faults, retries, restarts and peers, routes that
\* derive a fact by different queries agree: /count with the list, /v1/user with
\* the follower lists, karma with the notifications, a card's likes with the
\* likes of its users, a poll's total with its options, search with each page.
THEOREM RoutesAgree == HubSpec => []ViewsAgree
<1>1. TablesSound /\ FollowInv /\ EdgesInv /\ VotesFit => ViewsAgree
  <2> SUFFICES ASSUME TablesSound, FollowInv, EdgesInv, VotesFit PROVE ViewsAgree
    OBVIOUS
  <2>1. ASSUME NEW tid \in Tids, NEW row \in Users, row.tid = tid
        PROVE  row.followers = Cardinality({n \in Notifications(tid) : n.kind = "follow"})
    <3>1. row.followers = Cardinality({e \in db.social_graph : e[2] = tid})
      <4> DEFINE follows(u) == Cardinality({e \in db.social_graph : e[2] = u})
      <4>1. PICK u \in Tids : row = [tid |-> u, bio |-> Values(u, "bio"), followers |-> follows(u),
                                     following |-> Cardinality({e \in db.social_graph : e[1] = u})]
        BY DEF Users, UserRows
      <4> HIDE DEF follows
      <4>2. row.tid = u /\ row.followers = follows(u)
        BY <4>1
      <4>3. row.followers = follows(tid)
        BY <2>1, <4>2
      <4>4. QED
        BY <4>3 DEF follows
    <3>2. QED
      BY <3>1, NotesCounted
  <2>2. \A e \in SearchEvents : e[2] = Rsvps(e[1], "yes")
    <3> SUFFICES ASSUME NEW e \in SearchEvents PROVE e[2] = Rsvps(e[1], "yes")
      OBVIOUS
    <3>1. PICK event \in db.events :
            e = <<event.id, Cardinality({r \in db.event_rsvps : r.event = event.id /\ r.status = "yes"})>>
      BY DEF SearchEvents
    <3>2. QED
      BY <3>1 DEF Rsvps
  <2>3. \A tid \in Tids : NotificationCount(tid) = Cardinality(Notifications(tid))
    BY NotesCounted
  <2>4. QED
    BY <2>1, <2>2, <2>3, UserCounted, KarmaCounted, LikesCounted, PollCounted, PledgersCounted DEF ViewsAgree
<1>2. QED
  BY <1>1, RequestsHold, WellHolds, RowsHold, TasksHold, TablesFinite, MadeHolds, CopiesHold, TakenHold,
     FollowsHold, EdgesFinite, VotesAreOptions, PTL DEF TablesSound
=============================================================================
