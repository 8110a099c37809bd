---------------------------- MODULE MirrorTables ----------------------------
(***************************************************************************)
(* The tables the hub derives from the logs of ten Solana programs, and    *)
(* what each log handler of solana/listener.ts does to them.               *)
(*                                                                         *)
(* A table is a function whose domain is the set of its primary keys.      *)
(* ProcessXEvent(t, e, tx, q) is the q-th query that the handler of        *)
(* program X runs for event e of transaction tx; a handler awaits each     *)
(* query, so other handlers run in between.  XEmits(t) is the set of       *)
(* events program X may emit when the accounts on the chain are t: the     *)
(* programs are not part of the hub, and their rules are those the         *)
(* handlers rely on.                                                       *)
(***************************************************************************)
EXTENDS Integers, Sequences

CONSTANTS
  Tids,     \* users; also their wallets
  Pdas,     \* addresses of tips, crowdfunds, tasks, channels, polls, events
  Names,    \* usernames
  Amounts   \* what one pledge or tip carries

Nobody == "nobody"   \* SQL NULL in a column that holds a user or a name

ASSUME NamesAssumption == Nobody \notin Names

Empty == [k \in {} |-> Nobody]   \* a table without rows

------------------------------------------------------------------------------
(* SQL on one table *)

\* INSERT ... ON CONFLICT (k) DO UPDATE SET every column
Put(t, k, row) == [x \in DOMAIN t \cup {k} |-> IF x = k THEN row ELSE t[x]]

\* INSERT ... ON CONFLICT (k) DO NOTHING
InsertNew(t, k, row) == IF k \in DOMAIN t THEN t ELSE Put(t, k, row)

\* UPDATE ... WHERE pk = k
Set(t, k, row) == IF k \in DOMAIN t THEN Put(t, k, row) ELSE t

\* DELETE ... WHERE pk = k
Delete(t, k) == [x \in DOMAIN t \ {k} |-> t[x]]

AtLeastZero(n) == IF n < 0 THEN 0 ELSE n   \* GREATEST(n, 0)

------------------------------------------------------------------------------
(* TIDs and usernames share the table tids. *)

ProcessTidEvent(t, e, tx, q) ==
  CASE e.kind = "TidRegistered" ->
         [t EXCEPT !.tids = Put(@, e.tid,
            [custody |-> e.custody, recovery |-> e.recovery,
             username |-> IF e.tid \in DOMAIN @ THEN @[e.tid].username ELSE Nobody])]
    [] e.kind \in {"TidTransferred", "TidRecovered"} ->
         [t EXCEPT !.tids = IF e.tid \in DOMAIN @
                              THEN [@ EXCEPT ![e.tid].custody = e.custody] ELSE @]
    [] e.kind = "RecoveryChanged" ->
         [t EXCEPT !.tids = IF e.tid \in DOMAIN @
                              THEN [@ EXCEPT ![e.tid].recovery = e.recovery] ELSE @]

TidEmits(t) ==
  LET known == DOMAIN t.tids IN
       {[kind |-> "TidRegistered", tid |-> i, custody |-> i, recovery |-> i] :
          i \in Tids \ known}
  \cup {[kind |-> k, tid |-> i, custody |-> c] :
          k \in {"TidTransferred", "TidRecovered"}, i \in known, c \in Tids}
  \cup {[kind |-> "RecoveryChanged", tid |-> i, recovery |-> c] :
          i \in known, c \in Tids}

SetUsername(t, tid, name) ==
  [t EXCEPT !.tids = IF tid \in DOMAIN @ THEN [@ EXCEPT ![tid].username = name] ELSE @]

ProcessUsernameEvent(t, e, tx, q) ==
  CASE e.kind = "UsernameRegistered" -> SetUsername(t, e.tid, e.name)
    [] e.kind = "UsernameTransferred" /\ q = 1 -> SetUsername(t, e.from, Nobody)
    [] e.kind = "UsernameTransferred" /\ q = 2 -> SetUsername(t, e.tid, e.name)
    [] e.kind = "UsernameReleased" ->
         IF e.tid \in DOMAIN t.tids /\ t.tids[e.tid].username = e.name
           THEN SetUsername(t, e.tid, Nobody) ELSE t

UsernameEmits(t) ==
  LET known == DOMAIN t.tids
      Has(i, n) == t.tids[i].username = n
      free == {n \in Names : \A i \in known : ~Has(i, n)}
      bare == {i \in known : t.tids[i].username = Nobody}
      held == {h \in known \X Names : Has(h[1], h[2])}
  IN   {[kind |-> "UsernameRegistered", tid |-> i, name |-> n] : i \in bare, n \in free}
  \cup {[kind |-> "UsernameRenewed", tid |-> h[1], name |-> h[2]] : h \in held}
  \cup {[kind |-> "UsernameReleased", tid |-> h[1], name |-> h[2]] : h \in held}
  \cup {[kind |-> "UsernameTransferred", from |-> h[1], tid |-> i, name |-> h[2]] :
          h \in held, i \in bare}

------------------------------------------------------------------------------
(* Follows, tips, crowdfunds *)

\* social_graph: "live", or "deleted" when deleted_at is set
ProcessSocialEvent(t, e, tx, q) ==
  CASE e.kind = "Followed" -> [t EXCEPT !.graph = Put(@, <<e.who, e.whom>>, "live")]
    [] e.kind = "Unfollowed" -> [t EXCEPT !.graph = Set(@, <<e.who, e.whom>>, "deleted")]

SocialEmits(t) ==
  LET pairs == {p \in Tids \X Tids : p[1] # p[2]}
      live == {p \in DOMAIN t.graph : t.graph[p] = "live"}
  IN   {[kind |-> "ProfileInitialized", who |-> i] : i \in Tids}
  \cup {[kind |-> "Followed", who |-> p[1], whom |-> p[2]] : p \in pairs \ live}
  \cup {[kind |-> "Unfollowed", who |-> p[1], whom |-> p[2]] : p \in live}

ProcessTipEvent(t, e, tx, q) ==
  [t EXCEPT !.tips = InsertNew(@, e.pda, [amount |-> e.amount, tx |-> tx])]

TipEmits(t) ==
       {[kind |-> "TipSent", pda |-> k, amount |-> a] : k \in Pdas \ DOMAIN t.tips, a \in Amounts}
  \cup {[kind |-> "SenderTipStateInitialized"]}

\* status of a crowdfund: 0 active, 1 succeeded, 2 failed
ProcessCrowdfundEvent(t, e, tx, q) ==
  CASE e.kind = "CrowdfundCreated" ->
         [t EXCEPT !.funds = InsertNew(@, e.pda, [total |-> 0, count |-> 0, status |-> 0])]
    [] e.kind = "CrowdfundPledged" /\ q = 1 ->
         LET k == <<e.pda, e.backer>> IN
         [t EXCEPT !.pledges =
            IF k \notin DOMAIN @ THEN Put(@, k, [amount |-> e.amount, tx |-> tx])
            ELSE IF @[k].tx # tx
                   THEN Put(@, k, [amount |-> @[k].amount + e.amount, tx |-> tx])
                   ELSE @]
    [] e.kind = "CrowdfundPledged" /\ q = 2 ->
         [t EXCEPT !.funds = IF e.pda \in DOMAIN @
            THEN [@ EXCEPT ![e.pda].total = e.total, ![e.pda].count = e.count] ELSE @]
    [] e.kind = "CrowdfundClaimed" ->
         [t EXCEPT !.funds = IF e.pda \in DOMAIN @ /\ @[e.pda].status # 1
            THEN [@ EXCEPT ![e.pda].status = 1, ![e.pda].total = 0] ELSE @]
    [] e.kind = "CrowdfundRefunded" /\ q = 1 ->
         [t EXCEPT !.pledges = Delete(@, <<e.pda, e.backer>>)]
    [] e.kind = "CrowdfundRefunded" /\ q = 2 ->
         [t EXCEPT !.funds =
            IF e.pda \in DOMAIN @
              THEN Put(@, e.pda,
                     [total |-> AtLeastZero(@[e.pda].total - e.amount),
                      count |-> AtLeastZero(@[e.pda].count - 1),
                      status |-> IF @[e.pda].status = 0 THEN 2 ELSE @[e.pda].status])
              ELSE @]

CrowdfundEmits(t) ==
  LET InState(s) == {k \in DOMAIN t.funds : t.funds[k].status \in s}
      new(k, b) == IF <<k, b>> \in DOMAIN t.pledges THEN 0 ELSE 1
  IN   {[kind |-> "CrowdfundCreated", pda |-> k] : k \in Pdas \ DOMAIN t.funds}
  \cup {[kind |-> "CrowdfundPledged", pda |-> k, backer |-> b, amount |-> a,
         total |-> t.funds[k].total + a, count |-> t.funds[k].count + new(k, b)] :
          k \in InState({0}), b \in Tids, a \in Amounts}
  \cup {[kind |-> "CrowdfundClaimed", pda |-> k] :
          k \in {f \in InState({0}) : t.funds[f].total > 0}}
  \cup {[kind |-> "CrowdfundRefunded", pda |-> p[1], backer |-> p[2],
         amount |-> t.pledges[p].amount] :
          p \in {d \in DOMAIN t.pledges : d[1] \in InState({0, 2})}}

------------------------------------------------------------------------------
(* Tasks, channels, karma *)

\* status of a task: 0 open, 1 claimed, 2 completed, 3 cancelled
FlipTaskAny(t, k, from, row) ==   \* mutant: no status in the WHERE clause
  [t EXCEPT !.tasks = IF k \in DOMAIN @ THEN Put(@, k, row) ELSE @]

FlipTask(t, k, from, row) ==
  [t EXCEPT !.tasks = IF k \in DOMAIN @ /\ @[k].status = from
                        THEN Put(@, k, row) ELSE @]

ProcessTaskEvent(t, e, tx, q) ==
  CASE e.kind = "TaskCreated" ->
         [t EXCEPT !.tasks = InsertNew(@, e.pda, [status |-> 0, claimer |-> Nobody])]
    [] e.kind = "TaskClaimed" ->
         FlipTask(t, e.pda, 0, [status |-> 1, claimer |-> e.claimer])
    [] e.kind = "TaskCompleted" ->
         FlipTask(t, e.pda, 1, [status |-> 2, claimer |-> t.tasks[e.pda].claimer])
    [] e.kind = "TaskCancelled" ->
         FlipTask(t, e.pda, 0, [status |-> 3, claimer |-> Nobody])

TaskEmits(t) ==
  LET InState(s) == {k \in DOMAIN t.tasks : t.tasks[k].status = s} IN
       {[kind |-> "TaskCreated", pda |-> k] : k \in Pdas \ DOMAIN t.tasks}
  \cup {[kind |-> "TaskClaimed", pda |-> k, claimer |-> i] : k \in InState(0), i \in Tids}
  \cup {[kind |-> "TaskCompleted", pda |-> k] : k \in InState(1)}
  \cup {[kind |-> "TaskCancelled", pda |-> k] : k \in InState(0)}

ProcessChannelEvent(t, e, tx, q) ==
  CASE e.kind = "ChannelRegistered" ->
         [t EXCEPT !.channels = InsertNew(@, e.pda, e.owner)]
    [] e.kind = "ChannelUpdated" -> t   \* touches updated_at only
    [] e.kind = "ChannelTransferred" ->
         [t EXCEPT !.channels = Set(@, e.pda, e.owner)]

ChannelEmits(t) ==
       {[kind |-> "ChannelRegistered", pda |-> k, owner |-> i] :
          k \in Pdas \ DOMAIN t.channels, i \in Tids}
  \cup {[kind |-> "ChannelUpdated", pda |-> k] : k \in DOMAIN t.channels}
  \cup {[kind |-> "ChannelTransferred", pda |-> k, owner |-> i] :
          k \in DOMAIN t.channels, i \in Tids}

NoKarma == [tips |-> 0, tasks |-> 0]

KarmaOf(t, tid) == IF tid \in DOMAIN t.karma THEN t.karma[tid] ELSE NoKarma

\* q = 1 writes the counter, q = 2 the audit row of its source
ProcessKarmaEvent(t, e, tx, q) ==
  CASE e.kind = "KarmaAccountInitialized" ->
         [t EXCEPT !.karma = InsertNew(@, e.tid, NoKarma)]
    [] e.kind = "TipKarmaRecorded" /\ q = 1 ->
         [t EXCEPT !.karma = Put(@, e.tid, [KarmaOf(t, e.tid) EXCEPT !.tips = e.count])]
    [] e.kind = "TaskKarmaRecorded" /\ q = 1 ->
         [t EXCEPT !.karma = Put(@, e.tid, [KarmaOf(t, e.tid) EXCEPT !.tasks = e.count])]
    [] OTHER -> [t EXCEPT !.proofs = InsertNew(@, e.source, [tid |-> e.tid, tx |-> tx])]

KarmaEmits(t) ==
  LET fresh == Pdas \ DOMAIN t.proofs IN
       {[kind |-> "KarmaAccountInitialized", tid |-> i] : i \in Tids \ DOMAIN t.karma}
  \cup {[kind |-> "TipKarmaRecorded", tid |-> i, source |-> s, count |-> t.karma[i].tips + 1] :
          i \in DOMAIN t.karma, s \in fresh}
  \cup {[kind |-> "TaskKarmaRecorded", tid |-> i, source |-> s, count |-> t.karma[i].tasks + 1] :
          i \in DOMAIN t.karma, s \in fresh}

------------------------------------------------------------------------------
(* Polls, events *)

\* mutant: a vote needs the row of its poll, as with a foreign key
ProcessPollEventKeyed(t, e, tx, q) ==
  CASE e.kind = "PollCreated" -> [t EXCEPT !.polls = InsertNew(@, e.pda, tx)]
    [] e.kind = "PollVoted" ->
         IF e.pda \notin DOMAIN t.polls THEN t
         ELSE [t EXCEPT !.votes =
                 InsertNew(@, <<e.pda, e.voter>>, [option |-> e.option, tx |-> tx])]

ProcessPollEvent(t, e, tx, q) ==
  CASE e.kind = "PollCreated" -> [t EXCEPT !.polls = InsertNew(@, e.pda, tx)]
    [] e.kind = "PollVoted" ->
         [t EXCEPT !.votes = InsertNew(@, <<e.pda, e.voter>>, [option |-> e.option, tx |-> tx])]

PollEmits(t) ==
       {[kind |-> "PollCreated", pda |-> k] : k \in Pdas \ DOMAIN t.polls}
  \cup {[kind |-> "PollVoted", pda |-> p[1], voter |-> p[2], option |-> o] :
          p \in ((DOMAIN t.polls) \X Tids) \ DOMAIN t.votes, o \in {0, 1}}

ProcessEventEvent(t, e, tx, q) ==
  CASE e.kind = "EventCreated" -> [t EXCEPT !.events = InsertNew(@, e.pda, tx)]
    [] e.kind = "EventRsvped" ->
         [t EXCEPT !.rsvps = InsertNew(@, <<e.pda, e.who>>, [status |-> e.status, tx |-> tx])]
    [] e.kind = "EventRsvpUpdated" ->
         LET k == <<e.pda, e.who>> IN
         [t EXCEPT !.rsvps = IF k \in DOMAIN @ /\ @[k].status # e.status
                               THEN Put(@, k, [status |-> e.status, tx |-> tx]) ELSE @]

EventEmits(t) ==
       {[kind |-> "EventCreated", pda |-> k] : k \in Pdas \ DOMAIN t.events}
  \cup {[kind |-> "EventRsvped", pda |-> p[1], who |-> p[2], status |-> s] :
          p \in ((DOMAIN t.events) \X Tids) \ DOMAIN t.rsvps, s \in 1..2}
  \cup UNION {{[kind |-> "EventRsvpUpdated", pda |-> p[1], who |-> p[2], status |-> s] :
                 s \in (1..2) \ {t.rsvps[p].status}} : p \in DOMAIN t.rsvps}

------------------------------------------------------------------------------
(* All programs *)

Programs == {"tid", "username", "social", "tip", "crowdfund",
             "task", "channel", "karma", "poll", "event"}

Query(p, t, e, tx, q) ==
  CASE p = "tid" -> ProcessTidEvent(t, e, tx, q)
    [] p = "username" -> ProcessUsernameEvent(t, e, tx, q)
    [] p = "social" -> ProcessSocialEvent(t, e, tx, q)
    [] p = "tip" -> ProcessTipEvent(t, e, tx, q)
    [] p = "crowdfund" -> ProcessCrowdfundEvent(t, e, tx, q)
    [] p = "task" -> ProcessTaskEvent(t, e, tx, q)
    [] p = "channel" -> ProcessChannelEvent(t, e, tx, q)
    [] p = "karma" -> ProcessKarmaEvent(t, e, tx, q)
    [] p = "poll" -> ProcessPollEvent(t, e, tx, q)
    [] p = "event" -> ProcessEventEvent(t, e, tx, q)

\* how many queries the handler runs for e
Queries(e) ==
  IF e.kind \in {"ProfileInitialized", "SenderTipStateInitialized", "UsernameRenewed"} THEN 0
  ELSE IF e.kind \in {"UsernameTransferred", "CrowdfundPledged", "CrowdfundRefunded",
                      "TipKarmaRecorded", "TaskKarmaRecorded"} THEN 2
  ELSE 1

Emits(p, t) ==
  CASE p = "tid" -> TidEmits(t)
    [] p = "username" -> UsernameEmits(t)
    [] p = "social" -> SocialEmits(t)
    [] p = "tip" -> TipEmits(t)
    [] p = "crowdfund" -> CrowdfundEmits(t)
    [] p = "task" -> TaskEmits(t)
    [] p = "channel" -> ChannelEmits(t)
    [] p = "karma" -> KarmaEmits(t)
    [] p = "poll" -> PollEmits(t)
    [] p = "event" -> EventEmits(t)

\* the handler run alone, from its first query to its last
Handled(p, t, e, tx) ==
  CASE Queries(e) = 0 -> t
    [] Queries(e) = 1 -> Query(p, t, e, tx, 1)
    [] Queries(e) = 2 -> Query(p, Query(p, t, e, tx, 1), e, tx, 2)

\* the tables that the handlers of a program write
TablesOf == [tid |-> {"tids"}, username |-> {"tids"}, social |-> {"graph"},
             tip |-> {"tips"}, crowdfund |-> {"funds", "pledges"}, task |-> {"tasks"},
             channel |-> {"channels"}, karma |-> {"karma", "proofs"},
             poll |-> {"polls", "votes"}, event |-> {"events", "rsvps"}]

NoRows == [tids |-> Empty, graph |-> Empty, tips |-> Empty, funds |-> Empty,
           pledges |-> Empty, tasks |-> Empty, channels |-> Empty, karma |-> Empty,
           proofs |-> Empty, polls |-> Empty, votes |-> Empty, events |-> Empty,
           rsvps |-> Empty]

\* Every user has a TID when program tid is not the one being followed.
Registered == [NoRows EXCEPT !.tids =
  [i \in Tids |-> [custody |-> i, recovery |-> i, username |-> Nobody]]]
==============================================================================
