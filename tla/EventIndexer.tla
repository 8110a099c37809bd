---------------------------- MODULE EventIndexer ----------------------------
(***************************************************************************)
(* How the hub follows Solana programs: the live subscriptions of          *)
(* solana/listener.ts, the backfill of solana/backfill.ts, and the cursor  *)
(* per program that both of them move.                                     *)
(*                                                                         *)
(* Each subscribe() opens a connection, subscribes every program and       *)
(* starts a backfill per program.  A delivered log and a transaction of a  *)
(* backfill are jobs: one query at a time, then the cursor.  A delivered   *)
(* log starts its job at once, whatever other jobs are running; a backfill *)
(* has one job at a time.                                                  *)
(*                                                                         *)
(* Transactions are numbered by their position on the chain; the number    *)
(* stands for the signature.                                               *)
(***************************************************************************)
EXTENDS MirrorTables, FiniteSets

CONSTANTS
  Suites,          \* which programs may be followed together
  Reachable,       \* whether the WebSocket endpoint may be reached
  Outcomes,        \* whether a transaction may succeed, may fail
  SubscribesFirst, \* the endpoint answers subscriptions before it answers lists
  Limit,           \* SOLANA_BACKFILL_LIMIT
  BatchSize,       \* SOLANA_BACKFILL_BATCH_SIZE
  MaxTx, MaxPerTx, \* bounds of the chain: transactions, events per transaction
  MaxDials,        \* bound: calls of subscribe()
  MaxCrashes, MaxErrors

ASSUME ConstantsAssumption ==
  /\ Suites \subseteq SUBSET Programs
  /\ Reachable \subseteq BOOLEAN /\ Outcomes \subseteq BOOLEAN
  /\ SubscribesFirst \in BOOLEAN
  /\ Limit \in Nat /\ BatchSize \in Nat \ {0}
  /\ MaxTx \in Nat /\ MaxPerTx \in Nat /\ MaxDials \in Nat
  /\ MaxCrashes \in Nat /\ MaxErrors \in Nat

VARIABLES
  followed,  \* the programs this hub follows
  reachable, \* whether its WebSocket endpoint can be reached
  chain,     \* the confirmed transactions; states: the accounts before each
             \* event of one, and after the last
  accounts,  \* the programs' accounts after the last of them
  db,        \* the hub's tables
  cursor,    \* solana_indexer_state, signature and slot, 0 for NULL
  dials,     \* calls of subscribe() so far
  link,      \* the connection of each call
  next,      \* the next transaction it will deliver
  backfill,  \* the backfills, one per call and program
  jobs,      \* transactions whose handlers are running
  done,      \* history: transactions whose handlers came to their end
  crashes, errors

chainVars == <<followed, reachable, chain, accounts>>
linkVars == <<dials, link, next>>
faults == <<crashes, errors>>
vars == <<chainVars, db, cursor, linkVars, backfill, jobs, done, faults>>

Dials == 1..MaxDials
Min2(a, b) == IF a < b THEN a ELSE b

NoBackfill == [phase |-> "off", until |-> 0, before |-> 0, queue |-> <<>>]

\* who runs a job: the subscription or the backfill of call g
Live(g) == [by |-> "live", dial |-> g]
Replay(g) == [by |-> "backfill", dial |-> g]

Owner == [by : {"live", "backfill"}, dial : Dials]
Phases == {"off", "start", "listing", "replay", "complete"}

Job(owner, x) == [owner |-> owner, tx |-> x, ev |-> 1, q |-> 1]

Init ==
  /\ followed \in Suites
  /\ reachable \in Reachable
  /\ chain = <<>>
  /\ accounts = IF "tid" \in followed THEN NoRows ELSE Registered
  /\ db = accounts
  /\ cursor = [p \in Programs |-> [sig |-> 0, slot |-> 0]]
  /\ dials = 0
  /\ link = [g \in Dials |-> "off"]
  /\ next = [g \in Dials |-> 0]
  /\ backfill = [g \in Dials |-> [p \in Programs |-> NoBackfill]]
  /\ jobs = {}
  /\ done = {}
  /\ crashes = 0 /\ errors = 0

------------------------------------------------------------------------------
(* The chain (external) *)

LastSlot == IF chain = <<>> THEN 0 ELSE chain[Len(chain)].slot

\* A transaction that would be lost between the list of a backfill and the
\* start of the subscription is not confirmed when SubscribesFirst holds.
Confirm(p) ==
  /\ Len(chain) < MaxTx
  /\ p \in followed
  /\ \E ok \in Outcomes, slot \in {LastSlot, LastSlot + 1} \ {0}, two \in BOOLEAN :
       /\ two => ok /\ MaxPerTx > 1
       /\ LET x == Len(chain) + 1
              Log(events, states) ==
                /\ chain' = Append(chain, [prog |-> p, slot |-> slot, ok |-> ok,
                                           events |-> events, states |-> states])
                /\ accounts' = states[Len(states)]
          IN  IF ~ok THEN Log(<<>>, <<accounts>>)
              ELSE \E e \in Emits(p, accounts) :
                LET mid == Handled(p, accounts, e, x) IN
                IF two THEN \E f \in Emits(p, mid) :
                              Log(<<e, f>>, <<accounts, mid, Handled(p, mid, f, x)>>)
                ELSE Log(<<e>>, <<accounts, mid>>)
  /\ UNCHANGED <<followed, reachable, db, cursor, linkVars, backfill, jobs, done, faults>>

------------------------------------------------------------------------------
(* listener.ts *)

\* mutant: a closed connection is not replaced
NeverDialled == dials = 0

\* the process has just started, or its connection closed (scheduleReconnect)
NotConnected == dials > 0 => link[dials] = "closed"

\* subscribe(): at the start of the process, and after a connection closed
Subscribe ==
  /\ dials < MaxDials
  /\ NotConnected
  /\ dials' = dials + 1
  /\ link' = [link EXCEPT ![dials'] = "opening"]
  /\ backfill' = [backfill EXCEPT ![dials'] =
       [p \in Programs |-> IF p \in followed /\ Limit > 0
                             THEN [NoBackfill EXCEPT !.phase = "start"] ELSE NoBackfill]]
  /\ UNCHANGED <<chainVars, db, cursor, next, jobs, done, faults>>

\* The endpoint answers the subscriptions (external).  The queries that read
\* the cursors were issued when subscribe() ran, long before.
Activate(g) ==
  /\ reachable
  /\ link[g] = "opening"
  /\ \A p \in followed : backfill[g][p].phase # "start"
  /\ link' = [link EXCEPT ![g] = "live"]
  /\ next' = [next EXCEPT ![g] = Len(chain) + 1]
  /\ UNCHANGED <<chainVars, db, cursor, dials, backfill, jobs, done, faults>>

\* the onLogs callback; a socket delivers in order
Deliver(g) ==
  /\ link[g] = "live"
  /\ next[g] <= Len(chain)
  /\ next' = [next EXCEPT ![g] = @ + 1]
  /\ jobs' = IF chain[next[g]].ok THEN jobs \cup {Job(Live(g), next[g])} ELSE jobs
  /\ UNCHANGED <<chainVars, db, cursor, dials, link, backfill, done, faults>>

\* The WebSocket closes; what it had not delivered is lost.  The socket that
\* subscribe() watches is taken to be there (connection._rpcWebSocket._ws).
Close(g) ==
  /\ link[g] = "live"
  /\ g < MaxDials
  /\ link' = [link EXCEPT ![g] = "closed"]
  /\ UNCHANGED <<chainVars, db, cursor, dials, next, backfill, jobs, done, faults>>

\* the process stops and will be started again
Crash ==
  /\ crashes < MaxCrashes
  /\ dials \in 1..(MaxDials - 1)
  /\ link' = [link EXCEPT ![dials] = "closed"]
  /\ backfill' = [g \in Dials |-> [p \in Programs |-> NoBackfill]]
  /\ jobs' = {}
  /\ crashes' = crashes + 1
  /\ UNCHANGED <<chainVars, db, cursor, dials, next, done, errors>>

------------------------------------------------------------------------------
(* Jobs: the loop over the logs of one transaction, for both callers *)

EventOf(j) == chain[j.tx].events[j.ev]
AtCursor(j) == j.ev > Len(chain[j.tx].events)

NextEvent(j) == [j EXCEPT !.ev = @ + 1, !.q = 1]

Becomes(j, k) == jobs' = (jobs \ {j}) \cup {k}

\* one query of a handler
RunQuery(j) ==
  /\ ~AtCursor(j)
  /\ IF j.q > Queries(EventOf(j))
       THEN /\ Becomes(j, NextEvent(j))
            /\ UNCHANGED db
       ELSE /\ db' = Query(chain[j.tx].prog, db, EventOf(j), j.tx, j.q)
            /\ Becomes(j, IF j.q = Queries(EventOf(j)) THEN NextEvent(j) ELSE [j EXCEPT !.q = @ + 1])
  /\ UNCHANGED <<chainVars, cursor, linkVars, backfill, done, faults>>

\* a query throws: the handler ends, the error is logged, the next event follows
QueryFails(j) ==
  /\ ~AtCursor(j)
  /\ errors < MaxErrors
  /\ j.q <= Queries(EventOf(j))
  /\ Becomes(j, NextEvent(j))
  /\ errors' = errors + 1
  /\ UNCHANGED <<chainVars, db, cursor, linkVars, backfill, done, crashes>>

\* mutant: the WHERE clause guards the slot, not the signature
AdvancedSigOnly(c, x) ==
  IF c.slot = 0 \/ c.slot < chain[x].slot THEN [sig |-> x, slot |-> chain[x].slot]
  ELSE [c EXCEPT !.sig = x]

\* advanceIndexerCursor: forward only
Advanced(c, x) ==
  IF c.slot = 0 \/ c.slot < chain[x].slot THEN [sig |-> x, slot |-> chain[x].slot] ELSE c

\* a backfill moves on to its next transaction
Drop1(g, p) == [backfill EXCEPT ![g][p].queue = Tail(@)]

AdvanceCursor(j) ==
  LET p == chain[j.tx].prog IN
  /\ AtCursor(j)
  /\ cursor' = [cursor EXCEPT ![p] = Advanced(@, j.tx)]
  /\ jobs' = jobs \ {j}
  /\ done' = done \cup {j.tx}
  /\ backfill' = IF j.owner.by = "backfill" THEN Drop1(j.owner.dial, p) ELSE backfill
  /\ UNCHANGED <<chainVars, db, linkVars, faults>>

\* the update throws: caught and logged for a live log, the end of a backfill
AdvanceFails(j) ==
  LET p == chain[j.tx].prog IN
  /\ AtCursor(j)
  /\ errors < MaxErrors
  /\ jobs' = jobs \ {j}
  /\ errors' = errors + 1
  /\ backfill' = IF j.owner.by = "backfill"
                   THEN [backfill EXCEPT ![j.owner.dial][p] = NoBackfill] ELSE backfill
  /\ UNCHANGED <<chainVars, db, cursor, linkVars, done, crashes>>

------------------------------------------------------------------------------
(* backfill.ts *)

\* getIndexerCursor
ReadCursor(g, p) ==
  /\ backfill[g][p].phase = "start"
  /\ backfill' = [backfill EXCEPT ![g][p].phase = "listing", ![g][p].until = cursor[p].sig]
  /\ UNCHANGED <<chainVars, db, cursor, linkVars, jobs, done, faults>>

\* the transactions of p that the endpoint has left to list, b.before being 0
\* for the first page
Listable(p, b) ==
  {x \in DOMAIN chain : /\ chain[x].prog = p
                        /\ x > b.until
                        /\ b.before = 0 \/ x < b.before}

\* the newest of them, at most n
IsPage(page, p, b, n) ==
  /\ Cardinality(page) = Min2(n, Cardinality(Listable(p, b)))
  /\ \A x \in page, y \in Listable(p, b) : y > x => y \in page

\* s lists the set S, oldest first
IsSorted(s, S) ==
  /\ \A i, k \in DOMAIN s : i < k => s[i] < s[k]
  /\ \A x \in S : \E i \in DOMAIN s : s[i] = x

\* mutant: failed transactions are collected too
UsableAll(page) == page

\* if (sig.err) continue
Usable(page) == {x \in page : chain[x].ok}

\* mutant: the list is not reversed
CollectedUnreversed(s, queue) == queue \o s

\* Pages come newest first, so what a page adds goes before what is collected
\* already (collected.reverse).
Collected(s, queue) == s \o queue

\* mutant: only one page is read
IsLastAlways(page, n, queue) == TRUE

\* page.length < remaining, or the limit is reached
IsLast(page, n, queue) == Cardinality(page) < n \/ Len(queue) >= Limit

\* one getSignaturesForAddress
ListPage(g, p) ==
  LET b == backfill[g][p]
      remaining == Min2(BatchSize, Limit - Len(b.queue))
  IN
  /\ b.phase = "listing"
  /\ SubscribesFirst /\ reachable => link[g] # "opening"
  /\ \E page \in SUBSET Listable(p, b) :
       /\ IsPage(page, p, b, remaining)
       /\ \E s \in [1..Cardinality(Usable(page)) -> Usable(page)],
             oldest \in IF page = {} THEN {b.before} ELSE page :
            /\ IsSorted(s, Usable(page))
            /\ \A x \in page : oldest <= x
            /\ backfill' = [backfill EXCEPT ![g][p] =
                 [b EXCEPT !.queue = Collected(s, b.queue),
                           !.before = oldest,
                           !.phase = IF IsLast(page, remaining, Collected(s, b.queue))
                                       THEN "replay" ELSE "listing"]]
  /\ UNCHANGED <<chainVars, db, cursor, linkVars, jobs, done, faults>>

\* the cursor or a page cannot be had: this backfill is over
ListFails(g, p) ==
  /\ backfill[g][p].phase \in {"start", "listing"}
  /\ errors < MaxErrors
  /\ backfill' = [backfill EXCEPT ![g][p] = NoBackfill]
  /\ errors' = errors + 1
  /\ UNCHANGED <<chainVars, db, cursor, linkVars, jobs, done, crashes>>

Busy(g, p) == \E j \in jobs : j.owner = Replay(g) /\ chain[j.tx].prog = p

Replaying(g, p) ==
  /\ backfill[g][p].phase = "replay"
  /\ backfill[g][p].queue # <<>>
  /\ ~Busy(g, p)

\* getTransaction
FetchTx(g, p) ==
  /\ Replaying(g, p)
  /\ jobs' = jobs \cup {Job(Replay(g), Head(backfill[g][p].queue))}
  /\ UNCHANGED <<chainVars, db, cursor, linkVars, backfill, done, faults>>

\* it fails: the transaction is skipped, the next one may move the cursor
FetchFails(g, p) ==
  /\ Replaying(g, p)
  /\ errors < MaxErrors
  /\ backfill' = Drop1(g, p)
  /\ errors' = errors + 1
  /\ UNCHANGED <<chainVars, db, cursor, linkVars, jobs, done, crashes>>

\* markBackfillComplete
FinishBackfill(g, p) ==
  /\ backfill[g][p].phase = "replay"
  /\ backfill[g][p].queue = <<>>
  /\ backfill' = [backfill EXCEPT ![g][p].phase = "complete"]
  /\ UNCHANGED <<chainVars, db, cursor, linkVars, jobs, done, faults>>

------------------------------------------------------------------------------

RunJob(j) == RunQuery(j) \/ AdvanceCursor(j)
JobFails(j) == QueryFails(j) \/ AdvanceFails(j)
BackfillStep(g, p) ==
  ReadCursor(g, p) \/ ListPage(g, p) \/ FetchTx(g, p) \/ FinishBackfill(g, p)
BackfillFails(g, p) == ListFails(g, p) \/ FetchFails(g, p)

Next ==
  \/ \E p \in Programs : Confirm(p)
  \/ Subscribe
  \/ \E g \in Dials : Activate(g) \/ Deliver(g) \/ Close(g)
  \/ Crash
  \/ \E j \in jobs : RunJob(j) \/ JobFails(j)
  \/ \E g \in Dials, p \in Programs : BackfillStep(g, p) \/ BackfillFails(g, p)

Spec == Init /\ [][Next]_vars

\* The process is restarted and redials, the endpoint answers, the event loop
\* runs what is pending.  Closes, crashes and failures are never owed.
FairSpec ==
  /\ Spec
  /\ WF_vars(Subscribe)
  /\ \A g \in Dials : WF_vars(Activate(g)) /\ WF_vars(Deliver(g))
  /\ WF_vars(\E j \in jobs : RunJob(j))
  /\ WF_vars(\E g \in Dials, p \in Programs : BackfillStep(g, p))

------------------------------------------------------------------------------
(* Properties *)

Good(p) == {x \in DOMAIN chain : chain[x].ok /\ chain[x].prog = p}

Increasing(q) == \A i, k \in DOMAIN q : i < k => q[i] < q[k]

\* Cursors, jobs and lists name confirmed, successful transactions of their own
\* program, a cursor with its slot; lists are in the order of the chain and
\* within SOLANA_BACKFILL_LIMIT.
TypeOK ==
  /\ followed \subseteq Programs /\ reachable \in BOOLEAN
  /\ \A x \in DOMAIN chain : /\ chain[x].prog \in followed
                             /\ chain[x].slot \in Nat \ {0} /\ chain[x].ok \in BOOLEAN
  /\ cursor \in [Programs -> [sig : Nat, slot : Nat]]
  /\ \A p \in Programs : LET c == cursor[p] IN
       \/ c = [sig |-> 0, slot |-> 0]
       \/ c.sig \in Good(p) /\ c.slot = chain[c.sig].slot
  /\ dials \in 0..MaxDials
  /\ link \in [Dials -> {"off", "opening", "live", "closed"}]
  /\ next \in [Dials -> Nat]
  /\ backfill \in [Dials -> [Programs -> [phase : Phases, until : Nat,
                                          before : Nat, queue : Seq(Nat)]]]
  /\ \A g \in Dials, p \in Programs : LET b == backfill[g][p] IN
       /\ b.until \in Good(p) \cup {0}
       /\ \A i \in DOMAIN b.queue : b.queue[i] \in Good(p)
       /\ Increasing(b.queue)
       /\ Len(b.queue) <= Limit
  /\ \A j \in jobs : /\ j \in [owner : Owner, tx : Nat, ev : Nat \ {0}, q : Nat \ {0}]
                     /\ j.tx \in DOMAIN chain /\ chain[j.tx].ok
                     /\ j.owner.dial <= dials
  /\ done \subseteq DOMAIN chain
  /\ crashes \in 0..MaxCrashes /\ errors \in 0..MaxErrors

\* What the backfill of call g still has to replay for p
Pending(g, p) ==
  LET b == backfill[g][p] IN
  {b.queue[i] : i \in DOMAIN b.queue}
    \cup (IF b.phase = "listing" THEN Listable(p, b) ELSE {})

InHand(x) == \E j \in jobs : j.tx = x

\* A cursor leaves nothing behind: what is not newer than it has been handled,
\* is being handled, or waits in a backfill (the contract of
\* solana_indexer_state, "the startup backfill reads them to know where to
\* resume from").
Covered(p) ==
  \A x \in Good(p) : x <= cursor[p].sig =>
    x \in done \/ InHand(x) \/ \E g \in Dials : x \in Pending(g, p)

\* Live logs, overlapping backfills, reconnects and paging, in any order, never
\* make a cursor pass a transaction, as long as no step fails, the process does
\* not stop, the backfill is not cut at its limit and the subscription is live
\* before the list is made.
CursorCovers ==
  SubscribesFirst /\ Limit >= MaxTx /\ crashes = 0 /\ errors = 0
    => \A p \in followed : Covered(p)

\* The same without the premise: what a restart relies on.
NothingSkipped == \A p \in followed : Covered(p)

\* No step moves a cursor to an earlier slot, or within a slot, although live
\* logs and backfills finish in any order (advanceIndexerCursor).
CursorForward ==
  [][\A p \in Programs : cursor'[p] # cursor[p] => cursor'[p].slot > cursor[p].slot]_cursor

\* The tables whose rows are inserted once and never changed
OnceTables(t) == [tips |-> t.tips, proofs |-> t.proofs, polls |-> t.polls,
                  votes |-> t.votes, events |-> t.events, tids |-> DOMAIN t.tids,
                  funds |-> DOMAIN t.funds, tasks |-> DOMAIN t.tasks,
                  channels |-> DOMAIN t.channels, rsvps |-> DOMAIN t.rsvps]

\* Once every transaction has been handled, in any order and however often,
\* these tables are the chain's, each row with the transaction that made it.
OnceTablesExact ==
  (errors = 0 /\ \A p \in followed : Good(p) \subseteq done)
    => OnceTables(db) = OnceTables(accounts)

\* Before and after each event of p's transactions
Moments(p) == UNION {{x} \X DOMAIN chain[x].states : x \in Good(p)}
At(m) == chain[m[1]].states[m[2]]
Earlier(m, n) == m[1] < n[1] \/ (m[1] = n[1] /\ m[2] < n[2])

\* Each write to a task moves its row to a later state that the task really had
\* on the chain: redelivered logs and late replays never take a row back, and
\* one transaction may well do two things with a task.
TasksFollowChain ==
  [][\A k \in DOMAIN db.tasks :
       \/ k \in DOMAIN db'.tasks /\ db'.tasks[k] = db.tasks[k]
       \/ \E m, n \in {i \in Moments("task") : k \in DOMAIN At(i).tasks} :
            /\ Earlier(m, n)
            /\ At(m).tasks[k] = db.tasks[k]
            /\ k \in DOMAIN db'.tasks /\ At(n).tasks[k] = db'.tasks[k]]_db

\* Only the hub's backfills have written: no subscription was ever answered
\* (and with no connection to close, one backfill at a time).
BackfillOnly == ~reachable

Replayed(p) ==
  /\ dials > 0
  /\ backfill[dials][p].phase = "complete"
  /\ Good(p) \cap done # {}

\* No other program that this hub follows writes the tables of p.
OwnTables(p) == \A r \in followed \ {p} : TablesOf[r] \cap TablesOf[p] = {}

After(x) == chain[x].states[Len(chain[x].states)]

\* A backfill that ran to its end, and was not cut at its limit, leaves the
\* tables of its program exactly as they were on the chain after the last
\* transaction it saw, even if earlier backfills were cut off by a crash at any
\* query and their transactions are replayed ("handlers see events in the same
\* order they were confirmed on chain").
ReplayExact ==
  BackfillOnly /\ errors = 0 /\ Limit >= MaxTx =>
    \A p \in followed \ {"crowdfund"} : OwnTables(p) /\ Replayed(p) =>
      LET seen == Good(p) \cap done
          last == CHOOSE x \in seen : \A y \in seen : y <= x
      IN  \A n \in TablesOf[p] : db[n] = After(last)[n]

\* What backer b has pledged to crowdfund k on the chain, all told
PledgedOnChain(k, b) ==
  LET mine(x) == {i \in DOMAIN chain[x].events :
                    LET e == chain[x].events[i] IN
                    e.kind = "CrowdfundPledged" /\ e.pda = k /\ e.backer = b}
      pairs == UNION {{x} \X mine(x) : x \in DOMAIN chain}
      sum[S \in SUBSET pairs] ==
        IF S = {} THEN 0
        ELSE LET d == CHOOSE d \in S : TRUE
             IN  chain[d[1]].events[d[2]].amount + sum[S \ {d}]
  IN  sum[pairs]

\* The hub never credits a backer with more than the backer ever pledged
\* ("overlap with the live subscription causes ON CONFLICT rejections rather
\* than double-counting", backfill.ts).
NoDoubleCount ==
  \A p \in DOMAIN db.pledges : db.pledges[p].amount <= PledgedOnChain(p[1], p[2])

\* A confirmed transaction is handled in the end, through closed connections
\* and paged backfills, unless something fails or the process stops.
Indexed ==
  \A x \in 1..MaxTx :
    (reachable /\ x \in DOMAIN chain /\ chain[x].ok)
      ~> (x \in done \/ errors > 0 \/ crashes > 0)
==============================================================================
