-------------------------- MODULE IndexerTableProofs --------------------------
(***************************************************************************)
(* Proofs about the tables of EventIndexer, for every chain the programs   *)
(* may write and every value of the bounds.                                *)
(*                                                                         *)
(* A query of a handler changes at most one row (QueryRow): a row is the   *)
(* set of what a key has in a table, which is empty or has one member, and *)
(* RowAfter is what the query makes of it.                                 *)
(*                                                                         *)
(* Three results follow: the tables whose rows are inserted once are those *)
(* of the chain (Once), a task only moves on as it did on the chain        *)
(* (TaskInv), and a hub that only replays has its tables as they were      *)
(* after the last transaction it saw.  The last one takes what a query     *)
(* does to a row that is older or newer than its event (QuerySteady), the  *)
(* order of the replay (Ordered), and the moment each column is at, which  *)
(* is never behind the replay (Content).                                   *)
(***************************************************************************)
EXTENDS IndexerProofs

TableNames == {"tids", "graph", "tips", "funds", "pledges", "tasks", "channels", "karma",
               "proofs", "polls", "votes", "events", "rsvps"}

IsTidRow(r) == r = [custody |-> r.custody, recovery |-> r.recovery, username |-> r.username]
IsKarmaRow(r) == r = [tips |-> r.tips, tasks |-> r.tasks]
IsTaskRow(r) ==
  /\ r = [status |-> r.status, claimer |-> r.claimer] /\ r.status \in 0..3
  /\ r.status \in {0, 3} => r.claimer = Nobody

Tabled(t) ==
  /\ t = [n \in TableNames |-> t[n]]
  /\ \A n \in TableNames : t[n] = [k \in DOMAIN t[n] |-> t[n][k]]
  /\ \A k \in DOMAIN t.tids : IsTidRow(t.tids[k])
  /\ \A k \in DOMAIN t.karma : IsKarmaRow(t.karma[k])
  /\ \A k \in DOMAIN t.tasks : IsTaskRow(t.tasks[k])

RowIn(f, k) == IF k \in DOMAIN f THEN {f[k]} ELSE {}
RowOf(t, c) == RowIn(t[c[1]], c[2])

------------------------------------------------------------------------------
(* What one query does to its row *)

KindsOf ==
  [tid |-> {"TidRegistered", "TidTransferred", "TidRecovered", "RecoveryChanged"},
   username |-> {"UsernameRegistered", "UsernameRenewed", "UsernameReleased", "UsernameTransferred"},
   social |-> {"ProfileInitialized", "Followed", "Unfollowed"},
   tip |-> {"TipSent", "SenderTipStateInitialized"},
   crowdfund |-> {"CrowdfundCreated", "CrowdfundPledged", "CrowdfundClaimed", "CrowdfundRefunded"},
   task |-> {"TaskCreated", "TaskClaimed", "TaskCompleted", "TaskCancelled"},
   channel |-> {"ChannelRegistered", "ChannelUpdated", "ChannelTransferred"},
   karma |-> {"KarmaAccountInitialized", "TipKarmaRecorded", "TaskKarmaRecorded"},
   poll |-> {"PollCreated", "PollVoted"},
   event |-> {"EventCreated", "EventRsvped", "EventRsvpUpdated"}]

\* The table and the key of a query
Target(e, q) ==
  CASE e.kind \in KindsOf.tid \cup {"UsernameRegistered", "UsernameReleased"} -> <<"tids", e.tid>>
    [] e.kind = "UsernameTransferred" -> <<"tids", IF q = 1 THEN e.from ELSE e.tid>>
    [] e.kind \in KindsOf.social -> <<"graph", <<e.who, e.whom>>>>
    [] e.kind = "TipSent" -> <<"tips", e.pda>>
    [] e.kind \in {"CrowdfundPledged", "CrowdfundRefunded"} /\ q = 1 ->
         <<"pledges", <<e.pda, e.backer>>>>
    [] e.kind \in {"CrowdfundCreated", "CrowdfundClaimed"} -> <<"funds", e.pda>>
    [] e.kind \in {"CrowdfundPledged", "CrowdfundRefunded"} /\ q = 2 -> <<"funds", e.pda>>
    [] e.kind \in KindsOf.task -> <<"tasks", e.pda>>
    [] e.kind \in KindsOf.channel -> <<"channels", e.pda>>
    [] e.kind \in {"TipKarmaRecorded", "TaskKarmaRecorded"} /\ q = 2 -> <<"proofs", e.source>>
    [] e.kind = "KarmaAccountInitialized" -> <<"karma", e.tid>>
    [] e.kind \in {"TipKarmaRecorded", "TaskKarmaRecorded"} /\ q = 1 -> <<"karma", e.tid>>
    [] e.kind = "PollCreated" -> <<"polls", e.pda>>
    [] e.kind = "PollVoted" -> <<"votes", <<e.pda, e.voter>>>>
    [] e.kind = "EventCreated" -> <<"events", e.pda>>
    [] e.kind \in {"EventRsvped", "EventRsvpUpdated"} -> <<"rsvps", <<e.pda, e.who>>>>

Inserted(old, row) == IF old = {} THEN {row} ELSE old

Flipped(old, from, status, claimer) ==
  {IF r.status = from THEN [status |-> status, claimer |-> claimer] ELSE r : r \in old}

\* UPDATE ... SET the row to new
Updated(old, new) == {new : r \in old}

\* The row after a query, by the row before it
RowAfter(e, tx, q, old) ==
  CASE e.kind = "TidRegistered" ->
         IF old = {} THEN {[custody |-> e.custody, recovery |-> e.recovery, username |-> Nobody]}
         ELSE {[custody |-> e.custody, recovery |-> e.recovery, username |-> r.username] : r \in old}
    [] e.kind \in {"TidTransferred", "TidRecovered"} -> {[r EXCEPT !.custody = e.custody] : r \in old}
    [] e.kind = "RecoveryChanged" -> {[r EXCEPT !.recovery = e.recovery] : r \in old}
    [] e.kind = "UsernameRegistered" -> {[r EXCEPT !.username = e.name] : r \in old}
    [] e.kind = "UsernameTransferred" ->
         {[r EXCEPT !.username = IF q = 1 THEN Nobody ELSE e.name] : r \in old}
    [] e.kind = "UsernameReleased" ->
         {[r EXCEPT !.username = IF @ = e.name THEN Nobody ELSE @] : r \in old}
    [] e.kind = "Followed" -> {"live"}
    [] e.kind = "Unfollowed" -> {"deleted" : r \in old}
    [] e.kind = "TipSent" -> Inserted(old, [amount |-> e.amount, tx |-> tx])
    [] e.kind = "CrowdfundCreated" -> Inserted(old, [total |-> 0, count |-> 0, status |-> 0])
    [] e.kind = "CrowdfundPledged" /\ q = 1 ->
         IF old = {} THEN {[amount |-> e.amount, tx |-> tx]}
         ELSE {IF r.tx # tx THEN [amount |-> r.amount + e.amount, tx |-> tx] ELSE r : r \in old}
    [] e.kind = "CrowdfundPledged" /\ q = 2 ->
         {[[r EXCEPT !.total = e.total] EXCEPT !.count = e.count] : r \in old}
    [] e.kind = "CrowdfundClaimed" ->
         {IF r.status # 1 THEN [[r EXCEPT !.status = 1] EXCEPT !.total = 0] ELSE r : r \in old}
    [] e.kind = "CrowdfundRefunded" /\ q = 1 -> {}
    [] e.kind = "CrowdfundRefunded" /\ q = 2 ->
         {[total |-> AtLeastZero(r.total - e.amount), count |-> AtLeastZero(r.count - 1),
           status |-> IF r.status = 0 THEN 2 ELSE r.status] : r \in old}
    [] e.kind = "TaskCreated" -> Inserted(old, [status |-> 0, claimer |-> Nobody])
    [] e.kind = "TaskClaimed" -> Flipped(old, 0, 1, e.claimer)
    [] e.kind = "TaskCompleted" ->
         {IF r.status = 1 THEN [status |-> 2, claimer |-> r.claimer] ELSE r : r \in old}
    [] e.kind = "TaskCancelled" -> Flipped(old, 0, 3, Nobody)
    [] e.kind = "ChannelRegistered" -> Inserted(old, e.owner)
    [] e.kind = "ChannelUpdated" -> old
    [] e.kind = "ChannelTransferred" -> {e.owner : r \in old}
    [] e.kind = "KarmaAccountInitialized" -> Inserted(old, NoKarma)
    [] e.kind = "TipKarmaRecorded" /\ q = 1 ->
         {[r EXCEPT !.tips = e.count] : r \in Inserted(old, NoKarma)}
    [] e.kind = "TaskKarmaRecorded" /\ q = 1 ->
         {[r EXCEPT !.tasks = e.count] : r \in Inserted(old, NoKarma)}
    [] e.kind \in {"TipKarmaRecorded", "TaskKarmaRecorded"} /\ q = 2 ->
         Inserted(old, [tid |-> e.tid, tx |-> tx])
    [] e.kind = "PollCreated" -> Inserted(old, tx)
    [] e.kind = "PollVoted" -> Inserted(old, [option |-> e.option, tx |-> tx])
    [] e.kind = "EventCreated" -> Inserted(old, tx)
    [] e.kind = "EventRsvped" -> Inserted(old, [status |-> e.status, tx |-> tx])
    [] e.kind = "EventRsvpUpdated" ->
         {IF r.status # e.status THEN [status |-> e.status, tx |-> tx] ELSE r : r \in old}

\* u is t with the row of key k in table n replaced.
OneRow(t, u, n, k, rows) ==
  /\ u = [m \in TableNames |-> u[m]]
  /\ \A m \in TableNames \ {n} : u[m] = t[m]
  /\ u[n] = [x \in DOMAIN u[n] |-> u[n][x]]
  /\ RowIn(u[n], k) = rows
  /\ \A x : x # k => RowIn(u[n], x) = RowIn(t[n], x)

LEMMA ReplaceTable ==
  ASSUME NEW t, Tabled(t), NEW n \in TableNames, NEW f,
         f = [x \in DOMAIN f |-> f[x]], NEW k,
         \A x : x # k => RowIn(f, x) = RowIn(t[n], x)
  PROVE  OneRow(t, [t EXCEPT ![n] = f], n, k, RowIn(f, k))
BY DEF OneRow, Tabled

LEMMA PutRow ==
  ASSUME NEW f, NEW k, NEW row
  PROVE  /\ Put(f, k, row) = [x \in DOMAIN Put(f, k, row) |-> Put(f, k, row)[x]]
         /\ RowIn(Put(f, k, row), k) = {row}
         /\ \A x : x # k => RowIn(Put(f, k, row), x) = RowIn(f, x)
BY DEF Put, RowIn

LEMMA SameRow ==
  ASSUME NEW t, Tabled(t), NEW n \in TableNames, NEW k
  PROVE  OneRow(t, t, n, k, RowIn(t[n], k))
BY DEF OneRow, Tabled

\* The three ways a handler writes a table
LEMMA InsertRow ==
  ASSUME NEW t, Tabled(t), NEW n \in TableNames, NEW k, NEW row
  PROVE  OneRow(t, [t EXCEPT ![n] = InsertNew(t[n], k, row)], n, k, Inserted(RowIn(t[n], k), row))
<1> DEFINE f == InsertNew(t[n], k, row)
<1>1. /\ f = [x \in DOMAIN f |-> f[x]] /\ RowIn(f, k) = Inserted(RowIn(t[n], k), row)
      /\ \A x : x # k => RowIn(f, x) = RowIn(t[n], x)
  <2>1. CASE k \in DOMAIN t[n]
    BY <2>1 DEF InsertNew, Inserted, RowIn, Tabled
  <2>2. CASE k \notin DOMAIN t[n]
    <3>1. f = Put(t[n], k, row) /\ RowIn(t[n], k) = {}
      BY <2>2 DEF InsertNew, RowIn
    <3> HIDE DEF f
    <3>2. QED
      BY <3>1, PutRow DEF Inserted
  <2>3. QED
    BY <2>1, <2>2
<1>2. OneRow(t, [t EXCEPT ![n] = f], n, k, RowIn(f, k))
  <2> HIDE DEF f
  <2>1. QED
    BY <1>1, ReplaceTable
<1>3. QED
  BY <1>1, <1>2

LEMMA PutOneRow ==
  ASSUME NEW t, Tabled(t), NEW n \in TableNames, NEW k, NEW row
  PROVE  OneRow(t, [t EXCEPT ![n] = Put(t[n], k, row)], n, k, {row})
<1> DEFINE f == Put(t[n], k, row)
<1>1. /\ f = [x \in DOMAIN f |-> f[x]] /\ RowIn(f, k) = {row}
      /\ \A x : x # k => RowIn(f, x) = RowIn(t[n], x)
  BY PutRow
<1>2. OneRow(t, [t EXCEPT ![n] = f], n, k, RowIn(f, k))
  <2> HIDE DEF f
  <2>1. QED
    BY <1>1, ReplaceTable
<1>3. QED
  BY <1>1, <1>2

\* An UPDATE of the row of a key, where(r) being its WHERE clause on the rest
LEMMA UpdateRow ==
  ASSUME NEW t, Tabled(t), NEW n \in TableNames, NEW k, NEW row
  PROVE  OneRow(t, [t EXCEPT ![n] = Set(t[n], k, row)], n, k, Updated(RowIn(t[n], k), row))
<1> DEFINE f == Set(t[n], k, row)
<1>1. /\ f = [x \in DOMAIN f |-> f[x]] /\ RowIn(f, k) = Updated(RowIn(t[n], k), row)
      /\ \A x : x # k => RowIn(f, x) = RowIn(t[n], x)
  <2>1. CASE k \in DOMAIN t[n]
    <3>1. f = Put(t[n], k, row) /\ RowIn(t[n], k) = {t[n][k]}
      BY <2>1 DEF RowIn, Set
    <3>2. QED
      BY <3>1, PutRow DEF Updated
  <2>2. CASE k \notin DOMAIN t[n]
    BY <2>2 DEF RowIn, Tabled, Set, Updated
  <2>3. QED
    BY <2>1, <2>2
<1>2. OneRow(t, [t EXCEPT ![n] = f], n, k, RowIn(f, k))
  <2> HIDE DEF f
  <2>1. QED
    BY <1>1, ReplaceTable
<1>3. QED
  BY <1>1, <1>2

\* [f EXCEPT ![k] = row] is the same UPDATE.
LEMMA ExceptIsPut ==
  ASSUME NEW f, NEW k \in DOMAIN f, NEW row
  PROVE  [f EXCEPT ![k] = row] = Put(f, k, row)
BY DEF Put

\* One query of one event, as a change of one row
QueryIsRow(p, t, e, tx, q) ==
  LET c == Target(e, q) IN
  OneRow(t, Query(p, t, e, tx, q), c[1], c[2], RowAfter(e, tx, q, RowOf(t, c)))

LEMMA ByInsert ==
  ASSUME NEW p, NEW t, NEW e, NEW tx, NEW q, Tabled(t), NEW n \in TableNames, NEW k, NEW row,
         Target(e, q) = <<n, k>>,
         Query(p, t, e, tx, q) = [t EXCEPT ![n] = InsertNew(t[n], k, row)],
         RowAfter(e, tx, q, RowIn(t[n], k)) = Inserted(RowIn(t[n], k), row)
  PROVE  QueryIsRow(p, t, e, tx, q)
<1>1. OneRow(t, Query(p, t, e, tx, q), n, k, Inserted(RowIn(t[n], k), row))
  BY InsertRow
<1>2. QED
  BY <1>1 DEF QueryIsRow, RowOf

LEMMA ByPut ==
  ASSUME NEW p, NEW t, NEW e, NEW tx, NEW q, Tabled(t), NEW n \in TableNames, NEW k, NEW row,
         Target(e, q) = <<n, k>>,
         Query(p, t, e, tx, q) = [t EXCEPT ![n] = Put(t[n], k, row)],
         RowAfter(e, tx, q, RowIn(t[n], k)) = {row}
  PROVE  QueryIsRow(p, t, e, tx, q)
<1>1. OneRow(t, [t EXCEPT ![n] = Put(t[n], k, row)], n, k, {row})
  BY PutOneRow, Zenon
<1>2. QED
  BY <1>1 DEF QueryIsRow, RowOf

LEMMA ByUpdate ==
  ASSUME NEW p, NEW t, NEW e, NEW tx, NEW q, Tabled(t), NEW n \in TableNames, NEW k, NEW row,
         Target(e, q) = <<n, k>>,
         Query(p, t, e, tx, q) = [t EXCEPT ![n] = Set(t[n], k, row)],
         RowAfter(e, tx, q, RowIn(t[n], k)) = Updated(RowIn(t[n], k), row)
  PROVE  QueryIsRow(p, t, e, tx, q)
<1>1. OneRow(t, [t EXCEPT ![n] = Set(t[n], k, row)], n, k, Updated(RowIn(t[n], k), row))
  BY UpdateRow, Zenon
<1>2. QED
  BY <1>1 DEF QueryIsRow, RowOf

LEMMA BySame ==
  ASSUME NEW p, NEW t, NEW e, NEW tx, NEW q, Tabled(t), NEW n \in TableNames, NEW k,
         Target(e, q) = <<n, k>>, Query(p, t, e, tx, q) = t,
         RowAfter(e, tx, q, RowIn(t[n], k)) = RowIn(t[n], k)
  PROVE  QueryIsRow(p, t, e, tx, q)
  BY SameRow DEF QueryIsRow, RowOf

LEMMA TidRow ==
  ASSUME NEW t, Tabled(t), NEW e, e.kind \in KindsOf.tid, NEW tx
  PROVE  QueryIsRow("tid", t, e, tx, 1)
<1> DEFINE f == t.tids
           k == e.tid
           rows == RowIn(f, k)
<1>1. /\ Query("tid", t, e, tx, 1) = ProcessTidEvent(t, e, tx, 1) /\ Target(e, 1) = <<"tids", k>>
      /\ "tids" \in TableNames
  BY DEF Query, Target, TableNames, KindsOf
<1>2. CASE e.kind = "TidRegistered"
  <2> DEFINE row == [custody |-> e.custody, recovery |-> e.recovery,
                     username |-> IF k \in DOMAIN f THEN f[k].username ELSE Nobody]
  <2>1. Query("tid", t, e, tx, 1) = [t EXCEPT !["tids"] = Put(t["tids"], k, row)]
    BY <1>1, <1>2 DEF ProcessTidEvent, Tabled
  <2>2. RowAfter(e, tx, 1, rows) = {row}
    BY <1>2 DEF RowAfter, RowIn
  <2> HIDE DEF row
  <2>3. QED
    BY <1>1, <2>1, <2>2, ByPut
<1>3. CASE e.kind \in {"TidTransferred", "TidRecovered"}
  <2> DEFINE row == [f[k] EXCEPT !.custody = e.custody]
             g == Set(f, k, row)
  <2>1. Query("tid", t, e, tx, 1) = [t EXCEPT !["tids"] = g]
    BY <1>1, <1>3, ExceptIsPut DEF ProcessTidEvent, Tabled, Set
  <2>2. RowAfter(e, tx, 1, rows) = Updated(rows, row)
    BY <1>3 DEF RowAfter, RowIn, Updated
  <2> HIDE DEF row
  <2>3. QED
    BY <1>1, <2>1, <2>2, ByUpdate
<1>4. CASE e.kind = "RecoveryChanged"
  <2> DEFINE row == [f[k] EXCEPT !.recovery = e.recovery]
             g == Set(f, k, row)
  <2>1. Query("tid", t, e, tx, 1) = [t EXCEPT !["tids"] = g]
    BY <1>1, <1>4, ExceptIsPut DEF ProcessTidEvent, Tabled, Set
  <2>2. RowAfter(e, tx, 1, rows) = Updated(rows, row)
    BY <1>4 DEF RowAfter, RowIn, Updated
  <2> HIDE DEF row
  <2>3. QED
    BY <1>1, <2>1, <2>2, ByUpdate
<1>5. QED
  BY <1>2, <1>3, <1>4 DEF KindsOf

LEMMA SetUsernameIsUpdate ==
  ASSUME NEW t, Tabled(t), NEW k, NEW name
  PROVE  SetUsername(t, k, name) =
           [t EXCEPT !["tids"] = Set(t["tids"], k, [t["tids"][k] EXCEPT !.username = name])]
<1>1. CASE k \in DOMAIN t.tids
  BY <1>1, ExceptIsPut DEF SetUsername, Set
<1>2. CASE k \notin DOMAIN t.tids
  BY <1>2 DEF SetUsername, Set
<1>3. QED
  BY <1>1, <1>2

LEMMA UsernameRow ==
  ASSUME NEW t, Tabled(t), NEW e, e.kind \in KindsOf.username, NEW tx, NEW q \in 1..Queries(e)
  PROVE  QueryIsRow("username", t, e, tx, q)
<1> DEFINE f == t["tids"]
           Row(k, name) == [f[k] EXCEPT !.username = name]
<1>1. Query("username", t, e, tx, q) = ProcessUsernameEvent(t, e, tx, q) /\ "tids" \in TableNames
  BY DEF Query, TableNames
<1>2. CASE e.kind = "UsernameRegistered"
  <2>1. /\ Query("username", t, e, tx, q) = [t EXCEPT !["tids"] = Set(f, e.tid, Row(e.tid, e.name))]
        /\ Target(e, q) = <<"tids", e.tid>>
    BY <1>1, <1>2, SetUsernameIsUpdate DEF ProcessUsernameEvent, Target, KindsOf
  <2>2. RowAfter(e, tx, q, RowIn(f, e.tid)) = Updated(RowIn(f, e.tid), Row(e.tid, e.name))
    BY <1>2 DEF RowAfter, RowIn, Updated
  <2> HIDE DEF Row
  <2>3. QED
    BY <1>1, <2>1, <2>2, ByUpdate
<1>3. CASE e.kind = "UsernameTransferred"
  <2> DEFINE k == IF q = 1 THEN e.from ELSE e.tid
             name == IF q = 1 THEN Nobody ELSE e.name
  <2>1. q \in 1..2
    BY <1>3 DEF Queries
  <2>2. /\ Query("username", t, e, tx, q) = [t EXCEPT !["tids"] = Set(f, k, Row(k, name))]
        /\ Target(e, q) = <<"tids", k>>
    BY <1>1, <1>3, <2>1, SetUsernameIsUpdate DEF ProcessUsernameEvent, Target, KindsOf
  <2>3. RowAfter(e, tx, q, RowIn(f, k)) = Updated(RowIn(f, k), Row(k, name))
    BY <1>3 DEF RowAfter, RowIn, Updated
  <2> HIDE DEF Row, k, name
  <2>4. QED
    BY <1>1, <2>2, <2>3, ByUpdate
<1>4. CASE e.kind = "UsernameReleased"
  <2> DEFINE k == e.tid
  <2>1. Target(e, q) = <<"tids", k>>
    BY <1>4 DEF Target, KindsOf
  <2>2. CASE k \in DOMAIN f /\ f[k].username = e.name
    <3>1. Query("username", t, e, tx, q) = [t EXCEPT !["tids"] = Set(f, k, Row(k, Nobody))]
      BY <1>1, <1>4, <2>2, SetUsernameIsUpdate DEF ProcessUsernameEvent
    <3>2. RowAfter(e, tx, q, RowIn(f, k)) = Updated(RowIn(f, k), Row(k, Nobody))
      BY <1>4, <2>2 DEF RowAfter, RowIn, Updated
    <3> HIDE DEF Row
    <3>3. QED
      BY <1>1, <2>1, <3>1, <3>2, ByUpdate
  <2>3. CASE ~(k \in DOMAIN f /\ f[k].username = e.name)
    <3>1. Query("username", t, e, tx, q) = t
      BY <1>1, <1>4, <2>3 DEF ProcessUsernameEvent
    <3>2. RowAfter(e, tx, q, RowIn(f, k)) = RowIn(f, k)
      <4>1. k \in DOMAIN f => [f[k] EXCEPT !.username = f[k].username] = f[k]
        BY DEF Tabled, IsTidRow
      <4>2. QED
        BY <1>4, <2>3, <4>1 DEF RowAfter, RowIn
    <3>3. QED
      BY <1>1, <2>1, <3>1, <3>2, BySame
  <2>4. QED
    BY <2>2, <2>3
<1>5. CASE e.kind = "UsernameRenewed"
  BY <1>5 DEF Queries
<1>6. QED
  BY <1>2, <1>3, <1>4, <1>5 DEF KindsOf

LEMMA SocialRow ==
  ASSUME NEW t, Tabled(t), NEW e, e.kind \in KindsOf.social, NEW tx, NEW q \in 1..Queries(e)
  PROVE  QueryIsRow("social", t, e, tx, q)
<1> DEFINE k == <<e.who, e.whom>>
           f == t["graph"]
<1>1. /\ Query("social", t, e, tx, q) = ProcessSocialEvent(t, e, tx, q)
      /\ "graph" \in TableNames /\ Target(e, q) = <<"graph", k>>
  BY DEF Query, TableNames, Target, KindsOf
<1>2. CASE e.kind = "Followed"
  <2>1. Query("social", t, e, tx, q) = [t EXCEPT !["graph"] = Put(f, k, "live")]
    BY <1>1, <1>2 DEF ProcessSocialEvent
  <2>2. RowAfter(e, tx, q, RowIn(f, k)) = {"live"}
    BY <1>2 DEF RowAfter
  <2>3. QED
    BY <1>1, <2>1, <2>2, ByPut
<1>3. CASE e.kind = "Unfollowed"
  <2>1. Query("social", t, e, tx, q) = [t EXCEPT !["graph"] = Set(f, k, "deleted")]
    BY <1>1, <1>3 DEF ProcessSocialEvent
  <2>2. RowAfter(e, tx, q, RowIn(f, k)) = Updated(RowIn(f, k), "deleted")
    BY <1>3 DEF RowAfter, Updated
  <2>3. QED
    BY <1>1, <2>1, <2>2, ByUpdate
<1>4. CASE e.kind = "ProfileInitialized"
  BY <1>4 DEF Queries
<1>5. QED
  BY <1>2, <1>3, <1>4 DEF KindsOf

LEMMA TipRow ==
  ASSUME NEW t, Tabled(t), NEW e, e.kind \in KindsOf.tip, NEW tx, NEW q \in 1..Queries(e)
  PROVE  QueryIsRow("tip", t, e, tx, q)
<1> DEFINE row == [amount |-> e.amount, tx |-> tx]
<1>1. e.kind = "TipSent"
  BY DEF KindsOf, Queries
<1>2. /\ Query("tip", t, e, tx, q) = [t EXCEPT !["tips"] = InsertNew(t["tips"], e.pda, row)]
      /\ "tips" \in TableNames /\ Target(e, q) = <<"tips", e.pda>>
      /\ RowAfter(e, tx, q, RowIn(t["tips"], e.pda)) = Inserted(RowIn(t["tips"], e.pda), row)
  BY <1>1 DEF Query, ProcessTipEvent, TableNames, Target, KindsOf, RowAfter
<1> HIDE DEF row
<1>3. QED
  BY <1>2, ByInsert

LEMMA PollRow ==
  ASSUME NEW t, Tabled(t), NEW e, e.kind \in KindsOf.poll, NEW tx, NEW q \in 1..Queries(e)
  PROVE  QueryIsRow("poll", t, e, tx, q)
<1> DEFINE n == IF e.kind = "PollCreated" THEN "polls" ELSE "votes"
           k == IF e.kind = "PollCreated" THEN e.pda ELSE <<e.pda, e.voter>>
           row == IF e.kind = "PollCreated" THEN tx ELSE [option |-> e.option, tx |-> tx]
<1>1. /\ Query("poll", t, e, tx, q) = [t EXCEPT ![n] = InsertNew(t[n], k, row)]
      /\ n \in TableNames /\ Target(e, q) = <<n, k>>
      /\ RowAfter(e, tx, q, RowIn(t[n], k)) = Inserted(RowIn(t[n], k), row)
  <2>1. CASE e.kind = "PollCreated"
    BY <2>1 DEF Query, ProcessPollEvent, TableNames, Target, KindsOf, RowAfter
  <2>2. CASE e.kind = "PollVoted"
    BY <2>2 DEF Query, ProcessPollEvent, TableNames, Target, KindsOf, RowAfter
  <2>3. QED
    BY <2>1, <2>2 DEF KindsOf
<1> HIDE DEF n, k, row
<1>2. QED
  BY <1>1, ByInsert

LEMMA EventRow ==
  ASSUME NEW t, Tabled(t), NEW e, e.kind \in KindsOf.event, NEW tx, NEW q \in 1..Queries(e)
  PROVE  QueryIsRow("event", t, e, tx, q)
<1> DEFINE k == <<e.pda, e.who>>
           f == t["rsvps"]
           row == [status |-> e.status, tx |-> tx]
<1>1. /\ Query("event", t, e, tx, q) = ProcessEventEvent(t, e, tx, q)
      /\ "events" \in TableNames /\ "rsvps" \in TableNames
  BY DEF Query, TableNames
<1>2. CASE e.kind = "EventCreated"
  <2>1. /\ Query("event", t, e, tx, q) = [t EXCEPT !["events"] = InsertNew(t["events"], e.pda, tx)]
        /\ Target(e, q) = <<"events", e.pda>>
        /\ RowAfter(e, tx, q, RowIn(t["events"], e.pda)) = Inserted(RowIn(t["events"], e.pda), tx)
    BY <1>1, <1>2 DEF ProcessEventEvent, Target, KindsOf, RowAfter
  <2>2. QED
    BY <1>1, <2>1, ByInsert
<1>3. CASE e.kind = "EventRsvped"
  <2>1. /\ Query("event", t, e, tx, q) = [t EXCEPT !["rsvps"] = InsertNew(f, k, row)]
        /\ Target(e, q) = <<"rsvps", k>>
        /\ RowAfter(e, tx, q, RowIn(f, k)) = Inserted(RowIn(f, k), row)
    BY <1>1, <1>3 DEF ProcessEventEvent, Target, KindsOf, RowAfter
  <2> HIDE DEF row, k
  <2>2. QED
    BY <1>1, <2>1, ByInsert
<1>4. CASE e.kind = "EventRsvpUpdated"
  <2>1. Target(e, q) = <<"rsvps", k>>
    BY <1>4 DEF Target, KindsOf
  <2>2. CASE k \in DOMAIN f /\ f[k].status # e.status
    <3>1. Query("event", t, e, tx, q) = [t EXCEPT !["rsvps"] = Put(f, k, row)]
      BY <1>1, <1>4, <2>2 DEF ProcessEventEvent
    <3>2. RowAfter(e, tx, q, RowIn(f, k)) = {row}
      BY <1>4, <2>2 DEF RowAfter, RowIn
    <3> HIDE DEF row, k
    <3>3. QED
      BY <1>1, <2>1, <3>1, <3>2, ByPut
  <2>3. CASE ~(k \in DOMAIN f /\ f[k].status # e.status)
    <3>1. Query("event", t, e, tx, q) = t
      BY <1>1, <1>4, <2>3 DEF ProcessEventEvent, Tabled
    <3>2. RowAfter(e, tx, q, RowIn(f, k)) = RowIn(f, k)
      BY <1>4, <2>3 DEF RowAfter, RowIn
    <3>3. QED
      BY <1>1, <2>1, <3>1, <3>2, BySame
  <2>4. QED
    BY <2>2, <2>3
<1>5. QED
  BY <1>2, <1>3, <1>4 DEF KindsOf

LEMMA ChannelRow ==
  ASSUME NEW t, Tabled(t), NEW e, e.kind \in KindsOf.channel, NEW tx, NEW q \in 1..Queries(e)
  PROVE  QueryIsRow("channel", t, e, tx, q)
<1> DEFINE f == t["channels"]
           k == e.pda
<1>1. /\ Query("channel", t, e, tx, q) = ProcessChannelEvent(t, e, tx, q)
      /\ "channels" \in TableNames /\ Target(e, q) = <<"channels", k>>
  BY DEF Query, TableNames, Target, KindsOf
<1>2. CASE e.kind = "ChannelRegistered"
  <2>1. /\ Query("channel", t, e, tx, q) = [t EXCEPT !["channels"] = InsertNew(f, k, e.owner)]
        /\ RowAfter(e, tx, q, RowIn(f, k)) = Inserted(RowIn(f, k), e.owner)
    BY <1>1, <1>2 DEF ProcessChannelEvent, RowAfter
  <2>2. QED
    BY <1>1, <2>1, ByInsert
<1>3. CASE e.kind = "ChannelUpdated"
  <2>1. Query("channel", t, e, tx, q) = t /\ RowAfter(e, tx, q, RowIn(f, k)) = RowIn(f, k)
    BY <1>1, <1>3 DEF ProcessChannelEvent, RowAfter
  <2>2. QED
    BY <1>1, <2>1, BySame
<1>4. CASE e.kind = "ChannelTransferred"
  <2>1. /\ Query("channel", t, e, tx, q) = [t EXCEPT !["channels"] = Set(f, k, e.owner)]
        /\ RowAfter(e, tx, q, RowIn(f, k)) = Updated(RowIn(f, k), e.owner)
    BY <1>1, <1>4 DEF ProcessChannelEvent, RowAfter, Updated
  <2>2. QED
    BY <1>1, <2>1, ByUpdate
<1>5. QED
  BY <1>2, <1>3, <1>4 DEF KindsOf

LEMMA KarmaRow ==
  ASSUME NEW t, Tabled(t), NEW e, e.kind \in KindsOf.karma, NEW tx, NEW q \in 1..Queries(e)
  PROVE  QueryIsRow("karma", t, e, tx, q)
<1> DEFINE f == t["karma"]
           k == e.tid
<1>1. /\ Query("karma", t, e, tx, q) = ProcessKarmaEvent(t, e, tx, q)
      /\ "karma" \in TableNames /\ "proofs" \in TableNames
  BY DEF Query, TableNames
<1>2. CASE e.kind = "KarmaAccountInitialized"
  <2>1. /\ Query("karma", t, e, tx, q) = [t EXCEPT !["karma"] = InsertNew(f, k, NoKarma)]
        /\ Target(e, q) = <<"karma", k>>
        /\ RowAfter(e, tx, q, RowIn(f, k)) = Inserted(RowIn(f, k), NoKarma)
    BY <1>1, <1>2 DEF ProcessKarmaEvent, RowAfter, Target, KindsOf
  <2>2. QED
    BY <1>1, <2>1, ByInsert
<1>3. CASE e.kind \in {"TipKarmaRecorded", "TaskKarmaRecorded"} /\ q = 1
  <2> DEFINE old == IF k \in DOMAIN f THEN f[k] ELSE NoKarma
             row == IF e.kind = "TipKarmaRecorded" THEN [old EXCEPT !.tips = e.count]
                    ELSE [old EXCEPT !.tasks = e.count]
  <2>1. Query("karma", t, e, tx, q) = [t EXCEPT !["karma"] = Put(f, k, row)]
    BY <1>1, <1>3 DEF ProcessKarmaEvent, KarmaOf
  <2>2. Target(e, q) = <<"karma", k>>
    BY <1>3 DEF Target, KindsOf
  <2>3. Inserted(RowIn(f, k), NoKarma) = {old}
    BY DEF Inserted, RowIn
  <2>4. RowAfter(e, tx, q, RowIn(f, k)) = {row}
    <3>1. CASE e.kind = "TipKarmaRecorded"
      <4>1. RowAfter(e, tx, q, RowIn(f, k)) = {[r EXCEPT !.tips = e.count] : r \in {old}}
        BY <1>3, <2>3, <3>1 DEF RowAfter
      <4>2. QED
        BY <3>1, <4>1
    <3>2. CASE e.kind = "TaskKarmaRecorded"
      <4>1. RowAfter(e, tx, q, RowIn(f, k)) = {[r EXCEPT !.tasks = e.count] : r \in {old}}
        BY <1>3, <2>3, <3>2 DEF RowAfter
      <4>2. QED
        BY <3>2, <4>1
    <3>3. QED
      BY <1>3, <3>1, <3>2
  <2> HIDE DEF row
  <2>5. QED
    BY <1>1, <2>1, <2>2, <2>4, ByPut
<1>4. CASE e.kind \in {"TipKarmaRecorded", "TaskKarmaRecorded"} /\ q = 2
  <2> DEFINE row == [tid |-> e.tid, tx |-> tx]
  <2>1. /\ Query("karma", t, e, tx, q) =
             [t EXCEPT !["proofs"] = InsertNew(t["proofs"], e.source, row)]
        /\ Target(e, q) = <<"proofs", e.source>>
        /\ RowAfter(e, tx, q, RowIn(t["proofs"], e.source))
             = Inserted(RowIn(t["proofs"], e.source), row)
    BY <1>1, <1>4 DEF ProcessKarmaEvent, RowAfter, Target, KindsOf
  <2> HIDE DEF row
  <2>2. QED
    BY <1>1, <2>1, ByInsert
<1>5. q \in 1..2
  BY DEF Queries
<1>6. QED
  BY <1>2, <1>3, <1>4, <1>5 DEF KindsOf

\* FlipTask, and what it does to the row
LEMMA FlipIsRow ==
  ASSUME NEW t, Tabled(t), NEW e, NEW tx, NEW q, e.kind \in KindsOf.task, NEW from, NEW row,
         Query("task", t, e, tx, q) = FlipTask(t, e.pda, from, row),
         \A r : RowAfter(e, tx, q, {r}) = {IF r.status = from THEN row ELSE r}
                  \/ RowIn(t.tasks, e.pda) # {r},
         RowAfter(e, tx, q, {}) = {}
  PROVE  QueryIsRow("task", t, e, tx, q)
<1> DEFINE f == t["tasks"]
           k == e.pda
<1>1. "tasks" \in TableNames /\ Target(e, q) = <<"tasks", k>>
  BY DEF TableNames, Target, KindsOf
<1>2. CASE k \in DOMAIN f /\ f[k].status = from
  <2>1. Query("task", t, e, tx, q) = [t EXCEPT !["tasks"] = Put(f, k, row)]
    BY <1>2 DEF FlipTask
  <2>2. RowAfter(e, tx, q, RowIn(f, k)) = {row}
    BY <1>2 DEF RowIn
  <2>3. QED
    BY <1>1, <2>1, <2>2, ByPut
<1>3. CASE ~(k \in DOMAIN f /\ f[k].status = from)
  <2>1. Query("task", t, e, tx, q) = t
    BY <1>3 DEF FlipTask, Tabled
  <2>2. RowAfter(e, tx, q, RowIn(f, k)) = RowIn(f, k)
    BY <1>3 DEF RowIn
  <2>3. QED
    BY <1>1, <2>1, <2>2, BySame
<1>4. QED
  BY <1>2, <1>3

LEMMA TaskRow ==
  ASSUME NEW t, Tabled(t), NEW e, e.kind \in KindsOf.task, NEW tx, NEW q \in 1..Queries(e)
  PROVE  QueryIsRow("task", t, e, tx, q)
<1> DEFINE f == t["tasks"]
           k == e.pda
<1>1. /\ Query("task", t, e, tx, q) = ProcessTaskEvent(t, e, tx, q)
      /\ "tasks" \in TableNames /\ Target(e, q) = <<"tasks", k>>
  BY DEF Query, TableNames, Target, KindsOf
<1>2. CASE e.kind = "TaskCreated"
  <2> DEFINE row == [status |-> 0, claimer |-> Nobody]
  <2>1. /\ Query("task", t, e, tx, q) = [t EXCEPT !["tasks"] = InsertNew(f, k, row)]
        /\ RowAfter(e, tx, q, RowIn(f, k)) = Inserted(RowIn(f, k), row)
    BY <1>1, <1>2 DEF ProcessTaskEvent, RowAfter
  <2> HIDE DEF row
  <2>2. QED
    BY <1>1, <2>1, ByInsert
<1>3. CASE e.kind = "TaskClaimed"
  <2> DEFINE row == [status |-> 1, claimer |-> e.claimer]
  <2>1. /\ Query("task", t, e, tx, q) = FlipTask(t, k, 0, row)
        /\ \A r : RowAfter(e, tx, q, {r}) = {IF r.status = 0 THEN row ELSE r}
        /\ RowAfter(e, tx, q, {}) = {}
    BY <1>1, <1>3 DEF ProcessTaskEvent, RowAfter, Flipped
  <2> HIDE DEF row
  <2>2. QED
    BY <2>1, FlipIsRow
<1>4. CASE e.kind = "TaskCompleted"
  <2> DEFINE row == [status |-> 2, claimer |-> t.tasks[k].claimer]
  <2>1. /\ Query("task", t, e, tx, q) = FlipTask(t, k, 1, row)
        /\ \A r : RowAfter(e, tx, q, {r}) = {IF r.status = 1 THEN row ELSE r}
                    \/ RowIn(t.tasks, k) # {r}
        /\ RowAfter(e, tx, q, {}) = {}
    BY <1>1, <1>4 DEF ProcessTaskEvent, RowAfter, Flipped, RowIn
  <2> HIDE DEF row
  <2>2. QED
    BY <2>1, FlipIsRow
<1>5. CASE e.kind = "TaskCancelled"
  <2> DEFINE row == [status |-> 3, claimer |-> Nobody]
  <2>1. /\ Query("task", t, e, tx, q) = FlipTask(t, k, 0, row)
        /\ \A r : RowAfter(e, tx, q, {r}) = {IF r.status = 0 THEN row ELSE r}
        /\ RowAfter(e, tx, q, {}) = {}
    BY <1>1, <1>5 DEF ProcessTaskEvent, RowAfter, Flipped
  <2> HIDE DEF row
  <2>2. QED
    BY <2>1, FlipIsRow
<1>6. QED
  BY <1>2, <1>3, <1>4, <1>5 DEF KindsOf

LEMMA CrowdfundRow ==
  ASSUME NEW t, Tabled(t), NEW e, e.kind \in KindsOf.crowdfund, NEW tx, NEW q \in 1..Queries(e)
  PROVE  QueryIsRow("crowdfund", t, e, tx, q)
<1> DEFINE f == t["funds"]
           k == e.pda
           g == t["pledges"]
           kb == <<e.pda, e.backer>>
<1>1. /\ Query("crowdfund", t, e, tx, q) = ProcessCrowdfundEvent(t, e, tx, q)
      /\ "funds" \in TableNames /\ "pledges" \in TableNames
  BY DEF Query, TableNames
<1>2. CASE e.kind = "CrowdfundCreated"
  <2> DEFINE row == [total |-> 0, count |-> 0, status |-> 0]
  <2>1. /\ Query("crowdfund", t, e, tx, q) = [t EXCEPT !["funds"] = InsertNew(f, k, row)]
        /\ Target(e, q) = <<"funds", k>>
        /\ RowAfter(e, tx, q, RowIn(f, k)) = Inserted(RowIn(f, k), row)
    BY <1>1, <1>2 DEF ProcessCrowdfundEvent, RowAfter, Target, KindsOf
  <2> HIDE DEF row
  <2>2. QED
    BY <1>1, <2>1, ByInsert
<1>3. CASE e.kind = "CrowdfundPledged" /\ q = 1
  <2> DEFINE row == IF kb \in DOMAIN g THEN [amount |-> g[kb].amount + e.amount, tx |-> tx]
                    ELSE [amount |-> e.amount, tx |-> tx]
  <2>1. Target(e, q) = <<"pledges", kb>>
    BY <1>3 DEF Target, KindsOf
  <2>2. CASE kb \in DOMAIN g => g[kb].tx # tx
    <3>1. Query("crowdfund", t, e, tx, q) = [t EXCEPT !["pledges"] = Put(g, kb, row)]
      BY <1>1, <1>3, <2>2 DEF ProcessCrowdfundEvent
    <3>2. RowAfter(e, tx, q, RowIn(g, kb)) = {row}
      BY <1>3, <2>2 DEF RowAfter, RowIn
    <3> HIDE DEF row, kb
    <3>3. QED
      BY <1>1, <2>1, <3>1, <3>2, ByPut
  <2>3. CASE kb \in DOMAIN g /\ g[kb].tx = tx
    <3>1. Query("crowdfund", t, e, tx, q) = t
      BY <1>1, <1>3, <2>3 DEF ProcessCrowdfundEvent, Tabled
    <3>2. RowAfter(e, tx, q, RowIn(g, kb)) = RowIn(g, kb)
      BY <1>3, <2>3 DEF RowAfter, RowIn
    <3>3. QED
      BY <1>1, <2>1, <3>1, <3>2, BySame
  <2>4. QED
    BY <2>2, <2>3
<1>4. CASE e.kind = "CrowdfundPledged" /\ q = 2
  <2> DEFINE row == [[f[k] EXCEPT !.total = e.total] EXCEPT !.count = e.count]
  <2>1. Target(e, q) = <<"funds", k>>
    BY <1>4 DEF Target, KindsOf
  <2>2. Query("crowdfund", t, e, tx, q) = [t EXCEPT !["funds"] = Set(f, k, row)]
    BY <1>1, <1>4 DEF ProcessCrowdfundEvent, Set, Put
  <2>3. RowAfter(e, tx, q, RowIn(f, k)) = Updated(RowIn(f, k), row)
    <3>1. RowAfter(e, tx, q, RowIn(f, k)) =
            {[[r EXCEPT !.total = e.total] EXCEPT !.count = e.count] : r \in RowIn(f, k)}
      BY <1>4 DEF RowAfter
    <3>2. QED
      BY <3>1 DEF RowIn, Updated
  <2> HIDE DEF row
  <2>4. QED
    BY <1>1, <2>1, <2>2, <2>3, ByUpdate
<1>5. CASE e.kind = "CrowdfundClaimed"
  <2> DEFINE row == [[f[k] EXCEPT !.status = 1] EXCEPT !.total = 0]
  <2>1. Target(e, q) = <<"funds", k>>
    BY <1>5 DEF Target, KindsOf
  <2>2. CASE k \in DOMAIN f /\ f[k].status # 1
    <3>1. Query("crowdfund", t, e, tx, q) = [t EXCEPT !["funds"] = Put(f, k, row)]
      BY <1>1, <1>5, <2>2 DEF ProcessCrowdfundEvent, Put
    <3>2. RowAfter(e, tx, q, RowIn(f, k)) = {row}
      BY <1>5, <2>2 DEF RowAfter, RowIn
    <3> HIDE DEF row
    <3>3. QED
      BY <1>1, <2>1, <3>1, <3>2, ByPut
  <2>3. CASE ~(k \in DOMAIN f /\ f[k].status # 1)
    <3>1. Query("crowdfund", t, e, tx, q) = t
      BY <1>1, <1>5, <2>3 DEF ProcessCrowdfundEvent, Tabled
    <3>2. RowAfter(e, tx, q, RowIn(f, k)) = RowIn(f, k)
      BY <1>5, <2>3 DEF RowAfter, RowIn
    <3>3. QED
      BY <1>1, <2>1, <3>1, <3>2, BySame
  <2>4. QED
    BY <2>2, <2>3
<1>6. CASE e.kind = "CrowdfundRefunded" /\ q = 1
  <2>1. Query("crowdfund", t, e, tx, q) = [t EXCEPT !["pledges"] = Delete(g, kb)]
    BY <1>1, <1>6 DEF ProcessCrowdfundEvent
  <2>2. Target(e, q) = <<"pledges", kb>>
    BY <1>6 DEF Target, KindsOf
  <2>3. RowAfter(e, tx, q, RowIn(g, kb)) = {}
    BY <1>6 DEF RowAfter
  <2> HIDE DEF kb
  <2>4. /\ Delete(g, kb) = [x \in DOMAIN Delete(g, kb) |-> Delete(g, kb)[x]]
        /\ \A x : x # kb => RowIn(Delete(g, kb), x) = RowIn(g, x)
        /\ RowIn(Delete(g, kb), kb) = {}
    BY DEF Delete, RowIn
  <2>5. OneRow(t, [t EXCEPT !["pledges"] = Delete(g, kb)], "pledges", kb, RowIn(Delete(g, kb), kb))
    BY <1>1, <2>4, ReplaceTable
  <2>6. OneRow(t, Query("crowdfund", t, e, tx, q), "pledges", kb, {})
    BY <2>1, <2>4, <2>5
  <2>7. QED
    BY <2>2, <2>3, <2>6 DEF QueryIsRow, RowOf
<1>7. CASE e.kind = "CrowdfundRefunded" /\ q = 2
  <2> DEFINE row == [total |-> AtLeastZero(f[k].total - e.amount),
                     count |-> AtLeastZero(f[k].count - 1),
                     status |-> IF f[k].status = 0 THEN 2 ELSE f[k].status]
  <2>1. Target(e, q) = <<"funds", k>>
    BY <1>7 DEF Target, KindsOf
  <2>2. Query("crowdfund", t, e, tx, q) = [t EXCEPT !["funds"] = Set(f, k, row)]
    BY <1>1, <1>7 DEF ProcessCrowdfundEvent, Set
  <2>3. RowAfter(e, tx, q, RowIn(f, k)) = Updated(RowIn(f, k), row)
    BY <1>7 DEF RowAfter, RowIn, Updated
  <2> HIDE DEF row
  <2>4. QED
    BY <1>1, <2>1, <2>2, <2>3, ByUpdate
<1>8. q \in 1..2
  BY DEF Queries
<1>9. QED
  BY <1>2, <1>3, <1>4, <1>5, <1>6, <1>7, <1>8 DEF KindsOf

LEMMA QueryRow ==
  ASSUME NEW p \in Programs, NEW t, Tabled(t), NEW e, e.kind \in KindsOf[p], NEW tx,
         NEW q \in 1..Queries(e)
  PROVE  QueryIsRow(p, t, e, tx, q)
<1>1. KindsOf[p] = CASE p = "tid" -> KindsOf.tid [] p = "username" -> KindsOf.username
                     [] p = "social" -> KindsOf.social [] p = "tip" -> KindsOf.tip
                     [] p = "crowdfund" -> KindsOf.crowdfund [] p = "task" -> KindsOf.task
                     [] p = "channel" -> KindsOf.channel [] p = "karma" -> KindsOf.karma
                     [] p = "poll" -> KindsOf.poll [] p = "event" -> KindsOf.event
  BY DEF Programs
<1>2. CASE p = "tid"
  <2>1. q = 1 /\ e.kind \in KindsOf.tid
    BY <1>1, <1>2 DEF Queries, KindsOf
  <2>2. QED
    BY <1>2, <2>1, TidRow
<1>3. CASE p = "username"
  BY <1>1, <1>3, UsernameRow
<1>4. CASE p = "social"
  BY <1>1, <1>4, SocialRow
<1>5. CASE p = "tip"
  BY <1>1, <1>5, TipRow
<1>6. CASE p = "crowdfund"
  BY <1>1, <1>6, CrowdfundRow
<1>7. CASE p = "task"
  BY <1>1, <1>7, TaskRow
<1>8. CASE p = "channel"
  BY <1>1, <1>8, ChannelRow
<1>9. CASE p = "karma"
  BY <1>1, <1>9, KarmaRow
<1>10. CASE p = "poll"
  BY <1>1, <1>10, PollRow
<1>11. CASE p = "event"
  BY <1>1, <1>11, EventRow
<1>12. QED
  BY <1>2, <1>3, <1>4, <1>5, <1>6, <1>7, <1>8, <1>9, <1>10, <1>11 DEF Programs

\* The row a query writes is in a table of its program.
LEMMA TargetOf ==
  ASSUME NEW p \in Programs, NEW e, e.kind \in KindsOf[p], NEW q \in 1..Queries(e)
  PROVE  /\ Target(e, q)[1] \in TablesOf[p] /\ Target(e, q)[1] \in TableNames
         /\ \E n, k : Target(e, q) = <<n, k>>
<1>1. q \in 1..2 /\ (q = 1 \/ Queries(e) = 2)
  BY DEF Queries
<1>2. CASE p \in {"tid", "username"}
  BY <1>1, <1>2 DEF KindsOf, Target, TablesOf, TableNames, Queries
<1>3. CASE p \in {"social", "tip", "task", "channel"}
  BY <1>1, <1>3 DEF KindsOf, Target, TablesOf, TableNames, Queries
<1>4. CASE p = "crowdfund"
  <2>1. CASE e.kind \in {"CrowdfundCreated", "CrowdfundClaimed"}
    <3>1. Target(e, q) = <<"funds", e.pda>>
      BY <2>1 DEF Target, KindsOf
    <3>2. QED
      BY <1>4, <3>1 DEF TablesOf, TableNames
  <2>2. CASE e.kind \in {"CrowdfundPledged", "CrowdfundRefunded"} /\ q = 1
    <3>1. Target(e, q) = <<"pledges", <<e.pda, e.backer>>>>
      BY <2>2 DEF Target, KindsOf
    <3>2. QED
      BY <1>4, <3>1 DEF TablesOf, TableNames
  <2>3. CASE e.kind \in {"CrowdfundPledged", "CrowdfundRefunded"} /\ q = 2
    <3>1. Target(e, q) = <<"funds", e.pda>>
      BY <2>3 DEF Target, KindsOf
    <3>2. QED
      BY <1>4, <3>1 DEF TablesOf, TableNames
  <2>4. e.kind \in KindsOf.crowdfund
    BY <1>4 DEF KindsOf
  <2>5. QED
    BY <1>1, <2>1, <2>2, <2>3, <2>4 DEF KindsOf
<1>5. CASE p = "karma"
  <2>1. CASE e.kind = "KarmaAccountInitialized" \/ q = 1
    <3>1. e.kind \in KindsOf.karma
      BY <1>5 DEF KindsOf
    <3>2. Target(e, q) = <<"karma", e.tid>>
      BY <2>1, <3>1 DEF Target, KindsOf
    <3>3. QED
      BY <1>5, <3>2 DEF TablesOf, TableNames
  <2>2. CASE e.kind \in {"TipKarmaRecorded", "TaskKarmaRecorded"} /\ q = 2
    <3>1. Target(e, q) = <<"proofs", e.source>>
      BY <2>2 DEF Target, KindsOf
    <3>2. QED
      BY <1>5, <3>1 DEF TablesOf, TableNames
  <2>3. e.kind \in KindsOf.karma
    BY <1>5 DEF KindsOf
  <2>4. QED
    BY <1>1, <2>1, <2>2, <2>3 DEF KindsOf
<1>6. CASE p \in {"poll", "event"}
  BY <1>1, <1>6 DEF KindsOf, Target, TablesOf, TableNames, Queries
<1>7. QED
  BY <1>2, <1>3, <1>4, <1>5, <1>6 DEF Programs

RowsOK(n, rows) ==
  \A r \in rows : /\ n = "tids" => IsTidRow(r)
                  /\ n = "karma" => IsKarmaRow(r)
                  /\ n = "tasks" => IsTaskRow(r)

LEMMA TabledRows ==
  ASSUME NEW t
  PROVE  Tabled(t) <=> /\ t = [n \in TableNames |-> t[n]]
                       /\ \A n \in TableNames : t[n] = [k \in DOMAIN t[n] |-> t[n][k]]
                       /\ \A n \in TableNames : \A k : RowsOK(n, RowIn(t[n], k))
<1>1. ASSUME Tabled(t), NEW n \in TableNames, NEW k PROVE RowsOK(n, RowIn(t[n], k))
  BY <1>1 DEF Tabled, RowsOK, RowIn
<1>2. ASSUME \A n \in TableNames : \A k : RowsOK(n, RowIn(t[n], k)),
             NEW n \in {"tids", "karma", "tasks"}, NEW k \in DOMAIN t[n]
      PROVE  /\ n = "tids" => IsTidRow(t[n][k])
             /\ n = "karma" => IsKarmaRow(t[n][k])
             /\ n = "tasks" => IsTaskRow(t[n][k])
  <2>1. RowsOK(n, RowIn(t[n], k)) /\ RowIn(t[n], k) = {t[n][k]}
    BY <1>2 DEF TableNames, RowIn
  <2>2. QED
    BY <2>1 DEF RowsOK
<1>3. QED
  BY <1>1, <1>2 DEF Tabled

LEMMA RowAfterOK ==
  ASSUME NEW p \in Programs, NEW e, e.kind \in KindsOf[p], NEW tx, NEW q \in 1..Queries(e),
         NEW old, RowsOK(Target(e, q)[1], old)
  PROVE  RowsOK(Target(e, q)[1], RowAfter(e, tx, q, old))
<1> DEFINE n == Target(e, q)[1]
<1>1. n \in TablesOf[p]
  BY TargetOf
<1>2. CASE n = "tids"
  <2>1. p \in {"tid", "username"}
    BY <1>1, <1>2 DEF TablesOf, Programs
  <2>2. \A r \in old : IsTidRow(r)
    BY <1>2 DEF RowsOK
  <2>3. ASSUME NEW s \in RowAfter(e, tx, q, old) PROVE IsTidRow(s)
    <3>1. CASE e.kind = "TidRegistered"
      BY <2>2, <2>3, <3>1 DEF RowAfter, IsTidRow
    <3>2. CASE e.kind \in {"TidTransferred", "TidRecovered"}
      BY <2>2, <2>3, <3>2 DEF RowAfter, IsTidRow
    <3>3. CASE e.kind = "RecoveryChanged"
      BY <2>2, <2>3, <3>3 DEF RowAfter, IsTidRow
    <3>4. CASE e.kind = "UsernameRegistered"
      BY <2>2, <2>3, <3>4 DEF RowAfter, IsTidRow
    <3>5. CASE e.kind = "UsernameTransferred"
      BY <2>2, <2>3, <3>5 DEF RowAfter, IsTidRow
    <3>6. CASE e.kind = "UsernameReleased"
      BY <2>2, <2>3, <3>6 DEF RowAfter, IsTidRow
    <3>7. e.kind # "UsernameRenewed"
      BY DEF Queries
    <3>8. QED
      BY <2>1, <3>1, <3>2, <3>3, <3>4, <3>5, <3>6, <3>7 DEF KindsOf
  <2>4. QED
    BY <1>2, <2>3 DEF RowsOK
<1>3. CASE n = "karma"
  <2>1. p = "karma" /\ e.kind \in KindsOf.karma
    BY <1>1, <1>3 DEF TablesOf, Programs, KindsOf
  <2>2. e.kind = "KarmaAccountInitialized" \/ q = 1
    <3>1. ASSUME e.kind \in {"TipKarmaRecorded", "TaskKarmaRecorded"}, q = 2 PROVE FALSE
      BY <1>3, <3>1 DEF Target, KindsOf
    <3>2. q \in 1..2
      BY DEF Queries
    <3>3. QED
      BY <2>1, <3>1, <3>2 DEF KindsOf
  <2>3. \A r \in Inserted(old, NoKarma) : IsKarmaRow(r)
    BY <1>3 DEF RowsOK, IsKarmaRow, Inserted, NoKarma
  <2>4. ASSUME NEW s \in RowAfter(e, tx, q, old) PROVE IsKarmaRow(s)
    <3>1. CASE e.kind = "KarmaAccountInitialized"
      BY <2>3, <2>4, <3>1 DEF RowAfter
    <3>2. CASE e.kind = "TipKarmaRecorded"
      BY <2>2, <2>3, <2>4, <3>2 DEF RowAfter, IsKarmaRow
    <3>3. CASE e.kind = "TaskKarmaRecorded"
      BY <2>2, <2>3, <2>4, <3>3 DEF RowAfter, IsKarmaRow
    <3>4. QED
      BY <2>1, <3>1, <3>2, <3>3 DEF KindsOf
  <2>5. QED
    BY <1>3, <2>4 DEF RowsOK
<1>4. CASE n = "tasks"
  <2>1. e.kind \in KindsOf.task
    BY <1>1, <1>4 DEF TablesOf, Programs, KindsOf
  <2>2. \A r \in old : IsTaskRow(r)
    BY <1>4 DEF RowsOK
  <2>3. ASSUME NEW s \in RowAfter(e, tx, q, old) PROVE IsTaskRow(s)
    <3>1. CASE e.kind = "TaskCreated"
      BY <2>2, <2>3, <3>1 DEF RowAfter, IsTaskRow, Inserted
    <3>2. CASE e.kind = "TaskClaimed"
      BY <2>2, <2>3, <3>2 DEF RowAfter, IsTaskRow, Flipped
    <3>3. CASE e.kind = "TaskCompleted"
      BY <2>2, <2>3, <3>3 DEF RowAfter, IsTaskRow
    <3>4. CASE e.kind = "TaskCancelled"
      BY <2>2, <2>3, <3>4 DEF RowAfter, IsTaskRow, Flipped
    <3>5. QED
      BY <2>1, <3>1, <3>2, <3>3, <3>4 DEF KindsOf
  <2>4. QED
    BY <1>4, <2>3 DEF RowsOK
<1>5. QED
  BY <1>2, <1>3, <1>4 DEF RowsOK

LEMMA QueryTabled ==
  ASSUME NEW p \in Programs, NEW t, Tabled(t), NEW e, e.kind \in KindsOf[p], NEW tx,
         NEW q \in 1..Queries(e)
  PROVE  Tabled(Query(p, t, e, tx, q))
<1> DEFINE u == Query(p, t, e, tx, q)
<1>1. PICK n, k : Target(e, q) = <<n, k>>
  BY TargetOf
<1>2. n \in TableNames /\ n = Target(e, q)[1]
  BY <1>1, TargetOf
<1>3. OneRow(t, u, n, k, RowAfter(e, tx, q, RowIn(t[n], k)))
  BY <1>1, QueryRow DEF QueryIsRow, RowOf
<1> HIDE DEF u
<1>4. RowsOK(n, RowAfter(e, tx, q, RowIn(t[n], k)))
  BY <1>2, TabledRows, RowAfterOK
<1>5. ASSUME NEW m \in TableNames
      PROVE  u[m] = [x \in DOMAIN u[m] |-> u[m][x]] /\ \A x : RowsOK(m, RowIn(u[m], x))
  <2>1. CASE m = n
    BY <1>3, <1>4, <2>1, TabledRows DEF OneRow
  <2>2. CASE m # n
    <3>1. u[m] = t[m]
      BY <1>3, <2>2 DEF OneRow
    <3>2. QED
      BY <3>1, TabledRows
  <2>3. QED
    BY <2>1, <2>2
<1>6. u = [m \in TableNames |-> u[m]]
  BY <1>3 DEF OneRow
<1>7. Tabled(u)
  BY <1>5, <1>6, TabledRows
<1>8. QED
  BY <1>7 DEF u

------------------------------------------------------------------------------
(* The tables whose rows are inserted once *)

FullOnce == {"tips", "proofs", "polls", "votes", "events"}
DomOnce == {"tids", "funds", "tasks", "channels", "rsvps"}

\* What OnceTables shows of a row
Face(n, rows) ==
  IF n \in FullOnce THEN rows
  ELSE IF n \in DomOnce THEN {"row" : r \in rows}
  ELSE {}

Seen(t, n, k) == Face(n, RowIn(t[n], k))

\* What a query puts where there is no row
Made(e, tx, q) == Face(Target(e, q)[1], RowAfter(e, tx, q, {}))

LEMMA OnceAfter ==
  ASSUME NEW p \in Programs, NEW e, e.kind \in KindsOf[p], NEW tx, NEW q \in 1..Queries(e),
         NEW n, n = Target(e, q)[1]
  PROVE  /\ n \in FullOnce => \E row : \A old : RowAfter(e, tx, q, old) = Inserted(old, row)
         /\ n \in DomOnce => \A old : old # {} => RowAfter(e, tx, q, old) # {}
<1>1. n \in TablesOf[p] /\ q \in 1..2
  BY TargetOf DEF Queries
<1>2. CASE p \in {"tid", "username"}
  <2>1. n = "tids"
    BY <1>1, <1>2 DEF TablesOf
  <2>2. e.kind \in KindsOf.tid \cup (KindsOf.username \ {"UsernameRenewed"})
    BY <1>2 DEF KindsOf, Queries
  <2>3. ASSUME NEW old, old # {} PROVE RowAfter(e, tx, q, old) # {}
    <3>1. CASE e.kind = "TidRegistered"
      BY <2>3, <3>1 DEF RowAfter
    <3>2. CASE e.kind \in {"TidTransferred", "TidRecovered"}
      BY <2>3, <3>2 DEF RowAfter
    <3>3. CASE e.kind = "RecoveryChanged"
      BY <2>3, <3>3 DEF RowAfter
    <3>4. CASE e.kind = "UsernameRegistered"
      BY <2>3, <3>4 DEF RowAfter
    <3>5. CASE e.kind = "UsernameTransferred"
      BY <2>3, <3>5 DEF RowAfter
    <3>6. CASE e.kind = "UsernameReleased"
      BY <2>3, <3>6 DEF RowAfter
    <3>7. QED
      BY <2>2, <3>1, <3>2, <3>3, <3>4, <3>5, <3>6 DEF KindsOf
  <2>4. QED
    BY <2>1, <2>3 DEF FullOnce
<1>3. CASE p = "social"
  BY <1>1, <1>3 DEF TablesOf, FullOnce, DomOnce
<1>4. CASE p = "tip"
  <2>1. e.kind = "TipSent" /\ n = "tips"
    BY <1>1, <1>4 DEF KindsOf, Queries, TablesOf
  <2>2. \A old : RowAfter(e, tx, q, old) = Inserted(old, [amount |-> e.amount, tx |-> tx])
    BY <2>1 DEF RowAfter
  <2>3. QED
    BY <2>1, <2>2 DEF DomOnce
<1>5. CASE p = "crowdfund"
  <2>1. n \notin FullOnce
    BY <1>1, <1>5 DEF TablesOf, FullOnce
  <2>2. ASSUME n \in DomOnce, NEW old, old # {} PROVE RowAfter(e, tx, q, old) # {}
    <3>1. CASE e.kind = "CrowdfundCreated"
      BY <2>2, <3>1 DEF RowAfter, Inserted
    <3>2. CASE e.kind = "CrowdfundClaimed"
      BY <2>2, <3>2 DEF RowAfter
    <3>3. CASE e.kind = "CrowdfundPledged" /\ q = 2
      <4>1. RowAfter(e, tx, q, old) =
              {[[r EXCEPT !.total = e.total] EXCEPT !.count = e.count] : r \in old}
        BY <3>3 DEF RowAfter
      <4>2. QED
        BY <2>2, <4>1
    <3>4. CASE e.kind = "CrowdfundRefunded" /\ q = 2
      <4>1. RowAfter(e, tx, q, old) =
              {[total |-> AtLeastZero(r.total - e.amount), count |-> AtLeastZero(r.count - 1),
                status |-> IF r.status = 0 THEN 2 ELSE r.status] : r \in old}
        BY <3>4 DEF RowAfter
      <4>2. QED
        BY <2>2, <4>1
    <3>5. ~(e.kind \in {"CrowdfundPledged", "CrowdfundRefunded"} /\ q = 1)
      <4>1. e.kind \in {"CrowdfundPledged", "CrowdfundRefunded"} /\ q = 1
              => Target(e, q) = <<"pledges", <<e.pda, e.backer>>>>
        BY DEF Target, KindsOf
      <4>2. QED
        BY <2>2, <4>1 DEF DomOnce
    <3>6. QED
      BY <1>1, <1>5, <3>1, <3>2, <3>3, <3>4, <3>5 DEF KindsOf
  <2>3. QED
    BY <2>1, <2>2
<1>6. CASE p = "task"
  <2>1. n = "tasks"
    BY <1>1, <1>6 DEF TablesOf
  <2>2. ASSUME NEW old, old # {} PROVE RowAfter(e, tx, q, old) # {}
    <3>1. CASE e.kind = "TaskCreated"
      BY <2>2, <3>1 DEF RowAfter, Inserted
    <3>2. CASE e.kind = "TaskClaimed"
      BY <2>2, <3>2 DEF RowAfter, Flipped
    <3>3. CASE e.kind = "TaskCompleted"
      BY <2>2, <3>3 DEF RowAfter
    <3>4. CASE e.kind = "TaskCancelled"
      BY <2>2, <3>4 DEF RowAfter, Flipped
    <3>5. QED
      BY <1>6, <3>1, <3>2, <3>3, <3>4 DEF KindsOf
  <2>3. QED
    BY <2>1, <2>2 DEF FullOnce
<1>7. CASE p = "channel"
  <2>1. n = "channels"
    BY <1>1, <1>7 DEF TablesOf
  <2>2. ASSUME NEW old, old # {} PROVE RowAfter(e, tx, q, old) # {}
    <3>1. CASE e.kind = "ChannelRegistered"
      BY <2>2, <3>1 DEF RowAfter, Inserted
    <3>2. CASE e.kind = "ChannelUpdated"
      BY <2>2, <3>2 DEF RowAfter
    <3>3. CASE e.kind = "ChannelTransferred"
      BY <2>2, <3>3 DEF RowAfter
    <3>4. QED
      BY <1>7, <3>1, <3>2, <3>3 DEF KindsOf
  <2>3. QED
    BY <2>1, <2>2 DEF FullOnce
<1>8. CASE p = "karma"
  <2>1. n \notin DomOnce
    BY <1>1, <1>8 DEF TablesOf, DomOnce
  <2>2. ASSUME n \in FullOnce
        PROVE  \A old : RowAfter(e, tx, q, old) = Inserted(old, [tid |-> e.tid, tx |-> tx])
    <3>1. e.kind \in KindsOf.karma
      BY <1>8 DEF KindsOf
    <3>2. e.kind = "KarmaAccountInitialized" \/ q = 1 => Target(e, q) = <<"karma", e.tid>>
      BY <3>1 DEF Target, KindsOf
    <3>3. e.kind \in {"TipKarmaRecorded", "TaskKarmaRecorded"} /\ q = 2
      BY <1>1, <2>2, <3>1, <3>2 DEF FullOnce, KindsOf
    <3>4. QED
      BY <3>3 DEF RowAfter
  <2>3. QED
    BY <2>1, <2>2
<1>9. CASE p = "poll"
  <2>1. n \notin DomOnce
    BY <1>1, <1>9 DEF TablesOf, DomOnce
  <2>2. CASE e.kind = "PollCreated"
    <3>1. \A old : RowAfter(e, tx, q, old) = Inserted(old, tx)
      BY <2>2 DEF RowAfter
    <3>2. QED
      BY <2>1, <3>1
  <2>3. CASE e.kind = "PollVoted"
    <3>1. \A old : RowAfter(e, tx, q, old) = Inserted(old, [option |-> e.option, tx |-> tx])
      BY <2>3 DEF RowAfter
    <3>2. QED
      BY <2>1, <3>1
  <2>4. QED
    BY <1>9, <2>2, <2>3 DEF KindsOf
<1>10. CASE p = "event"
  <2>1. CASE e.kind = "EventCreated"
    <3>1. \A old : RowAfter(e, tx, q, old) = Inserted(old, tx)
      BY <2>1 DEF RowAfter
    <3>2. Target(e, q) = <<"events", e.pda>>
      BY <2>1 DEF Target, KindsOf
    <3>3. QED
      BY <3>1, <3>2 DEF DomOnce
  <2>2. ASSUME e.kind \in {"EventRsvped", "EventRsvpUpdated"},
               NEW old, old # {} PROVE RowAfter(e, tx, q, old) # {}
    <3>1. CASE e.kind = "EventRsvped"
      BY <2>2, <3>1 DEF RowAfter, Inserted
    <3>2. CASE e.kind = "EventRsvpUpdated"
      BY <2>2, <3>2 DEF RowAfter
    <3>3. QED
      BY <2>2, <3>1, <3>2
  <2>3. e.kind \in {"EventRsvped", "EventRsvpUpdated"} => n = "rsvps"
    BY DEF Target, KindsOf
  <2>4. QED
    BY <1>10, <2>1, <2>2, <2>3 DEF KindsOf, FullOnce
<1>11. QED
  BY <1>2, <1>3, <1>4, <1>5, <1>6, <1>7, <1>8, <1>9, <1>10 DEF Programs

LEMMA FaceAfter ==
  ASSUME NEW p \in Programs, NEW e, e.kind \in KindsOf[p], NEW tx, NEW q \in 1..Queries(e),
         NEW old
  PROVE  LET n == Target(e, q)[1] IN
         Face(n, RowAfter(e, tx, q, old)) =
           IF Face(n, old) = {} THEN Made(e, tx, q) ELSE Face(n, old)
<1> DEFINE n == Target(e, q)[1]
<1>1. CASE n \in FullOnce
  <2>1. PICK row : \A o : RowAfter(e, tx, q, o) = Inserted(o, row)
    BY <1>1, OnceAfter
  <2>2. \A o : Face(n, o) = o
    BY <1>1 DEF Face
  <2> HIDE DEF n
  <2>3. QED
    BY <2>1, <2>2 DEF Made, Inserted, n
<1>2. CASE n \in DomOnce
  <2>1. \A o : o # {} => RowAfter(e, tx, q, o) # {}
    BY <1>2, OnceAfter
  <2>2. \A o : Face(n, o) = {"row" : r \in o}
    BY <1>2 DEF Face, FullOnce, DomOnce
  <2>3. \A o : Face(n, o) = IF o = {} THEN {} ELSE {"row"}
    BY <2>2
  <2> HIDE DEF n
  <2>4. QED
    BY <2>1, <2>3 DEF Made, n
<1>3. CASE n \notin FullOnce \cup DomOnce
  <2>1. \A o : Face(n, o) = {}
    BY <1>3 DEF Face
  <2> HIDE DEF n
  <2>2. QED
    BY <2>1 DEF Made, n
<1>4. QED
  BY <1>1, <1>2, <1>3

\* What a query does to the tables of rows inserted once
LEMMA QuerySeen ==
  ASSUME NEW p \in Programs, NEW t, Tabled(t), NEW e, e.kind \in KindsOf[p], NEW tx,
         NEW q \in 1..Queries(e), NEW n \in TableNames, NEW k
  PROVE  Seen(Query(p, t, e, tx, q), n, k) =
           IF Target(e, q) = <<n, k>> /\ Seen(t, n, k) = {} THEN Made(e, tx, q) ELSE Seen(t, n, k)
<1> DEFINE u == Query(p, t, e, tx, q)
<1>1. PICK m, x : Target(e, q) = <<m, x>>
  BY TargetOf
<1>2. m \in TableNames /\ m = Target(e, q)[1]
  BY <1>1, TargetOf
<1>3. OneRow(t, u, m, x, RowAfter(e, tx, q, RowIn(t[m], x)))
  BY <1>1, QueryRow DEF QueryIsRow, RowOf
<1> HIDE DEF u
<1>4. CASE n = m /\ k = x
  <2>1. Seen(u, n, k) = Face(n, RowAfter(e, tx, q, RowIn(t[n], k)))
    BY <1>3, <1>4 DEF OneRow, Seen
  <2>2. Seen(u, n, k) = IF Face(n, RowIn(t[n], k)) = {} THEN Made(e, tx, q)
                        ELSE Face(n, RowIn(t[n], k))
    BY <1>2, <1>4, <2>1, FaceAfter
  <2>3. QED
    BY <1>1, <1>4, <2>2 DEF Seen, u
<1>5. CASE n # m \/ k # x
  <2>1. RowIn(u[n], k) = RowIn(t[n], k)
    BY <1>2, <1>3, <1>5 DEF OneRow
  <2>2. <<m, x>> # <<n, k>>
    BY <1>5
  <2>3. QED
    BY <1>1, <2>1, <2>2 DEF Seen, u
<1>6. QED
  BY <1>4, <1>5

------------------------------------------------------------------------------
(* Rows persist, except pledges *)

TaskLater(a, b) ==
  a = b \/ a.status = 0 \/ (a.status = 1 /\ b.status = 2 /\ b.claimer = a.claimer)

RowLater(n, a, b) ==
  a # {} => /\ b # {}
            /\ n \in FullOnce => b = a
            /\ n = "tasks" => \A r \in a, s \in b : TaskLater(r, s)

Later(s, t) ==
  \A n \in TableNames \ {"pledges"} : \A k : RowLater(n, RowIn(s[n], k), RowIn(t[n], k))

LEMMA LaterRefl == \A t : Later(t, t)
  BY DEF Later, RowLater, TaskLater, RowIn

LEMMA LaterTrans ==
  ASSUME NEW s, NEW t, NEW u, Later(s, t), Later(t, u)
  PROVE  Later(s, u)
<1> SUFFICES ASSUME NEW n \in TableNames \ {"pledges"}, NEW k
             PROVE  RowLater(n, RowIn(s[n], k), RowIn(u[n], k))
  BY DEF Later
<1>1. RowLater(n, RowIn(s[n], k), RowIn(t[n], k)) /\ RowLater(n, RowIn(t[n], k), RowIn(u[n], k))
  BY DEF Later
<1>2. QED
  BY <1>1 DEF RowLater, TaskLater

LEMMA LaterSeen ==
  ASSUME NEW s, NEW t, Later(s, t), NEW n \in TableNames, NEW k, Seen(s, n, k) # {}
  PROVE  Seen(t, n, k) = Seen(s, n, k)
<1>1. n # "pledges" /\ RowIn(s[n], k) # {}
  BY DEF Seen, Face, FullOnce, DomOnce
<1>2. RowLater(n, RowIn(s[n], k), RowIn(t[n], k))
  BY <1>1 DEF Later
<1>3. n \notin FullOnce => Seen(s, n, k) = {"row"} /\ Seen(t, n, k) = {"row"}
  BY <1>1, <1>2 DEF Seen, Face, RowLater
<1>4. QED
  BY <1>1, <1>2, <1>3 DEF Seen, Face, RowLater

LEMMA RowStep ==
  ASSUME NEW p \in Programs, NEW e, e.kind \in KindsOf[p], NEW tx, NEW q \in 1..Queries(e),
         NEW n, n = Target(e, q)[1], n # "pledges", NEW f, NEW k
  PROVE  RowLater(n, RowIn(f, k), RowAfter(e, tx, q, RowIn(f, k)))
<1> DEFINE old == RowIn(f, k)
<1>1. n \in TablesOf[p] /\ n \in TableNames /\ q \in 1..2
  BY TargetOf DEF Queries
<1>2. CASE n \in FullOnce
  <2>1. PICK row : \A o : RowAfter(e, tx, q, o) = Inserted(o, row)
    BY <1>2, OnceAfter
  <2>2. QED
    BY <1>2, <2>1 DEF RowLater, Inserted, FullOnce
<1>3. CASE n = "tasks"
  <2>1. e.kind \in KindsOf.task
    BY <1>1, <1>3 DEF TablesOf, Programs, KindsOf
  <2>2. ASSUME NEW r, old = {r} PROVE RowLater(n, old, RowAfter(e, tx, q, old))
    <3>1. CASE e.kind = "TaskCreated"
      BY <2>2, <3>1 DEF RowAfter, Inserted, RowLater, TaskLater, FullOnce
    <3>2. CASE e.kind = "TaskClaimed"
      BY <1>3, <2>2, <3>2 DEF RowAfter, Flipped, RowLater, TaskLater, FullOnce
    <3>3. CASE e.kind = "TaskCompleted"
      <4>1. RowAfter(e, tx, q, old) =
              {IF o.status = 1 THEN [status |-> 2, claimer |-> o.claimer] ELSE o : o \in old}
        BY <3>3 DEF RowAfter
      <4> DEFINE s == IF r.status = 1 THEN [status |-> 2, claimer |-> r.claimer] ELSE r
      <4>2. RowAfter(e, tx, q, old) = {s}
        BY <2>2, <4>1
      <4>3. TaskLater(r, s)
        BY DEF TaskLater
      <4> HIDE DEF s, old
      <4>4. QED
        BY <1>3, <2>2, <4>2, <4>3 DEF RowLater, FullOnce
    <3>4. CASE e.kind = "TaskCancelled"
      BY <1>3, <2>2, <3>4 DEF RowAfter, Flipped, RowLater, TaskLater, FullOnce
    <3>5. QED
      BY <2>1, <3>1, <3>2, <3>3, <3>4 DEF KindsOf
  <2>3. QED
    BY <2>2 DEF RowIn, RowLater
<1>4. CASE n \in DomOnce /\ n # "tasks"
  BY <1>4, OnceAfter DEF RowLater, DomOnce, FullOnce
<1>5. CASE n \in {"graph", "karma"}
  <2>1. p \in {"social", "karma"} /\ e.kind \in KindsOf.social \cup KindsOf.karma
    BY <1>1, <1>5 DEF TablesOf, Programs, KindsOf
  <2>2. e.kind \in {"TipKarmaRecorded", "TaskKarmaRecorded"} => q = 1
    <3>1. e.kind \in {"TipKarmaRecorded", "TaskKarmaRecorded"} /\ q = 2
            => Target(e, q) = <<"proofs", e.source>>
      BY DEF Target, KindsOf
    <3>2. QED
      BY <1>1, <1>5, <3>1
  <2>3. Inserted(old, NoKarma) # {}
    BY DEF Inserted
  <2>4. old # {} => RowAfter(e, tx, q, old) # {}
    <3>1. CASE e.kind = "Followed"
      BY <3>1 DEF RowAfter
    <3>2. CASE e.kind = "Unfollowed"
      BY <3>2 DEF RowAfter
    <3>3. CASE e.kind = "KarmaAccountInitialized"
      BY <2>3, <3>3 DEF RowAfter
    <3>4. CASE e.kind = "TipKarmaRecorded"
      <4>1. RowAfter(e, tx, q, old) = {[r EXCEPT !.tips = e.count] : r \in Inserted(old, NoKarma)}
        BY <2>2, <3>4 DEF RowAfter
      <4>2. QED
        BY <2>3, <4>1
    <3>5. CASE e.kind = "TaskKarmaRecorded"
      <4>1. RowAfter(e, tx, q, old) = {[r EXCEPT !.tasks = e.count] : r \in Inserted(old, NoKarma)}
        BY <2>2, <3>5 DEF RowAfter
      <4>2. QED
        BY <2>3, <4>1
    <3>6. e.kind # "ProfileInitialized"
      BY DEF Queries
    <3>7. QED
      BY <2>1, <3>1, <3>2, <3>3, <3>4, <3>5, <3>6 DEF KindsOf
  <2>5. QED
    BY <1>5, <2>4 DEF RowLater, FullOnce
<1>6. QED
  BY <1>1, <1>2, <1>3, <1>4, <1>5 DEF TableNames, FullOnce, DomOnce

LEMMA QueryLater ==
  ASSUME NEW p \in Programs, NEW t, Tabled(t), NEW e, e.kind \in KindsOf[p], NEW tx,
         NEW q \in 1..Queries(e)
  PROVE  Later(t, Query(p, t, e, tx, q))
<1> DEFINE u == Query(p, t, e, tx, q)
<1>1. PICK m, x : Target(e, q) = <<m, x>>
  BY TargetOf
<1>2. m \in TableNames /\ m = Target(e, q)[1]
  BY <1>1, TargetOf
<1>3. OneRow(t, u, m, x, RowAfter(e, tx, q, RowIn(t[m], x)))
  BY <1>1, QueryRow DEF QueryIsRow, RowOf
<1> HIDE DEF u
<1>4. SUFFICES ASSUME NEW n \in TableNames \ {"pledges"}, NEW k
               PROVE  RowLater(n, RowIn(t[n], k), RowIn(u[n], k))
  BY DEF Later, u
<1>5. CASE n = m /\ k = x
  <2>1. RowIn(u[n], k) = RowAfter(e, tx, q, RowIn(t[n], k))
    BY <1>3, <1>5 DEF OneRow
  <2>2. QED
    BY <1>2, <1>5, <2>1, RowStep
<1>6. CASE n # m \/ k # x
  <2>1. RowIn(u[n], k) = RowIn(t[n], k)
    BY <1>2, <1>3, <1>6 DEF OneRow
  <2>2. QED
    BY <2>1, LaterRefl DEF Later, RowLater, TaskLater, RowIn
<1>7. QED
  BY <1>5, <1>6

------------------------------------------------------------------------------
(* What the programs emit *)

LEMMA EmitKinds ==
  ASSUME NEW p \in Programs, NEW t, NEW e \in Emits(p, t)
  PROVE  e.kind \in KindsOf[p]
<1>1. CASE p = "tid"
  BY <1>1 DEF Emits, TidEmits, KindsOf
<1>2. CASE p = "username"
  BY <1>2 DEF Emits, UsernameEmits, KindsOf
<1>3. CASE p = "social"
  BY <1>3 DEF Emits, SocialEmits, KindsOf
<1>4. CASE p = "tip"
  BY <1>4 DEF Emits, TipEmits, KindsOf
<1>5. CASE p = "crowdfund"
  <2> DEFINE InState(s) == {k \in DOMAIN t.funds : t.funds[k].status \in s}
             news(k, b) == IF <<k, b>> \in DOMAIN t.pledges THEN 0 ELSE 1
             A == {[kind |-> "CrowdfundCreated", pda |-> k] : k \in Pdas \ DOMAIN t.funds}
             B == {[kind |-> "CrowdfundPledged", pda |-> k, backer |-> b, amount |-> a,
                    total |-> t.funds[k].total + a, count |-> t.funds[k].count + news(k, b)] :
                     k \in InState({0}), b \in Tids, a \in Amounts}
             C == {[kind |-> "CrowdfundClaimed", pda |-> k] :
                     k \in {f \in InState({0}) : t.funds[f].total > 0}}
             D == {[kind |-> "CrowdfundRefunded", pda |-> x[1], backer |-> x[2],
                    amount |-> t.pledges[x].amount] :
                     x \in {d \in DOMAIN t.pledges : d[1] \in InState({0, 2})}}
  <2>1. Emits(p, t) = A \cup B \cup C \cup D
    <3>1. Emits(p, t) = CrowdfundEmits(t)
      BY <1>5 DEF Emits
    <3>2. CrowdfundEmits(t) = A \cup B \cup C \cup D
      BY DEF CrowdfundEmits
    <3>3. QED
      BY <3>1, <3>2
  <2>2. /\ \A d \in A : d.kind = "CrowdfundCreated"
        /\ \A d \in C : d.kind = "CrowdfundClaimed"
        /\ \A d \in D : d.kind = "CrowdfundRefunded"
    OBVIOUS
  <2>3. \A d \in B : d.kind = "CrowdfundPledged"
    <3> HIDE DEF InState, news
    <3>1. QED
      OBVIOUS
  <2> HIDE DEF A, B, C, D
  <2>4. QED
    BY <1>5, <2>1, <2>2, <2>3 DEF KindsOf
<1>6. CASE p = "task"
  BY <1>6 DEF Emits, TaskEmits, KindsOf
<1>7. CASE p = "channel"
  BY <1>7 DEF Emits, ChannelEmits, KindsOf
<1>8. CASE p = "karma"
  BY <1>8 DEF Emits, KarmaEmits, KindsOf
<1>9. CASE p = "poll"
  BY <1>9 DEF Emits, PollEmits, KindsOf
<1>10. CASE p = "event"
  BY <1>10 DEF Emits, EventEmits, KindsOf
<1>11. QED
  BY <1>1, <1>2, <1>3, <1>4, <1>5, <1>6, <1>7, <1>8, <1>9, <1>10 DEF Programs

\* A row that is inserted once is new when the program emits its event.
LEMMA EmitFresh ==
  ASSUME NEW p \in Programs, NEW t, Tabled(t), NEW e \in Emits(p, t), NEW q \in 1..Queries(e),
         NEW n \in FullOnce, NEW k, Target(e, q) = <<n, k>>
  PROVE  RowIn(t[n], k) = {}
<1>1. n \in TablesOf[p] /\ e.kind \in KindsOf[p]
  BY TargetOf, EmitKinds
<1>2. p \in {"tip", "karma", "poll", "event"}
  BY <1>1 DEF TablesOf, FullOnce, Programs
<1>3. CASE p = "tip"
  <2>1. e.kind = "TipSent"
    BY <1>1, <1>3 DEF KindsOf, Queries
  <2>2. Target(e, q) = <<"tips", e.pda>> /\ e.pda \notin DOMAIN t.tips
    BY <1>3, <2>1 DEF Target, KindsOf, Emits, TipEmits
  <2>3. QED
    BY <2>2 DEF RowIn
<1>4. CASE p = "karma"
  <2>1. e.kind \in {"TipKarmaRecorded", "TaskKarmaRecorded"} /\ q = 2
    <3>1. e.kind \in KindsOf.karma /\ q \in 1..2
      BY <1>1, <1>4 DEF KindsOf, Queries
    <3>2. e.kind = "KarmaAccountInitialized" \/ q = 1 => Target(e, q) = <<"karma", e.tid>>
      BY <3>1 DEF Target, KindsOf
    <3>3. QED
      BY <3>1, <3>2 DEF KindsOf, FullOnce
  <2>2. Target(e, q) = <<"proofs", e.source>> /\ e.source \notin DOMAIN t.proofs
    BY <1>4, <2>1 DEF Target, KindsOf, Emits, KarmaEmits
  <2>3. QED
    BY <2>2 DEF RowIn
<1>5. CASE p = "poll"
  <2>1. CASE e.kind = "PollCreated"
    <3>1. Target(e, q) = <<"polls", e.pda>> /\ e.pda \notin DOMAIN t.polls
      BY <1>5, <2>1 DEF Target, KindsOf, Emits, PollEmits
    <3>2. QED
      BY <3>1 DEF RowIn
  <2>2. CASE e.kind = "PollVoted"
    <3>1. Target(e, q) = <<"votes", <<e.pda, e.voter>>>>
      BY <2>2 DEF Target, KindsOf
    <3>2. PICK x \in ((DOMAIN t.polls) \X Tids) \ DOMAIN t.votes : e.pda = x[1] /\ e.voter = x[2]
      BY <1>5, <2>2 DEF Emits, PollEmits
    <3>3. <<e.pda, e.voter>> = x
      BY <3>2
    <3>4. QED
      BY <3>1, <3>2, <3>3 DEF RowIn
  <2>3. QED
    BY <1>1, <1>5, <2>1, <2>2 DEF KindsOf
<1>6. CASE p = "event"
  <2>1. e.kind = "EventCreated"
    <3>1. e.kind \in {"EventRsvped", "EventRsvpUpdated"}
            => Target(e, q) = <<"rsvps", <<e.pda, e.who>>>>
      BY DEF Target, KindsOf
    <3>2. QED
      BY <1>1, <1>6, <3>1 DEF KindsOf, FullOnce
  <2>2. Target(e, q) = <<"events", e.pda>> /\ e.pda \notin DOMAIN t.events
    BY <1>6, <2>1 DEF Target, KindsOf, Emits, EventEmits
  <2>3. QED
    BY <2>2 DEF RowIn
<1>7. QED
  BY <1>2, <1>3, <1>4, <1>5, <1>6

LEMMA TwoTargets ==
  ASSUME NEW p \in Programs, NEW e, e.kind \in KindsOf[p], Queries(e) = 2,
         NEW n, NEW k, Target(e, 1) = <<n, k>>, Target(e, 2) = <<n, k>>
  PROVE  n \notin FullOnce
<1>1. e.kind \in {"UsernameTransferred", "CrowdfundPledged", "CrowdfundRefunded",
                  "TipKarmaRecorded", "TaskKarmaRecorded"}
  BY DEF Queries
<1>2. CASE e.kind = "UsernameTransferred"
  BY <1>2 DEF Target, KindsOf, FullOnce
<1>3. CASE e.kind \in {"CrowdfundPledged", "CrowdfundRefunded"}
  <2>1. Target(e, 1) = <<"pledges", <<e.pda, e.backer>>>>
    BY <1>3 DEF Target, KindsOf
  <2>2. QED
    BY <2>1 DEF FullOnce
<1>4. CASE e.kind \in {"TipKarmaRecorded", "TaskKarmaRecorded"}
  <2>1. Target(e, 1) = <<"karma", e.tid>>
    BY <1>4 DEF Target, KindsOf
  <2>2. QED
    BY <2>1 DEF FullOnce
<1>5. QED
  BY <1>1, <1>2, <1>3, <1>4

\* A handler run alone, from its first query to its last
LEMMA HandledFacts ==
  ASSUME NEW p \in Programs, NEW t, Tabled(t), NEW e \in Emits(p, t), NEW tx
  PROVE  LET u == Handled(p, t, e, tx) IN
         /\ Tabled(u) /\ Later(t, u) /\ e.kind \in KindsOf[p]
         /\ \A q \in 1..Queries(e), n \in TableNames : \A k :
              Target(e, q) = <<n, k>> /\ Made(e, tx, q) # {} => Seen(u, n, k) = Made(e, tx, q)
         /\ \A n \in TableNames : \A k : Seen(u, n, k) # Seen(t, n, k) =>
              \E q \in 1..Queries(e) : Target(e, q) = <<n, k>> /\ Seen(u, n, k) = Made(e, tx, q)
<1> DEFINE u == Handled(p, t, e, tx)
           Q(q) == Query(p, t, e, tx, q)
<1>1. e.kind \in KindsOf[p]
  BY EmitKinds
<1>2. Queries(e) \in 0..2
  BY DEF Queries
<1>3. CASE Queries(e) = 0
  <2>1. u = t
    BY <1>3 DEF Handled
  <2>2. QED
    BY <1>1, <1>3, <2>1, LaterRefl
\* what a query makes was not there, or is the same
<1>4. ASSUME NEW q \in 1..Queries(e), NEW n \in TableNames, NEW k,
             Target(e, q) = <<n, k>>, Made(e, tx, q) # {}
      PROVE  Seen(t, n, k) = {} \/ Seen(t, n, k) = Made(e, tx, q)
  <2>1. CASE n \in FullOnce
    BY <1>4, <2>1, EmitFresh DEF Seen, Face
  <2>2. CASE n \notin FullOnce
    <3>1. Made(e, tx, q) = Face(n, RowAfter(e, tx, q, {}))
      BY <1>4 DEF Made
    <3>2. \A o : Face(n, o) \in {{}, {"row"}}
      BY <2>2 DEF Face
    <3> HIDE DEF Face
    <3>3. QED
      BY <1>4, <3>1, <3>2 DEF Seen
  <2>3. QED
    BY <2>1, <2>2
<1>5. CASE Queries(e) = 1
  <2>1. u = Q(1) /\ 1 \in 1..Queries(e)
    BY <1>5 DEF Handled
  <2>2. Tabled(u) /\ Later(t, u)
    BY <1>1, <2>1, QueryTabled, QueryLater
  <2>3. \A n \in TableNames : \A k : Seen(u, n, k) =
          IF Target(e, 1) = <<n, k>> /\ Seen(t, n, k) = {} THEN Made(e, tx, 1) ELSE Seen(t, n, k)
    BY <1>1, <2>1, QuerySeen
  <2> HIDE DEF u
  <2>4. QED
    BY <1>1, <1>4, <1>5, <2>1, <2>2, <2>3 DEF u
<1>6. CASE Queries(e) = 2
  <2> DEFINE v == Query(p, t, e, tx, 1)
  <2>1. u = Query(p, v, e, tx, 2) /\ 1 \in 1..Queries(e) /\ 2 \in 1..Queries(e)
    BY <1>6 DEF Handled
  <2>2. Tabled(v) /\ Later(t, v)
    BY <1>1, <2>1, QueryTabled, QueryLater
  <2>3. \A n \in TableNames : \A k : Seen(v, n, k) =
          IF Target(e, 1) = <<n, k>> /\ Seen(t, n, k) = {} THEN Made(e, tx, 1) ELSE Seen(t, n, k)
    BY <1>1, <2>1, QuerySeen
  <2> HIDE DEF v
  <2>4. Tabled(u) /\ Later(v, u)
    BY <1>1, <2>1, <2>2, QueryTabled, QueryLater
  <2>5. Later(t, u)
    BY <2>2, <2>4, LaterTrans
  <2>6. \A n \in TableNames : \A k : Seen(u, n, k) =
          IF Target(e, 2) = <<n, k>> /\ Seen(v, n, k) = {} THEN Made(e, tx, 2) ELSE Seen(v, n, k)
    BY <1>1, <2>1, <2>2, QuerySeen
  <2>7. \A n \in TableNames : \A k :
          Target(e, 1) = <<n, k>> /\ Target(e, 2) = <<n, k>> => n \notin FullOnce
    BY <1>1, <1>6, TwoTargets
  <2> HIDE DEF u
  <2>8. ASSUME NEW q \in 1..Queries(e), NEW n \in TableNames, NEW k,
               Target(e, q) = <<n, k>>, Made(e, tx, q) # {}
        PROVE  Seen(u, n, k) = Made(e, tx, q)
    <3>1. Seen(t, n, k) = {} \/ Seen(t, n, k) = Made(e, tx, q)
      BY <1>4, <2>8
    <3>2. q \in 1..2
      BY <1>6
    <3>3. CASE n \in FullOnce
      BY <2>3, <2>6, <2>7, <2>8, <3>1, <3>2, <3>3
    <3>4. CASE n \notin FullOnce
      <4>1. Made(e, tx, q) \in {{}, {"row"}} /\ \A w : Seen(w, n, k) \in {{}, {"row"}}
        <5>1. Made(e, tx, q) = Face(n, RowAfter(e, tx, q, {}))
          BY <2>8 DEF Made
        <5>2. \A o : Face(n, o) \in {{}, {"row"}}
          BY <3>4 DEF Face
        <5> HIDE DEF Face
        <5>3. QED
          BY <5>1, <5>2 DEF Seen
      <4>2. Seen(u, n, k) # {}
        BY <2>3, <2>6, <2>8, <3>2
      <4>3. QED
        BY <2>8, <4>1, <4>2
    <3>5. QED
      BY <3>3, <3>4
  <2>9. ASSUME NEW n \in TableNames, NEW k, Seen(u, n, k) # Seen(t, n, k)
        PROVE  \E q \in 1..Queries(e) : Target(e, q) = <<n, k>> /\ Seen(u, n, k) = Made(e, tx, q)
    BY <2>1, <2>3, <2>6, <2>9
  <2>10. QED
    BY <1>1, <2>4, <2>5, <2>8, <2>9 DEF u
<1>7. QED
  BY <1>2, <1>3, <1>5, <1>6

------------------------------------------------------------------------------
(* The chain *)

\* r is what the chain keeps of transaction x.
IsTx(x, r) ==
  /\ Len(r.events) \in 0..2 /\ DOMAIN r.events = 1..Len(r.events)
  /\ Len(r.states) = Len(r.events) + 1 /\ DOMAIN r.states = 1..(Len(r.events) + 1)
  /\ r.ok \/ r.events = <<>>
  /\ \A i \in DOMAIN r.states : Tabled(r.states[i])
  /\ \A i \in DOMAIN r.events : /\ r.events[i] \in Emits(r.prog, r.states[i])
                                /\ r.states[i + 1] = Handled(r.prog, r.states[i], r.events[i], x)

AllMoments == UNION {{x} \X DOMAIN chain[x].states : x \in DOMAIN chain}

ChainTables ==
  /\ Tabled(accounts)
  /\ \A x \in DOMAIN chain : IsTx(x, chain[x])
  /\ \A m \in AllMoments : Later(At(m), accounts)
  /\ \A m, n \in AllMoments : Earlier(m, n) => Later(At(m), At(n))

LEMMA TxShape ==
  ASSUME NEW x, NEW r, IsTx(x, r)
  PROVE  /\ Len(r.events) \in 0..2 /\ DOMAIN r.events = 1..Len(r.events)
         /\ Len(r.states) = Len(r.events) + 1 /\ DOMAIN r.states = 1..Len(r.states)
         /\ Len(r.states) \in 1..3 /\ 1 \in DOMAIN r.states /\ Len(r.states) \in DOMAIN r.states
         /\ \A i \in DOMAIN r.states : i \in 1..3 /\ i \in Nat /\ i <= Len(r.states) /\ 1 <= i
         /\ \A i \in DOMAIN r.events : i \in DOMAIN r.states /\ i + 1 \in DOMAIN r.states
<1>1. /\ Len(r.events) \in 0..2 /\ DOMAIN r.events = 1..Len(r.events)
      /\ Len(r.states) = Len(r.events) + 1 /\ DOMAIN r.states = 1..(Len(r.events) + 1)
  BY DEF IsTx
<1> DEFINE a == Len(r.events)
           b == Len(r.states)
           D == DOMAIN r.events
           E == DOMAIN r.states
<1>2. a \in 0..2 /\ D = 1..a /\ b = a + 1 /\ E = 1..(a + 1)
  BY <1>1
<1> HIDE DEF a, b, D, E
<1>3. b \in 1..3 /\ E = 1..b
  BY <1>2
<1>4. /\ 1 \in E /\ b \in E
      /\ \A i \in E : i \in 1..3 /\ i \in Nat /\ i <= b /\ 1 <= i
      /\ \A i \in D : i \in E /\ i + 1 \in E
  BY <1>2, <1>3
<1>5. QED
  BY <1>2, <1>3, <1>4 DEF a, b, D, E

LEMMA TxLater ==
  ASSUME NEW x, NEW r, IsTx(x, r), r.prog \in Programs,
         NEW i \in DOMAIN r.states, NEW j \in DOMAIN r.states, i <= j
  PROVE  Later(r.states[i], r.states[j])
<1>1. \A k \in DOMAIN r.events : Later(r.states[k], r.states[k + 1])
  <2> TAKE k \in DOMAIN r.events
  <2>1. Tabled(r.states[k]) /\ r.events[k] \in Emits(r.prog, r.states[k])
        /\ r.states[k + 1] = Handled(r.prog, r.states[k], r.events[k], x)
    BY DEF IsTx
  <2>2. QED
    BY <2>1, HandledFacts
<1>2. i \in 1..3 /\ j \in 1..3 /\ i \in Nat /\ j \in Nat
      /\ DOMAIN r.events = 1..Len(r.events) /\ Len(r.events) \in 0..2 /\ j <= Len(r.events) + 1
  BY TxShape
<1>3. CASE i = j
  BY <1>3, LaterRefl
<1>4. CASE j = i + 1
  BY <1>1, <1>2, <1>4
<1>5. CASE i = 1 /\ j = 3
  <2>1. Later(r.states[1], r.states[2]) /\ Later(r.states[2], r.states[3])
    <3>1. 1 \in DOMAIN r.events /\ 2 \in DOMAIN r.events
      BY <1>2, <1>5
    <3>2. QED
      BY <1>1, <3>1
  <2>2. QED
    BY <1>5, <2>1, LaterTrans
<1>6. QED
  BY <1>2, <1>3, <1>4, <1>5

\* Confirm writes one more transaction, whose events lead from the accounts as
\* they were to the accounts as they are.
LEMMA ConfirmTx ==
  ASSUME Shape, Tabled(accounts), NEW p \in Programs, Confirm(p)
  PROVE  LET r == chain'[Len(chain) + 1] IN
         /\ IsTx(Len(chain) + 1, r) /\ r.states[1] = accounts
         /\ accounts' = r.states[Len(r.states)] /\ Tabled(accounts')
<1> DEFINE x == Len(chain) + 1
           r == chain'[x]
<1>1. /\ Len(chain) \in Nat /\ DOMAIN chain = 1..Len(chain)
      /\ chain \in Seq({chain[i] : i \in DOMAIN chain})
  BY ChainFacts DEF Shape
<1>2. \A t : chain' = Append(chain, t) => r = t
  BY <1>1
<1> DEFINE Rec(ok, slot, events, states) ==
      [prog |-> p, slot |-> slot, ok |-> ok, events |-> events, states |-> states]
<1>3. PICK ok \in Outcomes, slot \in {LastSlot, LastSlot + 1} \ {0}, two \in BOOLEAN :
        IF ~ok THEN /\ chain' = Append(chain, Rec(ok, slot, <<>>, <<accounts>>))
                    /\ accounts' = <<accounts>>[Len(<<accounts>>)]
        ELSE \E e \in Emits(p, accounts) :
               LET mid == Handled(p, accounts, e, x) IN
               IF two THEN \E f \in Emits(p, mid) :
                      LET states == <<accounts, mid, Handled(p, mid, f, x)>> IN
                      /\ chain' = Append(chain, Rec(ok, slot, <<e, f>>, states))
                      /\ accounts' = states[Len(states)]
               ELSE /\ chain' = Append(chain, Rec(ok, slot, <<e>>, <<accounts, mid>>))
                    /\ accounts' = <<accounts, mid>>[Len(<<accounts, mid>>)]
  BY Zenon DEF Confirm
<1>4. CASE ~ok
  <2>1. r = Rec(ok, slot, <<>>, <<accounts>>) /\ accounts' = accounts
    BY <1>2, <1>3, <1>4
  <2> HIDE DEF r
  <2>2. QED
    BY <2>1 DEF IsTx, r
<1>5. CASE ok
  <2>1. PICK e \in Emits(p, accounts) :
               LET mid == Handled(p, accounts, e, x) IN
               IF two THEN \E f \in Emits(p, mid) :
                      LET states == <<accounts, mid, Handled(p, mid, f, x)>> IN
                      /\ chain' = Append(chain, Rec(ok, slot, <<e, f>>, states))
                      /\ accounts' = states[Len(states)]
               ELSE /\ chain' = Append(chain, Rec(ok, slot, <<e>>, <<accounts, mid>>))
                    /\ accounts' = <<accounts, mid>>[Len(<<accounts, mid>>)]
    BY <1>3, <1>5
  <2> DEFINE mid == Handled(p, accounts, e, x)
  <2>2. Tabled(mid)
    BY HandledFacts
  <2>3. CASE ~two
    <3>1. r = Rec(ok, slot, <<e>>, <<accounts, mid>>) /\ accounts' = mid
      BY <1>2, <2>1, <2>3
    <3>2. DOMAIN r.states = 1..2 /\ DOMAIN r.events = 1..1 /\ Len(r.states) = 2 /\ Len(r.events) = 1
          /\ r.states[1] = accounts /\ r.states[2] = mid /\ r.events[1] = e /\ r.prog = p /\ r.ok = ok
      BY <3>1
    <3> HIDE DEF r, mid
    <3>3. IsTx(x, r)
      <4>1. \A i \in DOMAIN r.states : i = 1 \/ i = 2
        BY <3>2
      <4>2. \A i \in DOMAIN r.events : i = 1
        BY <3>2
      <4>3. QED
        BY <1>5, <2>2, <3>2, <4>1, <4>2 DEF IsTx, mid
    <3>4. QED
      BY <1>5, <2>2, <3>1, <3>2, <3>3 DEF r
  <2>4. CASE two
    <3>1. PICK f \in Emits(p, mid) :
            /\ chain' = Append(chain, Rec(ok, slot, <<e, f>>,
                                          <<accounts, mid, Handled(p, mid, f, x)>>))
            /\ accounts' = Handled(p, mid, f, x)
      BY <2>1, <2>4
    <3> DEFINE end == Handled(p, mid, f, x)
    <3>2. r = Rec(ok, slot, <<e, f>>, <<accounts, mid, end>>) /\ accounts' = end
      BY <1>2, <3>1
    <3>3. DOMAIN r.states = 1..3 /\ DOMAIN r.events = 1..2 /\ Len(r.states) = 3 /\ Len(r.events) = 2
          /\ r.states[1] = accounts /\ r.states[2] = mid /\ r.states[3] = end
          /\ r.events[1] = e /\ r.events[2] = f /\ r.prog = p /\ r.ok = ok
      BY <3>2
    <3> HIDE DEF r, mid
    <3>4. Tabled(end)
      BY <2>2, HandledFacts
    <3>5. IsTx(x, r)
      <4>1. \A i \in DOMAIN r.states : i = 1 \/ i = 2 \/ i = 3
        BY <3>3
      <4>2. \A i \in DOMAIN r.events : i = 1 \/ i = 2
        BY <3>3
      <4>3. QED
        BY <1>5, <2>2, <3>3, <3>4, <4>1, <4>2 DEF IsTx, mid
    <3>6. QED
      BY <1>5, <3>2, <3>3, <3>4, <3>5 DEF r
  <2>5. QED
    BY <2>3, <2>4
<1>6. QED
  BY <1>4, <1>5

LEMMA TabledInit == Tabled(NoRows) /\ Tabled(Registered)
<1>1. Tabled(NoRows)
  BY DEF Tabled, NoRows, TableNames, Empty, IsTidRow, IsKarmaRow, IsTaskRow
<1>2. Tabled(Registered)
  BY DEF Tabled, Registered, NoRows, TableNames, Empty, IsTidRow, IsKarmaRow, IsTaskRow
<1>3. QED
  BY <1>1, <1>2

LEMMA MomentFacts ==
  ASSUME Shape, ChainTables, NEW m \in AllMoments
  PROVE  /\ m = <<m[1], m[2]>> /\ m[1] \in DOMAIN chain /\ m[2] \in DOMAIN chain[m[1]].states
         /\ m[1] \in 1..Len(chain) /\ m[2] \in 1..3 /\ Tabled(At(m))
<1>1. m = <<m[1], m[2]>> /\ m[1] \in DOMAIN chain /\ m[2] \in DOMAIN chain[m[1]].states
  BY DEF AllMoments
<1>2. IsTx(m[1], chain[m[1]])
  BY <1>1 DEF ChainTables
<1>3. m[2] \in 1..3
  BY <1>1, <1>2, TxShape
<1>4. Tabled(chain[m[1]].states[m[2]])
  BY <1>1, <1>2 DEF IsTx
<1>5. QED
  BY <1>1, <1>3, <1>4, ChainFacts DEF At, Shape

LEMMA ChainTablesInit == Init => ChainTables
  BY TabledInit DEF Init, ChainTables, AllMoments

LEMMA ChainTablesConfirm ==
  ASSUME Shape, ChainTables, NEW p \in Programs, Confirm(p)
  PROVE  ChainTables'
<1> DEFINE x == Len(chain) + 1
           r == chain'[x]
           News == {x} \X DOMAIN r.states
<1>1. /\ Len(chain) \in Nat /\ DOMAIN chain = 1..Len(chain) /\ DOMAIN chain' = 1..x
      /\ \A i \in DOMAIN chain : chain'[i] = chain[i]
      /\ r.prog = p
  BY ConfirmAdds, ChainFacts DEF Shape
<1>2. /\ IsTx(x, r) /\ r.states[1] = accounts
      /\ accounts' = r.states[Len(r.states)] /\ Tabled(accounts')
  BY ConfirmTx DEF ChainTables
<1> HIDE DEF r
<1>3. AllMoments' = AllMoments \cup News
  <2>1. DOMAIN chain' = DOMAIN chain \cup {x} /\ x \notin DOMAIN chain
    BY <1>1
  <2>2. QED
    BY <1>1, <2>1 DEF AllMoments, r
<1>4. /\ \A m \in AllMoments : At(m)' = At(m) /\ m[1] < x
      /\ \A m \in News : At(m)' = r.states[m[2]] /\ m[1] = x /\ m[2] \in DOMAIN r.states
  BY <1>1, MomentFacts DEF At, r
<1>5. \A x1 \in DOMAIN chain' : IsTx(x1, chain'[x1])
  <2>1. \A x1 \in DOMAIN chain' : x1 \in DOMAIN chain \/ x1 = x
    BY <1>1
  <2>2. QED
    BY <1>1, <1>2, <2>1 DEF ChainTables, r
<1>6. 1 \in DOMAIN r.states /\ Len(r.states) \in DOMAIN r.states /\ DOMAIN r.states \subseteq 1..3
      /\ \A i \in DOMAIN r.states : 1 <= i /\ i <= Len(r.states)
  BY <1>2, TxShape
<1>7. \A i, j \in DOMAIN r.states : i <= j => Later(r.states[i], r.states[j])
  BY <1>1, <1>2, TxLater
<1>8. ASSUME NEW m \in AllMoments, NEW i \in DOMAIN r.states PROVE Later(At(m), r.states[i])
  <2>1. Later(At(m), r.states[1]) /\ Later(r.states[1], r.states[i])
    BY <1>2, <1>6, <1>7 DEF ChainTables
  <2>2. QED
    BY <2>1, LaterTrans
<1>9. \A m \in AllMoments' : Later(At(m)', accounts')
  <2>1. \A m \in AllMoments : Later(At(m)', accounts')
    BY <1>2, <1>4, <1>6, <1>8
  <2>2. \A m \in News : Later(At(m)', accounts')
    BY <1>2, <1>4, <1>6, <1>7
  <2>3. QED
    BY <1>3, <2>1, <2>2
<1>10. ASSUME NEW m \in AllMoments', NEW n \in AllMoments', Earlier(m, n) PROVE Later(At(m)', At(n)')
  <2>1. CASE m \in AllMoments /\ n \in AllMoments
    BY <1>4, <1>10, <2>1 DEF ChainTables
  <2>2. CASE m \in AllMoments /\ n \in News
    BY <1>4, <1>8, <2>2
  <2>3. CASE m \in News /\ n \in News
    <3>1. m[2] <= n[2]
      BY <1>4, <1>6, <1>10, <2>3 DEF Earlier
    <3>2. QED
      BY <1>4, <1>7, <2>3, <3>1
  <2>4. CASE m \in News /\ n \in AllMoments
    <3>1. m[1] = x /\ n[1] \in Nat /\ n[1] < x
      BY <1>1, <1>4, <2>4, MomentFacts
    <3>2. QED
      BY <1>1, <1>10, <3>1 DEF Earlier
  <2>5. QED
    BY <1>3, <2>1, <2>2, <2>3, <2>4
<1>11. QED
  BY <1>2, <1>5, <1>9, <1>10 DEF ChainTables

------------------------------------------------------------------------------
(* OnceTablesExact *)

\* The tables before the first transaction
Origin == IF "tid" \in followed THEN NoRows ELSE Registered

EventAt(x, i) == chain[x].events[i]

\* The i-th event of x, by its q-th query, makes what t has in the row it writes.
Makes(x, i, q, t) ==
  \A n \in TableNames : \A k :
    Target(EventAt(x, i), q) = <<n, k>> /\ Made(EventAt(x, i), x, q) # {}
      => Seen(t, n, k) = Made(EventAt(x, i), x, q)

\* s has nothing that t does not have
Within(s, t) == \A n \in TableNames : \A k : Seen(s, n, k) # {} => Seen(t, n, k) = Seen(s, n, k)

\* A row that was not there at first was made by a query.
Sources ==
  \A n \in TableNames : \A k : Seen(accounts, n, k) # {} =>
    \/ Seen(Origin, n, k) = Seen(accounts, n, k)
    \/ \E x \in DOMAIN chain : \E i \in DOMAIN chain[x].events :
         \E q \in 1..Queries(EventAt(x, i)) :
           /\ Target(EventAt(x, i), q) = <<n, k>>
           /\ Seen(accounts, n, k) = Made(EventAt(x, i), x, q)

\* What has been handled is in the tables.
Handles ==
  /\ \A x \in done : \A i \in DOMAIN chain[x].events :
       \A q \in 1..Queries(EventAt(x, i)) : Makes(x, i, q, db)
  /\ \A j \in jobs : \A i \in DOMAIN chain[j.tx].events :
       \A q \in 1..Queries(EventAt(j.tx, i)) :
         i < j.ev \/ (i = j.ev /\ q < j.q) => Makes(j.tx, i, q, db)

Once ==
  /\ ChainTables /\ Tabled(db) /\ Sources
  /\ Within(db, accounts) /\ Within(Origin, db)
  /\ errors = 0 => Handles

\* The accounts keep what an event made.
LEMMA MakesAccounts ==
  ASSUME Shape, ChainTables, NEW x \in DOMAIN chain, NEW i \in DOMAIN chain[x].events,
         NEW q \in 1..Queries(EventAt(x, i))
  PROVE  Makes(x, i, q, accounts)
<1> DEFINE r == chain[x]
           e == r.events[i]
<1>1. IsTx(x, r) /\ r.prog \in Programs
  BY DEF ChainTables, Shape, Chains
<1>2. i + 1 \in DOMAIN r.states /\ i \in DOMAIN r.states
  BY <1>1, TxShape
<1>3. Tabled(r.states[i]) /\ e \in Emits(r.prog, r.states[i])
      /\ r.states[i + 1] = Handled(r.prog, r.states[i], e, x)
  BY <1>1, <1>2 DEF IsTx
<1>4. Later(r.states[i + 1], accounts)
  <2>1. <<x, i + 1>> \in AllMoments
    BY <1>2 DEF AllMoments
  <2>2. QED
    BY <2>1 DEF ChainTables, At
<1> SUFFICES ASSUME NEW n \in TableNames, NEW k, Target(e, q) = <<n, k>>, Made(e, x, q) # {}
             PROVE  Seen(accounts, n, k) = Made(e, x, q)
  BY DEF Makes, EventAt
<1>5. q \in 1..Queries(e)
  BY DEF EventAt
<1>6. Seen(r.states[i + 1], n, k) = Made(e, x, q)
  BY <1>1, <1>3, <1>5, HandledFacts
<1>7. QED
  BY <1>4, <1>6, LaterSeen

LEMMA WithinTrans ==
  ASSUME NEW s, NEW t, NEW u, Within(s, t), Within(t, u)
  PROVE  Within(s, u)
  BY DEF Within

LEMMA LaterWithin ==
  ASSUME NEW s, NEW t, Later(s, t)
  PROVE  Within(s, t)
  BY LaterSeen DEF Within

\* More rows keep what was made.
LEMMA MakesWithin ==
  ASSUME NEW s, NEW t, Within(s, t), NEW x, NEW i, NEW q, Makes(x, i, q, s)
  PROVE  Makes(x, i, q, t)
  BY DEF Makes, Within

LEMMA OnceInit == Init => Once
<1> SUFFICES ASSUME Init PROVE Once
  OBVIOUS
<1>1. ChainTables
  BY ChainTablesInit
<1>2. accounts = Origin /\ db = accounts /\ jobs = {} /\ done = {}
  BY DEF Init, Origin
<1>3. QED
  BY <1>1, <1>2 DEF Once, ChainTables, Sources, Within, Handles

LEMMA OnceConfirm ==
  ASSUME Shape, Once, NEW p \in Programs, Confirm(p)
  PROVE  Once'
<1> DEFINE x == Len(chain) + 1
           r == chain'[x]
<1>1. /\ Len(chain) \in Nat /\ DOMAIN chain = 1..Len(chain) /\ DOMAIN chain' = 1..x
      /\ \A i \in DOMAIN chain : chain'[i] = chain[i]
      /\ r.prog = p /\ UNCHANGED <<followed, db, jobs, done, errors>>
  BY ConfirmAdds, ChainFacts DEF Shape, Confirm, faults
<1>2. /\ IsTx(x, r) /\ r.states[1] = accounts
      /\ accounts' = r.states[Len(r.states)] /\ Tabled(accounts')
  BY ConfirmTx DEF Once, ChainTables
<1>3. ChainTables'
  BY ChainTablesConfirm DEF Once
<1>4. \A y \in DOMAIN chain : y \in DOMAIN chain' /\ \A i : EventAt(y, i)' = EventAt(y, i)
  BY <1>1 DEF EventAt
<1>5. \A y \in DOMAIN chain : \A i, q : Makes(y, i, q, db) => Makes(y, i, q, db)'
  BY <1>1, <1>4 DEF Makes
<1>6. Later(accounts, accounts')
  BY <1>1, <1>2, TxLater, TxShape
<1>7. Within(accounts, accounts')
  BY <1>6, LaterWithin
<1>8. Within(db', accounts') /\ Within(Origin', db') /\ Tabled(db')
  BY <1>1, <1>7, WithinTrans DEF Once, Origin
<1>9. (errors = 0 => Handles)'
  <2>1. \A y \in done : y \in DOMAIN chain
    BY DEF Shape, History
  <2>2. \A j \in jobs : j.tx \in DOMAIN chain
    BY JobFacts
  <2>3. \A y \in DOMAIN chain : chain'[y] = chain[y]
    BY <1>1
  <2>4. QED
    BY <1>1, <1>4, <1>5, <2>1, <2>2, <2>3 DEF Once, Handles
<1> DEFINE Source(t, ch, n, k) ==
      \E y \in DOMAIN ch : \E i \in DOMAIN ch[y].events :
        \E q \in 1..Queries(ch[y].events[i]) :
           /\ Target(ch[y].events[i], q) = <<n, k>>
           /\ Seen(t, n, k) = Made(ch[y].events[i], y, q)
<1>10. ASSUME NEW i \in DOMAIN r.events, NEW n \in TableNames, NEW k,
              Seen(r.states[i + 1], n, k) # Seen(r.states[i], n, k)
       PROVE  \E q \in 1..Queries(r.events[i]) :
                 /\ Target(r.events[i], q) = <<n, k>>
                 /\ Seen(r.states[i + 1], n, k) = Made(r.events[i], x, q)
  <2>1. /\ i \in DOMAIN r.states /\ Tabled(r.states[i])
        /\ r.events[i] \in Emits(r.prog, r.states[i])
        /\ r.states[i + 1] = Handled(r.prog, r.states[i], r.events[i], x)
    BY <1>2, TxShape DEF IsTx
  <2>2. QED
    BY <1>1, <1>10, <2>1, HandledFacts
<1>11. ASSUME NEW n \in TableNames, NEW k, NEW i \in DOMAIN r.states, Seen(accounts', n, k) # {}
       PROVE  Seen(r.states[i], n, k) = {} \/ Seen(r.states[i], n, k) = Seen(accounts', n, k)
  BY <1>1, <1>2, TxLater, TxShape, LaterSeen
<1>12. ASSUME NEW n \in TableNames, NEW k, Seen(accounts', n, k) # {},
              ~Source(accounts', chain', n, k)
       PROVE  Seen(accounts, n, k) = Seen(accounts', n, k)
  <2>1. ASSUME NEW i \in DOMAIN r.events,
               Seen(r.states[i + 1], n, k) = Seen(accounts', n, k)
        PROVE  Seen(r.states[i], n, k) = Seen(accounts', n, k)
    <3>1. x \in DOMAIN chain'
      BY <1>1
    <3>2. ASSUME NEW q \in 1..Queries(r.events[i]), Target(r.events[i], q) = <<n, k>>,
                 Seen(r.states[i + 1], n, k) = Made(r.events[i], x, q)
          PROVE  FALSE
      <4>1. Seen(accounts', n, k) = Made(r.events[i], x, q)
        BY <2>1, <3>2
      <4>2. Source(accounts', chain', n, k)
        BY <3>1, <3>2, <4>1
      <4>3. QED
        BY <1>12, <4>2
    <3>3. Seen(r.states[i + 1], n, k) = Seen(r.states[i], n, k)
      BY <1>10, <3>2
    <3>4. QED
      BY <2>1, <3>3
  <2>2. Len(r.states) \in 1..3 /\ DOMAIN r.events = 1..(Len(r.states) - 1)
    BY <1>2, TxShape
  <2>3. CASE Len(r.states) = 1
    BY <1>2, <2>3
  <2>4. CASE Len(r.states) = 2
    <3>1. 1 \in DOMAIN r.events
      BY <2>2, <2>4
    <3>2. QED
      BY <1>2, <2>1, <2>4, <3>1
  <2>5. CASE Len(r.states) = 3
    <3>1. 1 \in DOMAIN r.events /\ 2 \in DOMAIN r.events
      BY <2>2, <2>5
    <3>2. Seen(r.states[2], n, k) = Seen(accounts', n, k)
      BY <1>2, <2>1, <2>5, <3>1
    <3>3. QED
      BY <1>2, <2>1, <2>5, <3>1, <3>2
  <2>6. QED
    BY <2>2, <2>3, <2>4, <2>5
<1>13. Sources'
  <2>1. ASSUME NEW n \in TableNames, NEW k, Seen(accounts', n, k) # {},
               Seen(accounts, n, k) = Seen(accounts', n, k)
        PROVE  Seen(Origin, n, k) = Seen(accounts', n, k) \/ Source(accounts', chain', n, k)
    <3>1. Seen(Origin, n, k) = Seen(accounts', n, k) \/ Source(accounts', chain, n, k)
      BY <2>1 DEF Once, Sources, EventAt
    <3>2. Source(accounts', chain, n, k) => Source(accounts', chain', n, k)
      BY <1>4, <1>1
    <3>3. QED
      BY <3>1, <3>2
  <2>2. \A n \in TableNames : \A k : Seen(accounts', n, k) # {} =>
          Seen(Origin, n, k) = Seen(accounts', n, k) \/ Source(accounts', chain', n, k)
    BY <1>12, <2>1
  <2>3. Origin' = Origin
    BY <1>1 DEF Origin
  <2>4. QED
    BY <2>2, <2>3 DEF Sources, EventAt
<1>14. QED
  BY <1>3, <1>8, <1>9, <1>13 DEF Once

LEMMA JobEvent ==
  ASSUME Shape, ChainTables, NEW j \in jobs, ~AtCursor(j)
  PROVE  LET r == chain[j.tx] IN
         /\ j.tx \in DOMAIN chain /\ IsTx(j.tx, r) /\ r.prog \in Programs /\ j.ev \in DOMAIN r.events
         /\ EventOf(j) = EventAt(j.tx, j.ev) /\ EventOf(j) \in Emits(r.prog, r.states[j.ev])
         /\ EventOf(j).kind \in KindsOf[r.prog] /\ Tabled(r.states[j.ev])
         /\ r.states[j.ev + 1] = Handled(r.prog, r.states[j.ev], EventOf(j), j.tx)
<1>1. j.tx \in DOMAIN chain /\ j.ev \in Nat \ {0} /\ chain[j.tx].prog \in Programs
      /\ IsTx(j.tx, chain[j.tx])
  BY JobFacts DEF ChainTables
<1>2. j.ev \in DOMAIN chain[j.tx].events
  <2>1. Len(chain[j.tx].events) \in Nat /\ DOMAIN chain[j.tx].events = 1..Len(chain[j.tx].events)
    BY <1>1, TxShape
  <2>2. QED
    BY <1>1, <2>1 DEF AtCursor
<1>3. j.ev \in DOMAIN chain[j.tx].states
  BY <1>1, <1>2, TxShape
<1>4. QED
  BY <1>1, <1>2, <1>3, EmitKinds DEF IsTx, EventOf, EventAt

\* The fields of a job's continuations
LEMMA JobFields ==
  ASSUME NEW j \in JobType
  PROVE  /\ NextEvent(j).tx = j.tx /\ NextEvent(j).ev = j.ev + 1 /\ NextEvent(j).q = 1
         /\ NextEvent(j).owner = j.owner
         /\ LET k == [j EXCEPT !.q = @ + 1] IN
            k.tx = j.tx /\ k.ev = j.ev /\ k.q = j.q + 1 /\ k.owner = j.owner
  BY DEF NextEvent, JobType

LEMMA OnceFrame ==
  ASSUME Shape, Shape', Once, UNCHANGED <<chainVars, db, done>>, errors' = errors \/ errors' = errors + 1,
         \A j \in jobs' : j \in jobs \/ (j.ev = 1 /\ j.q = 1) \/ errors' = errors + 1
  PROVE  Once'
<1>1. UNCHANGED <<followed, chain, accounts, db, done>> /\ errors \in Nat
  BY DEF chainVars, Shape, History
<1>2. /\ \A n, k : Seen(accounts, n, k)' = Seen(accounts, n, k)
      /\ \A x, i : EventAt(x, i)' = EventAt(x, i) /\ Origin' = Origin
  BY <1>1 DEF Seen, EventAt, Origin
<1>3. ChainTables' /\ Sources' /\ Tabled(db') /\ Within(db', accounts') /\ Within(Origin', db')
  BY <1>1, <1>2 DEF Once, ChainTables, Sources, AllMoments, At, EventAt
<1>4. ASSUME errors' = 0 PROVE Handles'
  <2>1. \A j \in jobs' : j \in jobs \/ (j.ev = 1 /\ j.q = 1)
    BY <1>1, <1>4
  <2>2. Handles
    BY <1>1, <1>4 DEF Once
  <2>3. \A x, i, q : Makes(x, i, q, db) => Makes(x, i, q, db)'
    BY <1>1, <1>2 DEF Makes
  <2>4. \A x \in done' : \A i \in DOMAIN chain[x].events :
           \A q \in 1..Queries(EventAt(x, i)) : Makes(x, i, q, db)'
    BY <1>1, <2>2, <2>3 DEF Handles
  <2>5. ASSUME NEW j \in jobs', NEW i \in DOMAIN chain[j.tx].events,
               NEW q \in 1..Queries(EventAt(j.tx, i)), i < j.ev \/ (i = j.ev /\ q < j.q)
        PROVE  Makes(j.tx, i, q, db)'
    <3>1. CASE j \in jobs
      BY <2>2, <2>3, <2>5, <3>1 DEF Handles
    <3>2. CASE j \notin jobs
      <4>1. j.tx \in DOMAIN chain /\ j.ev = 1 /\ j.q = 1
        BY <1>1, <2>1, <3>2 DEF Shape, Jobs, GoodJob
      <4>2. i \in Nat \ {0} /\ q \in Nat \ {0}
        <5>1. IsTx(j.tx, chain[j.tx])
          BY <4>1 DEF Once, ChainTables
        <5>2. Queries(EventAt(j.tx, i)) \in Nat
          BY DEF Queries
        <5>3. QED
          BY <5>1, <5>2, TxShape
      <4>3. QED
        BY <2>5, <4>1, <4>2
    <3>3. QED
      BY <3>1, <3>2
  <2>6. QED
    BY <1>1, <1>2, <2>4, <2>5 DEF Handles
<1>5. QED
  BY <1>3, <1>4 DEF Once

LEMMA OnceRunQuery ==
  ASSUME Shape, Once, NEW j \in jobs, RunQuery(j)
  PROVE  Once'
<1> DEFINE x == j.tx
           p == chain[x].prog
           e == EventOf(j)
<1>1. /\ x \in DOMAIN chain /\ p \in Programs /\ j.ev \in DOMAIN chain[x].events
      /\ e = EventAt(x, j.ev) /\ e.kind \in KindsOf[p]
      /\ j \in JobType /\ j.q \in Nat \ {0} /\ j.ev \in Nat
  BY JobEvent, JobFacts DEF Once, RunQuery
<1>2. UNCHANGED <<chainVars, done, errors, followed, chain, accounts>>
  BY DEF RunQuery, chainVars, faults
<1>3. Queries(e) \in 0..2
  BY DEF Queries
<1>4. ChainTables' /\ Sources' /\ Origin' = Origin
  <2>1. /\ \A n, k : Seen(accounts, n, k)' = Seen(accounts, n, k)
        /\ \A y, i : EventAt(y, i)' = EventAt(y, i) /\ Origin' = Origin
    BY <1>2 DEF Seen, EventAt, Origin
  <2>2. QED
    BY <1>2, <2>1 DEF Once, ChainTables, Sources, AllMoments, At, EventAt
<1>5. \E k : /\ Becomes(j, k)
             /\ \/ k = NextEvent(j) /\ j.q >= Queries(e)
                \/ k = [j EXCEPT !.q = @ + 1]
             /\ \/ db' = db /\ j.q > Queries(e)
                \/ j.q \in 1..Queries(e) /\ db' = Query(p, db, e, x, j.q)
  BY <1>1, <1>3 DEF RunQuery
<1>6. PICK k : /\ Becomes(j, k)
               /\ \/ k = NextEvent(j) /\ j.q >= Queries(e)
                  \/ k = [j EXCEPT !.q = @ + 1]
               /\ \/ db' = db /\ j.q > Queries(e)
                  \/ j.q \in 1..Queries(e) /\ db' = Query(p, db, e, x, j.q)
  BY <1>5
<1>7. Tabled(db') /\ Within(db, db') /\ Within(db', accounts)
  <2>1. CASE db' = db
    BY <2>1 DEF Once, Within
  <2>2. CASE j.q \in 1..Queries(e) /\ db' = Query(p, db, e, x, j.q)
    <3>1. Tabled(db') /\ Later(db, db')
      BY <1>1, <2>2, QueryTabled, QueryLater DEF Once
    <3>2. ASSUME NEW n \in TableNames, NEW y, Seen(db', n, y) # {}
          PROVE  Seen(accounts, n, y) = Seen(db', n, y)
      <4>1. Seen(db', n, y) = IF Target(e, j.q) = <<n, y>> /\ Seen(db, n, y) = {}
                              THEN Made(e, x, j.q) ELSE Seen(db, n, y)
        BY <1>1, <2>2, QuerySeen DEF Once
      <4>2. Makes(x, j.ev, j.q, accounts)
        BY <1>1, <2>2, MakesAccounts DEF Once
      <4>3. QED
        BY <1>1, <3>2, <4>1, <4>2 DEF Makes, Once, Within
    <3>3. QED
      BY <3>1, <3>2, LaterWithin DEF Within
  <2>3. QED
    BY <1>6, <2>1, <2>2
<1>8. Within(Origin, db')
  BY <1>7, WithinTrans DEF Once
<1>9. ASSUME errors = 0 PROVE Handles'
  <2>1. Handles
    BY <1>9 DEF Once
  <2>2. \A y, i, q : Makes(y, i, q, db) => Makes(y, i, q, db)'
    <3>1. \A y, i : EventAt(y, i)' = EventAt(y, i)
      BY <1>2 DEF EventAt
    <3>2. QED
      BY <1>7, <3>1 DEF Makes, Within
  <2>3. j.q \in 1..Queries(e) => Makes(x, j.ev, j.q, db)'
    <3> SUFFICES ASSUME j.q \in 1..Queries(e), NEW n \in TableNames, NEW y,
                        Target(e, j.q) = <<n, y>>, Made(e, x, j.q) # {}
                 PROVE  Seen(db', n, y) = Made(e, x, j.q)
      BY <1>1, <1>2 DEF Makes, EventAt
    <3>1. CASE db' = Query(p, db, e, x, j.q)
      <4>1. Seen(db', n, y) = IF Seen(db, n, y) = {} THEN Made(e, x, j.q) ELSE Seen(db, n, y)
        BY <1>1, <3>1, QuerySeen DEF Once
      <4>2. Makes(x, j.ev, j.q, accounts)
        BY <1>1, MakesAccounts DEF Once
      <4>3. QED
        BY <1>1, <4>1, <4>2 DEF Makes, Once, Within
    <3>2. QED
      BY <1>3, <1>6, <3>1
  <2>4. \A y \in done' : \A i \in DOMAIN chain[y].events :
           \A q \in 1..Queries(EventAt(y, i)) : Makes(y, i, q, db)'
    BY <1>2, <2>1, <2>2 DEF Handles
  <2>5. ASSUME NEW m \in jobs', NEW i \in DOMAIN chain[m.tx].events,
               NEW q \in 1..Queries(EventAt(m.tx, i)), i < m.ev \/ (i = m.ev /\ q < m.q)
        PROVE  Makes(m.tx, i, q, db)'
    <3>1. CASE m \in jobs
      BY <2>1, <2>2, <2>5, <3>1 DEF Handles
    <3>2. CASE m = k
      <4>1. /\ k.tx = x
            /\ \/ k.ev = j.ev + 1 /\ k.q = 1 /\ j.q >= Queries(e)
               \/ k.ev = j.ev /\ k.q = j.q + 1
        BY <1>1, <1>6, JobFields
      <4>2. i \in Nat /\ q \in Nat \ {0}
        <5>1. IsTx(x, chain[x])
          BY <1>1 DEF Once, ChainTables
        <5>2. Queries(EventAt(m.tx, i)) \in Nat
          BY DEF Queries
        <5>3. QED
          BY <3>2, <4>1, <5>1, <5>2, TxShape
      <4>3. CASE i < j.ev \/ (i = j.ev /\ q < j.q)
        BY <2>1, <2>2, <3>2, <4>1, <4>3 DEF Handles
      <4>4. CASE i = j.ev /\ q = j.q
        BY <1>1, <2>3, <3>2, <4>1, <4>4
      <4>5. CASE i = j.ev /\ q > j.q
        <5>1. q <= Queries(e)
          BY <1>1, <1>3, <3>2, <4>1, <4>2, <4>5
        <5>2. QED
          BY <1>1, <1>3, <2>5, <3>2, <4>1, <4>2, <4>5, <5>1
      <4>6. QED
        BY <1>1, <2>5, <3>2, <4>1, <4>2, <4>3, <4>4, <4>5
    <3>3. QED
      BY <1>6, <3>1, <3>2 DEF Becomes
  <2>6. QED
    BY <1>2, <2>4, <2>5 DEF Handles, EventAt
<1>10. QED
  BY <1>2, <1>4, <1>7, <1>8, <1>9 DEF Once

LEMMA OnceAdvance ==
  ASSUME Shape, Once, NEW j \in jobs, AdvanceCursor(j)
  PROVE  Once'
<1>1. /\ jobs' = jobs \ {j} /\ done' = done \cup {j.tx} /\ AtCursor(j)
      /\ UNCHANGED <<followed, chain, accounts, db, errors>>
  BY DEF AdvanceCursor, chainVars, faults
<1>2. /\ \A n, k : Seen(accounts, n, k)' = Seen(accounts, n, k)
      /\ \A x, i : EventAt(x, i)' = EventAt(x, i) /\ Origin' = Origin
  BY <1>1 DEF Seen, EventAt, Origin
<1>3. ChainTables' /\ Sources' /\ Tabled(db') /\ Within(db', accounts') /\ Within(Origin', db')
  BY <1>1, <1>2 DEF Once, ChainTables, Sources, AllMoments, At, EventAt
<1>4. ASSUME errors = 0 PROVE Handles'
  <2>1. Handles
    BY <1>4 DEF Once
  <2>2. \A x, i, q : Makes(x, i, q, db) => Makes(x, i, q, db)'
    BY <1>1, <1>2 DEF Makes
  <2>3. \A i \in DOMAIN chain[j.tx].events : i < j.ev
    <3>1. j.tx \in DOMAIN chain /\ IsTx(j.tx, chain[j.tx]) /\ j.ev \in Nat
      BY JobFacts DEF Once, ChainTables
    <3>2. QED
      BY <1>1, <3>1, TxShape DEF AtCursor
  <2>4. \A i \in DOMAIN chain[j.tx].events :
          \A q \in 1..Queries(EventAt(j.tx, i)) : Makes(j.tx, i, q, db)
    BY <2>1, <2>3 DEF Handles
  <2>5. \A x \in done' : \A i \in DOMAIN chain[x].events :
           \A q \in 1..Queries(EventAt(x, i)) : Makes(x, i, q, db)'
    BY <1>1, <2>1, <2>2, <2>4 DEF Handles
  <2>6. \A m \in jobs' : \A i \in DOMAIN chain[m.tx].events :
           \A q \in 1..Queries(EventAt(m.tx, i)) :
             i < m.ev \/ (i = m.ev /\ q < m.q) => Makes(m.tx, i, q, db)'
    BY <1>1, <2>1, <2>2 DEF Handles
  <2>7. QED
    BY <1>1, <1>2, <2>5, <2>6 DEF Handles
<1>5. QED
  BY <1>1, <1>3, <1>4 DEF Once

LEMMA OnceStep == Shape /\ Shape' /\ Once /\ [Next]_vars => Once'
<1> SUFFICES ASSUME Shape, Shape', Once, [Next]_vars PROVE Once'
  OBVIOUS
<1>1. CASE UNCHANGED vars
  BY <1>1, OnceFrame DEF vars, faults
<1>2. CASE \E p \in Programs : Confirm(p)
  BY <1>2, OnceConfirm
<1>3. CASE Subscribe \/ Crash
  BY <1>3, OnceFrame DEF Subscribe, Crash, faults
<1>4. ASSUME NEW g \in Dials, Activate(g) \/ Close(g) PROVE Once'
  BY <1>4, OnceFrame DEF Activate, Close, faults
<1>5. ASSUME NEW g \in Dials, Deliver(g) PROVE Once'
  BY <1>5, OnceFrame DEF Deliver, faults, Job
<1>6. ASSUME NEW j \in jobs, RunJob(j) PROVE Once'
  BY <1>6, OnceRunQuery, OnceAdvance DEF RunJob
<1>7. ASSUME NEW j \in jobs, JobFails(j) PROVE Once'
  <2>1. UNCHANGED <<chainVars, db, done>> /\ errors' = errors + 1
    BY <1>7 DEF JobFails, QueryFails, AdvanceFails
  <2>2. QED
    BY <2>1, OnceFrame
<1>8. ASSUME NEW g \in Dials, NEW p \in Programs, BackfillFails(g, p) PROVE Once'
  <2>1. UNCHANGED <<chainVars, db, done>> /\ errors' = errors + 1
    BY <1>8 DEF BackfillFails, ListFails, FetchFails
  <2>2. QED
    BY <2>1, OnceFrame
<1>9. ASSUME NEW g \in Dials, NEW p \in Programs, ReadCursor(g, p) \/ FinishBackfill(g, p)
      PROVE  Once'
  BY <1>9, OnceFrame DEF ReadCursor, FinishBackfill, faults
<1>10. ASSUME NEW g \in Dials, NEW p \in Programs, FetchTx(g, p) PROVE Once'
  BY <1>10, OnceFrame DEF FetchTx, faults, Job
<1>11. ASSUME NEW g \in Dials, NEW p \in Programs, ListPage(g, p) PROVE Once'
  BY <1>11, OnceFrame DEF ListPage, faults
<1>12. QED
  BY <1>1, <1>2, <1>3, <1>4, <1>5, <1>6, <1>7, <1>8, <1>9, <1>10, <1>11 DEF Next, BackfillStep

LEMMA OnceExact ==
  ASSUME Shape, Once
  PROVE  OnceTablesExact
<1> SUFFICES ASSUME errors = 0, \A p \in followed : Good(p) \subseteq done
             PROVE  OnceTables(db) = OnceTables(accounts)
  BY DEF OnceTablesExact
<1>1. ASSUME NEW n \in TableNames, NEW k PROVE Seen(db, n, k) = Seen(accounts, n, k)
  <2>1. CASE Seen(accounts, n, k) = {}
    BY <2>1 DEF Once, Within
  <2>2. ASSUME NEW x \in DOMAIN chain, NEW i \in DOMAIN chain[x].events,
               NEW q \in 1..Queries(EventAt(x, i)), Seen(accounts, n, k) # {},
               Target(EventAt(x, i), q) = <<n, k>>,
               Seen(accounts, n, k) = Made(EventAt(x, i), x, q)
        PROVE  Seen(db, n, k) = Seen(accounts, n, k)
    <3>1. chain[x].ok
      <4>1. IsTx(x, chain[x])
        BY DEF Once, ChainTables
      <4>2. chain[x].events # <<>>
        OBVIOUS
      <4>3. QED
        BY <4>1, <4>2 DEF IsTx
    <3>2. x \in done
      BY <3>1 DEF Good, Shape, Chains
    <3>3. Makes(x, i, q, db)
      BY <3>2 DEF Once, Handles
    <3>4. QED
      BY <2>2, <3>3 DEF Makes
  <2>3. CASE Seen(Origin, n, k) = Seen(accounts, n, k) /\ Seen(accounts, n, k) # {}
    BY <2>3 DEF Once, Within
  <2>4. QED
    BY <2>1, <2>2, <2>3 DEF Once, Sources
<1>2. Tabled(db) /\ Tabled(accounts)
  BY DEF Once, ChainTables
<1>3. ASSUME NEW n \in FullOnce PROVE db[n] = accounts[n]
  <2>1. n \in TableNames
    BY DEF FullOnce, TableNames
  <2>2. \A k : RowIn(db[n], k) = RowIn(accounts[n], k)
    BY <1>1, <2>1 DEF Seen, Face
  <2>3. \A k : (k \in DOMAIN db[n] <=> k \in DOMAIN accounts[n])
               /\ (k \in DOMAIN db[n] => db[n][k] = accounts[n][k])
    BY <2>2 DEF RowIn
  <2>4. DOMAIN db[n] = DOMAIN accounts[n]
    BY <2>3
  <2>5. QED
    BY <1>2, <2>1, <2>3, <2>4 DEF Tabled
<1>4. ASSUME NEW n \in DomOnce PROVE DOMAIN db[n] = DOMAIN accounts[n]
  <2>1. n \in TableNames /\ n \notin FullOnce
    BY DEF FullOnce, DomOnce, TableNames
  <2>2. \A k : {"row" : r \in RowIn(db[n], k)} = {"row" : r \in RowIn(accounts[n], k)}
    BY <1>1, <2>1 DEF Seen, Face
  <2>3. \A k : k \in DOMAIN db[n] <=> k \in DOMAIN accounts[n]
    BY <2>2 DEF RowIn
  <2>4. QED
    BY <2>3
<1>5. QED
  BY <1>3, <1>4 DEF OnceTables, FullOnce, DomOnce

LEMMA SpecOnce == Spec => [](Shape /\ Once)
<1>1. Init => Shape /\ Once
  BY ShapeInit, OnceInit
<1>2. Shape /\ Once /\ [Next]_vars => (Shape /\ Once)'
  BY ShapeStep, OnceStep
<1>3. QED
  BY <1>1, <1>2, PTL DEF Spec

\* Once every successful transaction of the programs followed has been handled,
\* by live logs and backfills in any order and however often, and nothing has
\* failed, the tables whose rows are inserted once (INSERT ... ON CONFLICT DO
\* NOTHING in solana/listener.ts) are those of the chain.
THEOREM SpecOnceTablesExact == Spec => []OnceTablesExact
  BY SpecOnce, OnceExact, PTL

------------------------------------------------------------------------------
(* TasksFollowChain *)

\* Every task of the hub is as it was on the chain at some moment.
TaskInv ==
  \A k \in DOMAIN db.tasks : \E m \in Moments("task") :
    k \in DOMAIN At(m).tasks /\ At(m).tasks[k] = db.tasks[k]

Comparable(rows, others) == \A a \in rows, b \in others : TaskLater(a, b) \/ TaskLater(b, a)

\* What a handler writes to a row that is as old as the one its event found
LEMMA FlipWrite ==
  ASSUME NEW a, IsTaskRow(a), NEW b, IsTaskRow(b), NEW status, NEW claimer, a.status = 0
  PROVE  Flipped({b}, 0, status, claimer) \in {{b}, Flipped({a}, 0, status, claimer)}
         /\ (Flipped({b}, 0, status, claimer) # {b} => a = b)
<1>1. b.status = 0 => a = b
  BY DEF IsTaskRow
<1>2. Flipped({a}, 0, status, claimer) = {[status |-> status, claimer |-> claimer]}
  BY DEF Flipped
<1>3. Flipped({b}, 0, status, claimer) =
        {IF b.status = 0 THEN [status |-> status, claimer |-> claimer] ELSE b}
  BY DEF Flipped
<1>4. QED
  BY <1>1, <1>2, <1>3

\* A handler moves a task only from the state its event found to the one it left.
LEMMA TaskWrite ==
  ASSUME NEW s, Tabled(s), NEW e \in Emits("task", s), NEW tx, NEW f,
         \A x \in DOMAIN f : IsTaskRow(f[x]), Comparable(RowIn(s.tasks, e.pda), RowIn(f, e.pda))
  PROVE  LET was == RowIn(s.tasks, e.pda)
             is == RowAfter(e, tx, 1, was)
             old == RowIn(f, e.pda)
             new == RowAfter(e, tx, 1, old)
         IN  new = old \/ (new = is /\ is # {} /\ (old = {} \/ old = was))
<1> DEFINE k == e.pda
           was == RowIn(s.tasks, k)
           old == RowIn(f, k)
           new == RowAfter(e, tx, 1, old)
           is == RowAfter(e, tx, 1, was)
<1>1. e.kind \in KindsOf.task /\ e \in TaskEmits(s)
  BY EmitKinds DEF Programs, KindsOf, Emits
<1>2. (\A r \in old : IsTaskRow(r)) /\ (\A r \in was : IsTaskRow(r))
  BY DEF RowIn, Tabled
<1>3. (old = {} \/ \E r : old = {r}) /\ (was = {} \/ \E r : was = {r})
  BY DEF RowIn
<1>4. CASE e.kind = "TaskCreated"
  <2>1. was = {}
    BY <1>1, <1>4 DEF TaskEmits, RowIn
  <2>2. \A o : RowAfter(e, tx, 1, o) = Inserted(o, [status |-> 0, claimer |-> Nobody])
    BY <1>4 DEF RowAfter
  <2> HIDE DEF was, old
  <2>3. QED
    BY <2>1, <2>2 DEF Inserted, was, old
<1>5. CASE e.kind = "TaskClaimed"
  <2>1. \A o : RowAfter(e, tx, 1, o) = Flipped(o, 0, 1, e.claimer)
    BY <1>5 DEF RowAfter
  <2>2. PICK a : was = {a} /\ a.status = 0
    BY <1>1, <1>5 DEF TaskEmits, RowIn
  <2>3. IsTaskRow(a)
    BY <1>2, <2>2
  <2>4. new = Flipped(old, 0, 1, e.claimer) /\ is = Flipped({a}, 0, 1, e.claimer)
    BY <2>1, <2>2
  <2>5. is # {}
    BY <2>4 DEF Flipped
  <2>6. CASE old = {}
    <3>1. new = {}
      BY <2>4, <2>6 DEF Flipped
    <3>2. QED
      BY <2>6, <3>1
  <2>7. ASSUME NEW b, old = {b}
        PROVE  new = old \/ (new = is /\ is # {} /\ (old = {} \/ old = was))
    <3>1. IsTaskRow(b)
      BY <1>2, <2>7
    <3> HIDE DEF was, old, is, new
    <3>2. QED
      BY <2>2, <2>3, <2>4, <2>5, <2>7, <3>1, FlipWrite
  <2>8. QED
    BY <1>3, <2>6, <2>7
<1>6. CASE e.kind = "TaskCompleted"
  <2>1. \A o : RowAfter(e, tx, 1, o) =
               {IF r.status = 1 THEN [status |-> 2, claimer |-> r.claimer] ELSE r : r \in o}
    BY <1>6 DEF RowAfter
  <2>2. PICK a : was = {a} /\ a.status = 1
    BY <1>1, <1>6 DEF TaskEmits, RowIn
  <2>3. is = {[status |-> 2, claimer |-> a.claimer]}
    BY <2>1, <2>2
  <2>4. CASE old = {}
    <3>1. new = {}
      BY <2>1, <2>4
    <3>2. QED
      BY <2>4, <3>1
  <2>5. ASSUME NEW b, old = {b}
        PROVE  new = old \/ (new = is /\ is # {} /\ (old = {} \/ old = was))
    <3>1. new = {IF b.status = 1 THEN [status |-> 2, claimer |-> b.claimer] ELSE b}
      BY <2>1, <2>5
    <3>2. TaskLater(a, b) \/ TaskLater(b, a)
      BY <2>2, <2>5 DEF Comparable
    <3>3. b.status = 1 => a = b
      BY <2>2, <3>2 DEF TaskLater
    <3> HIDE DEF was, old, is, new
    <3>4. QED
      BY <2>2, <2>3, <2>5, <3>1, <3>3
  <2>6. QED
    BY <1>3, <2>4, <2>5
<1>7. CASE e.kind = "TaskCancelled"
  <2>1. \A o : RowAfter(e, tx, 1, o) = Flipped(o, 0, 3, Nobody)
    BY <1>7 DEF RowAfter
  <2>2. PICK a : was = {a} /\ a.status = 0
    BY <1>1, <1>7 DEF TaskEmits, RowIn
  <2>3. IsTaskRow(a)
    BY <1>2, <2>2
  <2>4. new = Flipped(old, 0, 3, Nobody) /\ is = Flipped({a}, 0, 3, Nobody)
    BY <2>1, <2>2
  <2>5. is # {}
    BY <2>4 DEF Flipped
  <2>6. CASE old = {}
    <3>1. new = {}
      BY <2>4, <2>6 DEF Flipped
    <3>2. QED
      BY <2>6, <3>1
  <2>7. ASSUME NEW b, old = {b}
        PROVE  new = old \/ (new = is /\ is # {} /\ (old = {} \/ old = was))
    <3>1. IsTaskRow(b)
      BY <1>2, <2>7
    <3> HIDE DEF was, old, is, new
    <3>2. QED
      BY <2>2, <2>3, <2>4, <2>5, <2>7, <3>1, FlipWrite
  <2>8. QED
    BY <1>3, <2>6, <2>7
<1>8. QED
  BY <1>1, <1>4, <1>5, <1>6, <1>7 DEF KindsOf

LEMMA TaskQuery ==
  ASSUME Shape, Once, TaskInv, NEW j \in jobs, RunQuery(j), NEW k
  PROVE  \/ RowIn(db'.tasks, k) = RowIn(db.tasks, k)
         \/ \E m, n \in Moments("task") :
              /\ Earlier(m, n)
              /\ RowIn(At(n).tasks, k) # {} /\ RowIn(db'.tasks, k) = RowIn(At(n).tasks, k)
              /\ RowIn(db.tasks, k) = {} \/ RowIn(db.tasks, k) = RowIn(At(m).tasks, k)
<1> DEFINE x == j.tx
           r == chain[x]
           e == EventOf(j)
           s == r.states[j.ev]
           u == r.states[j.ev + 1]
<1>1. SUFFICES ASSUME db' # db PROVE
         \/ RowIn(db'.tasks, k) = RowIn(db.tasks, k)
         \/ \E m, n \in Moments("task") :
              /\ Earlier(m, n)
              /\ RowIn(At(n).tasks, k) # {} /\ RowIn(db'.tasks, k) = RowIn(At(n).tasks, k)
              /\ RowIn(db.tasks, k) = {} \/ RowIn(db.tasks, k) = RowIn(At(m).tasks, k)
  OBVIOUS
<1>2. /\ x \in DOMAIN chain /\ IsTx(x, r) /\ r.prog \in Programs /\ j.ev \in DOMAIN r.events
      /\ e \in Emits(r.prog, s) /\ e.kind \in KindsOf[r.prog] /\ Tabled(s)
      /\ u = Handled(r.prog, s, e, x)
      /\ j.q \in Nat \ {0} /\ r.ok
  BY JobEvent, JobFacts DEF Once, RunQuery, GoodJob
<1>3. j.q \in 1..Queries(e) /\ db' = Query(r.prog, db, e, x, j.q)
  <2>1. Queries(e) \in 0..2
    BY DEF Queries
  <2>2. QED
    BY <1>1, <1>2, <2>1 DEF RunQuery
<1>4. PICK n, y : Target(e, j.q) = <<n, y>>
  BY <1>2, <1>3, TargetOf
<1>5. OneRow(db, db', n, y, RowAfter(e, x, j.q, RowIn(db[n], y)))
  BY <1>2, <1>3, <1>4, QueryRow DEF QueryIsRow, RowOf, Once
<1>6. "tasks" \in TableNames /\ n \in TableNames /\ n \in TablesOf[r.prog]
  BY <1>2, <1>3, <1>4, TargetOf DEF TableNames
<1>7. CASE n # "tasks" \/ y # k
  BY <1>5, <1>6, <1>7 DEF OneRow
<1>8. CASE n = "tasks" /\ y = k
  <2>1. r.prog = "task"
    BY <1>2, <1>6, <1>8 DEF TablesOf, Programs
  <2>2. e.kind \in KindsOf.task /\ e.kind \in KindsOf["task"]
    BY <1>2, <2>1
  <2>3. Queries(e) = 1 /\ j.q = 1 /\ e.pda = k
    BY <1>3, <1>4, <1>8, <2>2 DEF KindsOf, Queries, Target
  <2>4. u = Query("task", s, e, x, 1)
    BY <1>2, <2>1, <2>3 DEF Handled
  <2>5. RowIn(u.tasks, k) = RowAfter(e, x, 1, RowIn(s.tasks, k))
    <3>1. OneRow(s, u, "tasks", k, RowAfter(e, x, 1, RowIn(s.tasks, k)))
      BY <1>2, <1>3, <1>4, <1>8, <2>1, <2>2, <2>3, <2>4, QueryRow DEF QueryIsRow, RowOf
    <3>2. QED
      BY <3>1 DEF OneRow
  <2>6. RowIn(db'.tasks, k) = RowAfter(e, x, 1, RowIn(db.tasks, k))
    BY <1>5, <1>8, <2>3 DEF OneRow
  <2>7. <<x, j.ev>> \in Moments("task") /\ <<x, j.ev + 1>> \in Moments("task")
        /\ At(<<x, j.ev>>) = s /\ At(<<x, j.ev + 1>>) = u /\ <<x, j.ev>> \in AllMoments
    <3>1. j.ev \in DOMAIN r.states /\ j.ev + 1 \in DOMAIN r.states
      BY <1>2, TxShape
    <3>2. x \in Good("task")
      BY <1>2, <2>1 DEF Good
    <3>3. <<x, j.ev>> \in {x} \X DOMAIN r.states /\ <<x, j.ev + 1>> \in {x} \X DOMAIN r.states
      BY <3>1
    <3>4. <<x, j.ev>> \in Moments("task") /\ <<x, j.ev + 1>> \in Moments("task")
      BY <3>2, <3>3 DEF Moments
    <3>5. <<x, j.ev>> \in AllMoments
      BY <1>2, <3>3 DEF AllMoments
    <3>6. QED
      BY <3>4, <3>5 DEF At
  <2>8. Comparable(RowIn(s.tasks, k), RowIn(db.tasks, k))
    <3> SUFFICES ASSUME k \in DOMAIN db.tasks, k \in DOMAIN s.tasks
                 PROVE  TaskLater(s.tasks[k], db.tasks[k]) \/ TaskLater(db.tasks[k], s.tasks[k])
      BY DEF Comparable, RowIn
    <3>1. PICK m \in Moments("task") : k \in DOMAIN At(m).tasks /\ At(m).tasks[k] = db.tasks[k]
      BY DEF TaskInv
    <3>2. m \in AllMoments
      BY DEF Moments, AllMoments, Good
    <3>3. m = <<x, j.ev>> \/ Earlier(m, <<x, j.ev>>) \/ Earlier(<<x, j.ev>>, m)
      <4>1. m = <<m[1], m[2]>> /\ m[1] \in 1..Len(chain) /\ m[2] \in 1..3
            /\ x \in Nat /\ j.ev \in Nat /\ Len(chain) \in Nat
        BY <3>2, MomentFacts, JobFacts, ChainFacts DEF Once, Shape
      <4>2. m[1] \in Nat /\ m[2] \in Nat
        BY <4>1
      <4>3. QED
        BY <4>1, <4>2 DEF Earlier
    <3>4. m = <<x, j.ev>> \/ Later(At(m), s) \/ Later(s, At(m))
      BY <2>7, <3>2, <3>3 DEF Once, ChainTables
    <3>5. "tasks" \in TableNames \ {"pledges"}
      BY DEF TableNames
    <3>6. Later(At(m), s) => TaskLater(db.tasks[k], s.tasks[k])
      BY <3>1, <3>5 DEF Later, RowLater, RowIn
    <3>7. Later(s, At(m)) => TaskLater(s.tasks[k], db.tasks[k])
      BY <3>1, <3>5 DEF Later, RowLater, RowIn
    <3>8. m = <<x, j.ev>> => TaskLater(db.tasks[k], s.tasks[k])
      BY <2>7, <3>1 DEF TaskLater
    <3>9. QED
      BY <3>4, <3>6, <3>7, <3>8
  <2>9. \A z \in DOMAIN db.tasks : IsTaskRow(db.tasks[z])
    BY DEF Once, Tabled
  <2>10. e \in Emits("task", s)
    BY <1>2, <2>1
  <2> HIDE DEF e, s, u
  <2>11. \/ RowIn(db'.tasks, k) = RowIn(db.tasks, k)
         \/ /\ RowIn(u.tasks, k) # {} /\ RowIn(db'.tasks, k) = RowIn(u.tasks, k)
            /\ RowIn(db.tasks, k) = {} \/ RowIn(db.tasks, k) = RowIn(s.tasks, k)
    BY <1>2, <2>3, <2>5, <2>6, <2>8, <2>9, <2>10, TaskWrite
  <2>12. Earlier(<<x, j.ev>>, <<x, j.ev + 1>>)
    <3>1. j.ev \in Nat
      BY JobFacts
    <3>2. QED
      BY <3>1 DEF Earlier
  <2>13. QED
    BY <2>7, <2>11, <2>12
<1>9. QED
  BY <1>7, <1>8

\* A step that leaves tables and chain alone, or only adds to the chain, leaves
\* every task as it was at some moment.
LEMMA TaskInvChain ==
  ASSUME Shape, Shape', Once, TaskInv, NEW p \in Programs, Confirm(p)
  PROVE  TaskInv'
<1>1. /\ Len(chain) \in Nat /\ DOMAIN chain = 1..Len(chain)
      /\ DOMAIN chain' = 1..(Len(chain) + 1) /\ \A z \in DOMAIN chain : chain'[z] = chain[z]
      /\ db' = db
  BY ConfirmAdds, ChainFacts DEF Shape, Confirm
<1>2. \A m \in Moments("task") : m \in Moments("task")' /\ At(m)' = At(m)
  <2> SUFFICES ASSUME NEW z \in Good("task"), NEW i \in DOMAIN chain[z].states
               PROVE  <<z, i>> \in Moments("task")' /\ At(<<z, i>>)' = At(<<z, i>>)
    BY DEF Moments
  <2>1. z \in DOMAIN chain' /\ chain'[z] = chain[z]
    BY <1>1 DEF Good
  <2>2. z \in Good("task")'
    BY <2>1 DEF Good
  <2>3. <<z, i>> \in {z} \X DOMAIN chain'[z].states
    BY <2>1
  <2>4. QED
    BY <2>1, <2>2, <2>3 DEF Moments, At
<1>3. QED
  BY <1>1, <1>2 DEF TaskInv

LEMMA TaskInvRunQuery ==
  ASSUME Shape, Once, TaskInv, NEW j \in jobs, RunQuery(j)
  PROVE  TaskInv'
<1>1. chain' = chain
  BY DEF RunQuery, chainVars
<1>2. Moments("task")' = Moments("task") /\ \A m : At(m)' = At(m)
  BY <1>1 DEF Moments, Good, At
<1>3. ASSUME NEW k \in DOMAIN db'.tasks
      PROVE  \E m \in Moments("task") : k \in DOMAIN At(m).tasks /\ At(m).tasks[k] = db'.tasks[k]
  <2>1. RowIn(db'.tasks, k) = {db'.tasks[k]}
    BY <1>3 DEF RowIn
  <2>2. CASE RowIn(db'.tasks, k) = RowIn(db.tasks, k)
    <3>1. k \in DOMAIN db.tasks /\ db.tasks[k] = db'.tasks[k]
      BY <2>1, <2>2 DEF RowIn
    <3>2. QED
      BY <3>1 DEF TaskInv
  <2>3. ASSUME NEW n \in Moments("task"), RowIn(db'.tasks, k) = RowIn(At(n).tasks, k)
        PROVE  k \in DOMAIN At(n).tasks /\ At(n).tasks[k] = db'.tasks[k]
    BY <2>1, <2>3 DEF RowIn
  <2>4. QED
    BY <2>2, <2>3, TaskQuery
<1>4. QED
  BY <1>2, <1>3 DEF TaskInv

LEMMA TaskInvInit == Init => TaskInv
  BY DEF Init, TaskInv, NoRows, Registered, Empty

LEMMA OnlyRunQueryWrites ==
  ASSUME [Next]_vars
  PROVE  db' = db \/ \E j \in jobs : RunQuery(j)
  BY DEF Next, vars, Confirm, Subscribe, Activate, Deliver, Close, Crash, RunJob, JobFails,
         AdvanceCursor, QueryFails, AdvanceFails, BackfillStep, BackfillFails, ReadCursor, ListPage,
         FetchTx, FinishBackfill, ListFails, FetchFails

LEMMA OnlyConfirmAdds ==
  ASSUME [Next]_vars
  PROVE  chain' = chain \/ \E p \in Programs : Confirm(p)
  BY DEF Next, vars, chainVars, Subscribe, Activate, Deliver, Close, Crash, RunJob, JobFails,
         RunQuery, AdvanceCursor, QueryFails, AdvanceFails, BackfillStep, BackfillFails, ReadCursor,
         ListPage, FetchTx, FinishBackfill, ListFails, FetchFails

LEMMA TaskInvStep == Shape /\ Shape' /\ Once /\ TaskInv /\ [Next]_vars => TaskInv'
<1> SUFFICES ASSUME Shape, Shape', Once, TaskInv, [Next]_vars PROVE TaskInv'
  OBVIOUS
<1>1. CASE \E j \in jobs : RunQuery(j)
  BY <1>1, TaskInvRunQuery
<1>2. CASE \E p \in Programs : Confirm(p)
  BY <1>2, TaskInvChain
<1>3. CASE db' = db /\ chain' = chain
  BY <1>3 DEF TaskInv, Moments, Good, At
<1>4. QED
  BY <1>1, <1>2, <1>3, OnlyRunQueryWrites, OnlyConfirmAdds

LEMMA SpecTaskInv == Spec => [](Shape /\ Once /\ TaskInv)
<1>1. Init => Shape /\ Once /\ TaskInv
  BY ShapeInit, OnceInit, TaskInvInit
<1>2. Shape /\ Once /\ TaskInv /\ [Next]_vars => (Shape /\ Once /\ TaskInv)'
  BY ShapeStep, OnceStep, TaskInvStep
<1>3. QED
  BY <1>1, <1>2, PTL DEF Spec

\* Whatever the order in which live logs and backfills run a task's handlers,
\* and however often (the WHERE status = ... of processTaskEvent), a write takes
\* the task from a state it had on the chain to a later one that it had too.
THEOREM SpecTasksFollowChain == Spec => TasksFollowChain
<1> DEFINE Follows ==
      \A k \in DOMAIN db.tasks :
         \/ k \in DOMAIN db'.tasks /\ db'.tasks[k] = db.tasks[k]
         \/ \E m, n \in {i \in Moments("task") : k \in DOMAIN At(i).tasks} :
              /\ Earlier(m, n)
              /\ At(m).tasks[k] = db.tasks[k]
              /\ k \in DOMAIN db'.tasks /\ At(n).tasks[k] = db'.tasks[k]
<1>1. Shape /\ Once /\ TaskInv /\ [Next]_vars => [Follows]_db
  <2> SUFFICES ASSUME Shape, Once, TaskInv, NEW j \in jobs, RunQuery(j), NEW k \in DOMAIN db.tasks
               PROVE  \/ k \in DOMAIN db'.tasks /\ db'.tasks[k] = db.tasks[k]
                      \/ \E m, n \in {i \in Moments("task") : k \in DOMAIN At(i).tasks} :
                           /\ Earlier(m, n)
                           /\ At(m).tasks[k] = db.tasks[k]
                           /\ k \in DOMAIN db'.tasks /\ At(n).tasks[k] = db'.tasks[k]
    BY OnlyRunQueryWrites
  <2>1. RowIn(db.tasks, k) = {db.tasks[k]}
    BY DEF RowIn
  <2>2. CASE RowIn(db'.tasks, k) = RowIn(db.tasks, k)
    BY <2>1, <2>2 DEF RowIn
  <2>3. ASSUME NEW m \in Moments("task"), NEW n \in Moments("task"), Earlier(m, n),
               RowIn(At(n).tasks, k) # {}, RowIn(db'.tasks, k) = RowIn(At(n).tasks, k),
               RowIn(db.tasks, k) = RowIn(At(m).tasks, k)
        PROVE  /\ k \in DOMAIN At(m).tasks /\ k \in DOMAIN At(n).tasks
               /\ At(m).tasks[k] = db.tasks[k]
               /\ k \in DOMAIN db'.tasks /\ At(n).tasks[k] = db'.tasks[k]
    BY <2>1, <2>3 DEF RowIn
  <2>4. QED
    BY <2>1, <2>2, <2>3, TaskQuery
<1>2. QED
  BY <1>1, SpecTaskInv, PTL DEF Spec, TasksFollowChain

------------------------------------------------------------------------------
(* ReplayExact: what a replayed query makes of a row *)

\* The columns that handlers write apart from each other
FieldsOf(n) ==
  IF n = "tids" THEN {"custody", "recovery", "username"}
  ELSE IF n = "karma" THEN {"tips", "tasks"} ELSE {"row"}

Part(f, rows) == IF f = "row" THEN rows ELSE {r[f] : r \in rows}

Lone(rows) == rows = {} \/ \E r : rows = {r}

\* old is a row from after a query that made the row is
Since(n, is, old) ==
  is # {} => old # {} /\ (n = "tasks" => \A r \in is, o \in old : TaskLater(r, o))

\* The query takes a column as its event found it to what its event left, and
\* takes a later one there or nowhere.
Steady(n, f, e, tx, q, was) ==
  \A old : Lone(old) /\ RowsOK(n, old) =>
    /\ Part(f, old) = Part(f, was)
         => Part(f, RowAfter(e, tx, q, old)) = Part(f, RowAfter(e, tx, q, was))
    /\ Since(n, RowAfter(e, tx, q, was), old)
         => Part(f, RowAfter(e, tx, q, old)) \in {Part(f, old), Part(f, RowAfter(e, tx, q, was))}

\* The query writes an event of the program, found in the tables t.
SteadyIn(t, e, tx, q, n, k) ==
  \A f \in FieldsOf(n) : Steady(n, f, e, tx, q, RowIn(t[n], k))

LEMMA PartEmpty ==
  ASSUME NEW f, NEW rows
  PROVE  Part(f, rows) = {} <=> rows = {}
BY DEF Part

LEMMA PartOne ==
  ASSUME NEW f, f # "row", NEW w, NEW rows, rows = {w}
  PROVE  Part(f, rows) = {w[f]}
BY DEF Part

LEMMA RowLone ==
  ASSUME NEW t, Tabled(t), NEW n \in TableNames, NEW k
  PROVE  Lone(RowIn(t[n], k)) /\ RowsOK(n, RowIn(t[n], k))
BY TabledRows DEF RowIn, Lone

LEMMA SteadySet ==
  ASSUME NEW n, NEW f, NEW e, NEW tx, NEW q, NEW was, Lone(was), RowsOK(n, was), NEW v,
         Part(f, RowAfter(e, tx, q, {})) = {v},
         \A r : RowsOK(n, {r}) => Part(f, RowAfter(e, tx, q, {r})) = {v}
  PROVE  Steady(n, f, e, tx, q, was)
<1>1. \A o : Lone(o) /\ RowsOK(n, o) => Part(f, RowAfter(e, tx, q, o)) = {v}
  BY DEF Lone
<1>2. QED
  BY <1>1 DEF Steady

LEMMA SteadyUpdate ==
  ASSUME NEW n, NEW f, NEW e, NEW tx, NEW q, NEW was, Lone(was), RowsOK(n, was), NEW v,
         was # {},
         Part(f, RowAfter(e, tx, q, {})) = {},
         \A r : RowsOK(n, {r}) => Part(f, RowAfter(e, tx, q, {r})) = {v}
  PROVE  Steady(n, f, e, tx, q, was)
<1>1. \A o : Lone(o) /\ RowsOK(n, o) =>
        Part(f, RowAfter(e, tx, q, o)) = IF o = {} THEN {} ELSE {v}
  BY DEF Lone
<1>2. QED
  BY <1>1, PartEmpty DEF Steady

LEMMA SteadyKeep ==
  ASSUME NEW n, NEW f, NEW e, NEW tx, NEW q, NEW was, Lone(was), RowsOK(n, was),
         RowAfter(e, tx, q, {}) = {},
         \A r : RowsOK(n, {r}) => Part(f, RowAfter(e, tx, q, {r})) = Part(f, {r})
  PROVE  Steady(n, f, e, tx, q, was)
<1>1. \A o : Lone(o) /\ RowsOK(n, o) => Part(f, RowAfter(e, tx, q, o)) = Part(f, o)
  BY DEF Lone
<1>2. QED
  BY <1>1 DEF Steady

LEMMA SteadyInsert ==
  ASSUME NEW n, NEW f, NEW e, NEW tx, NEW q, NEW was, Lone(was), RowsOK(n, was), NEW v,
         Part(f, RowAfter(e, tx, q, {})) = {v},
         \A r : RowsOK(n, {r}) => Part(f, RowAfter(e, tx, q, {r})) = Part(f, {r})
  PROVE  Steady(n, f, e, tx, q, was)
<1>a. \A o : Lone(o) /\ RowsOK(n, o) =>
        Part(f, RowAfter(e, tx, q, o)) = IF o = {} THEN {v} ELSE Part(f, o)
  BY DEF Lone
<1> SUFFICES ASSUME NEW old, Lone(old), RowsOK(n, old)
             PROVE  /\ Part(f, old) = Part(f, was)
                         => Part(f, RowAfter(e, tx, q, old)) = Part(f, RowAfter(e, tx, q, was))
                    /\ Since(n, RowAfter(e, tx, q, was), old)
                         => Part(f, RowAfter(e, tx, q, old))
                              \in {Part(f, old), Part(f, RowAfter(e, tx, q, was))}
  BY DEF Steady
<1>1. Part(f, RowAfter(e, tx, q, old)) = IF old = {} THEN {v} ELSE Part(f, old)
  BY <1>a
<1>2. Part(f, RowAfter(e, tx, q, was)) = IF was = {} THEN {v} ELSE Part(f, was)
  BY <1>a
<1>3. RowAfter(e, tx, q, was) # {}
  BY <1>2, PartEmpty
<1>4. QED
  BY <1>1, <1>2, <1>3, PartEmpty DEF Since

\* An UPDATE with a WHERE clause on the row
LEMMA SteadyMove ==
  ASSUME NEW n, NEW f, NEW e, NEW tx, NEW q, NEW was, was # {},
         RowAfter(e, tx, q, {}) = {},
         \A r : RowsOK(n, {r}) =>
           /\ Part(f, {r}) = Part(f, was)
                => Part(f, RowAfter(e, tx, q, {r})) = Part(f, RowAfter(e, tx, q, was))
           /\ Since(n, RowAfter(e, tx, q, was), {r})
                => Part(f, RowAfter(e, tx, q, {r}))
                     \in {Part(f, {r}), Part(f, RowAfter(e, tx, q, was))}
  PROVE  Steady(n, f, e, tx, q, was)
BY PartEmpty DEF Steady, Lone

\* A row that is inserted once
LEMMA SteadyOnce ==
  ASSUME NEW t, Tabled(t), NEW n \in TableNames, n \notin {"tids", "karma"}, NEW k,
         NEW e, NEW tx, NEW q, NEW row, \A o : RowAfter(e, tx, q, o) = Inserted(o, row)
  PROVE  SteadyIn(t, e, tx, q, n, k)
<1> SUFFICES Steady(n, "row", e, tx, q, RowIn(t[n], k))
  BY DEF SteadyIn, FieldsOf
<1>1. Part("row", RowAfter(e, tx, q, {})) = {row}
  BY DEF Part, Inserted
<1>2. \A r : Part("row", RowAfter(e, tx, q, {r})) = Part("row", {r})
  BY DEF Part, Inserted
<1>3. QED
  BY <1>1, <1>2, RowLone, SteadyInsert

LEMMA TidSteady ==
  ASSUME NEW s, Tabled(s), NEW e \in Emits("tid", s), NEW tx
  PROVE  SteadyIn(s, e, tx, 1, "tids", e.tid)
<1> DEFINE was == RowIn(s["tids"], e.tid)
<1> SUFFICES ASSUME NEW f \in {"custody", "recovery", "username"}
             PROVE  Steady("tids", f, e, tx, 1, was)
  BY DEF SteadyIn, FieldsOf
<1>1. e.kind \in KindsOf.tid /\ e \in TidEmits(s)
  BY EmitKinds DEF Programs, KindsOf, Emits
<1>2. Lone(was) /\ RowsOK("tids", was)
  BY RowLone DEF TableNames
<1>3. ASSUME NEW r, RowsOK("tids", {r})
      PROVE  r = [custody |-> r.custody, recovery |-> r.recovery, username |-> r.username]
  BY <1>3 DEF RowsOK, IsTidRow
<1>4. CASE e.kind = "TidRegistered"
  <2> DEFINE v == IF f = "custody" THEN e.custody ELSE e.recovery
  <2>1. RowAfter(e, tx, 1, {}) = {[custody |-> e.custody, recovery |-> e.recovery, username |-> Nobody]}
    BY <1>4 DEF RowAfter
  <2>2. \A r : RowAfter(e, tx, 1, {r}) =
          {[custody |-> e.custody, recovery |-> e.recovery, username |-> r.username]}
    BY <1>4 DEF RowAfter
  <2>3. CASE f # "username"
    <3>1. Part(f, RowAfter(e, tx, 1, {})) = {v}
      <4>1. [custody |-> e.custody, recovery |-> e.recovery, username |-> Nobody][f] = v
        BY <2>3
      <4>2. QED
        BY <2>1, <4>1, PartOne, Zenon
    <3>2. ASSUME NEW r PROVE Part(f, RowAfter(e, tx, 1, {r})) = {v}
      <4> DEFINE w == [custody |-> e.custody, recovery |-> e.recovery, username |-> r.username]
      <4>1. w[f] = v /\ RowAfter(e, tx, 1, {r}) = {w} /\ f # "row"
        BY <2>2, <2>3
      <4> HIDE DEF v, w
      <4>2. QED
        BY <4>1, PartOne
    <3> HIDE DEF was, v
    <3>3. QED
      BY <1>2, <3>1, <3>2, SteadySet
  <2>4. CASE f = "username"
    <3>1. Part(f, RowAfter(e, tx, 1, {})) = {Nobody}
      BY <2>1, <2>4, PartOne
    <3>2. ASSUME NEW r PROVE Part(f, RowAfter(e, tx, 1, {r})) = Part(f, {r})
      <4> DEFINE w == [custody |-> e.custody, recovery |-> e.recovery, username |-> r.username]
      <4>1. w[f] = r[f] /\ RowAfter(e, tx, 1, {r}) = {w} /\ f # "row"
        BY <2>2, <2>4
      <4> HIDE DEF w
      <4>2. Part(f, RowAfter(e, tx, 1, {r})) = {w[f]} /\ Part(f, {r}) = {r[f]}
        BY <4>1, PartOne
      <4>3. QED
        BY <4>1, <4>2
    <3> HIDE DEF was
    <3>3. QED
      BY <1>2, <3>1, <3>2, SteadyInsert
  <2>5. QED
    BY <2>3, <2>4
<1>5. CASE e.kind # "TidRegistered"
  <2> DEFINE c == IF e.kind = "RecoveryChanged" THEN "recovery" ELSE "custody"
             v == IF e.kind = "RecoveryChanged" THEN e.recovery ELSE e.custody
  <2>1. RowAfter(e, tx, 1, {}) = {}
    BY <1>1, <1>5 DEF RowAfter, KindsOf
  <2>2. \A r : RowAfter(e, tx, 1, {r}) = {[r EXCEPT ![c] = v]}
    BY <1>1, <1>5 DEF RowAfter, KindsOf
  <2>3. was # {}
    BY <1>1, <1>5 DEF TidEmits, RowIn
  <2>4. ASSUME NEW r, RowsOK("tids", {r})
        PROVE  [r EXCEPT ![c] = v][f] = IF f = c THEN v ELSE r[f]
    BY <1>3, <2>4
  <2> HIDE DEF was, c, v
  <2>5. CASE f = c
    <3>1. Part(f, RowAfter(e, tx, 1, {})) = {}
      BY <2>1, PartEmpty
    <3>2. ASSUME NEW r, RowsOK("tids", {r}) PROVE Part(f, RowAfter(e, tx, 1, {r})) = {v}
      <4>1. [r EXCEPT ![c] = v][f] = v
        BY <2>4, <2>5, <3>2
      <4>2. QED
        BY <2>2, <4>1, PartOne, Zenon
    <3>3. QED
      BY <1>2, <2>3, <3>1, <3>2, SteadyUpdate
  <2>6. CASE f # c
    <3>1. ASSUME NEW r, RowsOK("tids", {r}) PROVE Part(f, RowAfter(e, tx, 1, {r})) = Part(f, {r})
      <4>1. [r EXCEPT ![c] = v][f] = r[f]
        BY <2>4, <2>6, <3>1
      <4>2. Part(f, RowAfter(e, tx, 1, {r})) = {r[f]}
        BY <2>2, <4>1, PartOne, Zenon
      <4>3. QED
        BY <4>2, PartOne, Zenon
    <3>2. QED
      BY <1>2, <2>1, <3>1, SteadyKeep
  <2>7. QED
    BY <2>5, <2>6
<1>6. QED
  BY <1>4, <1>5

\* No handler of usernames writes the other columns.
LEMMA UsernameSteady ==
  ASSUME NEW s, Tabled(s), NEW e \in Emits("username", s), NEW tx, NEW q \in 1..Queries(e)
  PROVE  \E k : Target(e, q) = <<"tids", k>> /\ SteadyIn(s, e, tx, q, "tids", k)
<1> DEFINE k == IF e.kind = "UsernameTransferred" /\ q = 1 THEN e.from ELSE e.tid
           was == RowIn(s["tids"], k)
           Named(r) == IF e.kind = "UsernameReleased"
                         THEN IF r.username = e.name THEN Nobody ELSE r.username
                       ELSE IF e.kind = "UsernameTransferred" /\ q = 1 THEN Nobody ELSE e.name
<1>1. e.kind \in KindsOf.username /\ e \in UsernameEmits(s) /\ e.kind # "UsernameRenewed"
  BY EmitKinds DEF Programs, KindsOf, Emits, Queries
<1>2. Lone(was) /\ RowsOK("tids", was)
  BY RowLone DEF TableNames
<1>3. ASSUME NEW r, RowsOK("tids", {r})
      PROVE  r = [custody |-> r.custody, recovery |-> r.recovery, username |-> r.username]
  BY <1>3 DEF RowsOK, IsTidRow
<1>4. Target(e, q) = <<"tids", k>>
  BY <1>1 DEF Target, KindsOf
<1>5. /\ RowAfter(e, tx, q, {}) = {}
      /\ \A r : RowAfter(e, tx, q, {r}) = {[r EXCEPT !.username = Named(r)]}
  <2>1. CASE e.kind = "UsernameRegistered"
    BY <2>1 DEF RowAfter
  <2>2. CASE e.kind = "UsernameTransferred"
    BY <2>2 DEF RowAfter
  <2>3. CASE e.kind = "UsernameReleased"
    BY <2>3 DEF RowAfter
  <2>4. QED
    BY <1>1, <2>1, <2>2, <2>3 DEF KindsOf
<1>6. was # {} /\ (e.kind = "UsernameReleased" => \A r \in was : r.username = e.name)
  BY <1>1 DEF UsernameEmits, RowIn, KindsOf
<1>7. ASSUME NEW f \in {"custody", "recovery", "username"}
      PROVE  Steady("tids", f, e, tx, q, was)
  <2>1. ASSUME NEW r, RowsOK("tids", {r})
        PROVE  /\ Part(f, RowAfter(e, tx, q, {r})) = {IF f = "username" THEN Named(r) ELSE r[f]}
               /\ Part(f, {r}) = {r[f]}
    <3> DEFINE w == [r EXCEPT !.username = Named(r)]
               x == Named(r)
    <3>1. w = [r EXCEPT !.username = x]
      OBVIOUS
    <3>2. ASSUME NEW y PROVE [r EXCEPT !.username = y][f] = IF f = "username" THEN y ELSE r[f]
      BY <1>3, <2>1
    <3>3. RowAfter(e, tx, q, {r}) = {w} /\ f # "row"
      BY <1>5
    <3> HIDE DEF w
    <3>4. Part(f, RowAfter(e, tx, q, {r})) = {w[f]} /\ Part(f, {r}) = {r[f]}
      BY <3>3, PartOne
    <3> HIDE DEF x
    <3>5. w[f] = IF f = "username" THEN x ELSE r[f]
      BY <3>1, <3>2
    <3>6. QED
      BY <3>4, <3>5 DEF x
  <2>2. CASE f # "username"
    <3>1. \A r : RowsOK("tids", {r}) => Part(f, RowAfter(e, tx, q, {r})) = Part(f, {r})
      BY <2>1, <2>2
    <3> HIDE DEF was, k
    <3>2. QED
      BY <1>2, <1>5, <3>1, SteadyKeep
  <2>3. CASE f = "username"
    <3> DEFINE v == IF e.kind = "UsernameRegistered" \/ (e.kind = "UsernameTransferred" /\ q # 1)
                      THEN e.name ELSE Nobody
    <3>1. PICK a : was = {a}
      BY <1>2, <1>6 DEF Lone
    <3>2. RowsOK("tids", {a}) /\ (e.kind = "UsernameReleased" => a.username = e.name)
      BY <1>2, <1>6, <3>1
    <3>3. Part(f, RowAfter(e, tx, q, was)) = {v} /\ Part(f, was) = {a.username}
      BY <1>1, <2>1, <2>3, <3>1, <3>2 DEF KindsOf
    <3>4. ASSUME NEW r, RowsOK("tids", {r})
          PROVE  /\ Part(f, RowAfter(e, tx, q, {r})) \in {{r.username}, {v}}
                 /\ Part(f, {r}) = {r.username}
                 /\ r.username = a.username => Part(f, RowAfter(e, tx, q, {r})) = {v}
      BY <1>1, <2>1, <2>3, <3>2, <3>4 DEF KindsOf
    <3> HIDE DEF was, k, v, Named
    <3>5. \A r : RowsOK("tids", {r}) =>
            /\ Part(f, {r}) = Part(f, was)
                 => Part(f, RowAfter(e, tx, q, {r})) = Part(f, RowAfter(e, tx, q, was))
            /\ Part(f, RowAfter(e, tx, q, {r})) \in {Part(f, {r}), Part(f, RowAfter(e, tx, q, was))}
      BY <3>3, <3>4
    <3>6. QED
      BY <1>5, <1>6, <3>5, SteadyMove
  <2>4. QED
    BY <2>2, <2>3
<1>8. QED
  BY <1>4, <1>7 DEF SteadyIn, FieldsOf

LEMMA KarmaSteady ==
  ASSUME NEW s, Tabled(s), NEW e \in Emits("karma", s), NEW tx
  PROVE  SteadyIn(s, e, tx, 1, "karma", e.tid)
<1> DEFINE was == RowIn(s["karma"], e.tid)
           c == IF e.kind = "TipKarmaRecorded" THEN "tips" ELSE "tasks"
<1> SUFFICES ASSUME NEW f \in {"tips", "tasks"}
             PROVE  Steady("karma", f, e, tx, 1, was)
  BY DEF SteadyIn, FieldsOf
<1>1. e.kind \in KindsOf.karma
  BY EmitKinds DEF Programs, KindsOf
<1>2. Lone(was) /\ RowsOK("karma", was)
  BY RowLone DEF TableNames
<1>3. ASSUME NEW r, RowsOK("karma", {r})
      PROVE  r = [tips |-> r.tips, tasks |-> r.tasks]
  BY <1>3 DEF RowsOK, IsKarmaRow
<1>4. CASE e.kind = "KarmaAccountInitialized"
  <2>1. RowAfter(e, tx, 1, {}) = {NoKarma} /\ \A r : RowAfter(e, tx, 1, {r}) = {r}
    BY <1>4 DEF RowAfter, Inserted
  <2>2. Part(f, RowAfter(e, tx, 1, {})) = {NoKarma[f]}
    BY <2>1, PartOne
  <2>3. QED
    BY <1>2, <2>1, <2>2, SteadyInsert
<1>5. CASE e.kind # "KarmaAccountInitialized"
  <2>1. /\ RowAfter(e, tx, 1, {}) = {[NoKarma EXCEPT ![c] = e.count]}
        /\ \A r : RowAfter(e, tx, 1, {r}) = {[r EXCEPT ![c] = e.count]}
    <3>1. \A r : Inserted({r}, NoKarma) = {r} /\ Inserted({}, NoKarma) = {NoKarma}
      BY DEF Inserted
    <3>2. CASE e.kind = "TipKarmaRecorded"
      <4>1. \A o : RowAfter(e, tx, 1, o) = {[r EXCEPT !.tips = e.count] : r \in Inserted(o, NoKarma)}
        BY <3>2 DEF RowAfter
      <4>2. c = "tips"
        BY <3>2
      <4> HIDE DEF c, was
      <4>3. QED
        BY <3>1, <4>1, <4>2
    <3>3. CASE e.kind = "TaskKarmaRecorded"
      <4>1. \A o : RowAfter(e, tx, 1, o) = {[r EXCEPT !.tasks = e.count] : r \in Inserted(o, NoKarma)}
        BY <3>3 DEF RowAfter
      <4>2. c = "tasks"
        BY <3>3
      <4> HIDE DEF c, was
      <4>3. QED
        BY <3>1, <4>1, <4>2
    <3>4. QED
      BY <1>1, <1>5, <3>2, <3>3 DEF KindsOf
  <2>2. ASSUME NEW r, RowsOK("karma", {r})
        PROVE  [r EXCEPT ![c] = e.count][f] = IF f = c THEN e.count ELSE r[f]
    BY <1>3, <2>2
  <2>3. [NoKarma EXCEPT ![c] = e.count][f] = IF f = c THEN e.count ELSE 0
    BY DEF NoKarma
  <2>4. f # "row"
    OBVIOUS
  <2> HIDE DEF was, c
  <2>5. Part(f, RowAfter(e, tx, 1, {})) = {IF f = c THEN e.count ELSE 0}
    <3> DEFINE w == [NoKarma EXCEPT ![c] = e.count]
    <3>1. RowAfter(e, tx, 1, {}) = {w} /\ w[f] = IF f = c THEN e.count ELSE 0
      BY <2>1, <2>3
    <3> HIDE DEF w
    <3>2. QED
      BY <2>4, <3>1, PartOne
  <2>6. ASSUME NEW r, RowsOK("karma", {r})
        PROVE  Part(f, RowAfter(e, tx, 1, {r})) = {IF f = c THEN e.count ELSE r[f]}
    <3> DEFINE w == [r EXCEPT ![c] = e.count]
    <3>1. RowAfter(e, tx, 1, {r}) = {w} /\ w[f] = IF f = c THEN e.count ELSE r[f]
      BY <2>1, <2>2, <2>6
    <3> HIDE DEF w
    <3>2. QED
      BY <2>4, <3>1, PartOne
  <2>7. CASE f = c
    BY <1>2, <2>5, <2>6, <2>7, SteadySet
  <2>8. CASE f # c
    <3>1. \A r : RowsOK("karma", {r}) => Part(f, RowAfter(e, tx, 1, {r})) = Part(f, {r})
      BY <2>4, <2>6, <2>8, PartOne
    <3>2. QED
      BY <1>2, <2>5, <2>8, <3>1, SteadyInsert
  <2>9. QED
    BY <2>7, <2>8
<1>6. QED
  BY <1>4, <1>5

\* Follows and RSVPs are of one user and another, or of an event and a user.
PairKeys(t) ==
  \A n \in {"graph", "rsvps"} : \A k : RowIn(t[n], k) # {} => k = <<k[1], k[2]>>

\* An UPDATE with a WHERE clause
LEMMA SteadyFlip ==
  ASSUME NEW t, Tabled(t), NEW n \in TableNames, n \notin {"tids", "karma"}, NEW k,
         NEW e, NEW tx, NEW q, NEW a, RowIn(t[n], k) = {a},
         RowAfter(e, tx, q, {}) = {}, NEW row, RowAfter(e, tx, q, {a}) = {row},
         \A r : Since(n, {row}, {r}) => RowAfter(e, tx, q, {r}) \in {{r}, {row}}
  PROVE  SteadyIn(t, e, tx, q, n, k)
<1> DEFINE was == RowIn(t[n], k)
<1> HIDE DEF was
<1>1. was = {a} /\ RowAfter(e, tx, q, was) = {row}
  BY DEF was
<1>2. \A o : Part("row", o) = o
  BY DEF Part
<1>3. Steady(n, "row", e, tx, q, was)
  <2>1. \A r : /\ {r} = was => RowAfter(e, tx, q, {r}) = RowAfter(e, tx, q, was)
               /\ Since(n, RowAfter(e, tx, q, was), {r})
                    => RowAfter(e, tx, q, {r}) \in {{r}, RowAfter(e, tx, q, was)}
    BY <1>1
  <2>2. \A r : /\ Part("row", {r}) = Part("row", was)
                    => Part("row", RowAfter(e, tx, q, {r})) = Part("row", RowAfter(e, tx, q, was))
               /\ Since(n, RowAfter(e, tx, q, was), {r})
                    => Part("row", RowAfter(e, tx, q, {r}))
                         \in {Part("row", {r}), Part("row", RowAfter(e, tx, q, was))}
    BY <1>2, <2>1
  <2>3. was # {}
    BY <1>1
  <2>4. QED
    BY <2>2, <2>3, SteadyMove
<1>4. QED
  BY <1>3 DEF SteadyIn, FieldsOf, was

LEMMA SocialSteady ==
  ASSUME NEW s, Tabled(s), PairKeys(s), NEW e \in Emits("social", s), NEW tx, NEW q \in 1..Queries(e)
  PROVE  \E k : Target(e, q) = <<"graph", k>> /\ SteadyIn(s, e, tx, q, "graph", k)
<1> DEFINE k == <<e.who, e.whom>>
           was == RowIn(s["graph"], k)
<1>1. e.kind \in {"Followed", "Unfollowed"} /\ e \in SocialEmits(s)
  BY EmitKinds DEF Programs, KindsOf, Emits, Queries
<1>2. Lone(was) /\ RowsOK("graph", was) /\ FieldsOf("graph") = {"row"}
  BY RowLone DEF TableNames, FieldsOf
<1>3. Target(e, q) = <<"graph", k>>
  BY <1>1 DEF Target, KindsOf
<1>4. CASE e.kind = "Followed"
  <2>1. \A o : Part("row", RowAfter(e, tx, q, o)) = {"live"}
    BY <1>4 DEF RowAfter, Part
  <2> HIDE DEF k, was
  <2>2. Steady("graph", "row", e, tx, q, was)
    BY <1>2, <2>1, SteadySet
  <2>3. QED
    BY <1>2, <1>3, <2>2 DEF SteadyIn, was
<1>5. CASE e.kind = "Unfollowed"
  <2>1. \A o : RowAfter(e, tx, q, o) = {"deleted" : r \in o}
    BY <1>5 DEF RowAfter
  <2>2. /\ Part("row", RowAfter(e, tx, q, {})) = {}
        /\ \A r : Part("row", RowAfter(e, tx, q, {r})) = {"deleted"}
    BY <2>1 DEF Part
  <2>3. was # {}
    <3>1. PICK y \in DOMAIN s.graph : e.who = y[1] /\ e.whom = y[2]
      BY <1>1, <1>5 DEF SocialEmits
    <3>2. y = <<y[1], y[2]>>
      BY DEF PairKeys, RowIn
    <3>3. QED
      BY <3>1, <3>2 DEF RowIn
  <2> HIDE DEF k, was
  <2>4. Steady("graph", "row", e, tx, q, was)
    BY <1>2, <2>2, <2>3, SteadyUpdate
  <2>5. QED
    BY <1>2, <1>3, <2>4 DEF SteadyIn, was
<1>6. QED
  BY <1>1, <1>4, <1>5

LEMMA ChannelSteady ==
  ASSUME NEW s, Tabled(s), NEW e \in Emits("channel", s), NEW tx, NEW q \in 1..Queries(e)
  PROVE  \E k : Target(e, q) = <<"channels", k>> /\ SteadyIn(s, e, tx, q, "channels", k)
<1> DEFINE k == e.pda
           was == RowIn(s["channels"], k)
<1>1. e.kind \in KindsOf.channel /\ e \in ChannelEmits(s)
  BY EmitKinds DEF Programs, KindsOf, Emits
<1>2. Lone(was) /\ RowsOK("channels", was) /\ FieldsOf("channels") = {"row"}
  BY RowLone DEF TableNames, FieldsOf
<1>3. Target(e, q) = <<"channels", k>>
  BY <1>1 DEF Target, KindsOf
<1>4. CASE e.kind = "ChannelRegistered"
  <2>1. \A o : RowAfter(e, tx, q, o) = Inserted(o, e.owner)
    BY <1>4 DEF RowAfter
  <2>2. QED
    BY <1>3, <2>1, SteadyOnce DEF TableNames
<1>5. CASE e.kind = "ChannelUpdated"
  <2>1. \A o : RowAfter(e, tx, q, o) = o
    BY <1>5 DEF RowAfter
  <2> HIDE DEF k, was
  <2>2. Steady("channels", "row", e, tx, q, was)
    BY <1>2, <2>1, SteadyKeep
  <2>3. QED
    BY <1>2, <1>3, <2>2 DEF SteadyIn, was
<1>6. CASE e.kind = "ChannelTransferred"
  <2>1. \A o : RowAfter(e, tx, q, o) = {e.owner : r \in o}
    BY <1>6 DEF RowAfter
  <2>2. /\ Part("row", RowAfter(e, tx, q, {})) = {}
        /\ \A r : Part("row", RowAfter(e, tx, q, {r})) = {e.owner}
    BY <2>1 DEF Part
  <2>3. was # {}
    BY <1>1, <1>6 DEF ChannelEmits, RowIn
  <2> HIDE DEF k, was
  <2>4. Steady("channels", "row", e, tx, q, was)
    BY <1>2, <2>2, <2>3, SteadyUpdate
  <2>5. QED
    BY <1>2, <1>3, <2>4 DEF SteadyIn, was
<1>7. QED
  BY <1>1, <1>4, <1>5, <1>6 DEF KindsOf

LEMMA EventSteady ==
  ASSUME NEW s, Tabled(s), PairKeys(s), NEW e \in Emits("event", s), NEW tx, NEW q \in 1..Queries(e)
  PROVE  \E n, k : Target(e, q) = <<n, k>> /\ SteadyIn(s, e, tx, q, n, k)
<1>1. e.kind \in KindsOf.event /\ e \in EventEmits(s)
  BY EmitKinds DEF Programs, KindsOf, Emits
<1>2. CASE e.kind = "EventCreated"
  <2>1. \A o : RowAfter(e, tx, q, o) = Inserted(o, tx)
    BY <1>2 DEF RowAfter
  <2>2. Target(e, q) = <<"events", e.pda>>
    BY <1>2 DEF Target, KindsOf
  <2>3. QED
    BY <2>1, <2>2, SteadyOnce DEF TableNames
<1>3. CASE e.kind = "EventRsvped"
  <2>1. \A o : RowAfter(e, tx, q, o) = Inserted(o, [status |-> e.status, tx |-> tx])
    BY <1>3 DEF RowAfter
  <2>2. Target(e, q) = <<"rsvps", <<e.pda, e.who>>>>
    BY <1>3 DEF Target, KindsOf
  <2>3. QED
    BY <2>1, <2>2, SteadyOnce DEF TableNames
<1>4. CASE e.kind = "EventRsvpUpdated"
  <2> DEFINE k == <<e.pda, e.who>>
             was == RowIn(s["rsvps"], k)
             row == [status |-> e.status, tx |-> tx]
  <2>1. /\ RowAfter(e, tx, q, {}) = {}
        /\ \A r : RowAfter(e, tx, q, {r}) = {IF r.status # e.status THEN row ELSE r}
    BY <1>4 DEF RowAfter
  <2>2. Target(e, q) = <<"rsvps", k>>
    BY <1>4 DEF Target, KindsOf
  <2>3. PICK y \in DOMAIN s.rsvps : e.pda = y[1] /\ e.who = y[2] /\ s.rsvps[y].status # e.status
    BY <1>1, <1>4 DEF EventEmits
  <2>4. y = k
    BY <2>3 DEF PairKeys, RowIn
  <2> DEFINE a == s.rsvps[y]
  <2>5. was = {a}
    BY <2>4 DEF RowIn
  <2>6. RowAfter(e, tx, q, {a}) = {row}
    BY <2>1, <2>3
  <2> HIDE DEF k, a, row
  <2>7. \A r : Since("rsvps", {row}, {r}) => RowAfter(e, tx, q, {r}) \in {{r}, {row}}
    BY <2>1
  <2>8. "rsvps" \in TableNames /\ "rsvps" \notin {"tids", "karma"}
    BY DEF TableNames
  <2> HIDE DEF was
  <2>9. SteadyIn(s, e, tx, q, "rsvps", k)
    BY <2>1, <2>5, <2>6, <2>7, <2>8, SteadyFlip DEF was
  <2>10. QED
    BY <2>2, <2>9
<1>5. QED
  BY <1>1, <1>2, <1>3, <1>4 DEF KindsOf

\* A task's row is moved on from the status its event found, and a row that is
\* as old as what the event left is not.
LEMMA TaskSteady ==
  ASSUME NEW s, Tabled(s), NEW e \in Emits("task", s), NEW tx, NEW q \in 1..Queries(e)
  PROVE  \E k : Target(e, q) = <<"tasks", k>> /\ SteadyIn(s, e, tx, q, "tasks", k)
<1> DEFINE k == e.pda
           was == RowIn(s["tasks"], k)
           is == RowAfter(e, tx, q, was)
<1>1. e.kind \in KindsOf.task /\ e \in TaskEmits(s)
  BY EmitKinds DEF Programs, KindsOf, Emits
<1>2. Target(e, q) = <<"tasks", k>>
  BY <1>1 DEF Target, KindsOf
<1>3. FieldsOf("tasks") = {"row"} /\ \A o : Part("row", o) = o
  BY DEF FieldsOf, Part
<1>4. CASE e.kind = "TaskCreated"
  <2>1. \A o : RowAfter(e, tx, q, o) = Inserted(o, [status |-> 0, claimer |-> Nobody])
    BY <1>4 DEF RowAfter
  <2>2. QED
    BY <1>2, <2>1, SteadyOnce DEF TableNames
<1>5. CASE e.kind \in {"TaskClaimed", "TaskCancelled"}
  <2> DEFINE row == IF e.kind = "TaskClaimed" THEN [status |-> 1, claimer |-> e.claimer]
                    ELSE [status |-> 3, claimer |-> Nobody]
  <2>1. RowAfter(e, tx, q, {}) = {}
    BY <1>5 DEF RowAfter, Flipped
  <2>2. ASSUME NEW r PROVE RowAfter(e, tx, q, {r}) = {IF r.status = 0 THEN row ELSE r}
    <3>1. CASE e.kind = "TaskClaimed"
      BY <3>1 DEF RowAfter, Flipped
    <3>2. CASE e.kind = "TaskCancelled"
      BY <3>2 DEF RowAfter, Flipped
    <3>3. QED
      BY <1>5, <3>1, <3>2
  <2>3. PICK a : was = {a} /\ a.status = 0
    BY <1>1, <1>5 DEF TaskEmits, RowIn
  <2> HIDE DEF k, row
  <2>4. RowAfter(e, tx, q, {a}) = {row}
    BY <2>2, <2>3
  <2>5. \A r : Since("tasks", {row}, {r}) => RowAfter(e, tx, q, {r}) \in {{r}, {row}}
    BY <2>2
  <2>6. "tasks" \in TableNames /\ "tasks" \notin {"tids", "karma"}
    BY DEF TableNames
  <2> HIDE DEF was
  <2>7. SteadyIn(s, e, tx, q, "tasks", k)
    BY <2>1, <2>3, <2>4, <2>5, <2>6, SteadyFlip DEF was
  <2>8. QED
    BY <1>2, <2>7
<1>6. CASE e.kind = "TaskCompleted"
  <2>1. /\ RowAfter(e, tx, q, {}) = {}
        /\ \A r : RowAfter(e, tx, q, {r}) =
             {IF r.status = 1 THEN [status |-> 2, claimer |-> r.claimer] ELSE r}
    BY <1>6 DEF RowAfter
  <2>2. PICK a : was = {a} /\ a.status = 1
    BY <1>1, <1>6 DEF TaskEmits, RowIn
  <2> DEFINE row == [status |-> 2, claimer |-> a.claimer]
  <2>3. RowAfter(e, tx, q, {a}) = {row}
    BY <2>1, <2>2
  <2>4. \A r : TaskLater(row, r) => r.status # 1
    BY DEF TaskLater
  <2> HIDE DEF k, row
  <2>5. \A r : Since("tasks", {row}, {r}) => TaskLater(row, r)
    BY DEF Since
  <2>6. \A r : Since("tasks", {row}, {r}) => RowAfter(e, tx, q, {r}) = {r}
    BY <2>1, <2>4, <2>5
  <2>7. \A r : Since("tasks", {row}, {r}) => RowAfter(e, tx, q, {r}) \in {{r}, {row}}
    BY <2>6
  <2>8. "tasks" \in TableNames /\ "tasks" \notin {"tids", "karma"}
    BY DEF TableNames
  <2> HIDE DEF was
  <2>9. SteadyIn(s, e, tx, q, "tasks", k)
    BY <2>1, <2>2, <2>3, <2>7, <2>8, SteadyFlip DEF was
  <2>10. QED
    BY <1>2, <2>9
<1>7. QED
  BY <1>1, <1>4, <1>5, <1>6 DEF KindsOf

\* Every query of every handler but the crowdfund's, which adds up pledges
LEMMA QuerySteady ==
  ASSUME NEW p \in Programs \ {"crowdfund"}, NEW s, Tabled(s), PairKeys(s), NEW e \in Emits(p, s),
         NEW tx, NEW q \in 1..Queries(e)
  PROVE  \E n, k : Target(e, q) = <<n, k>> /\ SteadyIn(s, e, tx, q, n, k)
<1>1. e.kind \in KindsOf[p] /\ Queries(e) \in 0..2
  BY EmitKinds DEF Queries
<1>2. CASE p = "tid"
  <2>1. q = 1 /\ Target(e, 1) = <<"tids", e.tid>>
    BY <1>1, <1>2 DEF Target, KindsOf, Queries
  <2>2. QED
    BY <1>2, <2>1, TidSteady
<1>3. CASE p = "username"
  BY <1>3, UsernameSteady
<1>4. CASE p = "social"
  BY <1>4, SocialSteady
<1>5. CASE p = "tip"
  <2>1. e.kind = "TipSent"
    BY <1>1, <1>5 DEF KindsOf, Queries
  <2>2. /\ \A o : RowAfter(e, tx, q, o) = Inserted(o, [amount |-> e.amount, tx |-> tx])
        /\ Target(e, q) = <<"tips", e.pda>>
    BY <2>1 DEF RowAfter, Target, KindsOf
  <2>3. QED
    BY <2>2, SteadyOnce DEF TableNames
<1>6. CASE p = "task"
  BY <1>6, TaskSteady
<1>7. CASE p = "channel"
  BY <1>7, ChannelSteady
<1>8. CASE p = "karma"
  <2>1. CASE q = 1
    <3>1. Target(e, 1) = <<"karma", e.tid>>
      BY <1>1, <1>8 DEF Target, KindsOf
    <3>2. QED
      BY <1>8, <2>1, <3>1, KarmaSteady
  <2>2. CASE q # 1
    <3>1. q = 2 /\ e.kind \in {"TipKarmaRecorded", "TaskKarmaRecorded"}
      BY <1>1, <1>8, <2>2 DEF KindsOf, Queries
    <3>2. /\ \A o : RowAfter(e, tx, q, o) = Inserted(o, [tid |-> e.tid, tx |-> tx])
          /\ Target(e, q) = <<"proofs", e.source>>
      BY <3>1 DEF RowAfter, Target, KindsOf
    <3>3. QED
      BY <3>2, SteadyOnce DEF TableNames
  <2>3. QED
    BY <2>1, <2>2
<1>9. CASE p = "poll"
  <2>1. CASE e.kind = "PollCreated"
    <3>1. (\A o : RowAfter(e, tx, q, o) = Inserted(o, tx)) /\ Target(e, q) = <<"polls", e.pda>>
      BY <2>1 DEF RowAfter, Target, KindsOf
    <3>2. QED
      BY <3>1, SteadyOnce DEF TableNames
  <2>2. CASE e.kind = "PollVoted"
    <3>1. /\ \A o : RowAfter(e, tx, q, o) = Inserted(o, [option |-> e.option, tx |-> tx])
          /\ Target(e, q) = <<"votes", <<e.pda, e.voter>>>>
      BY <2>2 DEF RowAfter, Target, KindsOf
    <3>2. QED
      BY <3>1, SteadyOnce DEF TableNames
  <2>3. QED
    BY <1>1, <1>9, <2>1, <2>2 DEF KindsOf
<1>10. CASE p = "event"
  BY <1>10, EventSteady
<1>11. QED
  BY <1>2, <1>3, <1>4, <1>5, <1>6, <1>7, <1>8, <1>9, <1>10 DEF Programs

------------------------------------------------------------------------------
(* What a handler run alone does to a row *)

\* The two queries of a handler write two rows.
LEMMA TwoRows ==
  ASSUME NEW p \in Programs \ {"crowdfund"}, NEW s, NEW e \in Emits(p, s), Queries(e) = 2
  PROVE  Target(e, 1) # Target(e, 2)
<1>1. e.kind \in KindsOf[p]
  BY EmitKinds
<1>2. CASE p = "username"
  <2>1. e.kind = "UsernameTransferred" /\ e \in UsernameEmits(s)
    BY <1>1, <1>2 DEF KindsOf, Queries, Emits
  <2>2. s.tids[e.from].username \in Names /\ s.tids[e.tid].username = Nobody
    BY <2>1 DEF UsernameEmits
  <2>3. e.from # e.tid
    BY <2>2, NamesAssumption
  <2>4. Target(e, 1) = <<"tids", e.from>> /\ Target(e, 2) = <<"tids", e.tid>>
    BY <2>1 DEF Target, KindsOf
  <2>5. QED
    BY <2>3, <2>4
<1>3. CASE p = "karma"
  <2>1. e.kind \in {"TipKarmaRecorded", "TaskKarmaRecorded"}
    BY <1>1, <1>3 DEF KindsOf, Queries
  <2>2. Target(e, 1) = <<"karma", e.tid>> /\ Target(e, 2) = <<"proofs", e.source>>
    BY <2>1 DEF Target, KindsOf
  <2>3. QED
    BY <2>2
<1>4. p \in {"username", "karma"}
  BY <1>1 DEF KindsOf, Queries, Programs
<1>5. QED
  BY <1>2, <1>3, <1>4

LEMMA QueryEffect ==
  ASSUME NEW p \in Programs, NEW t, Tabled(t), NEW e, e.kind \in KindsOf[p], NEW tx,
         NEW q \in 1..Queries(e), NEW n \in TableNames
  PROVE  /\ \A k : RowIn(Query(p, t, e, tx, q)[n], k) =
              IF Target(e, q) = <<n, k>> THEN RowAfter(e, tx, q, RowIn(t[n], k)) ELSE RowIn(t[n], k)
         /\ n \notin TablesOf[p] => Query(p, t, e, tx, q)[n] = t[n]
<1> DEFINE u == Query(p, t, e, tx, q)
<1>1. PICK m, y : Target(e, q) = <<m, y>>
  BY TargetOf
<1>2. m \in TableNames /\ m \in TablesOf[p]
  BY <1>1, TargetOf
<1>3. OneRow(t, u, m, y, RowAfter(e, tx, q, RowIn(t[m], y)))
  BY <1>1, QueryRow DEF QueryIsRow, RowOf
<1> HIDE DEF u
<1>4. ASSUME NEW k
      PROVE  RowIn(u[n], k) =
               IF Target(e, q) = <<n, k>> THEN RowAfter(e, tx, q, RowIn(t[n], k)) ELSE RowIn(t[n], k)
  BY <1>1, <1>2, <1>3 DEF OneRow
<1>5. n \notin TablesOf[p] => u[n] = t[n]
  BY <1>2, <1>3 DEF OneRow
<1>6. QED
  BY <1>4, <1>5 DEF u

LEMMA HandledRow ==
  ASSUME NEW p \in Programs \ {"crowdfund"}, NEW s, Tabled(s), NEW e \in Emits(p, s), NEW tx,
         NEW n \in TableNames, NEW k
  PROVE  LET u == Handled(p, s, e, tx) IN
         /\ \A q \in 1..Queries(e) : Target(e, q) = <<n, k>>
              => RowIn(u[n], k) = RowAfter(e, tx, q, RowIn(s[n], k))
         /\ (\A q \in 1..Queries(e) : Target(e, q) # <<n, k>>) => RowIn(u[n], k) = RowIn(s[n], k)
<1> DEFINE u == Handled(p, s, e, tx)
<1>1. e.kind \in KindsOf[p] /\ Queries(e) \in 0..2
  BY EmitKinds DEF Queries
<1>2. CASE Queries(e) = 0
  BY <1>2 DEF Handled
<1>3. CASE Queries(e) = 1
  <2>1. u = Query(p, s, e, tx, 1) /\ 1 \in 1..Queries(e)
    BY <1>3 DEF Handled
  <2>2. RowIn(u[n], k) =
          IF Target(e, 1) = <<n, k>> THEN RowAfter(e, tx, 1, RowIn(s[n], k)) ELSE RowIn(s[n], k)
    BY <1>1, <2>1, QueryEffect
  <2> HIDE DEF u
  <2>3. QED
    BY <1>3, <2>2 DEF u
<1>4. CASE Queries(e) = 2
  <2> DEFINE v == Query(p, s, e, tx, 1)
  <2>1. u = Query(p, v, e, tx, 2) /\ 1 \in 1..Queries(e) /\ 2 \in 1..Queries(e)
    BY <1>4 DEF Handled
  <2>2. Tabled(v)
    BY <1>1, <2>1, QueryTabled
  <2>3. RowIn(v[n], k) =
          IF Target(e, 1) = <<n, k>> THEN RowAfter(e, tx, 1, RowIn(s[n], k)) ELSE RowIn(s[n], k)
    BY <1>1, <2>1, QueryEffect
  <2> HIDE DEF v
  <2>4. RowIn(u[n], k) =
          IF Target(e, 2) = <<n, k>> THEN RowAfter(e, tx, 2, RowIn(v[n], k)) ELSE RowIn(v[n], k)
    BY <1>1, <2>1, <2>2, QueryEffect
  <2>5. Target(e, 1) # Target(e, 2)
    BY <1>4, TwoRows
  <2> HIDE DEF u
  <2>6. ASSUME NEW q \in 1..Queries(e), Target(e, q) = <<n, k>>
        PROVE  RowIn(u[n], k) = RowAfter(e, tx, q, RowIn(s[n], k))
    <3>1. q \in 1..2
      BY <1>4
    <3>2. CASE q = 1
      BY <2>3, <2>4, <2>5, <2>6, <3>2
    <3>3. CASE q = 2
      BY <2>3, <2>4, <2>5, <2>6, <3>3
    <3>4. QED
      BY <3>1, <3>2, <3>3
  <2>7. QED
    BY <2>1, <2>3, <2>4, <2>6 DEF u
<1>5. QED
  BY <1>1, <1>2, <1>3, <1>4

\* The keys stay pairs, and other programs' tables stay.
LEMMA QueryKeys ==
  ASSUME NEW p \in Programs, NEW t, Tabled(t), PairKeys(t), NEW e, e.kind \in KindsOf[p], NEW tx,
         NEW q \in 1..Queries(e)
  PROVE  PairKeys(Query(p, t, e, tx, q))
<1> DEFINE u == Query(p, t, e, tx, q)
<1> SUFFICES ASSUME NEW n \in {"graph", "rsvps"}, NEW k, RowIn(u[n], k) # {}
             PROVE  k = <<k[1], k[2]>>
  BY DEF PairKeys
<1>1. RowIn(u[n], k) =
        IF Target(e, q) = <<n, k>> THEN RowAfter(e, tx, q, RowIn(t[n], k)) ELSE RowIn(t[n], k)
  BY QueryEffect DEF TableNames
<1>2. CASE Target(e, q) = <<n, k>>
  <2>1. n \in TablesOf[p]
    BY <1>2, TargetOf
  <2>2. p \in {"social", "event"}
    BY <2>1 DEF TablesOf, Programs
  <2>3. CASE p = "social"
    <3>1. e.kind \in KindsOf.social
      BY <2>3
    <3>2. Target(e, q) = <<"graph", <<e.who, e.whom>>>>
      BY <3>1 DEF Target, KindsOf
    <3>3. QED
      BY <1>2, <3>2
  <2>4. CASE p = "event"
    <3>1. e.kind \in {"EventRsvped", "EventRsvpUpdated"} \/ e.kind = "EventCreated"
      BY <2>4 DEF KindsOf
    <3>2. e.kind = "EventCreated" => Target(e, q) = <<"events", e.pda>>
      BY DEF Target, KindsOf
    <3>3. e.kind \in {"EventRsvped", "EventRsvpUpdated"} =>
            Target(e, q) = <<"rsvps", <<e.pda, e.who>>>>
      BY DEF Target, KindsOf
    <3>4. QED
      BY <1>2, <3>1, <3>2, <3>3
  <2>5. QED
    BY <2>2, <2>3, <2>4
<1>3. CASE Target(e, q) # <<n, k>>
  <2> HIDE DEF u
  <2>1. QED
    BY <1>1, <1>3 DEF PairKeys
<1>4. QED
  BY <1>2, <1>3

LEMMA HandledKeeps ==
  ASSUME NEW p \in Programs, NEW t, Tabled(t), NEW e \in Emits(p, t), NEW tx
  PROVE  LET u == Handled(p, t, e, tx) IN
         /\ PairKeys(t) => PairKeys(u)
         /\ \A n \in TableNames \ TablesOf[p] : u[n] = t[n]
<1> DEFINE u == Handled(p, t, e, tx)
<1>1. e.kind \in KindsOf[p] /\ Queries(e) \in 0..2
  BY EmitKinds DEF Queries
<1>2. CASE Queries(e) = 0
  BY <1>2 DEF Handled
<1>3. CASE Queries(e) = 1
  <2>1. u = Query(p, t, e, tx, 1) /\ 1 \in 1..Queries(e)
    BY <1>3 DEF Handled
  <2>2. \A n \in TableNames \ TablesOf[p] : u[n] = t[n]
    BY <1>1, <2>1, QueryEffect
  <2>3. PairKeys(t) => PairKeys(u)
    BY <1>1, <2>1, QueryKeys
  <2>4. QED
    BY <2>2, <2>3
<1>4. CASE Queries(e) = 2
  <2> DEFINE v == Query(p, t, e, tx, 1)
  <2>1. u = Query(p, v, e, tx, 2) /\ 1 \in 1..Queries(e) /\ 2 \in 1..Queries(e)
    BY <1>4 DEF Handled
  <2>2. Tabled(v) /\ \A n \in TableNames \ TablesOf[p] : v[n] = t[n]
    BY <1>1, <2>1, QueryTabled, QueryEffect
  <2>3. PairKeys(t) => PairKeys(v)
    BY <1>1, <2>1, QueryKeys
  <2> HIDE DEF v
  <2>4. \A n \in TableNames \ TablesOf[p] : u[n] = v[n]
    BY <1>1, <2>1, <2>2, QueryEffect
  <2>5. PairKeys(v) => PairKeys(u)
    BY <1>1, <2>1, <2>2, QueryKeys
  <2>6. QED
    BY <2>2, <2>3, <2>4, <2>5
<1>5. QED
  BY <1>1, <1>2, <1>3, <1>4

\* So do they through a transaction.
LEMMA TxKeeps ==
  ASSUME NEW x, NEW r, IsTx(x, r), r.prog \in Programs, NEW i \in DOMAIN r.states
  PROVE  /\ PairKeys(r.states[1]) => PairKeys(r.states[i])
         /\ \A n \in TableNames \ TablesOf[r.prog] : r.states[i][n] = r.states[1][n]
<1>1. /\ i \in 1..3 /\ i <= Len(r.states) /\ Len(r.states) = Len(r.events) + 1
      /\ Len(r.events) \in 0..2 /\ DOMAIN r.events = 1..Len(r.events)
  BY TxShape
<1>2. ASSUME NEW h \in DOMAIN r.events
      PROVE  /\ PairKeys(r.states[h]) => PairKeys(r.states[h + 1])
             /\ \A n \in TableNames \ TablesOf[r.prog] : r.states[h + 1][n] = r.states[h][n]
  <2>1. /\ Tabled(r.states[h]) /\ r.events[h] \in Emits(r.prog, r.states[h])
        /\ r.states[h + 1] = Handled(r.prog, r.states[h], r.events[h], x)
    BY TxShape DEF IsTx
  <2>2. QED
    BY <2>1, HandledKeeps
<1>3. CASE i = 1
  BY <1>3
<1>4. CASE i = 2
  <2>1. 1 \in DOMAIN r.events /\ 1 + 1 = 2
    BY <1>1, <1>4
  <2>2. QED
    BY <1>2, <1>4, <2>1
<1>5. CASE i = 3
  <2>1. 1 \in DOMAIN r.events /\ 1 + 1 = 2 /\ 2 \in DOMAIN r.events /\ 2 + 1 = 3
    BY <1>1, <1>5
  <2>2. /\ PairKeys(r.states[1]) => PairKeys(r.states[2])
        /\ \A n \in TableNames \ TablesOf[r.prog] : r.states[2][n] = r.states[1][n]
    BY <1>2, <2>1
  <2>3. /\ PairKeys(r.states[2]) => PairKeys(r.states[3])
        /\ \A n \in TableNames \ TablesOf[r.prog] : r.states[3][n] = r.states[2][n]
    BY <1>2, <2>1
  <2>4. QED
    BY <1>5, <2>2, <2>3
<1>6. QED
  BY <1>1, <1>3, <1>4, <1>5

------------------------------------------------------------------------------
(* A program that has its tables to itself finds them as it left them. *)

Final(y) == IF y = 0 THEN Origin ELSE After(y)

\* No transaction of p succeeded between y and x.
Successive(p, y, x) == y < x /\ \A z \in Good(p) : ~(y < z /\ z < x)

LinkedTable(p, n) ==
  /\ \A x \in Good(p), y \in Good(p) \cup {0} :
       Successive(p, y, x) => chain[x].states[1][n] = Final(y)[n]
  /\ \A y \in Good(p) \cup {0} : (\A z \in Good(p) : z <= y) => accounts[n] = Final(y)[n]

Linked ==
  /\ PairKeys(accounts)
  /\ \A x \in DOMAIN chain : \A i \in DOMAIN chain[x].states : PairKeys(chain[x].states[i])
  /\ \A p \in followed : OwnTables(p) => \A n \in TablesOf[p] : LinkedTable(p, n)

LEMMA TablesNamed == \A p \in Programs : TablesOf[p] \subseteq TableNames
  BY DEF Programs, TablesOf, TableNames

LEMMA LinkedInit == Init => Linked
<1> SUFFICES ASSUME Init PROVE Linked
  OBVIOUS
<1>1. Good("x") = {} /\ \A p : Good(p) = {}
  BY DEF Init, Good
<1>2. accounts = Origin /\ chain = <<>>
  BY DEF Init, Origin
<1>3. PairKeys(accounts)
  <2>1. \A n \in {"graph", "rsvps"} : NoRows[n] = Empty /\ Registered[n] = Empty
    BY DEF NoRows, Registered
  <2>2. \A k : RowIn(Empty, k) = {}
    BY DEF RowIn, Empty
  <2>3. \A n \in {"graph", "rsvps"} : accounts[n] = Empty
    BY <2>1 DEF Init
  <2>4. QED
    BY <2>2, <2>3 DEF PairKeys
<1>4. ASSUME NEW p, NEW n PROVE LinkedTable(p, n)
  BY <1>1, <1>2 DEF LinkedTable, Final
<1>5. QED
  BY <1>2, <1>3, <1>4 DEF Linked

LEMMA LinkedConfirm ==
  ASSUME Shape, ChainTables, Linked, NEW p \in Programs, Confirm(p)
  PROVE  Linked'
<1> DEFINE x == Len(chain) + 1
           r == chain'[x]
<1>1. /\ Len(chain) \in Nat /\ DOMAIN chain = 1..Len(chain) /\ p \in followed
      /\ DOMAIN chain' = 1..(Len(chain) + 1) /\ \A z \in DOMAIN chain : chain'[z] = chain[z]
      /\ r.prog = p /\ r.ok \in BOOLEAN
      /\ \A s : Good(s)' = Good(s) \cup (IF s = p /\ r.ok THEN {x} ELSE {})
  BY ConfirmAdds, ChainFacts DEF Shape
<1>2. IsTx(x, r) /\ r.states[1] = accounts /\ accounts' = r.states[Len(r.states)]
  BY ConfirmTx DEF ChainTables
<1>3. followed' = followed /\ Origin' = Origin /\ \A s : OwnTables(s)' <=> OwnTables(s)
  BY DEF Confirm, Origin, OwnTables
<1>4. 1 \in DOMAIN r.states /\ Len(r.states) \in DOMAIN r.states /\ x \in DOMAIN chain'
  BY <1>1, <1>2, TxShape
<1> HIDE DEF x, r
<1>5. \A i \in DOMAIN r.states :
        /\ PairKeys(accounts) => PairKeys(r.states[i])
        /\ \A n \in TableNames \ TablesOf[p] : r.states[i][n] = accounts[n]
  BY <1>1, <1>2, TxKeeps
<1>6. PairKeys(accounts')
  BY <1>2, <1>4, <1>5 DEF Linked
<1>7. ASSUME NEW z \in DOMAIN chain', NEW i \in DOMAIN chain'[z].states
      PROVE  PairKeys(chain'[z].states[i])
  <2>1. CASE z \in DOMAIN chain
    BY <1>1, <1>7, <2>1 DEF Linked
  <2>2. CASE z = x
    BY <1>5, <1>7, <2>2 DEF Linked, r
  <2>3. QED
    BY <1>1, <2>1, <2>2 DEF x
<1>8. ASSUME NEW s, NEW y \in Good(s) \cup {0}
      PROVE  Final(y)' = Final(y) /\ y \in Nat /\ y <= Len(chain) /\ y < x
  <2>1. y = 0 \/ y \in DOMAIN chain
    BY DEF Good
  <2>2. y \in Nat /\ y <= Len(chain) /\ y < x
    BY <1>1, <2>1 DEF x
  <2>3. QED
    BY <1>1, <1>3, <2>1, <2>2 DEF Final, After
<1>9. ASSUME NEW s \in followed, OwnTables(s), NEW n \in TablesOf[s]
      PROVE  LinkedTable(s, n)'
  <2>1. LinkedTable(s, n)
    BY <1>9 DEF Linked
  <2>2. s \in Programs /\ n \in TableNames
    BY TablesNamed DEF Shape, Chains
  <2>3. CASE s # p \/ ~r.ok
    <3>1. Good(s)' = Good(s)
      BY <1>1, <2>3
    <3>2. accounts'[n] = accounts[n]
      <4>1. CASE s # p
        <5>1. n \notin TablesOf[p]
          BY <1>1, <1>9, <4>1 DEF OwnTables
        <5>2. QED
          BY <1>2, <1>4, <1>5, <2>2, <5>1
      <4>2. CASE ~r.ok
        <5>1. Len(r.states) = 1
          BY <1>2, <4>2 DEF IsTx
        <5>2. QED
          BY <1>2, <5>1
      <4>3. QED
        BY <2>3, <4>1, <4>2
    <3>3. \A z \in Good(s) : z \in DOMAIN chain /\ chain'[z] = chain[z]
      BY <1>1 DEF Good
    <3>4. \A z, y : Successive(s, y, z)' <=> Successive(s, y, z)
      BY <3>1 DEF Successive
    <3>5. \A z \in Good(s)', y \in (Good(s) \cup {0})' :
            Successive(s, y, z)' => chain'[z].states[1][n] = Final(y)'[n]
      BY <1>8, <2>1, <3>1, <3>3, <3>4 DEF LinkedTable
    <3>6. \A y \in (Good(s) \cup {0})' : (\A z \in Good(s)' : z <= y) => accounts'[n] = Final(y)'[n]
      BY <1>8, <2>1, <3>1, <3>2 DEF LinkedTable
    <3>7. QED
      BY <3>5, <3>6 DEF LinkedTable
  <2>4. CASE s = p /\ r.ok
    <3>1. Good(s)' = Good(s) \cup {x}
      BY <1>1, <2>4
    <3>2. ASSUME NEW z \in Good(s)', NEW y \in Good(s)' \cup {0}, Successive(s, y, z)'
          PROVE  chain'[z].states[1][n] = Final(y)'[n]
      <4>1. y < z /\ \A w \in Good(s) : ~(y < w /\ w < z)
        BY <3>1, <3>2 DEF Successive
      <4>2. y \in Good(s) \cup {0}
        <5>1. CASE y = x
          <6>1. z \in Nat /\ z <= x
            BY <1>8, <3>1 DEF x
          <6>2. x \in Nat
            BY <1>1 DEF x
          <6>3. QED
            BY <4>1, <5>1, <6>1, <6>2
        <5>2. QED
          BY <3>1, <5>1
      <4>3. Final(y)' = Final(y) /\ y \in Nat
        BY <1>8, <4>2
      <4>4. CASE z = x
        <5>1. \A w \in Good(s) : w \in Nat /\ w < x
          BY <1>8
        <5>2. \A w \in Good(s) : w <= y
          BY <4>1, <4>3, <4>4, <5>1
        <5>3. accounts[n] = Final(y)[n]
          BY <2>1, <4>2, <5>2 DEF LinkedTable
        <5>4. QED
          BY <1>2, <4>3, <4>4, <5>3 DEF r
      <4>5. CASE z # x
        <5>1. z \in Good(s) /\ Successive(s, y, z)
          BY <3>1, <4>1, <4>5 DEF Successive
        <5>2. chain'[z] = chain[z]
          BY <1>1, <5>1 DEF Good
        <5>3. QED
          BY <2>1, <4>2, <4>3, <5>1, <5>2 DEF LinkedTable
      <4>6. QED
        BY <4>4, <4>5
    <3>3. ASSUME NEW y \in Good(s)' \cup {0}, \A z \in Good(s)' : z <= y
          PROVE  accounts'[n] = Final(y)'[n]
      <4>1. x <= y /\ x \in Nat /\ x # 0
        BY <1>1, <3>1, <3>3 DEF x
      <4>2. y = x
        BY <1>8, <3>1, <4>1
      <4>3. QED
        BY <1>2, <4>1, <4>2 DEF Final, After, r
    <3>4. QED
      BY <3>2, <3>3 DEF LinkedTable
  <2>5. QED
    BY <1>1, <2>3, <2>4
<1>10. QED
  BY <1>3, <1>6, <1>7, <1>9 DEF Linked

LEMMA OnlyConfirmChains ==
  ASSUME [Next]_vars
  PROVE  UNCHANGED chainVars \/ \E p \in Programs : Confirm(p)
  BY DEF Next, vars, Subscribe, Activate, Deliver, Close, Crash, RunJob, JobFails, RunQuery,
         AdvanceCursor, QueryFails, AdvanceFails, BackfillStep, BackfillFails, ReadCursor,
         ListPage, FetchTx, FinishBackfill, ListFails, FetchFails

LEMMA LinkedStep == Shape /\ ChainTables /\ Linked /\ [Next]_vars => Linked'
<1> SUFFICES ASSUME Shape, ChainTables, Linked, [Next]_vars PROVE Linked'
  OBVIOUS
<1>1. CASE \E p \in Programs : Confirm(p)
  BY <1>1, LinkedConfirm
<1>2. CASE UNCHANGED chainVars
  BY <1>2 DEF Linked, LinkedTable, Successive, Final, After, Origin, OwnTables, Good, chainVars
<1>3. QED
  BY <1>1, <1>2, OnlyConfirmChains

------------------------------------------------------------------------------
(* The order of a hub that only replays *)

\* The premise of ReplayExact
Exact == BackfillOnly /\ errors = 0 /\ Limit >= MaxTx

\* The backfill of the last call for p has not read the cursor.
Waiting(p) == dials = 0 \/ backfill[dials][p].phase \in {"off", "start"}

\* What that backfill, or the next one, has to replay
Todo(p) ==
  IF Waiting(p) THEN {y \in Good(p) : y > cursor[p].sig}
  ELSE Left(p, backfill[dials][p]) \cap Good(p)

\* Only the last call's backfills run, and none before the next call.
OneAtATime ==
  /\ \A g \in Dials : link[g] # "live"
  /\ \A g \in Dials, p \in Programs : g # dials => backfill[g][p].phase = "off"
  /\ \A j \in jobs : j.owner = Replay(dials)
  /\ NotConnected => jobs = {} /\ \A g \in Dials, p \in Programs : backfill[g][p].phase = "off"

\* What is replayed next is newer than the cursor, and comes after everything
\* that is done and before everything that is not.
InOrder(p) ==
  /\ \A z \in Todo(p) : z > cursor[p].sig
  /\ \A y \in Good(p) : y <= cursor[p].sig => y \in done
  /\ \A z \in Todo(p), y \in Good(p) \ Todo(p) : y < z <=> y \in done
  /\ dials > 0 /\ backfill[dials][p].phase = "listing" => backfill[dials][p].until = cursor[p].sig

Ordered == OneAtATime /\ \A p \in Programs : InOrder(p)

LEMMA OrderedInit == Init => Ordered
<1> SUFFICES ASSUME Init PROVE Ordered
  OBVIOUS
<1>1. OneAtATime
  BY DEF Init, OneAtATime, NoBackfill
<1>2. ASSUME NEW p \in Programs PROVE InOrder(p)
  BY DEF Init, InOrder, Todo, Waiting, Good
<1>3. QED
  BY <1>1, <1>2 DEF Ordered

\* Failures are counted, and an endpoint that is not reached answers nothing.
LEMMA ExactStep ==
  ASSUME Shape, [Next]_vars, Exact'
  PROVE  /\ Exact
         /\ \A g \in Dials : ~Activate(g)
         /\ \A j \in jobs : ~JobFails(j)
         /\ \A g \in Dials, p \in Programs : ~BackfillFails(g, p)
<1>1. errors \in Nat
  BY DEF Shape, History
<1>2. errors' = errors \/ errors' = errors + 1
  BY DEF Next, vars, faults, Confirm, Subscribe, Activate, Deliver, Close, Crash, RunJob, JobFails,
         RunQuery, AdvanceCursor, QueryFails, AdvanceFails, BackfillStep, BackfillFails, ReadCursor,
         ListPage, FetchTx, FinishBackfill, ListFails, FetchFails
<1>3. errors' = 0 /\ errors = 0 /\ Limit >= MaxTx /\ ~reachable'
  BY <1>1, <1>2 DEF Exact, BackfillOnly
<1>4. reachable' = reachable
  BY DEF Next, vars, chainVars, Confirm, Subscribe, Activate, Deliver, Close, Crash, RunJob, JobFails,
         RunQuery, AdvanceCursor, QueryFails, AdvanceFails, BackfillStep, BackfillFails, ReadCursor,
         ListPage, FetchTx, FinishBackfill, ListFails, FetchFails
<1>5. Exact /\ \A g \in Dials : ~Activate(g)
  BY <1>3, <1>4 DEF Exact, BackfillOnly, Activate
<1>6. /\ \A j \in jobs : ~JobFails(j)
      /\ \A g \in Dials, p \in Programs : ~BackfillFails(g, p)
  BY <1>1, <1>3 DEF JobFails, QueryFails, AdvanceFails, BackfillFails, ListFails, FetchFails
<1>7. QED
  BY <1>5, <1>6

\* Todo of the next state, by what becomes of the backfill
LEMMA TodoNext ==
  ASSUME dials \in Nat, UNCHANGED <<chainVars, dials>>, NEW p
  PROVE  /\ dials > 0 => \A b : backfill'[dials][p] = b =>
              Todo(p)' = IF b.phase \in {"off", "start"} THEN {y \in Good(p) : y > cursor'[p].sig}
                         ELSE Left(p, b) \cap Good(p)
         /\ cursor'[p] = cursor[p] /\ (dials > 0 => backfill'[dials][p] = backfill[dials][p])
              => Todo(p)' = Todo(p)
<1>1. Good(p)' = Good(p) /\ dials' = dials
  BY DEF Good, chainVars
<1>2. ASSUME NEW b, dials > 0, backfill'[dials][p] = b
      PROVE  Todo(p)' = IF b.phase \in {"off", "start"} THEN {y \in Good(p) : y > cursor'[p].sig}
                        ELSE Left(p, b) \cap Good(p)
  <2>1. Left(p, backfill[dials][p])' = Left(p, b)
    BY <1>1, <1>2 DEF Left, Listable, chainVars
  <2>2. Waiting(p)' <=> b.phase \in {"off", "start"} \/ dials = 0
    BY <1>1, <1>2 DEF Waiting
  <2>3. CASE dials = 0
    BY <1>2, <2>3
  <2>4. CASE dials # 0
    BY <1>1, <2>1, <2>2, <2>4 DEF Todo
  <2>5. QED
    BY <2>3, <2>4
<1>3. ASSUME cursor'[p] = cursor[p], dials > 0 => backfill'[dials][p] = backfill[dials][p]
      PROVE  Todo(p)' = Todo(p)
  <2>1. CASE dials > 0
    <3>1. Todo(p) = IF backfill[dials][p].phase \in {"off", "start"}
                      THEN {y \in Good(p) : y > cursor[p].sig}
                    ELSE Left(p, backfill[dials][p]) \cap Good(p)
      BY <2>1 DEF Todo, Waiting
    <3>2. QED
      BY <1>2, <1>3, <2>1, <3>1
  <2>2. CASE ~(dials > 0)
    <3>1. dials = 0
      BY <2>2
    <3>2. QED
      BY <1>1, <1>3, <3>1 DEF Todo, Waiting
  <2>3. QED
    BY <2>1, <2>2
<1>4. QED
  BY <1>2, <1>3

\* Only jobs change.
LEMMA OrderedFrame ==
  ASSUME Ordered, UNCHANGED <<chainVars, cursor, linkVars, backfill, done>>,
         \A j \in jobs' : j.owner = Replay(dials), NotConnected => jobs' = {}
  PROVE  Ordered' /\ \A p : Todo(p)' = Todo(p)
<1>1. \A p : Todo(p)' = Todo(p) /\ Good(p)' = Good(p)
  BY DEF Todo, Waiting, Good, Left, Listable, chainVars, linkVars
<1>2. OneAtATime'
  BY DEF Ordered, OneAtATime, NotConnected, Replay, linkVars
<1>3. \A p \in Programs : InOrder(p)'
  BY <1>1 DEF Ordered, InOrder, linkVars
<1>4. QED
  BY <1>1, <1>2, <1>3 DEF Ordered

\* The backfill for p goes on, with as much to replay as before.
LEMMA OrderedBackfill ==
  ASSUME Shape, Ordered, NEW p \in Programs, NEW b, dials > 0, dials \in Dials,
         OnlyChanged(dials, p, b), UNCHANGED <<chainVars, cursor, linkVars, jobs, done>>,
         backfill[dials][p].phase # "off", Todo(p)' = Todo(p),
         b.phase = "listing" => b.until = cursor[p].sig
  PROVE  Ordered' /\ \A r \in Programs : Todo(r)' = Todo(r)
<1>1. dials' = dials /\ link' = link /\ \A r : Good(r)' = Good(r)
  BY DEF Good, chainVars, linkVars
<1>2. /\ backfill'[dials][p] = b
      /\ \A g \in Dials, r \in Programs : g # dials \/ r # p => backfill'[g][r] = backfill[g][r]
  BY DEF OnlyChanged
<1>3. ASSUME NEW r \in Programs, r # p PROVE Todo(r)' = Todo(r)
  BY <1>2, <1>3, TodoNext DEF Dials, linkVars
<1>4. OneAtATime'
  <2>1. ~NotConnected
    BY DEF Ordered, OneAtATime
  <2>2. ~NotConnected'
    BY <1>1, <2>1 DEF NotConnected
  <2>3. QED
    BY <1>1, <1>2, <2>2 DEF Ordered, OneAtATime, Replay
<1>5. ASSUME NEW r \in Programs PROVE InOrder(r)'
  <2>1. Todo(r)' = Todo(r) /\ Good(r)' = Good(r)
    BY <1>1, <1>3
  <2>2. backfill'[dials][r].phase = "listing" => backfill'[dials][r].until = cursor[r].sig
    BY <1>2 DEF Ordered, InOrder
  <2>3. QED
    BY <1>1, <2>1, <2>2 DEF Ordered, InOrder
<1>6. QED
  BY <1>3, <1>4, <1>5 DEF Ordered

LEMMA OrderedReadCursor ==
  ASSUME Shape, Ordered, NEW g \in Dials, NEW p \in Programs, ReadCursor(g, p)
  PROVE  Ordered' /\ \A r \in Programs : Todo(r)' = Todo(r)
<1> DEFINE b == [backfill[g][p] EXCEPT !.phase = "listing", !.until = cursor[p].sig]
<1>1. g = dials /\ dials > 0
  BY BackfillDialled DEF ReadCursor, Ordered, OneAtATime, Dials
<1>2. backfill[g][p] \in BackfillType /\ backfill[g][p].queue = <<>> /\ backfill[g][p].before = 0
  BY BackfillFacts DEF ReadCursor, GoodBackfill, ListsDown
<1>3. backfill' = [backfill EXCEPT ![g][p] = b]
  BY <1>2 DEF ReadCursor, Shape, Backfills
<1>4. b.phase = "listing" /\ b.until = cursor[p].sig /\ b.queue = <<>> /\ b.before = 0
  BY <1>2 DEF BackfillType
<1> HIDE DEF b
<1>5. OnlyChanged(g, p, b)
  BY <1>3 DEF OnlyChanged, Shape, Backfills
<1>6. Todo(p)' = Todo(p)
  <2>1. Todo(p) = {y \in Good(p) : y > cursor[p].sig}
    BY <1>1 DEF ReadCursor, Todo, Waiting
  <2>2. Todo(p)' = Left(p, b) \cap Good(p)
    <3>1. UNCHANGED <<chainVars, dials>>
      BY DEF ReadCursor, linkVars
    <3>2. backfill'[dials][p] = b /\ dials \in Nat
      BY <1>1, <1>5 DEF OnlyChanged, Dials
    <3>3. QED
      BY <1>1, <1>4, <3>1, <3>2, TodoNext
  <2>3. Left(p, b) = Listable(p, b)
    BY <1>4 DEF Left
  <2>4. Listable(p, b) \cap Good(p) = {y \in Good(p) : y > cursor[p].sig}
    BY <1>4 DEF Listable, Good
  <2>5. QED
    BY <2>1, <2>2, <2>3, <2>4
<1>7. QED
  BY <1>1, <1>4, <1>5, <1>6, OrderedBackfill DEF ReadCursor

LEMMA OrderedFinish ==
  ASSUME Shape, Ordered, NEW g \in Dials, NEW p \in Programs, FinishBackfill(g, p)
  PROVE  Ordered' /\ \A r \in Programs : Todo(r)' = Todo(r)
<1> DEFINE b == [backfill[g][p] EXCEPT !.phase = "complete"]
<1>1. g = dials /\ dials > 0
  BY BackfillDialled DEF FinishBackfill, Ordered, OneAtATime, Dials
<1>2. backfill[g][p] \in BackfillType /\ backfill[g][p].queue = <<>> /\ backfill[g][p].phase = "replay"
  BY BackfillFacts DEF FinishBackfill
<1>3. backfill' = [backfill EXCEPT ![g][p] = b]
  BY <1>2 DEF FinishBackfill, Shape, Backfills
<1>4. b.phase = "complete" /\ b.queue = <<>>
  BY <1>2 DEF BackfillType
<1> HIDE DEF b
<1>5. OnlyChanged(g, p, b)
  BY <1>3 DEF OnlyChanged, Shape, Backfills
<1>6. Todo(p)' = Todo(p)
  <2>1. Todo(p) = {}
    BY <1>1, <1>2 DEF Todo, Waiting, Left
  <2>2. Todo(p)' = Left(p, b) \cap Good(p)
    <3>1. UNCHANGED <<chainVars, dials>>
      BY DEF FinishBackfill, linkVars
    <3>2. backfill'[dials][p] = b /\ dials \in Nat
      BY <1>1, <1>5 DEF OnlyChanged, Dials
    <3>3. QED
      BY <1>1, <1>4, <3>1, <3>2, TodoNext
  <2>3. Left(p, b) = {}
    BY <1>4 DEF Left
  <2>4. QED
    BY <2>1, <2>2, <2>3
<1>7. QED
  BY <1>1, <1>2, <1>4, <1>5, <1>6, OrderedBackfill DEF FinishBackfill

LEMMA OrderedListPage ==
  ASSUME Shape, Ordered, Limit >= MaxTx, NEW g \in Dials, NEW p \in Programs, ListPage(g, p)
  PROVE  Ordered' /\ \A r \in Programs : Todo(r)' = Todo(r)
<1>1. backfill[g][p].phase = "listing" /\ g = dials /\ dials > 0
  BY BackfillDialled DEF ListPage, Ordered, OneAtATime, Dials
<1>2. backfill[g][p] \in BackfillType /\ GoodBackfill(p, backfill[g][p])
  BY BackfillFacts
<1>3. PICK n, page, s, oldest :
        /\ n \in Nat \ {0} /\ n <= Limit - Len(backfill[g][p].queue)
        /\ PageOf(p, backfill[g][p], n, page, s, oldest)
        /\ backfill' = [backfill EXCEPT ![g][p] = AfterPage(backfill[g][p], n, page, s, oldest)]
  BY PageRead
<1> DEFINE b == backfill[g][p]
           c == AfterPage(b, n, page, s, oldest)
<1>4. c.until = b.until /\ c.phase \in {"listing", "replay"}
  BY <1>2, <1>3, AfterPageFields DEF PageOf
<1>5. \A x \in Good(p) : x \in Left(p, c) <=> x \in Left(p, b)
  BY <1>1, <1>2, <1>3, PageLeft
<1> HIDE DEF c
<1>6. OnlyChanged(g, p, c)
  BY <1>3 DEF OnlyChanged, Shape, Backfills, c
<1>7. Todo(p)' = Todo(p)
  <2>1. Todo(p) = Left(p, b) \cap Good(p)
    BY <1>1 DEF Todo, Waiting
  <2>2. Todo(p)' = Left(p, c) \cap Good(p)
    <3>1. UNCHANGED <<chainVars, dials>>
      BY DEF ListPage, linkVars
    <3>2. backfill'[dials][p] = c /\ dials \in Nat
      BY <1>1, <1>6 DEF OnlyChanged, Dials
    <3>3. QED
      BY <1>1, <1>4, <3>1, <3>2, TodoNext
  <2>3. QED
    BY <1>5, <2>1, <2>2
<1>8. b.until = cursor[p].sig
  BY <1>1 DEF Ordered, InOrder
<1>9. QED
  BY <1>1, <1>4, <1>6, <1>7, <1>8, OrderedBackfill DEF ListPage

\* The first of a list that is being replayed is the next of all.
LEMMA NextTodo ==
  ASSUME Shape, NEW p \in Programs, dials \in Dials, backfill[dials][p].phase = "replay",
         backfill[dials][p].queue # <<>>
  PROVE  LET x == Head(backfill[dials][p].queue) IN
         /\ x \in Todo(p) /\ x \in Good(p) /\ \A z \in Todo(p) : x <= z
<1> DEFINE q == backfill[dials][p].queue
<1>1. q \in Seq(Nat) /\ Increasing(q) /\ \A i \in DOMAIN q : q[i] \in Good(p)
  BY BackfillFacts DEF GoodBackfill
<1>2. Todo(p) = {q[i] : i \in DOMAIN q} \cap Good(p)
  BY DEF Todo, Waiting, Left, Dials
<1> HIDE DEF q
<1>3. q # <<>>
  BY DEF q
<1>4. Len(q) \in Nat \ {0} /\ DOMAIN q = 1..Len(q) /\ Head(q) = q[1]
  BY <1>1, <1>3
<1>5. 1 \in DOMAIN q /\ \A i \in DOMAIN q : i \in Nat /\ q[i] \in Nat /\ (i = 1 \/ 1 < i)
  BY <1>1, <1>4
<1>6. \A i \in DOMAIN q : q[1] <= q[i]
  BY <1>5, <1>1 DEF Increasing
<1>7. QED
  BY <1>1, <1>2, <1>4, <1>5, <1>6 DEF q

LEMMA OrderedAdvance ==
  ASSUME Shape, Ordered, NEW j \in jobs, AdvanceCursor(j),
         NEW p, p = chain[j.tx].prog, NEW x, x = j.tx
  PROVE  /\ Ordered'
         /\ p \in Programs /\ x \in Todo(p) /\ (\A z \in Todo(p) : x <= z)
         /\ Todo(p)' = Todo(p) \ {x}
         /\ \A r \in Programs : r # p => Todo(r)' = Todo(r)
<1> DEFINE q == backfill[dials][p].queue
           b == [backfill[dials][p] EXCEPT !.queue = Tail(@)]
<1>1. p \in Programs /\ x \in Good(p) /\ j.owner \in Owner /\ j.owner = Replay(dials)
  BY JobFacts DEF Ordered, OneAtATime
<1>2. j.owner.by = "backfill" /\ j.owner.dial = dials /\ dials \in Dials
  BY <1>1, JobFacts DEF Replay
<1>3. /\ backfill[dials][p] \in BackfillType /\ GoodBackfill(p, backfill[dials][p])
      /\ backfill[dials][p].phase = "replay" /\ q # <<>> /\ Head(q) = x
  BY <1>2, JobOfBackfill
<1>4. backfill' = [backfill EXCEPT ![dials][p] = b]
  BY <1>2, <1>3 DEF AdvanceCursor, Drop1, Shape, Backfills
<1>5. b.phase = "replay" /\ b.queue = Tail(q) /\ b.until = backfill[dials][p].until
  BY <1>3 DEF BackfillType
<1>6. /\ UNCHANGED <<chainVars, dials, link, db>> /\ done' = done \cup {x} /\ jobs' = jobs \ {j}
      /\ cursor' = [cursor EXCEPT ![p] = Advanced(@, x)]
  BY DEF AdvanceCursor, linkVars
<1>7. x \in Todo(p) /\ \A z \in Todo(p) : x <= z
  BY <1>1, <1>2, <1>3, NextTodo
<1>8. q \in Seq(Nat) /\ Increasing(q) /\ \A i \in DOMAIN q : q[i] \in Good(p)
  BY <1>3 DEF GoodBackfill, BackfillType
<1>9. /\ \A i \in DOMAIN Tail(q) : i + 1 \in DOMAIN q /\ Tail(q)[i] = q[i + 1]
      /\ \A i \in DOMAIN q : q[i] = x \/ \E k \in DOMAIN Tail(q) : Tail(q)[k] = q[i]
  BY <1>3, <1>8, TailFacts
<1>10. \A i \in DOMAIN Tail(q) : q[i + 1] # x
  <2>1. Len(Tail(q)) \in Nat /\ DOMAIN Tail(q) = 1..Len(Tail(q))
    BY <1>3, <1>8, TailFacts
  <2> HIDE DEF q
  <2>2. Len(q) \in Nat \ {0} /\ DOMAIN q = 1..Len(q) /\ Head(q) = q[1]
    BY <1>3, <1>8
  <2>3. x = q[1] /\ 1 \in DOMAIN q
    BY <1>3, <2>2
  <2>4. ASSUME NEW i \in DOMAIN Tail(q) PROVE q[i + 1] # x
    <3>1. i \in Nat /\ 1 < i + 1 /\ i + 1 \in DOMAIN q
      BY <1>9, <2>1
    <3>2. q[1] < q[i + 1]
      BY <1>8, <2>3, <3>1 DEF Increasing
    <3>3. q[1] \in Nat /\ q[i + 1] \in Nat
      BY <1>8, <2>3, <3>1
    <3>4. QED
      BY <2>3, <3>2, <3>3
  <2>5. QED
    BY <2>4
<1>11. Todo(p) = {q[i] : i \in DOMAIN q} \cap Good(p) /\ ~Waiting(p)
  <2>1. ~Waiting(p)
    BY <1>2, <1>3 DEF Waiting, Dials
  <2>2. Left(p, backfill[dials][p]) = {q[i] : i \in DOMAIN q}
    BY <1>3 DEF Left
  <2>3. QED
    BY <2>1, <2>2 DEF Todo
<1>12. Left(p, b) = {Tail(q)[i] : i \in DOMAIN Tail(q)}
  BY <1>5 DEF Left
<1> HIDE DEF b
<1>13. OnlyChanged(dials, p, b)
  BY <1>1, <1>2, <1>4 DEF OnlyChanged, Shape, Backfills
<1>14. backfill'[dials][p] = b /\ dials \in Nat /\ dials > 0 /\ UNCHANGED <<chainVars, dials>>
  BY <1>1, <1>2, <1>6, <1>13 DEF OnlyChanged, Dials
<1>15. Todo(p)' = Todo(p) \ {x}
  <2>1. Todo(p)' = Left(p, b) \cap Good(p)
    <3>1. b.phase \notin {"off", "start"}
      BY <1>5
    <3>2. QED
      BY <1>14, <3>1, TodoNext
  <2> HIDE DEF q
  <2>2. {Tail(q)[i] : i \in DOMAIN Tail(q)} = {q[i] : i \in DOMAIN q} \ {x}
    BY <1>9, <1>10
  <2>3. QED
    BY <1>11, <1>12, <2>1, <2>2
<1>16. ASSUME NEW r \in Programs, r # p PROVE Todo(r)' = Todo(r) /\ cursor'[r] = cursor[r]
  <2>1. cursor'[r] = cursor[r]
    BY <1>1, <1>6, <1>16 DEF Shape, Cursors
  <2>2. backfill'[dials][r] = backfill[dials][r]
    BY <1>2, <1>13, <1>16 DEF OnlyChanged
  <2>3. QED
    BY <1>14, <2>1, <2>2, TodoNext
<1>17. \A r : Good(r)' = Good(r)
  BY <1>6 DEF Good, chainVars
<1>18. OneAtATime'
  <2>1. ~NotConnected
    BY DEF Ordered, OneAtATime
  <2>2. ~NotConnected'
    BY <1>6, <2>1 DEF NotConnected
  <2>3. \A g \in Dials, r \in Programs : g # dials => backfill'[g][r].phase = "off"
    BY <1>13 DEF OnlyChanged, Ordered, OneAtATime
  <2>4. QED
    BY <1>6, <2>2, <2>3 DEF Ordered, OneAtATime, Replay
<1>19. ASSUME NEW r \in Programs, r # p PROVE InOrder(r)'
  <2>1. \A y \in Good(r) : y # x
    BY <1>1, <1>19 DEF Good
  <2>2. backfill'[dials][r] = backfill[dials][r]
    BY <1>2, <1>13, <1>19 DEF OnlyChanged
  <2>3. InOrder(r)
    BY DEF Ordered
  <2>4. \A y \in Good(r) : y \in done' <=> y \in done
    BY <1>6, <2>1
  <2>5. QED
    BY <1>6, <1>16, <1>17, <1>19, <2>2, <2>3, <2>4 DEF InOrder
<1>20. InOrder(p)'
  <2>1. InOrder(p)
    BY <1>1 DEF Ordered
  <2>2. cursor'[p] = Advanced(cursor[p], x) /\ cursor[p].sig \in Nat
    BY <1>1, <1>6 DEF Shape, Cursors, CursorType
  <2>3. cursor'[p].sig \in {x, cursor[p].sig}
    BY <2>2 DEF Advanced
  <2>4. \A z \in Good(p) : z \in Nat
    BY <1>1, GoodFacts DEF Shape
  <2>5. Todo(p) \subseteq Good(p)
    BY DEF Todo
  <2>6. backfill'[dials'][p].phase # "listing"
    BY <1>5, <1>14
  <2>7. \A z \in Todo(p) \ {x} : z > x
    BY <1>1, <1>7, <2>4, <2>5
  <2>8. \A z \in Todo(p)' : z > cursor'[p].sig
    BY <1>15, <2>1, <2>3, <2>7 DEF InOrder
  <2>9. \A y \in Good(p) : y <= cursor'[p].sig => y \in done'
    <3>1. ASSUME NEW y \in Good(p), y <= x PROVE y \in done'
      <4>1. CASE y \in Todo(p)
        BY <1>6, <1>7, <2>4, <3>1, <4>1, <1>1
      <4>2. CASE y \notin Todo(p)
        <5>1. y # x /\ y \in Nat /\ x \in Nat
          BY <1>1, <1>7, <2>4, <4>2
        <5>2. y < x
          BY <3>1, <5>1
        <5>3. QED
          BY <1>6, <1>7, <2>1, <4>2, <5>2 DEF InOrder
      <4>3. QED
        BY <4>1, <4>2
    <3>2. QED
      BY <1>6, <2>1, <2>3, <3>1 DEF InOrder
  <2>10. ASSUME NEW z \in Todo(p)', NEW y \in Good(p) \ Todo(p)' PROVE y < z <=> y \in done'
    <3>1. z \in Todo(p) /\ z > x
      BY <1>15, <2>7, <2>10
    <3>2. CASE y = x
      BY <1>6, <3>1, <3>2, <2>4, <2>5
    <3>3. CASE y # x
      <4>1. y \in Good(p) \ Todo(p)
        BY <1>15, <2>10, <3>3
      <4>2. QED
        BY <1>6, <2>1, <3>1, <3>3, <4>1 DEF InOrder
    <3>4. QED
      BY <3>2, <3>3
  <2>11. QED
    BY <1>17, <2>6, <2>8, <2>9, <2>10 DEF InOrder
<1>21. QED
  BY <1>1, <1>7, <1>15, <1>16, <1>18, <1>19, <1>20 DEF Ordered

LEMMA OrderedSubscribe ==
  ASSUME Shape, Ordered, Subscribe
  PROVE  Ordered' /\ \A p \in Programs : Todo(p)' = Todo(p)
<1>1. /\ dials \in Nat /\ dials' = dials + 1 /\ dials' \in Dials
      /\ jobs = {} /\ \A g \in Dials, p \in Programs : backfill[g][p].phase = "off"
  <2>1. dials \in 0..MaxDials /\ dials' = dials + 1 /\ dials < MaxDials
    BY DEF Subscribe, Shape, Links
  <2>2. NotConnected
    BY DEF Subscribe
  <2>3. MaxDials \in Nat
    BY ConstantsAssumption
  <2>4. dials' \in Dials
    BY <2>1, <2>3 DEF Dials
  <2>5. QED
    BY <2>1, <2>2, <2>4 DEF Ordered, OneAtATime
<1>2. /\ \A g \in Dials : g # dials' => backfill'[g] = backfill[g]
      /\ \A p \in Programs : backfill'[dials'][p].phase \in {"off", "start"}
  <2>1. \A p \in Programs : backfill'[dials'][p] \in {NoBackfill, [NoBackfill EXCEPT !.phase = "start"]}
    BY <1>1 DEF Subscribe, Shape, Backfills
  <2>2. NoBackfill.phase = "off" /\ [NoBackfill EXCEPT !.phase = "start"].phase = "start"
    BY DEF NoBackfill
  <2>3. \A g \in Dials : g # dials' => backfill'[g] = backfill[g]
    BY <1>1 DEF Subscribe, Shape, Backfills
  <2>4. QED
    BY <2>1, <2>2, <2>3
<1>3. /\ \A g \in Dials : g # dials' => link'[g] = link[g]
      /\ link'[dials'] = "opening"
  BY <1>1 DEF Subscribe, Shape, Links
<1>4. UNCHANGED <<chain, followed, cursor, jobs, done>> /\ \A p : Good(p)' = Good(p)
  BY DEF Subscribe, chainVars, Good
<1>5. ASSUME NEW p \in Programs
      PROVE  /\ Todo(p) = {y \in Good(p) : y > cursor[p].sig} /\ Todo(p)' = Todo(p)
             /\ InOrder(p)'
  <2>1. Waiting(p)
    <3>1. dials = 0 \/ dials \in Dials
      BY <1>1 DEF Dials, Shape, Links
    <3>2. QED
      BY <1>1, <3>1 DEF Waiting
  <2>2. Waiting(p)'
    BY <1>2 DEF Waiting
  <2>3. Todo(p) = {y \in Good(p) : y > cursor[p].sig} /\ Todo(p)' = Todo(p)
    BY <1>4, <2>1, <2>2 DEF Todo
  <2>4. backfill'[dials'][p].phase # "listing"
    BY <1>2
  <2>5. QED
    BY <1>4, <2>3, <2>4 DEF Ordered, InOrder
<1>6. OneAtATime'
  <2>1. ~NotConnected'
    BY <1>1, <1>3 DEF NotConnected
  <2>2. \A g \in Dials : link'[g] # "live"
    BY <1>3 DEF Ordered, OneAtATime
  <2>3. \A g \in Dials, p \in Programs : g # dials' => backfill'[g][p].phase = "off"
    BY <1>1, <1>2
  <2>4. QED
    BY <1>1, <1>4, <2>1, <2>2, <2>3 DEF OneAtATime
<1>7. QED
  BY <1>5, <1>6 DEF Ordered

\* After a crash everything newer than the cursor is to be replayed, done or not.
LEMMA OrderedCrash ==
  ASSUME Shape, Ordered, Crash
  PROVE  Ordered' /\ \A p \in Programs : Todo(p) \subseteq Todo(p)'
<1>1. /\ dials' = dials /\ dials \in Dials /\ jobs' = {}
      /\ \A g \in Dials, p \in Programs : backfill'[g][p] = NoBackfill
      /\ link'[dials] = "closed" /\ \A g \in Dials : g # dials => link'[g] = link[g]
  BY DEF Crash, Shape, Links, Dials
<1>2. UNCHANGED <<chain, cursor, done>> /\ \A p : Good(p)' = Good(p)
  BY DEF Crash, chainVars, Good
<1>3. NoBackfill.phase = "off"
  BY DEF NoBackfill
<1>4. ASSUME NEW p \in Programs
      PROVE  Todo(p) \subseteq Todo(p)' /\ InOrder(p)'
  <2>1. Todo(p)' = {y \in Good(p) : y > cursor[p].sig}
    BY <1>1, <1>2, <1>3 DEF Todo, Waiting
  <2>2. InOrder(p) /\ Todo(p) \subseteq Good(p)
    BY DEF Ordered, Todo
  <2>3. Todo(p) \subseteq Todo(p)'
    BY <2>1, <2>2 DEF InOrder
  <2>4. \A y \in Good(p) : y \in Nat /\ cursor[p].sig \in Nat
    BY GoodFacts DEF Shape, Cursors, CursorType
  <2>5. ASSUME NEW z \in Todo(p)', NEW y \in Good(p) \ Todo(p)'
        PROVE  y < z <=> y \in done
    <3>1. z > cursor[p].sig /\ z \in Nat /\ y \in Nat /\ cursor[p].sig \in Nat /\ ~(y > cursor[p].sig)
      BY <2>1, <2>4, <2>5
    <3>2. y <= cursor[p].sig /\ y < z
      BY <3>1
    <3>3. QED
      BY <2>2, <3>2 DEF InOrder
  <2>6. \A z \in Todo(p)' : z > cursor[p].sig
    BY <2>1
  <2>7. backfill'[dials'][p].phase # "listing"
    BY <1>1, <1>3
  <2>8. QED
    BY <1>2, <2>2, <2>3, <2>5, <2>6, <2>7 DEF InOrder
<1>5. OneAtATime'
  BY <1>1, <1>3 DEF Ordered, OneAtATime
<1>6. QED
  BY <1>4, <1>5 DEF Ordered

\* A transaction that is confirmed is to be replayed, last of all, unless the
\* backfill has read a page already.
LEMMA OrderedConfirm ==
  ASSUME Shape, Ordered, NEW p \in Programs, Confirm(p)
  PROVE  /\ Ordered'
         /\ \A r \in Programs : Todo(r) \subseteq Todo(r)' /\ Todo(r)' \subseteq Todo(r) \cup {Len(chain) + 1}
<1>1. UNCHANGED <<cursor, dials, link, backfill, jobs, done>>
  BY DEF Confirm, linkVars
<1> SUFFICES ASSUME NEW x, x = Len(chain) + 1
             PROVE  /\ Ordered'
                    /\ \A r \in Programs : Todo(r) \subseteq Todo(r)' /\ Todo(r)' \subseteq Todo(r) \cup {x}
  OBVIOUS
<1>2. /\ DOMAIN chain' = 1..x /\ DOMAIN chain = 1..Len(chain) /\ Len(chain) \in Nat /\ x \in Nat
      /\ \A i \in DOMAIN chain : chain'[i] = chain[i]
      /\ \A r : Good(r) \subseteq Good(r)' /\ Good(r)' \subseteq Good(r) \cup {x}
  BY ConfirmAdds, ChainFacts DEF Shape
<1>3. x \notin done /\ \A r : x \notin Good(r)
  BY <1>2 DEF Shape, History, Good
<1>4. \A r \in Programs : \A y \in Good(r) : y \in Nat /\ y < x
  BY <1>2 DEF Good
<1>5. \A r \in Programs : cursor[r].sig \in Nat /\ cursor[r].sig < x
  <2> TAKE r \in Programs
  <2>1. cursor[r].sig = 0 \/ cursor[r].sig \in Good(r)
    BY DEF Shape, Cursors, GoodCursor
  <2>2. QED
    BY <1>2, <1>4, <2>1
<1>6. ASSUME NEW r \in Programs
      PROVE  /\ Todo(r) \subseteq Todo(r)' /\ Todo(r)' \subseteq Todo(r) \cup {x}
             /\ x \in Todo(r)' => \A y \in Good(r) : y \in Todo(r) <=> y > cursor[r].sig
  <2>1. CASE Waiting(r)
    <3>1. Waiting(r)'
      BY <1>1, <2>1 DEF Waiting
    <3>2. /\ Todo(r) = {y \in Good(r) : y > cursor[r].sig}
          /\ Todo(r)' = {y \in Good(r)' : y > cursor[r].sig}
      BY <1>1, <2>1, <3>1 DEF Todo
    <3>3. QED
      BY <1>2, <3>2
  <2>2. CASE ~Waiting(r)
    <3> DEFINE b == backfill[dials][r]
    <3>1. ~Waiting(r)' /\ dials # 0 /\ dials \in Dials
      BY <1>1, <2>2 DEF Waiting, Shape, Links, Dials
    <3>2. /\ b.until \in Nat /\ b.before \in Nat /\ GoodBackfill(r, b)
          /\ b.queue \in Seq(Nat) /\ \A i \in DOMAIN b.queue : b.queue[i] \in Good(r)
      BY <3>1, BackfillFacts DEF GoodBackfill
    <3>3. /\ b.phase = "listing" => b.before <= Len(chain) /\ b.until = cursor[r].sig
          /\ b.phase = "listing" /\ b.before = 0 => b.queue = <<>>
      <4>1. b.phase = "listing" => b.until = cursor[r].sig
        BY <3>1 DEF Ordered, InOrder, Dials
      <4>2. QED
        BY <3>2, <4>1 DEF GoodBackfill, ListsDown
    <3>4. Todo(r) = Left(r, b) \cap Good(r) /\ Todo(r)' = Left(r, b)' \cap Good(r)'
      BY <2>2, <3>1 DEF Todo
    <3>5. b' = b
      BY <1>1
    <3> HIDE DEF b
    <3>6. Left(r, b)' = {b.queue[i] : i \in DOMAIN b.queue}
                          \cup (IF b.phase = "listing" THEN Listable(r, b)' ELSE {})
      BY <3>5 DEF Left
    <3>7. /\ Listable(r, b) \subseteq Listable(r, b)'
          /\ \A y \in Listable(r, b)' : y \in Listable(r, b) \/ y = x
          /\ x \in Listable(r, b)' => b.before = 0 \/ x < b.before
      BY <1>2, <3>5 DEF Listable
    <3>8. /\ Todo(r) \subseteq Todo(r)' /\ Todo(r)' \subseteq Todo(r) \cup {x}
      BY <1>2, <3>2, <3>4, <3>6, <3>7 DEF Left
    <3>9. ASSUME x \in Todo(r)', NEW y \in Good(r) PROVE y \in Todo(r) <=> y > cursor[r].sig
      <4>1. b.phase = "listing" /\ x \in Listable(r, b)'
        BY <1>3, <3>2, <3>4, <3>6, <3>9
      <4>2. b.before = 0 /\ b.queue = <<>> /\ b.until = cursor[r].sig
        BY <1>2, <3>2, <3>3, <3>7, <4>1
      <4>3. Left(r, b) = Listable(r, b)
        BY <4>1, <4>2 DEF Left
      <4>4. y \in Listable(r, b) <=> y > cursor[r].sig
        BY <3>9, <4>2 DEF Listable, Good
      <4>5. QED
        BY <3>4, <3>9, <4>3, <4>4
    <3>10. QED
      BY <3>8, <3>9
  <2>3. QED
    BY <2>1, <2>2
<1>7. ASSUME NEW r \in Programs PROVE InOrder(r)'
  <2>1. InOrder(r) /\ Todo(r) \subseteq Good(r) /\ Todo(r)' \subseteq Good(r)'
    BY DEF Ordered, Todo
  <2>2. \A z \in Todo(r)' : z > cursor[r].sig
    BY <1>2, <1>5, <1>6, <2>1 DEF InOrder
  <2>3. \A y \in Good(r)' : y <= cursor[r].sig => y \in done
    BY <1>2, <1>5, <2>1 DEF InOrder
  <2>4. ASSUME NEW z \in Todo(r)', NEW y \in Good(r)' \ Todo(r)' PROVE y < z <=> y \in done
    <3>1. CASE y = x
      <4>1. z \in Todo(r) /\ z \in Good(r)
        BY <1>6, <2>1, <2>4, <3>1
      <4>2. z < x /\ z \in Nat
        BY <1>4, <4>1
      <4>3. QED
        BY <1>2, <1>3, <3>1, <4>2
    <3>2. CASE y # x /\ z # x
      <4>1. z \in Todo(r) /\ y \in Good(r) \ Todo(r)
        BY <1>2, <1>6, <2>4, <3>2
      <4>2. QED
        BY <2>1, <4>1 DEF InOrder
    <3>3. CASE y # x /\ z = x
      <4>1. y \in Good(r) \ Todo(r) /\ y < x /\ y \in Nat
        BY <1>2, <1>4, <1>6, <2>4, <3>3
      <4>2. ~(y > cursor[r].sig)
        BY <1>6, <3>3, <2>4, <4>1
      <4>3. y <= cursor[r].sig
        BY <1>5, <4>1, <4>2
      <4>4. QED
        BY <2>1, <3>3, <4>1, <4>3 DEF InOrder
    <3>4. QED
      BY <3>1, <3>2, <3>3
  <2>5. QED
    BY <1>1, <2>1, <2>2, <2>3, <2>4 DEF InOrder
<1>8. OneAtATime'
  BY <1>1 DEF Ordered, OneAtATime, NotConnected, Replay
<1>9. QED
  BY <1>6, <1>7, <1>8 DEF Ordered

LEMMA OrderedRunQuery ==
  ASSUME Shape, Ordered, NEW j \in jobs, RunQuery(j)
  PROVE  Ordered' /\ \A r : Todo(r)' = Todo(r)
<1>1. UNCHANGED <<chainVars, cursor, linkVars, backfill, done>>
  BY DEF RunQuery
<1>2. \A k \in jobs' : k.owner = Replay(dials)
  <2>1. j \in JobType
    BY JobFacts
  <2>2. j.owner = Replay(dials)
    BY DEF Ordered, OneAtATime
  <2>3. jobs' = (jobs \ {j}) \cup {NextEvent(j)} \/ jobs' = (jobs \ {j}) \cup {[j EXCEPT !.q = @ + 1]}
    BY DEF RunQuery, Becomes
  <2>4. NextEvent(j).owner = j.owner /\ [j EXCEPT !.q = @ + 1].owner = j.owner
    BY <2>1, NextJob
  <2>5. QED
    BY <2>2, <2>3, <2>4 DEF Ordered, OneAtATime
<1>3. ~NotConnected
  BY DEF Ordered, OneAtATime
<1>4. QED
  BY <1>1, <1>2, <1>3, OrderedFrame

LEMMA OrderedFetchTx ==
  ASSUME Shape, Ordered, NEW g \in Dials, NEW p \in Programs, FetchTx(g, p)
  PROVE  /\ Ordered' /\ \A r : Todo(r)' = Todo(r)
         /\ g = dials
<1>1. UNCHANGED <<chainVars, cursor, linkVars, backfill, done>>
  BY DEF FetchTx
<1>2. backfill[g][p].phase = "replay"
  BY DEF FetchTx, Replaying
<1>3. g = dials
  BY <1>2 DEF Ordered, OneAtATime
<1>4. \A k \in jobs' : k.owner = Replay(dials)
  BY <1>3 DEF FetchTx, Job, Ordered, OneAtATime
<1>5. ~NotConnected
  BY <1>2 DEF Ordered, OneAtATime
<1>6. QED
  BY <1>1, <1>3, <1>4, <1>5, OrderedFrame

\* Every step of such a hub
LEMMA ExactNext ==
  ASSUME Shape, Ordered, [Next]_vars, Exact'
  PROVE  \/ UNCHANGED vars
         \/ \E p \in Programs : Confirm(p)
         \/ Subscribe \/ Crash
         \/ \E j \in jobs : RunQuery(j) \/ AdvanceCursor(j)
         \/ \E g \in Dials, p \in Programs : BackfillStep(g, p)
<1>1. \A g \in Dials : ~Deliver(g) /\ ~Close(g)
  BY DEF Ordered, OneAtATime, Deliver, Close
<1>2. QED
  BY <1>1, ExactStep DEF Next, RunJob

LEMMA OrderedStep ==
  ASSUME Shape, Exact => Ordered, [Next]_vars
  PROVE  Exact' => Exact /\ Ordered /\ Ordered'
<1> SUFFICES ASSUME Exact' PROVE Exact /\ Ordered /\ Ordered'
  OBVIOUS
<1>1. Exact /\ Ordered /\ Limit >= MaxTx
  BY ExactStep DEF Exact
<1>2. CASE UNCHANGED vars
  <2>1. UNCHANGED <<chainVars, cursor, linkVars, backfill, done, jobs, dials>>
    BY <1>2 DEF vars, linkVars
  <2>2. \A j \in jobs' : j.owner = Replay(dials)
    BY <1>1, <2>1 DEF Ordered, OneAtATime
  <2>3. NotConnected => jobs' = {}
    BY <1>1, <2>1 DEF Ordered, OneAtATime
  <2>4. QED
    BY <1>1, <2>1, <2>2, <2>3, OrderedFrame
<1>3. CASE \E p \in Programs : Confirm(p)
  BY <1>1, <1>3, OrderedConfirm
<1>4. CASE Subscribe
  BY <1>1, <1>4, OrderedSubscribe
<1>5. CASE Crash
  BY <1>1, <1>5, OrderedCrash
<1>6. CASE \E j \in jobs : RunQuery(j)
  BY <1>1, <1>6, OrderedRunQuery
<1>7. CASE \E j \in jobs : AdvanceCursor(j)
  BY <1>1, <1>7, OrderedAdvance
<1>8. CASE \E g \in Dials, p \in Programs : ReadCursor(g, p)
  BY <1>1, <1>8, OrderedReadCursor
<1>9. CASE \E g \in Dials, p \in Programs : ListPage(g, p)
  BY <1>1, <1>9, OrderedListPage
<1>10. CASE \E g \in Dials, p \in Programs : FetchTx(g, p)
  BY <1>1, <1>10, OrderedFetchTx
<1>11. CASE \E g \in Dials, p \in Programs : FinishBackfill(g, p)
  BY <1>1, <1>11, OrderedFinish
<1>12. QED
  BY <1>1, <1>2, <1>3, <1>4, <1>5, <1>6, <1>7, <1>8, <1>9, <1>10, <1>11, ExactNext DEF BackfillStep

------------------------------------------------------------------------------
(* What the tables of such a hub hold *)

State(m) == IF m[1] = 0 THEN Origin ELSE At(m)

NotBefore(m, l) == m[1] > l[1] \/ (m[1] = l[1] /\ m[2] >= l[2])

\* The moments of p's transactions that are done or to be replayed; <<0, 1>> is
\* the one before all of them.
Past(p) ==
  {<<0, 1>>} \cup UNION {{x} \X DOMAIN chain[x].states : x \in Good(p) \cap (done \cup Todo(p))}

Writes(j, n, k, q) == q \in 1..Queries(EventOf(j)) /\ Target(EventOf(j), q) = <<n, k>>

\* The moment up to which j has replayed the row of k in table n
Begun(j, n, k) ==
  <<j.tx, IF \E q \in 1..(j.q - 1) : Writes(j, n, k, q) THEN j.ev + 1 ELSE j.ev>>

Matches(m, n, k, f) == Part(f, RowIn(db[n], k)) = Part(f, RowIn(State(m)[n], k))

\* m is no earlier than what has been replayed for good.
Caught(p, m, n, k) ==
  /\ \A y \in (done \cap Good(p)) \ Todo(p) : NotBefore(m, <<y, Len(chain[y].states)>>)
  /\ \A j \in jobs : chain[j.tx].prog = p => NotBefore(m, Begun(j, n, k))

\* Every column is as it was at some moment that is not behind the replay.
Content(p) ==
  \A n \in TablesOf[p] : \A f \in FieldsOf(n) : \A k :
    \E m \in Past(p) : Matches(m, n, k, f) /\ Caught(p, m, n, k)

LEMMA PastFacts ==
  ASSUME Shape, ChainTables, NEW p, NEW m \in Past(p)
  PROVE  /\ m = <<m[1], m[2]>> /\ m[1] \in Nat /\ m[2] \in Nat \ {0}
         /\ m = <<0, 1>> \/ /\ m[1] # 0 /\ m[1] \in Good(p) /\ m[1] \in done \cup Todo(p)
                            /\ m[1] \in DOMAIN chain /\ m[2] \in DOMAIN chain[m[1]].states
                            /\ m[2] <= Len(chain[m[1]].states) /\ m \in AllMoments
<1>1. CASE m = <<0, 1>>
  BY <1>1
<1>2. CASE m # <<0, 1>>
  <2>1. PICK x \in Good(p) \cap (done \cup Todo(p)) : m \in {x} \X DOMAIN chain[x].states
    BY <1>2 DEF Past
  <2>2. x \in Nat \ {0} /\ x \in DOMAIN chain
    BY GoodFacts DEF Shape
  <2>3. m[1] = x /\ m[2] \in DOMAIN chain[x].states /\ m = <<m[1], m[2]>>
    BY <2>1
  <2>4. IsTx(x, chain[x])
    BY <2>2 DEF ChainTables
  <2>5. m[2] \in Nat \ {0} /\ m[2] <= Len(chain[x].states)
    BY <2>3, <2>4, TxShape
  <2>6. m \in AllMoments
    BY <2>1, <2>2 DEF AllMoments
  <2>7. QED
    BY <2>1, <2>2, <2>3, <2>5, <2>6
<1>3. QED
  BY <1>1, <1>2

LEMMA InPast ==
  ASSUME NEW p, NEW x \in Good(p), x \in done \cup Todo(p), NEW i \in DOMAIN chain[x].states
  PROVE  <<x, i>> \in Past(p)
BY DEF Past

\* What has nothing to do with p leaves its tables as they were replayed.
LEMMA ContentFrame ==
  ASSUME Shape, ChainTables, NEW p \in Programs, Content(p), followed' = followed,
         \A n \in TablesOf[p] : db'[n] = db[n],
         \A x \in DOMAIN chain : chain'[x] = chain[x],
         Past(p) \subseteq Past(p)',
         (done' \cap Good(p)') \ Todo(p)' \subseteq (done \cap Good(p)) \ Todo(p),
         \A j \in jobs' : j.tx \in DOMAIN chain /\ (chain[j.tx].prog = p => j \in jobs)
  PROVE  Content(p)'
<1> SUFFICES ASSUME NEW n \in TablesOf[p], NEW f \in FieldsOf(n), NEW k
             PROVE  \E m \in Past(p)' : Matches(m, n, k, f)' /\ Caught(p, m, n, k)'
  BY DEF Content
<1>1. PICK m \in Past(p) : Matches(m, n, k, f) /\ Caught(p, m, n, k)
  BY DEF Content
<1>2. State(m)' = State(m)
  <2>1. m[1] = 0 \/ m[1] \in DOMAIN chain
    BY PastFacts
  <2>2. QED
    BY <2>1 DEF State, Origin, At
<1>3. Matches(m, n, k, f)'
  BY <1>1, <1>2 DEF Matches
<1>4. ASSUME NEW y \in (done' \cap Good(p)') \ Todo(p)'
      PROVE  NotBefore(m, <<y, Len(chain'[y].states)>>)
  <2>1. y \in (done \cap Good(p)) \ Todo(p) /\ y \in DOMAIN chain
    BY <1>4 DEF Good
  <2>2. QED
    BY <1>1, <2>1 DEF Caught
<1>5. ASSUME NEW j \in jobs', chain'[j.tx].prog = p PROVE NotBefore(m, Begun(j, n, k)')
  <2>1. j \in jobs /\ chain'[j.tx] = chain[j.tx] /\ chain[j.tx].prog = p
    BY <1>5
  <2>2. EventOf(j)' = EventOf(j)
    BY <2>1 DEF EventOf
  <2>3. Begun(j, n, k)' = Begun(j, n, k)
    BY <2>2 DEF Begun, Writes
  <2>4. QED
    BY <1>1, <2>1, <2>3 DEF Caught
<1>6. Caught(p, m, n, k)'
  BY <1>4, <1>5 DEF Caught, NotBefore
<1>7. QED
  BY <1>1, <1>3, <1>6

LEMMA ContentInit ==
  ASSUME Init, NEW p \in Programs
  PROVE  Content(p)
<1>1. /\ <<0, 1>> \in Past(p) /\ State(<<0, 1>>) = db /\ done = {} /\ jobs = {}
  BY DEF Init, Past, State, Origin
<1>2. QED
  BY <1>1 DEF Content, Matches, Caught

\* Steps that write no table and end no transaction
LEMMA ContentSame ==
  ASSUME Shape, ChainTables, NEW p \in Programs, Content(p),
         UNCHANGED <<followed, db, chain, done>>, Todo(p) \subseteq Todo(p)',
         jobs' \subseteq jobs
  PROVE  Content(p)'
<1>1. Good(p)' = Good(p)
  BY DEF Good
<1>2. Past(p) \subseteq Past(p)'
  BY <1>1 DEF Past
<1>3. \A j \in jobs' : j \in jobs /\ j.tx \in DOMAIN chain
  BY JobFacts
<1>4. QED
  BY <1>1, <1>2, <1>3, ContentFrame

LEMMA ContentConfirm ==
  ASSUME Shape, ChainTables, Ordered, NEW r \in Programs, Confirm(r), NEW p \in Programs, Content(p)
  PROVE  Content(p)'
<1>1. UNCHANGED <<followed, db, jobs, done>>
  BY DEF Confirm
<1>2. Todo(p) \subseteq Todo(p)'
  BY OrderedConfirm
<1>3. \A x \in DOMAIN chain : chain'[x] = chain[x]
  BY ConfirmAdds
<1>4. Good(p) \subseteq Good(p)' /\ Good(p)' \subseteq Good(p) \cup {Len(chain) + 1}
  BY ConfirmAdds
<1>5. Len(chain) + 1 \notin done
  BY ChainFacts DEF Shape, History
<1>6. Past(p) \subseteq Past(p)'
  BY <1>1, <1>2, <1>3, <1>4 DEF Past, Good
<1>7. \A j \in jobs' : j \in jobs /\ j.tx \in DOMAIN chain
  BY <1>1, JobFacts
<1>8. (done' \cap Good(p)') \ Todo(p)' \subseteq (done \cap Good(p)) \ Todo(p)
  BY <1>1, <1>2, <1>4, <1>5
<1>9. QED
  BY <1>1, <1>3, <1>6, <1>7, <1>8, ContentFrame

LEMMA ContentAdvance ==
  ASSUME Shape, ChainTables, Ordered, NEW j \in jobs, AdvanceCursor(j), NEW r \in Programs, Content(r)
  PROVE  Content(r)'
<1> SUFFICES ASSUME NEW p, p = chain[j.tx].prog, NEW x, x = j.tx PROVE Content(r)'
  OBVIOUS
<1>1. UNCHANGED <<chainVars, db>> /\ done' = done \cup {x} /\ jobs' = jobs \ {j} /\ AtCursor(j)
  BY DEF AdvanceCursor
<1>2. /\ x \in Todo(p) /\ Todo(p)' = Todo(p) \ {x}
      /\ r # p => Todo(r)' = Todo(r)
  BY OrderedAdvance
<1>3. \A i : Good(i)' = Good(i)
  BY <1>1 DEF Good, chainVars
<1>4. x \in Good(p) /\ x \in DOMAIN chain /\ \A h \in jobs : h.tx \in DOMAIN chain
  BY JobFacts
<1>5. followed' = followed /\ \A n \in TablesOf[r] : db'[n] = db[n]
  BY <1>1 DEF chainVars
<1>6. \A y \in DOMAIN chain : chain'[y] = chain[y]
  BY <1>1 DEF chainVars
<1>7. CASE r # p
  <2>1. x \notin Good(r)
    BY <1>4, <1>7 DEF Good
  <2>2. Past(r) \subseteq Past(r)' /\ (done' \cap Good(r)') \ Todo(r)' \subseteq (done \cap Good(r)) \ Todo(r)
    BY <1>1, <1>2, <1>3, <1>6, <1>7, <2>1 DEF Past, Good
  <2>3. \A h \in jobs' : h.tx \in DOMAIN chain /\ h \in jobs
    BY <1>1, <1>4
  <2>4. QED
    BY <1>5, <1>6, <2>2, <2>3, ContentFrame
<1>8. CASE r = p
  <2> SUFFICES ASSUME NEW n \in TablesOf[p], NEW f \in FieldsOf(n), NEW k
               PROVE  \E m \in Past(p)' : Matches(m, n, k, f)' /\ Caught(p, m, n, k)'
    BY <1>8 DEF Content
  <2>1. PICK m \in Past(p) : Matches(m, n, k, f) /\ Caught(p, m, n, k)
    BY <1>8 DEF Content
  <2>2. Past(p) = Past(p)'
    <3>1. done' \cup Todo(p)' = done \cup Todo(p)
      BY <1>1, <1>2
    <3>2. QED
      BY <1>1, <1>3, <3>1 DEF Past, chainVars
  <2>3. Matches(m, n, k, f)'
    BY <1>1, <2>1 DEF Matches, State, Origin, At, chainVars
  <2>4. NotBefore(m, <<x, Len(chain[x].states)>>)
    <3>1. NotBefore(m, Begun(j, n, k))
      BY <1>8, <2>1 DEF Caught
    <3>2. IsTx(x, chain[x])
      BY <1>4 DEF ChainTables
    <3>3. Len(chain[x].events) \in Nat /\ Len(chain[x].states) = Len(chain[x].events) + 1
      BY <3>2, TxShape
    <3>4. j.ev \in Nat /\ j.ev > Len(chain[x].events)
      BY <1>1, JobFacts DEF AtCursor
    <3>5. Begun(j, n, k)[1] = x /\ Begun(j, n, k)[2] \in {j.ev, j.ev + 1}
      BY DEF Begun
    <3>6. m[1] \in Nat /\ m[2] \in Nat
      BY PastFacts
    <3>7. QED
      BY <3>1, <3>3, <3>4, <3>5, <3>6 DEF NotBefore
  <2>5. ASSUME NEW y \in (done' \cap Good(p)') \ Todo(p)'
        PROVE  NotBefore(m, <<y, Len(chain'[y].states)>>)
    <3>1. y = x \/ y \in (done \cap Good(p)) \ Todo(p)
      BY <1>1, <1>2, <1>3, <2>5
    <3>2. chain' = chain
      BY <1>1 DEF chainVars
    <3>3. QED
      BY <2>1, <2>4, <3>1, <3>2 DEF Caught
  <2>6. ASSUME NEW h \in jobs', chain'[h.tx].prog = p PROVE NotBefore(m, Begun(h, n, k)')
    <3>1. h \in jobs /\ chain' = chain
      BY <1>1 DEF chainVars
    <3>2. Begun(h, n, k)' = Begun(h, n, k)
      BY <3>1 DEF Begun, Writes, EventOf
    <3>3. QED
      BY <2>1, <2>6, <3>1, <3>2 DEF Caught
  <2>7. Caught(p, m, n, k)'
    BY <2>5, <2>6 DEF Caught, NotBefore
  <2>8. QED
    BY <2>1, <2>2, <2>3, <2>7
<1>9. QED
  BY <1>7, <1>8

\* Up to the next transaction, the tables are as the last one that is done left
\* them, which is how the next one found them.
LEMMA CaughtNext ==
  ASSUME Shape, ChainTables, Ordered, NEW p \in Programs, NEW n, LinkedTable(p, n),
         NEW x \in Todo(p), \A z \in Todo(p) : x <= z, NEW k, NEW m \in Past(p), Caught(p, m, n, k)
  PROVE  /\ \A y \in (done \cap Good(p)) \ Todo(p) : y < x
         /\ ~NotBefore(m, <<x, 1>>) => State(m)[n] = State(<<x, 1>>)[n]
<1>1. InOrder(p) /\ Todo(p) \subseteq Good(p)
  BY DEF Ordered, Todo
<1>2. x \in Nat \ {0} /\ x \in Good(p)
  BY <1>1, GoodFacts DEF Shape
<1>3. \A y \in Good(p) : y \in Nat \ {0}
  BY GoodFacts DEF Shape
<1>4. \A y \in Good(p) \ Todo(p) : y < x <=> y \in done
  BY <1>1 DEF InOrder
<1>5. ASSUME ~NotBefore(m, <<x, 1>>) PROVE State(m)[n] = State(<<x, 1>>)[n]
  <2>1. m[1] < x /\ m[1] \in Nat /\ m[2] \in Nat
    BY <1>2, <1>5, PastFacts DEF NotBefore
  <2>2. m[1] \notin Todo(p)
    BY <1>2, <2>1
  <2>3. ASSUME NEW z \in Good(p), m[1] < z, z < x PROVE FALSE
    <3>1. z \notin Todo(p) /\ z \in Nat
      BY <1>2, <1>3, <2>3
    <3>2. z \in done
      BY <1>4, <2>3, <3>1
    <3>3. NotBefore(m, <<z, Len(chain[z].states)>>)
      BY <2>3, <3>1, <3>2 DEF Caught
    <3>4. QED
      BY <2>1, <2>3, <3>1, <3>3 DEF NotBefore
  <2>4. Successive(p, m[1], x)
    BY <2>1, <2>3 DEF Successive
  <2>5. m[1] \in Good(p) \cup {0}
    BY PastFacts
  <2>6. chain[x].states[1][n] = Final(m[1])[n]
    BY <1>2, <2>4, <2>5 DEF LinkedTable
  <2>7. State(m) = Final(m[1])
    <3>1. CASE m[1] = 0
      BY <3>1 DEF State, Final
    <3>2. CASE m[1] # 0
      <4>1. /\ m[1] \in Good(p) /\ m[1] \in done \cup Todo(p)
            /\ m[2] \in Nat /\ m[2] <= Len(chain[m[1]].states) /\ m[1] \in DOMAIN chain
        BY <3>2, PastFacts
      <4>2. m[1] \in (done \cap Good(p)) \ Todo(p)
        BY <2>2, <4>1
      <4>3. NotBefore(m, <<m[1], Len(chain[m[1]].states)>>)
        BY <4>2 DEF Caught
      <4>4. Len(chain[m[1]].states) \in Nat
        <5>1. IsTx(m[1], chain[m[1]])
          BY <4>1 DEF ChainTables
        <5>2. QED
          BY <5>1, TxShape
      <4>5. m[2] = Len(chain[m[1]].states)
        BY <2>1, <4>1, <4>3, <4>4 DEF NotBefore
      <4>6. QED
        BY <3>2, <4>5 DEF State, Final, At, After
    <3>3. QED
      BY <3>1, <3>2
  <2>8. State(<<x, 1>>) = chain[x].states[1]
    BY <1>2 DEF State, At
  <2>9. QED
    BY <2>6, <2>7, <2>8
<1>6. QED
  BY <1>4, <1>5

LEMMA ContentFetchTx ==
  ASSUME Shape, ChainTables, Linked, Ordered, NEW g \in Dials, NEW p \in Programs, FetchTx(g, p),
         NEW r \in followed, OwnTables(r), Content(r)
  PROVE  Content(r)'
<1> SUFFICES ASSUME NEW x, x = Head(backfill[g][p].queue) PROVE Content(r)'
  OBVIOUS
<1>1. UNCHANGED <<chainVars, db, done>> /\ jobs' = jobs \cup {Job(Replay(g), x)} /\ Replaying(g, p)
  BY DEF FetchTx
<1>2. g = dials /\ Todo(r)' = Todo(r) /\ Todo(p)' = Todo(p)
  BY OrderedFetchTx
<1>3. x \in Todo(p) /\ x \in Good(p) /\ \A z \in Todo(p) : x <= z
  BY <1>1, <1>2, NextTodo DEF Replaying
<1>4. r \in Programs
  BY DEF Shape, Chains
<1>5. \A i : Good(i)' = Good(i)
  BY <1>1 DEF Good, chainVars
<1>6. followed' = followed /\ chain' = chain /\ db' = db /\ done' = done
  BY <1>1 DEF chainVars
<1>7. Past(r)' = Past(r)
  BY <1>2, <1>5, <1>6 DEF Past
<1>8. x \in DOMAIN chain /\ chain[x].prog = p /\ \A h \in jobs : h.tx \in DOMAIN chain
  BY <1>3, JobFacts DEF Good
<1>9. Job(Replay(g), x).tx = x /\ Job(Replay(g), x).ev = 1 /\ Job(Replay(g), x).q = 1
  BY DEF Job
<1>10. CASE r # p
  <2>1. \A h \in jobs' : h.tx \in DOMAIN chain /\ (chain[h.tx].prog = r => h \in jobs)
    BY <1>1, <1>8, <1>9, <1>10
  <2>2. (done' \cap Good(r)') \ Todo(r)' \subseteq (done \cap Good(r)) \ Todo(r)
    BY <1>2, <1>5, <1>6
  <2>3. QED
    BY <1>4, <1>6, <1>7, <2>1, <2>2, ContentFrame
<1>11. CASE r = p
  <2> SUFFICES ASSUME NEW n \in TablesOf[p], NEW f \in FieldsOf(n), NEW k
               PROVE  \E m \in Past(p) : Matches(m, n, k, f) /\ Caught(p, m, n, k)'
    <3>1. \A m, n, k, f : Matches(m, n, k, f)' = Matches(m, n, k, f)
      BY <1>6 DEF Matches, State, At, Origin
    <3>2. QED
      BY <1>7, <1>11, <3>1 DEF Content
  <2>1. PICK m \in Past(p) : Matches(m, n, k, f) /\ Caught(p, m, n, k)
    BY <1>11 DEF Content
  <2>2. LinkedTable(p, n)
    BY <1>11 DEF Linked
  <2>3. /\ \A y \in (done \cap Good(p)) \ Todo(p) : y < x
        /\ ~NotBefore(m, <<x, 1>>) => State(m)[n] = State(<<x, 1>>)[n]
    BY <1>3, <2>1, <2>2, CaughtNext
  <2>4. \A h \in jobs : chain[h.tx].prog # p
    <3>1. \A h \in jobs : ~Of(h, g, p)
      BY <1>1, Idle
    <3>2. \A h \in jobs : h.owner = Replay(g)
      BY <1>2 DEF Ordered, OneAtATime
    <3>3. QED
      BY <3>1, <3>2 DEF Of, Replay
  <2>5. Begun(Job(Replay(g), x), n, k)' = <<x, 1>>
    BY <1>9 DEF Begun
  <2>6. ASSUME NEW h \in jobs', chain'[h.tx].prog = p PROVE Begun(h, n, k)' = <<x, 1>>
    BY <1>1, <1>6, <2>4, <2>5, <2>6
  <2>7. \A w : (/\ NotBefore(w, <<x, 1>>)
                /\ \A y \in (done \cap Good(p)) \ Todo(p) : NotBefore(w, <<y, Len(chain[y].states)>>))
               => Caught(p, w, n, k)'
    BY <1>2, <1>5, <1>6, <2>6 DEF Caught, NotBefore
  <2>8. CASE NotBefore(m, <<x, 1>>)
    BY <2>1, <2>7, <2>8 DEF Caught
  <2>9. CASE ~NotBefore(m, <<x, 1>>)
    <3>1. Matches(<<x, 1>>, n, k, f)
      BY <2>1, <2>3, <2>9 DEF Matches
    <3>2. <<x, 1>> \in Past(p)
      <4>1. IsTx(x, chain[x])
        BY <1>8 DEF ChainTables
      <4>2. 1 \in DOMAIN chain[x].states
        BY <4>1, TxShape
      <4>3. QED
        BY <1>3, <4>2, InPast
    <3>3. NotBefore(<<x, 1>>, <<x, 1>>)
      BY DEF NotBefore
    <3>4. \A y \in (done \cap Good(p)) \ Todo(p) : NotBefore(<<x, 1>>, <<y, Len(chain[y].states)>>)
      BY <2>3 DEF NotBefore
    <3>5. QED
      BY <2>7, <3>1, <3>2, <3>3, <3>4
  <2>10. QED
    BY <2>8, <2>9
<1>12. QED
  BY <1>10, <1>11

LEMMA SinceLater ==
  ASSUME NEW u, NEW v, Later(u, v), NEW n \in TableNames, n # "pledges", NEW f \in FieldsOf(n),
         NEW k, NEW old, Part(f, old) = Part(f, RowIn(v[n], k))
  PROVE  Since(n, RowIn(u[n], k), old)
<1>1. RowLater(n, RowIn(u[n], k), RowIn(v[n], k))
  BY DEF Later
<1>2. old = {} <=> RowIn(v[n], k) = {}
  BY PartEmpty
<1>3. n = "tasks" => old = RowIn(v[n], k)
  BY DEF FieldsOf, Part
<1>4. QED
  BY <1>1, <1>2, <1>3 DEF RowLater, Since

\* A moment that is not before an event is when the event found the tables, or
\* at or after the moment it left them.
LEMMA MomentAfter ==
  ASSUME Shape, ChainTables, NEW p, NEW m \in Past(p), NEW x \in Good(p), NEW i \in Nat \ {0},
         i \in DOMAIN chain[x].states, i + 1 \in DOMAIN chain[x].states, NotBefore(m, <<x, i>>)
  PROVE  \/ m = <<x, i>>
         \/ NotBefore(m, <<x, i + 1>>) /\ Later(At(<<x, i + 1>>), State(m))
<1>1. x \in Nat \ {0} /\ x \in DOMAIN chain
  BY GoodFacts DEF Shape
<1>2. m = <<m[1], m[2]>> /\ m[1] \in Nat /\ m[2] \in Nat
  BY PastFacts
<1>3. m[1] # 0
  BY <1>1, <1>2 DEF NotBefore
<1>4. m \in AllMoments /\ State(m) = At(m)
  BY <1>3, PastFacts DEF State
<1>5. <<x, i + 1>> \in AllMoments
  BY <1>1 DEF AllMoments
<1>6. CASE m = <<x, i>>
  BY <1>6
<1>7. CASE m = <<x, i + 1>>
  BY <1>4, <1>7, LaterRefl DEF NotBefore
<1>8. CASE m # <<x, i>> /\ m # <<x, i + 1>>
  <2>1. m[1] > x \/ (m[1] = x /\ m[2] > i + 1)
    BY <1>1, <1>2, <1>8 DEF NotBefore
  <2>2. Earlier(<<x, i + 1>>, m)
    BY <1>1, <1>2, <2>1 DEF Earlier
  <2>3. NotBefore(m, <<x, i + 1>>)
    BY <1>2, <2>1 DEF NotBefore
  <2>4. QED
    BY <1>4, <1>5, <2>2, <2>3 DEF ChainTables
<1>9. QED
  BY <1>6, <1>7, <1>8

\* The job that runs a query, and what it becomes
LEMMA QueryStep ==
  ASSUME Shape, ChainTables, Ordered, NEW j \in jobs, RunQuery(j)
  PROVE  LET p == chain[j.tx].prog
             e == EventOf(j)
         IN
         /\ UNCHANGED <<chainVars, done>>
         /\ Queries(e) \in 0..2
         /\ \/ j.q > Queries(e) /\ db' = db
            \/ j.q \in 1..Queries(e) /\ db' = Query(p, db, e, j.tx, j.q)
         /\ \E h : /\ jobs' = (jobs \ {j}) \cup {h} /\ h.tx = j.tx
                   /\ \/ h.ev = j.ev /\ h.q = j.q + 1
                      \/ h.ev = j.ev + 1 /\ h.q = 1 /\ j.q >= Queries(e)
         /\ \A h \in jobs : chain[h.tx].prog = p => h = j
         /\ j.tx \in Todo(p) /\ \A z \in Todo(p) : j.tx <= z
<1> DEFINE p == chain[j.tx].prog
<1>1. j \in JobType /\ j.q \in Nat \ {0} /\ p \in Programs /\ j.owner = Replay(dials)
  BY JobFacts DEF Ordered, OneAtATime
<1>2. j.owner.by = "backfill" /\ j.owner.dial = dials /\ dials \in Dials
  BY <1>1, JobFacts DEF Replay
<1>3. Queries(EventOf(j)) \in 0..2
  BY DEF Queries
<1>4. \/ j.q > Queries(EventOf(j)) /\ db' = db
      \/ j.q \in 1..Queries(EventOf(j)) /\ db' = Query(p, db, EventOf(j), j.tx, j.q)
  BY <1>1, <1>3 DEF RunQuery
<1>5. \E h : /\ jobs' = (jobs \ {j}) \cup {h} /\ h.tx = j.tx
             /\ \/ h.ev = j.ev /\ h.q = j.q + 1
                \/ h.ev = j.ev + 1 /\ h.q = 1 /\ j.q >= Queries(EventOf(j))
  <2>1. \/ Becomes(j, NextEvent(j)) /\ j.q >= Queries(EventOf(j))
        \/ Becomes(j, [j EXCEPT !.q = @ + 1])
    BY <1>1, <1>3 DEF RunQuery
  <2>2. CASE Becomes(j, NextEvent(j)) /\ j.q >= Queries(EventOf(j))
    <3>1. NextEvent(j).tx = j.tx /\ NextEvent(j).ev = j.ev + 1 /\ NextEvent(j).q = 1
      BY <1>1, JobFields
    <3> HIDE DEF NextEvent
    <3>2. QED
      BY <2>2, <3>1 DEF Becomes
  <2>3. CASE Becomes(j, [j EXCEPT !.q = @ + 1])
    <3> DEFINE k == [j EXCEPT !.q = @ + 1]
    <3>1. k.tx = j.tx /\ k.ev = j.ev /\ k.q = j.q + 1
      BY <1>1, JobFields
    <3>2. jobs' = (jobs \ {j}) \cup {k}
      BY <2>3 DEF Becomes
    <3> HIDE DEF k
    <3>3. QED
      BY <3>1, <3>2
  <2>4. QED
    BY <2>1, <2>2, <2>3
<1>6. \A h \in jobs : chain[h.tx].prog = p => h = j
  <2>1. \A h \in jobs : h.owner = Replay(dials)
    BY DEF Ordered, OneAtATime
  <2>2. QED
    BY <1>1, <1>2, <2>1 DEF Shape, Jobs, Of
<1>7. j.tx \in Todo(p) /\ \A z \in Todo(p) : j.tx <= z
  BY <1>1, <1>2, JobOfBackfill, NextTodo
<1>8. UNCHANGED <<chainVars, done>>
  BY DEF RunQuery
<1>9. QED
  BY <1>3, <1>4, <1>5, <1>6, <1>7, <1>8

LEMMA ContentOthers ==
  ASSUME Shape, ChainTables, Tabled(db), Ordered, NEW j \in jobs, RunQuery(j),
         NEW r \in followed, r # chain[j.tx].prog, OwnTables(r), Content(r)
  PROVE  Content(r)'
<1> SUFFICES ASSUME NEW p, p = chain[j.tx].prog, NEW e, e = EventOf(j) PROVE Content(r)'
  OBVIOUS
<1>1. r \in Programs /\ p \in Programs /\ p \in followed
  BY JobFacts DEF Shape, Chains
<1>2. UNCHANGED <<chainVars, done>> /\ Todo(r)' = Todo(r)
  BY OrderedRunQuery DEF RunQuery
<1>3. \A n \in TablesOf[r] : db'[n] = db[n]
  <2> TAKE n \in TablesOf[r]
  <2>1. n \in TableNames /\ n \notin TablesOf[p]
    BY <1>1, TablesNamed DEF OwnTables
  <2>2. db' = db \/ (j.q \in 1..Queries(e) /\ db' = Query(p, db, e, j.tx, j.q))
    BY QueryStep
  <2>3. e.kind \in KindsOf[p]
    BY JobEvent DEF RunQuery
  <2>4. QED
    BY <1>1, <2>1, <2>2, <2>3, QueryEffect
<1>4. /\ followed' = followed /\ Past(r)' = Past(r)
      /\ \A y \in DOMAIN chain : chain'[y] = chain[y]
      /\ (done' \cap Good(r)') \ Todo(r)' \subseteq (done \cap Good(r)) \ Todo(r)
  BY <1>2 DEF chainVars, Past, Good
<1>5. \A h \in jobs' : h.tx \in DOMAIN chain /\ (chain[h.tx].prog = r => h \in jobs)
  <2>1. PICK h : jobs' = (jobs \ {j}) \cup {h} /\ h.tx = j.tx
    BY QueryStep
  <2>2. \A i \in jobs : i.tx \in DOMAIN chain
    BY JobFacts
  <2>3. QED
    BY <2>1, <2>2
<1>6. QED
  BY <1>1, <1>3, <1>4, <1>5, ContentFrame

\* What a handler run alone makes of a row
AloneRow(p, s, e, tx, n, k) ==
  /\ \A q \in 1..Queries(e) : Target(e, q) = <<n, k>>
       => RowIn(Handled(p, s, e, tx)[n], k) = RowAfter(e, tx, q, RowIn(s[n], k))
  /\ (\A q \in 1..Queries(e) : Target(e, q) # <<n, k>>)
       => RowIn(Handled(p, s, e, tx)[n], k) = RowIn(s[n], k)

LEMMA HandlerAlone ==
  ASSUME NEW p \in Programs \ {"crowdfund"}, NEW s, Tabled(s), NEW e \in Emits(p, s), NEW tx,
         NEW n \in TableNames, NEW k
  PROVE  AloneRow(p, s, e, tx, n, k)
BY HandledRow DEF AloneRow

\* The program whose query runs
LEMMA ContentRunQuery ==
  ASSUME Shape, ChainTables, Tabled(db), Linked, Ordered, NEW j \in jobs, RunQuery(j),
         NEW p \in Programs \ {"crowdfund"}, chain[j.tx].prog = p, Content(p)
  PROVE  Content(p)'
<1>1. SUFFICES ASSUME NEW x, x = j.tx, NEW i, i = j.ev, NEW e, e = EventOf(j), NEW Q, Q = Queries(e),
                    NEW s, s = chain[x].states[i], NEW u, u = chain[x].states[i + 1]
             PROVE  Content(p)'
  OBVIOUS
<1>2. /\ UNCHANGED <<chainVars, done>> /\ Q \in 0..2
      /\ \/ j.q > Q /\ db' = db
         \/ j.q \in 1..Q /\ db' = Query(p, db, e, x, j.q)
      /\ \A h \in jobs : chain[h.tx].prog = p => h = j
      /\ x \in Todo(p) /\ \A z \in Todo(p) : x <= z
  BY <1>1, QueryStep
<1>3. PICK h : /\ jobs' = (jobs \ {j}) \cup {h} /\ h.tx = x
               /\ \/ h.ev = i /\ h.q = j.q + 1
                  \/ h.ev = i + 1 /\ h.q = 1 /\ j.q >= Q
  BY <1>1, QueryStep
<1>4. /\ x \in DOMAIN chain /\ IsTx(x, chain[x]) /\ i \in DOMAIN chain[x].events
      /\ e \in Emits(p, s) /\ e.kind \in KindsOf[p] /\ Tabled(s) /\ u = Handled(p, s, e, x)
  BY <1>1, JobEvent DEF RunQuery
<1>5. e \in Emits(p, s) /\ e.kind \in KindsOf[p] /\ Tabled(s)
  BY <1>4
<1>6. j.q \in Nat \ {0} /\ i \in Nat \ {0} /\ x \in Nat /\ x \in Good(p)
  BY <1>1, JobFacts
<1>7. i \in DOMAIN chain[x].states /\ i + 1 \in DOMAIN chain[x].states
  BY <1>4, TxShape
<1>8. \A m : State(m)' = State(m)
  BY <1>2 DEF State, Origin, At, chainVars
<1>9. Todo(p)' = Todo(p) /\ Good(p)' = Good(p) /\ Past(p)' = Past(p)
  BY <1>2, OrderedRunQuery DEF Past, Good, chainVars
<1>10. PairKeys(s)
  BY <1>1, <1>4, <1>7 DEF Linked
<1> SUFFICES ASSUME NEW n \in TablesOf[p], NEW f \in FieldsOf(n), NEW k
             PROVE  \E m \in Past(p)' : Matches(m, n, k, f)' /\ Caught(p, m, n, k)'
  BY DEF Content
<1>11. PICK m \in Past(p) : Matches(m, n, k, f) /\ Caught(p, m, n, k)
  BY DEF Content
<1>12. n \in TableNames /\ n # "pledges"
  BY TablesNamed DEF TablesOf, Programs
<1>13. AloneRow(p, s, e, x, n, k)
  BY <1>12, <1>5, HandlerAlone
<1> DEFINE old == RowIn(db[n], k)
           new == RowIn(db'[n], k)
           Hit(q) == q \in 1..Q /\ Target(e, q) = <<n, k>>
           past == \E q \in 1..(j.q - 1) : Hit(q)
<1>14. Begun(j, n, k) = <<x, IF past THEN i + 1 ELSE i>>
  BY <1>1 DEF Begun, Writes
<1>15. /\ h.ev = i => Begun(h, n, k)' = <<x, IF \E q \in 1..j.q : Hit(q) THEN i + 1 ELSE i>>
       /\ h.ev # i => Begun(h, n, k)' = <<x, i + 1>> /\ j.q >= Q
  <2>1. CASE h.ev = i
    <3>1. EventOf(h)' = e /\ h.q - 1 = j.q
      BY <1>1, <1>2, <1>3, <1>6, <2>1 DEF EventOf, chainVars
    <3>2. \A q : Writes(h, n, k, q)' <=> Hit(q)
      BY <1>1, <3>1 DEF Writes
    <3> HIDE DEF Hit
    <3>3. QED
      BY <1>3, <2>1, <3>1, <3>2 DEF Begun
  <2>2. CASE h.ev # i
    <3>1. h.ev = i + 1 /\ h.q = 1 /\ j.q >= Q
      BY <1>3, <2>2
    <3>2. QED
      BY <1>3, <2>2, <3>1 DEF Begun
  <2>3. QED
    BY <2>1, <2>2
<1>16. \A w : (/\ NotBefore(w, Begun(h, n, k)')
               /\ \A y \in (done \cap Good(p)) \ Todo(p) : NotBefore(w, <<y, Len(chain[y].states)>>))
              => Caught(p, w, n, k)'
  <2>1. ASSUME NEW a \in jobs', chain'[a.tx].prog = p PROVE a = h
    BY <1>1, <1>2, <1>3, <2>1 DEF chainVars
  <2>2. done' = done /\ chain' = chain
    BY <1>2 DEF chainVars
  <2>3. QED
    BY <1>9, <2>1, <2>2 DEF Caught, NotBefore
<1>17. \A y \in (done \cap Good(p)) \ Todo(p) : NotBefore(<<x, i + 1>>, <<y, Len(chain[y].states)>>)
  <2> TAKE y \in (done \cap Good(p)) \ Todo(p)
  <2>1. y < x
    BY <1>2 DEF Ordered, InOrder
  <2>2. QED
    BY <2>1 DEF NotBefore
<1>18. <<x, i + 1>> \in Past(p) /\ State(<<x, i + 1>>) = u
  <2>1. <<x, i + 1>> \in Past(p)
    BY <1>2, <1>6, <1>7, InPast
  <2>2. x # 0
    BY <1>6, GoodFacts DEF Shape
  <2>3. QED
    BY <1>1, <2>1, <2>2 DEF State, At
<1>19. m = <<x, i>> \/ (NotBefore(m, <<x, i + 1>>) /\ Later(u, State(m)))
  <2>1. NotBefore(m, <<x, i>>)
    <3>1. NotBefore(m, Begun(j, n, k))
      BY <1>11 DEF Caught
    <3>2. m[1] \in Nat /\ m[2] \in Nat
      BY PastFacts
    <3>3. QED
      BY <1>6, <1>14, <3>1, <3>2 DEF NotBefore
  <2>2. At(<<x, i + 1>>) = u
    BY <1>1 DEF At
  <2>3. QED
    BY <1>6, <1>7, <2>1, <2>2, MomentAfter
<1>20. m = <<x, i>> => State(m) = s
  BY <1>1, <1>6, GoodFacts DEF State, At, Shape
<1>21. Part(f, old) = Part(f, RowIn(State(m)[n], k))
  BY <1>11 DEF Matches
<1> DEFINE Moves(w) == /\ Part(f, new) = Part(f, RowIn(State(w)[n], k))
                       /\ w = m \/ w = <<x, i + 1>>
                       /\ NotBefore(w, Begun(h, n, k)')
<1>22. ASSUME NEW w \in Past(p), Moves(w) PROVE Matches(w, n, k, f)' /\ Caught(p, w, n, k)'
  <2>1. Matches(w, n, k, f)'
    BY <1>8, <1>22 DEF Matches
  <2>2. \A y \in (done \cap Good(p)) \ Todo(p) : NotBefore(w, <<y, Len(chain[y].states)>>)
    BY <1>11, <1>17, <1>22 DEF Caught
  <2>3. QED
    BY <1>16, <1>22, <2>1, <2>2
<1>23. p \in Programs
  OBVIOUS
<1>24. SUFFICES \E w \in Past(p) : Moves(w)
  BY <1>9, <1>22
<1>25. \A w : NotBefore(w, <<x, i + 1>>) /\ w[1] \in Nat /\ w[2] \in Nat => NotBefore(w, Begun(h, n, k)')
  <2>1. Begun(h, n, k)' = <<x, i>> \/ Begun(h, n, k)' = <<x, i + 1>>
    BY <1>15
  <2>2. QED
    BY <1>6, <2>1 DEF NotBefore
<1>26. NotBefore(<<x, i + 1>>, Begun(h, n, k)')
  <2>1. NotBefore(<<x, i + 1>>, <<x, i + 1>>)
    BY <1>6 DEF NotBefore
  <2>2. QED
    BY <1>6, <1>25, <2>1
\* the query writes this row
<1>27. CASE Hit(j.q)
  <2> DEFINE was == RowIn(s[n], k)
             is == RowIn(u[n], k)
  <2>1. Steady(n, f, e, x, j.q, was)
    <3>1. PICK n1, k1 : Target(e, j.q) = <<n1, k1>> /\ SteadyIn(s, e, x, j.q, n1, k1)
      BY <1>1, <1>5, <1>10, <1>27, QuerySteady
    <3>2. n1 = n /\ k1 = k
      BY <1>27, <3>1
    <3>3. QED
      BY <3>1, <3>2 DEF SteadyIn
  <2>2. new = RowAfter(e, x, j.q, old)
    <3>1. db' = Query(p, db, e, x, j.q) /\ Target(e, j.q) = <<n, k>>
      BY <1>1, <1>2, <1>6, <1>27
    <3>2. j.q \in 1..Queries(e)
      BY <1>1, <1>27
    <3>3. RowIn(Query(p, db, e, x, j.q)[n], k) =
            IF Target(e, j.q) = <<n, k>> THEN RowAfter(e, x, j.q, RowIn(db[n], k))
            ELSE RowIn(db[n], k)
      BY <1>5, <1>12, <1>23, <3>2, QueryEffect
    <3>4. QED
      BY <3>1, <3>3
  <2>3. is = RowAfter(e, x, j.q, was)
    <3>1. j.q \in 1..Queries(e) /\ Target(e, j.q) = <<n, k>>
      BY <1>1, <1>27
    <3>2. RowIn(Handled(p, s, e, x)[n], k) = RowAfter(e, x, j.q, RowIn(s[n], k))
      BY <1>13, <3>1 DEF AloneRow
    <3>3. QED
      BY <1>4, <3>2
  <2>4. Lone(old) /\ RowsOK(n, old)
    BY <1>12, RowLone
  <2>5. CASE m = <<x, i>>
    <3>1. Part(f, new) = Part(f, is)
      BY <1>20, <1>21, <2>1, <2>2, <2>3, <2>4, <2>5 DEF Steady
    <3>2. QED
      BY <1>18, <1>26, <3>1
  <2>6. CASE m # <<x, i>>
    <3>1. NotBefore(m, <<x, i + 1>>) /\ Since(n, is, old)
      BY <1>12, <1>19, <1>21, <2>6, SinceLater
    <3>2. Part(f, new) \in {Part(f, old), Part(f, is)}
      BY <2>1, <2>2, <2>3, <2>4, <3>1 DEF Steady
    <3>3. CASE Part(f, new) = Part(f, is)
      BY <1>18, <1>26, <3>3
    <3>4. CASE Part(f, new) = Part(f, old)
      <4>1. NotBefore(m, Begun(h, n, k)')
        BY <1>25, <3>1, PastFacts
      <4>2. QED
        BY <1>11, <1>21, <3>4, <4>1
    <3>5. QED
      BY <3>2, <3>3, <3>4
  <2>7. QED
    BY <2>5, <2>6
\* it writes another one
<1>28. CASE ~Hit(j.q)
  <2>1. new = old
    <3>1. CASE db' = db
      BY <3>1
    <3>2. CASE j.q \in 1..Q /\ db' = Query(p, db, e, x, j.q)
      <4>1. Target(e, j.q) # <<n, k>> /\ j.q \in 1..Queries(e)
        BY <1>1, <1>28, <3>2
      <4>2. RowIn(Query(p, db, e, x, j.q)[n], k) =
              IF Target(e, j.q) = <<n, k>> THEN RowAfter(e, x, j.q, RowIn(db[n], k))
              ELSE RowIn(db[n], k)
        BY <1>5, <1>12, <1>23, <4>1, QueryEffect
      <4>3. QED
        BY <3>2, <4>1, <4>2
    <3>3. QED
      BY <1>2, <3>1, <3>2
  <2> HIDE DEF new, old, Hit
  <2>2. NotBefore(m, Begun(j, n, k)) /\ m \in Past(p)
    BY <1>11 DEF Caught
  <2>3. \A q \in 1..j.q : q \in 1..(j.q - 1) \/ q = j.q
    BY <1>6
  <2>4. CASE h.ev = i
    <3>1. (\E q \in 1..j.q : Hit(q)) <=> past
      <4>1. \A q \in 1..(j.q - 1) : q \in 1..j.q
        BY <1>6
      <4>2. QED
        BY <1>28, <2>3, <4>1
    <3>2. Begun(h, n, k)' = Begun(j, n, k)
      BY <1>14, <1>15, <2>4, <3>1
    <3>3. QED
      BY <1>21, <2>1, <2>2, <3>2
  <2>5. CASE h.ev # i
    <3>1. Begun(h, n, k)' = <<x, i + 1>> /\ j.q >= Q
      BY <1>15, <2>5
    <3>2. CASE past
      <4>1. Begun(j, n, k) = <<x, i + 1>>
        BY <1>14, <3>2
      <4>2. QED
        BY <1>21, <2>1, <2>2, <3>1, <4>1
    <3>3. CASE ~past /\ m # <<x, i>>
      <4>1. NotBefore(m, <<x, i + 1>>)
        BY <1>19, <3>3
      <4>2. QED
        BY <1>21, <2>1, <2>2, <3>1, <4>1
    <3>4. CASE ~past /\ m = <<x, i>>
      <4>1. \A q \in 1..Q : ~Hit(q)
        <5>1. \A q \in 1..Q : q \in 1..j.q
          BY <1>2, <1>6, <3>1
        <5>2. QED
          BY <1>28, <2>3, <3>4, <5>1
      <4>2. \A q \in 1..Queries(e) : Target(e, q) # <<n, k>>
        BY <1>1, <4>1 DEF Hit
      <4>3. RowIn(Handled(p, s, e, x)[n], k) = RowIn(s[n], k)
        BY <1>13, <4>2 DEF AloneRow
      <4>4. RowIn(u[n], k) = RowIn(s[n], k)
        BY <1>4, <4>3
      <4>5. QED
        BY <1>18, <1>20, <1>21, <1>26, <2>1, <3>4, <4>4
    <3>5. QED
      BY <3>2, <3>3, <3>4
  <2>6. QED
    BY <2>4, <2>5
<1>29. QED
  BY <1>27, <1>28

LEMMA ContentStep ==
  ASSUME Shape, ChainTables, Tabled(db), Linked, Ordered, [Next]_vars, Exact',
         NEW p \in followed \ {"crowdfund"}, OwnTables(p), Content(p)
  PROVE  Content(p)'
<1>1. p \in Programs /\ Limit >= MaxTx
  BY ExactStep DEF Shape, Chains, Exact
<1>2. CASE UNCHANGED vars
  <2>1. /\ UNCHANGED <<followed, db, chain, done>> /\ jobs' = jobs
        /\ UNCHANGED <<cursor, dials, backfill>>
    BY <1>2 DEF vars, chainVars, linkVars
  <2>2. Todo(p)' = Todo(p)
    BY <2>1 DEF Todo, Waiting, Good, Left, Listable
  <2>3. QED
    BY <1>1, <2>1, <2>2, ContentSame
<1>3. CASE \E r \in Programs : Confirm(r)
  BY <1>1, <1>3, ContentConfirm
<1>4. CASE Subscribe
  <2>1. UNCHANGED <<followed, db, chain, done>> /\ jobs' = jobs
    BY <1>4 DEF Subscribe, chainVars
  <2>2. Todo(p)' = Todo(p)
    BY <1>1, <1>4, OrderedSubscribe
  <2>3. QED
    BY <1>1, <2>1, <2>2, ContentSame
<1>5. CASE Crash
  <2>1. UNCHANGED <<followed, db, chain, done>> /\ jobs' = {}
    BY <1>5 DEF Crash, chainVars
  <2>2. Todo(p) \subseteq Todo(p)'
    BY <1>1, <1>5, OrderedCrash
  <2>3. QED
    BY <1>1, <2>1, <2>2, ContentSame
<1>6. ASSUME NEW j \in jobs, RunQuery(j) PROVE Content(p)'
  <2>1. CASE p = chain[j.tx].prog
    BY <1>1, <1>6, <2>1, ContentRunQuery
  <2>2. CASE p # chain[j.tx].prog
    BY <1>6, <2>2, ContentOthers
  <2>3. QED
    BY <2>1, <2>2
<1>7. CASE \E j \in jobs : AdvanceCursor(j)
  BY <1>1, <1>7, ContentAdvance
<1>8. ASSUME NEW g \in Dials, NEW r \in Programs, ReadCursor(g, r) \/ ListPage(g, r) \/ FinishBackfill(g, r)
      PROVE  Content(p)'
  <2>1. UNCHANGED <<followed, db, chain, done>> /\ jobs' = jobs
    BY <1>8 DEF ReadCursor, ListPage, FinishBackfill, chainVars
  <2>2. Todo(p)' = Todo(p)
    BY <1>1, <1>8, OrderedReadCursor, OrderedListPage, OrderedFinish
  <2>3. QED
    BY <1>1, <2>1, <2>2, ContentSame
<1>9. CASE \E g \in Dials, r \in Programs : FetchTx(g, r)
  BY <1>9, ContentFetchTx
<1>10. QED
  BY <1>2, <1>3, <1>4, <1>5, <1>6, <1>7, <1>8, <1>9, ExactNext DEF BackfillStep

\* The invariant behind ReplayExact
ReplayInv ==
  /\ Linked
  /\ Exact => Ordered /\ \A p \in followed \ {"crowdfund"} : OwnTables(p) => Content(p)

LEMMA ReplayInit == Init => ReplayInv
<1> SUFFICES ASSUME Init PROVE ReplayInv
  OBVIOUS
<1>1. Linked /\ Ordered /\ followed \subseteq Programs
  BY LinkedInit, OrderedInit, ShapeInit DEF Shape, Chains
<1>2. \A p \in followed : Content(p)
  BY <1>1, ContentInit
<1>3. QED
  BY <1>1, <1>2 DEF ReplayInv

LEMMA ReplayStep == Shape /\ Once /\ ReplayInv /\ [Next]_vars => ReplayInv'
<1> SUFFICES ASSUME Shape, Once, ReplayInv, [Next]_vars PROVE ReplayInv'
  OBVIOUS
<1>1. ChainTables /\ Tabled(db) /\ Linked
  BY DEF Once, ReplayInv
<1>2. Linked'
  BY <1>1, LinkedStep
<1>3. ASSUME Exact'
      PROVE  Ordered' /\ (\A p \in followed \ {"crowdfund"} : OwnTables(p) => Content(p))'
  <2>1. Exact /\ Ordered /\ Ordered'
    BY <1>3, OrderedStep DEF ReplayInv
  <2>2. followed' = followed
    BY OnlyConfirmChains DEF Confirm, chainVars
  <2>3. ASSUME NEW p \in followed \ {"crowdfund"}, OwnTables(p)' PROVE Content(p)'
    <3>1. OwnTables(p)
      BY <2>2, <2>3 DEF OwnTables
    <3>2. Content(p)
      BY <2>1, <2>3, <3>1 DEF ReplayInv
    <3>3. QED
      BY <1>1, <1>3, <2>1, <2>3, <3>1, <3>2, ContentStep
  <2>4. QED
    BY <2>1, <2>2, <2>3
<1>4. QED
  BY <1>2, <1>3 DEF ReplayInv

\* Tables with the same columns are the same.
LEMMA PartsWhole ==
  ASSUME NEW s, Tabled(s), NEW t, Tabled(t), NEW n \in TableNames,
         \A f \in FieldsOf(n) : \A k : Part(f, RowIn(s[n], k)) = Part(f, RowIn(t[n], k))
  PROVE  s[n] = t[n]
<1>1. ASSUME NEW k PROVE RowIn(s[n], k) = RowIn(t[n], k)
  <2>1. /\ Lone(RowIn(s[n], k)) /\ RowsOK(n, RowIn(s[n], k))
        /\ Lone(RowIn(t[n], k)) /\ RowsOK(n, RowIn(t[n], k))
    BY RowLone
  <2>2. CASE n \notin {"tids", "karma"}
    BY <2>2 DEF FieldsOf, Part
  <2>3. CASE n \in {"tids", "karma"}
    <3>1. PICK f \in FieldsOf(n) : TRUE
      BY <2>3 DEF FieldsOf
    <3>2. RowIn(s[n], k) = {} <=> RowIn(t[n], k) = {}
      BY <3>1, PartEmpty
    <3>3. CASE RowIn(s[n], k) = {}
      BY <3>2, <3>3
    <3>4. CASE RowIn(s[n], k) # {}
      <4>1. PICK a : RowIn(s[n], k) = {a}
        BY <2>1, <3>4 DEF Lone
      <4>2. PICK b : RowIn(t[n], k) = {b}
        BY <2>1, <3>2, <3>4 DEF Lone
      <4>3. ASSUME NEW c \in FieldsOf(n) PROVE a[c] = b[c]
        <5>1. c # "row"
          BY <2>3 DEF FieldsOf
        <5>2. Part(c, {a}) = {a[c]} /\ Part(c, {b}) = {b[c]}
          BY <5>1, PartOne
        <5>3. QED
          BY <4>1, <4>2, <5>2
      <4>4. CASE n = "tids"
        <5>1. a.custody = b.custody /\ a.recovery = b.recovery /\ a.username = b.username
          BY <4>3, <4>4 DEF FieldsOf
        <5>2. IsTidRow(a) /\ IsTidRow(b)
          BY <2>1, <4>1, <4>2, <4>4 DEF RowsOK
        <5>3. a = b
          BY <5>1, <5>2 DEF IsTidRow
        <5>4. QED
          BY <4>1, <4>2, <5>3
      <4>5. CASE n = "karma"
        <5>1. a.tips = b.tips /\ a.tasks = b.tasks
          BY <4>3, <4>5 DEF FieldsOf
        <5>2. IsKarmaRow(a) /\ IsKarmaRow(b)
          BY <2>1, <4>1, <4>2, <4>5 DEF RowsOK
        <5>3. a = b
          BY <5>1, <5>2 DEF IsKarmaRow
        <5>4. QED
          BY <4>1, <4>2, <5>3
      <4>6. QED
        BY <2>3, <4>4, <4>5
    <3>5. QED
      BY <3>3, <3>4
  <2>4. QED
    BY <2>2, <2>3
<1>2. \A k : (k \in DOMAIN s[n] <=> k \in DOMAIN t[n]) /\ (k \in DOMAIN s[n] => s[n][k] = t[n][k])
  BY <1>1 DEF RowIn
<1>3. s[n] = [k \in DOMAIN s[n] |-> s[n][k]] /\ t[n] = [k \in DOMAIN t[n] |-> t[n][k]]
  BY DEF Tabled
<1>4. DOMAIN s[n] = DOMAIN t[n]
  BY <1>2
<1>5. QED
  BY <1>2, <1>3, <1>4

LEMMA ReplayedTable ==
  ASSUME Shape, Once, ReplayInv, Exact, NEW p \in followed \ {"crowdfund"}, OwnTables(p), Replayed(p),
         NEW n \in TablesOf[p], NEW last,
         last = CHOOSE x \in Good(p) \cap done : \A y \in Good(p) \cap done : y <= x
  PROVE  db[n] = After(last)[n]
<1>1. p \in Programs /\ Content(p) /\ n \in TableNames
  BY TablesNamed DEF ReplayInv, Shape, Chains
<1>2. ChainTables /\ Tabled(db)
  BY DEF Once
<1>3. Todo(p) = {}
  <2>1. dials \in Dials
    BY DEF Replayed, Shape, Links, Dials
  <2>2. backfill[dials][p].phase = "complete" /\ GoodBackfill(p, backfill[dials][p])
    BY <1>1, <2>1, BackfillFacts DEF Replayed
  <2>3. backfill[dials][p].queue = <<>>
    BY <2>2 DEF GoodBackfill, ListsDown
  <2>4. ~Waiting(p)
    BY <2>1, <2>2 DEF Waiting, Dials
  <2>5. Left(p, backfill[dials][p]) = {}
    BY <2>2, <2>3 DEF Left
  <2>6. QED
    BY <2>4, <2>5 DEF Todo
<1>4. ASSUME NEW f \in FieldsOf(n), NEW k
      PROVE  /\ last \in Good(p)
             /\ Part(f, RowIn(db[n], k)) = Part(f, RowIn(After(last)[n], k))
  <2>1. PICK m \in Past(p) : Matches(m, n, k, f) /\ Caught(p, m, n, k)
    BY <1>1 DEF Content
  <2>2. m[1] \in Nat /\ m[2] \in Nat
    BY <1>2, PastFacts
  <2>3. \A y \in Good(p) \cap done : y \in Nat \ {0} /\ NotBefore(m, <<y, Len(chain[y].states)>>)
    BY <1>3, <2>1, GoodFacts DEF Caught, Shape
  <2>4. \A y \in Good(p) \cap done : y <= m[1]
    BY <2>2, <2>3 DEF NotBefore
  <2>5. m[1] # 0
    <3>1. PICK y : y \in Good(p) \cap done
      BY DEF Replayed
    <3>2. y \in Nat \ {0} /\ y <= m[1]
      BY <2>3, <2>4, <3>1
    <3>3. QED
      BY <2>2, <3>2
  <2>6. m[1] \in Good(p) \cap done /\ m[1] \in DOMAIN chain /\ m[2] <= Len(chain[m[1]].states)
    BY <1>2, <1>3, <2>5, PastFacts
  <2>7. last \in Good(p) \cap done /\ \A y \in Good(p) \cap done : y <= last
    BY <2>4, <2>6
  <2>8. last = m[1]
    BY <2>2, <2>3, <2>4, <2>6, <2>7
  <2>9. Len(chain[m[1]].states) \in Nat
    <3>1. IsTx(m[1], chain[m[1]])
      BY <1>2, <2>6 DEF ChainTables
    <3>2. QED
      BY <3>1, TxShape
  <2>10. m[2] = Len(chain[m[1]].states)
    <3>1. NotBefore(m, <<m[1], Len(chain[m[1]].states)>>)
      BY <2>3, <2>6
    <3>2. QED
      BY <2>2, <2>6, <2>9, <3>1 DEF NotBefore
  <2>11. State(m) = After(last)
    BY <2>5, <2>8, <2>10 DEF State, At, After
  <2>12. QED
    BY <2>1, <2>7, <2>11 DEF Matches
<1>5. last \in Good(p)
  <2>1. PICK f \in FieldsOf(n) : TRUE
    BY DEF FieldsOf
  <2>2. QED
    BY <1>4, <2>1
<1>6. Tabled(After(last))
  <2>1. last \in DOMAIN chain
    BY <1>5 DEF Good
  <2>2. IsTx(last, chain[last])
    BY <1>2, <2>1 DEF ChainTables
  <2>3. Len(chain[last].states) \in DOMAIN chain[last].states
    BY <2>2, TxShape
  <2>4. QED
    BY <2>2, <2>3 DEF IsTx, After
<1>7. QED
  BY <1>1, <1>2, <1>4, <1>6, PartsWhole

\* A backfill that ran to its end leaves the tables of its program as they were
\* on the chain after the last transaction it saw, even if earlier backfills
\* were cut off by a crash at any query of a handler and their transactions are
\* replayed (solana/backfill.ts, "handlers see events in the same order they
\* were confirmed on chain").
THEOREM SpecReplayExact == Spec => []ReplayExact
<1>1. Shape /\ Once /\ ReplayInv => ReplayExact
  BY ReplayedTable DEF ReplayExact, Exact
<1>2. Shape /\ Once /\ ReplayInv /\ [Next]_vars => ReplayInv'
  BY ReplayStep
<1>3. QED
  BY <1>1, <1>2, SpecOnce, ReplayInit, PTL DEF Spec
==============================================================================
