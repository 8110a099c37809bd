------------------------------ MODULE GroupProofs ------------------------------
(***************************************************************************)
(* Proofs about the group DMs of GroupSync, as they run beside the inbox   *)
(* of DmInbox: rows and frames are typed, a member was named by a creator  *)
(* and leaves by right, a creator stays a member of its group, and the     *)
(* ciphertexts of a message are whole.                                     *)
(***************************************************************************)
EXTENDS DmInbox, TLAPS

(* What GroupSync's steps maintain about signed rights. *)

\* A creator of g named t, in a create or in an ADD that a hub accepted.
Vouched(g, t) ==
    \/ \E c \in CreatesOf(g) : t \in Named[c]
    \/ \E o \in Ops : /\ KindOf[o] = "add" /\ GroupOf[o] = g /\ t \in Named[o]
                      /\ Accepted(o) /\ ByCreator(o)

\* What the answers of Permitted leave true for good.
Rightful(o) ==
    /\ KindOf[o] # "leave" => ByCreator(o)
    /\ KindOf[o] = "remove" => \E c \in CreatesOf(GroupOf[o]) :
           SignerOf[c] = SignerOf[o] /\ SignerOf[c] \notin Named[o]
    /\ KindOf[o] = "leave" => \E c \in CreatesOf(GroupOf[o]) : SignerOf[c] # SignerOf[o]

\* An item as the hub that ships it may have made it.
ItemSound(i) ==
    /\ i.env \in Creates => /\ i.env \in CreatesOf(GroupOf[i.env])
                            /\ \A t \in i.named : Vouched(GroupOf[i.env], t)
    /\ i.env \in Texts => i.named \in {{}, Named[i.env]}
    /\ i.env \in Ops => Accepted(i.env)
    /\ Form[i.env] = "json" => i.data

JobSound(j) ==
    /\ \A i \in j.todo : ItemSound(i)
    /\ j.cur # NoItem => /\ ItemSound(j.cur)
                         /\ Form[j.cur.env] = "json" => /\ j.cur.named = Named[j.cur.env]
                                                        /\ j.cur.env \in envs[j.hub]

\* A group row is of a create of that id, and stays on record.
RowsFounded == \A h \in Hubs, g \in Groups : Exists(h, g) =>
    /\ group[h][g] \in founded /\ GroupOf[group[h][g]] = g

ItemsSound ==
    /\ \A f \in wire : f.type = "ship" => \A i \in f.items : ItemSound(i)
    /\ \A j \in storing : JobSound(j)

\* A request that is about to apply op o.
Applying(o) == \E j \in serving : j.env = o /\ j.stage = "row"

OpsRightful ==
    /\ \A o \in Ops : Accepted(o) \/ Applying(o) => Rightful(o)
    /\ \A j \in serving : /\ j.env \in Ops => j.stage \in {"check", "row"}
                          /\ j.env \in Creates => j.stage \in {"row", "rest"}

\* Signed JSON bytes are kept with every row they back.
EnvelopesKept ==
    /\ \A h \in Hubs : \A e \in Held(h, "create") \cup texts[h] :
           Form[e] = "json" => e \in envs[h]
    /\ \A j \in serving : Form[j.env] # "none" => j.env \in envs[j.hub]
    /\ \A h \in Hubs, e \in Envelopes :
           <<h, e>> \in given /\ Form[e] # "none" => e \in envs[h]

AllVouched == \A h \in Hubs, g \in Groups : \A t \in members[h][g] : Vouched(g, t)

\* Some handler or request of h is about to enter tid t for a create of g.
Entering(h, g, t) ==
    \/ \E j \in storing : /\ j.hub = h /\ j.stage = "rest" /\ j.cur # NoItem
                          /\ j.cur.env \in CreatesOf(g) /\ t \in j.cur.named
    \/ \E j \in serving : /\ j.hub = h /\ j.stage = "rest"
                          /\ j.env \in CreatesOf(g) /\ t \in Named[j.env]

\* Every create of g is tid s's, signed as JSON, and lists s.
FoundedBy(g, s) ==
    \A c \in CreatesOf(g) : SignerOf[c] = s /\ Form[c] = "json" /\ s \in Named[c]

CreatorEntered ==
    \A h \in Hubs, g \in Groups :
        (errors = 0 /\ Exists(h, g) /\ FoundedBy(g, Creator(h, g))) =>
        Creator(h, g) \in members[h][g] \/ Entering(h, g, Creator(h, g))

\* Some handler or request of h is about to insert the ciphertexts of m.
Sealing(h, m) ==
    \/ \E j \in storing : /\ j.hub = h /\ j.stage = "rest" /\ j.cur # NoItem
                          /\ j.cur.env = m /\ j.cur.named = Named[m]
    \/ \E j \in serving : j.hub = h /\ j.stage = "rest" /\ j.env = m

CiphersDue ==
    \A h \in Hubs : \A m \in texts[h] :
        /\ ciphers[h][m] \in {{}, Named[m]}
        /\ Form[m] = "json" /\ errors = 0 => ciphers[h][m] = Named[m] \/ Sealing(h, m)

RightsInv == /\ TypeOK /\ RowsFounded /\ ItemsSound /\ OpsRightful /\ EnvelopesKept
             /\ AllVouched /\ CreatorEntered /\ CiphersDue

OfClass(c) == IF c = "create" THEN Creates ELSE IF c = "text" THEN Texts ELSE Ops

\* Frames and offers travel on open links.
Aimed ==
    /\ \A f \in wire : f.from # f.to /\ {f.from, f.to} \in links
    /\ \A g \in greeting : \E p \in Hubs \ {g.hub} : g.to = {p} /\ {g.hub, p} \in links
    /\ \A l \in links : \E h, p \in Hubs : h # p /\ l = {h, p}

----------------------------------------------------------------------------
(* Typing. *)

TablesOK ==
    /\ group \in [Hubs -> [Groups -> Creates \cup {NoGroup}]]
    /\ founded \subseteq Creates
    /\ members \in [Hubs -> [Groups -> SUBSET Tids]]
    /\ texts \in [Hubs -> SUBSET Texts]
    /\ ciphers \in [Hubs -> [Texts -> SUBSET Tids]]
    /\ old \in [Hubs -> [Hubs -> SUBSET (Creates \cup Texts)]]
    /\ \A h \in Hubs : /\ \A g \in Groups : members[h][g] # {} => Exists(h, g)
                       /\ \A m \in texts[h] : Exists(h, GroupOf[m])
                       /\ \A m \in Texts : ciphers[h][m] # {} => m \in texts[h]

NetOK ==
    /\ envs \in [Hubs -> SUBSET Envelopes]
    /\ links \subseteq {{h, p} : h, p \in Hubs}
    /\ wire \subseteq Frame
    /\ greeting \subseteq [hub : Hubs, to : SUBSET Hubs, class : {"create", "text"},
                           all : BOOLEAN]
    /\ storing \subseteq StoreJob
    /\ serving \subseteq [hub : Hubs, env : Envelopes, stage : Stages]
    /\ clients \subseteq Hubs \X Envelopes /\ given \subseteq Hubs \X Envelopes
    /\ skipped \subseteq Hubs \X Texts
    /\ {errors, budget} \subseteq Nat

LEMMA TypeParts == TypeOK <=> TablesOK /\ NetOK
  BY DEF TypeOK, TablesOK, NetOK

LEMMA FreshOK ==
    ASSUME TablesOK, NEW h \in Hubs, NEW e
    PROVE  Fresh(h, e) \in [Hubs -> [Hubs -> SUBSET (Creates \cup Texts)]]
  BY DEF TablesOK, Fresh

LEMMA InsertGroupOK ==
    ASSUME TablesOK, NEW h \in Hubs, NEW e \in Creates, InsertGroup(h, e)
    PROVE  TablesOK'
<1>1. CASE Exists(h, GroupOf[e])
  BY <1>1 DEF InsertGroup, TablesOK, Exists
<1>2. CASE ~Exists(h, GroupOf[e])
  <2>1. GroupOf[e] \in Groups /\ e # NoGroup
    BY EnvelopesAssumption, DistinctAssumption DEF Envelopes
  <2>2. /\ group' = [group EXCEPT ![h][GroupOf[e]] = e]
        /\ founded' = founded \cup {e} /\ old' = Fresh(h, e)
        /\ members' = members /\ texts' = texts /\ ciphers' = ciphers
    BY <1>2 DEF InsertGroup
  <2>3. /\ group' \in [Hubs -> [Groups -> Creates \cup {NoGroup}]]
        /\ \A i \in Hubs, g \in Groups : Exists(i, g) => Exists(i, g)'
    BY <2>1, <2>2 DEF TablesOK, Exists
  <2>4. \A m \in Texts : GroupOf[m] \in Groups
    BY EnvelopesAssumption DEF Envelopes
  <2>5. QED
    BY <2>2, <2>3, <2>4, FreshOK DEF TablesOK
<1>3. QED
  BY <1>1, <1>2

LEMMA InsertMembersOK ==
    ASSUME TablesOK, NEW h \in Hubs, NEW g \in Groups, NEW tids \in SUBSET Tids,
           Exists(h, g), InsertMembers(h, g, tids)
    PROVE  TablesOK'
  BY DEF TablesOK, InsertMembers, Exists

LEMMA DeleteMembersOK ==
    ASSUME TablesOK, NEW h \in Hubs, NEW g \in Groups, NEW tids \in SUBSET Tids,
           DeleteMembers(h, g, tids)
    PROVE  TablesOK'
  BY DEF TablesOK, DeleteMembers, Exists

LEMMA InsertTextOK ==
    ASSUME TablesOK, NEW h \in Hubs, NEW e \in Texts, Exists(h, GroupOf[e]),
           InsertText(h, e)
    PROVE  TablesOK'
  BY DEF TablesOK, InsertText, Exists, Fresh

LEMMA InsertCiphersOK ==
    ASSUME TablesOK, NEW h \in Hubs, NEW e \in texts[h], NEW tids \in SUBSET Tids,
           InsertCiphers(h, e, tids)
    PROVE  TablesOK'
  BY DEF TablesOK, InsertCiphers, Exists

LEMMA DeleteGroupOK ==
    ASSUME TablesOK, NEW h \in Hubs, NEW g \in Groups, DeleteGroup(h, g)
    PROVE  TablesOK'
  BY EnvelopesAssumption, DistinctAssumption
     DEF TablesOK, DeleteGroup, Exists, Envelopes

\* The statement behind each type of op.
LEMMA OpStatement ==
    ASSUME NEW h, NEW o \in Ops, ApplyOp(h, o)
    PROVE  \/ KindOf[o] = "leave" /\ DeleteMembers(h, GroupOf[o], {SignerOf[o]})
           \/ KindOf[o] = "remove" /\ DeleteMembers(h, GroupOf[o], Named[o])
           \/ KindOf[o] = "add" /\ InsertMembers(h, GroupOf[o], Named[o])
           \/ KindOf[o] = "delete" /\ DeleteGroup(h, GroupOf[o])
<1>1. KindOf[o] \in {"leave", "add", "remove", "delete"}
  BY EnvelopesAssumption DEF Kinds
<1>2. QED
  BY <1>1 DEF ApplyOp

LEMMA OpFounded ==
    ASSUME NEW h, NEW o \in Ops, ApplyOp(h, o)
    PROVE  founded' = founded
  BY OpStatement DEF DeleteMembers, InsertMembers, DeleteGroup

LEMMA ApplyOpOK ==
    ASSUME TablesOK, NEW h \in Hubs, NEW o \in Ops, Applicable(h, o), ApplyOp(h, o)
    PROVE  TablesOK'
<1>1. /\ GroupOf[o] \in Groups /\ Named[o] \in SUBSET Tids /\ {SignerOf[o]} \in SUBSET Tids
  BY EnvelopesAssumption DEF Envelopes
<1>2. QED
  BY <1>1, OpStatement, DeleteMembersOK, InsertMembersOK, DeleteGroupOK DEF Applicable

LEMMA HeldOK ==
    ASSUME TablesOK, NEW h \in Hubs, NEW c \in {"create", "text"}
    PROVE  /\ Held(h, c) \subseteq Creates \cup Texts
           /\ Held(h, c) \subseteq OfClass(c)
  BY DEF TablesOK, Held, OfClass

LEMMA PulledOK ==
    ASSUME TablesOK, NEW h \in Hubs, NEW es \in SUBSET (Creates \cup Texts)
    PROVE  Pulled(h, es) \in SUBSET Item
<1> SUFFICES ASSUME NEW e \in es
             PROVE  [env |-> e, data |-> e \in envs[h],
                     named |-> IF e \in Creates THEN members[h][GroupOf[e]]
                               ELSE ciphers[h][e]] \in Item
  BY DEF Pulled
<1>1. e \in Creates => members[h][GroupOf[e]] \in SUBSET Tids
  BY EnvelopesAssumption DEF TablesOK, Envelopes
<1>2. e \notin Creates => ciphers[h][e] \in SUBSET Tids
  BY DEF TablesOK
<1>3. QED
  BY <1>1, <1>2 DEF Item, Envelopes

\* The item a push carries.
PushedItem(e) == [env |-> e, named |-> Named[e], data |-> Form[e] # "none"]

LEMMA PushShape ==
    ASSUME NEW h, NEW e, Push(h, e)
    PROVE  /\ wire \subseteq wire'
           /\ \A f \in wire' \ wire :
                /\ f.from = h /\ f.to \in Others(h) /\ {h, f.to} \in links /\ f.from # f.to
                /\ f.type = "ship" /\ f.class = ClassOf(e) /\ \A i \in f.items : i = PushedItem(e)
           /\ \A p \in Others(h) : {h, p} \in links => \E f \in wire' :
                f.from = h /\ f.to = p /\ f.type = "ship" /\ PushedItem(e) \in f.items
<1> DEFINE frame(p) == Ship(h, p, ClassOf(e), {PushedItem(e)})
<1>1. wire' = wire \cup {frame(p) : p \in {q \in Others(h) : {h, q} \in links}}
  BY DEF Push, PushedItem
<1>2. \A p : /\ frame(p).from = h /\ frame(p).to = p /\ frame(p).type = "ship"
             /\ frame(p).class = ClassOf(e) /\ frame(p).items = {PushedItem(e)}
  BY DEF Ship
<1> HIDE DEF frame
<1>3. ASSUME NEW f \in wire' \ wire
      PROVE  /\ f.from = h /\ f.to \in Others(h) /\ {h, f.to} \in links /\ f.from # f.to
             /\ f.type = "ship" /\ f.class = ClassOf(e) /\ \A i \in f.items : i = PushedItem(e)
  <2>1. PICK p \in Others(h) : {h, p} \in links /\ f = frame(p)
    BY <1>1
  <2>2. p # h
    BY DEF Others
  <2>3. QED
    BY <1>2, <2>1, <2>2
<1>4. ASSUME NEW p \in Others(h), {h, p} \in links
      PROVE  \E f \in wire' :
                f.from = h /\ f.to = p /\ f.type = "ship" /\ PushedItem(e) \in f.items
  <2>1. frame(p) \in wire'
    BY <1>1, <1>4
  <2>2. QED
    BY <1>2, <2>1
<1>5. wire \subseteq wire'
  BY <1>1
<1>6. QED
  BY <1>3, <1>4, <1>5

LEMMA PushOK ==
    ASSUME NetOK, NEW h \in Hubs, NEW e \in Envelopes, Push(h, e)
    PROVE  wire' \subseteq Frame
<1>1. PushedItem(e) \in Item
  BY EnvelopesAssumption DEF Item, PushedItem
<1>2. ClassOf(e) \in {"create", "text", "op"}
  BY DEF ClassOf
<1>3. \A p \in Hubs : Ship(h, p, ClassOf(e), {PushedItem(e)}) \in Frame
  BY <1>1, <1>2 DEF Ship, Frame
<1>4. wire' = wire \cup {Ship(h, p, ClassOf(e), {PushedItem(e)})
                          : p \in {q \in Others(h) : {h, q} \in links}}
  BY DEF Push, PushedItem
<1>5. wire \subseteq Frame
  BY DEF NetOK
<1>6. QED
  BY <1>3, <1>4, <1>5 DEF Others

LEMMA BelievedOK ==
    ASSUME NEW i \in Item
    PROVE  /\ Believed(i) \in Item /\ Believed(i).env = i.env /\ Believed(i).data = i.data
           /\ Believed(i).named \in {i.named, Named[i.env]}
           /\ i.data /\ Form[i.env] = "json" => Believed(i).named = Named[i.env]
<1>1. i.env \in Envelopes /\ i.named \in SUBSET Tids /\ i.data \in BOOLEAN
      /\ i = [env |-> i.env, named |-> i.named, data |-> i.data]
  BY DEF Item
<1>2. Named[i.env] \in SUBSET Tids
  BY <1>1, EnvelopesAssumption
<1>3. CASE i.data /\ Form[i.env] = "json"
  <2>1. Believed(i) = [env |-> i.env, named |-> Named[i.env], data |-> i.data]
    BY <1>1, <1>3 DEF Believed
  <2>2. QED
    BY <1>1, <1>2, <1>3, <2>1 DEF Item
<1>4. CASE ~(i.data /\ Form[i.env] = "json")
  BY <1>4 DEF Believed
<1>5. QED
  BY <1>3, <1>4

\* The jobs a storing handler turns into.
LEMMA JobShape ==
    ASSUME NEW j \in StoreJob
    PROVE  /\ j.hub \in Hubs /\ j.from \in Hubs /\ j.todo \subseteq Item
           /\ j.cur \in Item \cup {NoItem} /\ j.stage \in {"row", "rest"}
           /\ j.cur # NoItem => /\ j.cur \in Item /\ j.cur.env \in Envelopes
                                /\ j.cur.named \in SUBSET Tids /\ j.cur.data \in BOOLEAN
           /\ [j EXCEPT !.cur = NoItem] \in StoreJob
           /\ [j EXCEPT !.stage = "rest"] \in StoreJob
           /\ \A i : [j EXCEPT !.todo = @ \ {i}] \in StoreJob
           /\ \A i \in Item : [j EXCEPT !.todo = @ \ {i}, !.cur = Believed(i), !.stage = "row"]
                                  \in StoreJob
  BY BelievedOK DEF StoreJob, Item

LEMMA StoringOK ==
    ASSUME NetOK, NEW j \in storing, NextItem(j) \/ Onwards(j) \/ Abandon(j)
    PROVE  storing' \subseteq StoreJob
<1>1. j \in StoreJob
  BY DEF NetOK
<1>2. [j EXCEPT !.cur = NoItem] \in StoreJob /\ [j EXCEPT !.stage = "rest"] \in StoreJob
  BY <1>1, JobShape
<1>3. QED
  BY <1>2 DEF NetOK, NextItem, Onwards, Abandon

\* Every query of a handler leaves the tables typed and the job in its type.
LEMMA StoreOK ==
    ASSUME TypeOK, NEW j \in storing, Store(j)
    PROVE  TablesOK' /\ storing' \subseteq StoreJob /\ skipped' \subseteq Hubs \X Texts
<1>1. TablesOK /\ NetOK
  BY TypeParts
<1>2. j \in StoreJob /\ j.cur # NoItem
  BY <1>1 DEF Store, NetOK
<1>3. /\ j.hub \in Hubs /\ j.cur.env \in Envelopes /\ j.cur.named \in SUBSET Tids
      /\ GroupOf[j.cur.env] \in Groups
  BY <1>2, JobShape, EnvelopesAssumption
<1>4. UNCHANGED <<tables, old>> => TablesOK'
  BY <1>1 DEF TablesOK, tables, Exists
<1>5. ASSUME StoreCreateRow(j)
      PROVE  TablesOK' /\ storing' \subseteq StoreJob /\ skipped' = skipped
  BY <1>1, <1>3, <1>5, InsertGroupOK, StoringOK DEF StoreCreateRow
<1>6. ASSUME StoreCreateMembers(j)
      PROVE  TablesOK' /\ storing' \subseteq StoreJob /\ skipped' = skipped
  BY <1>1, <1>3, <1>4, <1>6, InsertMembersOK, StoringOK DEF StoreCreateMembers
<1>7. ASSUME StoreText(j)
      PROVE  TablesOK' /\ storing' \subseteq StoreJob
             /\ skipped' \subseteq skipped \cup {<<j.hub, j.cur.env>>} /\ j.cur.env \in Texts
  BY <1>1, <1>3, <1>4, <1>7, InsertTextOK, StoringOK DEF StoreText
<1>8. ASSUME StoreCiphers(j)
      PROVE  TablesOK' /\ storing' \subseteq StoreJob
             /\ skipped' \subseteq skipped \cup {<<j.hub, j.cur.env>>} /\ j.cur.env \in Texts
  BY <1>1, <1>3, <1>4, <1>8, InsertCiphersOK, StoringOK DEF StoreCiphers
<1>9. ASSUME StoreOp(j)
      PROVE  TablesOK' /\ storing' \subseteq StoreJob /\ skipped' = skipped
  BY <1>1, <1>3, <1>4, <1>9, ApplyOpOK, StoringOK DEF StoreOp
<1>10. skipped \subseteq Hubs \X Texts
  BY <1>1 DEF NetOK
<1>11. QED
  BY <1>3, <1>5, <1>6, <1>7, <1>8, <1>9, <1>10 DEF Store

\* So does every query of a route; what it accepts it pushes.
LEMMA RouteOK ==
    ASSUME TypeOK, NEW j \in serving, Route(j)
    PROVE  /\ TablesOK' /\ wire' \subseteq Frame
           /\ serving' \subseteq [hub : Hubs, env : Envelopes, stage : Stages]
           /\ given' \subseteq Hubs \X Envelopes
<1>1. TablesOK /\ NetOK
  BY TypeParts
<1>2. j \in [hub : Hubs, env : Envelopes, stage : Stages]
  BY <1>1 DEF NetOK
<1>3. /\ j.hub \in Hubs /\ j.env \in Envelopes /\ Named[j.env] \in SUBSET Tids
      /\ GroupOf[j.env] \in Groups
  BY <1>2, EnvelopesAssumption
<1>4. UNCHANGED <<tables, old>> => TablesOK'
  BY <1>1 DEF TablesOK, tables, Exists
<1>5. /\ \A s \in Stages : Then(j, s) =>
             serving' \subseteq [hub : Hubs, env : Envelopes, stage : Stages]
      /\ Done(j) => serving' \subseteq [hub : Hubs, env : Envelopes, stage : Stages]
  BY <1>1, <1>2 DEF NetOK, Then, Done
<1>6. Answered(j) => /\ wire' \subseteq Frame /\ given' \subseteq Hubs \X Envelopes
                     /\ Done(j)
  BY <1>1, <1>3, PushOK DEF NetOK, Answered
<1>7. Failed(j) => /\ TablesOK' /\ wire' \subseteq Frame /\ Done(j)
                   /\ given' \subseteq Hubs \X Envelopes
  BY <1>1, <1>4 DEF Failed, NetOK
<1>8. UNCHANGED <<wire, given>> => wire' \subseteq Frame /\ given' \subseteq Hubs \X Envelopes
  BY <1>1 DEF NetOK
<1>9. CASE RouteCheck(j)
  BY <1>4, <1>5, <1>8, <1>9 DEF RouteCheck, Stages
<1>10. CASE RouteDuplicate(j)
  BY <1>4, <1>5, <1>8, <1>10 DEF RouteDuplicate, Stages
<1>11. CASE RouteCreate(j)
  BY <1>1, <1>3, <1>5, <1>6, <1>7, <1>8, <1>11, InsertGroupOK, InsertMembersOK
     DEF RouteCreate, Stages
<1>12. CASE RouteSend(j)
  BY <1>1, <1>3, <1>5, <1>6, <1>7, <1>8, <1>12, InsertTextOK, InsertCiphersOK
     DEF RouteSend, Stages
<1>13. CASE RouteOp(j)
  BY <1>1, <1>3, <1>5, <1>6, <1>7, <1>8, <1>13, ApplyOpOK DEF RouteOp
<1>14. QED
  BY <1>9, <1>10, <1>11, <1>12, <1>13 DEF Route

LEMMA InitTypeOK == Init => TypeOK
<1> SUFFICES ASSUME Init PROVE TypeOK
  OBVIOUS
<1>1. PICK scenario \in Scenarios :
         /\ clients = UNION {Homes[e] \X {e} : e \in scenario.sent}
         /\ budget = scenario.faults /\ links = scenario.linked
  BY DEF Init
<1>2. scenario.sent \subseteq Envelopes /\ scenario.faults \in Nat
  BY EnvelopesAssumption
<1>3. clients \subseteq Hubs \X Envelopes /\ {0, budget} \subseteq Nat
  BY <1>1, <1>2, EnvelopesAssumption
<1>4. links \subseteq {{h, p} : h, p \in Hubs}
  BY <1>1, EnvelopesAssumption
<1>5. TablesOK
  BY DEF Init, TablesOK, Exists
<1>6. NetOK
  BY <1>3, <1>4 DEF Init, NetOK
<1>7. QED
  BY <1>5, <1>6, TypeParts

LEMMA InitAimed == Init => Aimed
  BY EnvelopesAssumption DEF Init, Aimed

\* The actions that touch no table.
LEMMA LinkOK ==
    ASSUME NetOK, Aimed, NEW h \in Hubs, NEW p \in Hubs, Link(h, p)
    PROVE  NetOK' /\ Aimed'
<1> DEFINE new == {[hub |-> i, to |-> {h, p} \ {i}, class |-> "create", all |-> FALSE]
                      : i \in {h, p}}
<1>1. /\ greeting' = greeting \cup new /\ links' = links \cup {{h, p}} /\ h # p
      /\ UNCHANGED <<envs, wire, storing, serving, clients, given, skipped, errors, budget>>
  BY DEF Link, history, faults
<1>2. \A g \in new : /\ g \in [hub : Hubs, to : SUBSET Hubs, class : {"create", "text"},
                               all : BOOLEAN]
                     /\ \E q \in Hubs \ {g.hub} : g.to = {q} /\ {g.hub, q} = {h, p}
  <2> SUFFICES ASSUME NEW i \in {h, p}, NEW g,
                      g = [hub |-> i, to |-> {h, p} \ {i}, class |-> "create", all |-> FALSE]
               PROVE  /\ g \in [hub : Hubs, to : SUBSET Hubs, class : {"create", "text"},
                                all : BOOLEAN]
                      /\ \E q \in Hubs \ {g.hub} : g.to = {q} /\ {g.hub, q} = {h, p}
    OBVIOUS
  <2>1. CASE i = h
    <3>1. g.hub = h /\ g.to = {p}
      BY <1>1, <2>1
    <3>2. QED
      BY <1>1, <3>1
  <2>2. CASE i = p
    <3>1. g.hub = p /\ g.to = {h}
      BY <1>1, <2>2
    <3>2. QED
      BY <1>1, <3>1
  <2>3. QED
    BY <2>1, <2>2
<1> HIDE DEF new
<1>3. NetOK'
  BY <1>1, <1>2 DEF NetOK
<1>4. Aimed'
  BY <1>1, <1>2 DEF Aimed
<1>5. QED
  BY <1>3, <1>4

LEMMA WalkOK ==
    ASSUME NetOK, Aimed, NEW h \in Hubs, NEW p \in Hubs, Walk(h, p)
    PROVE  NetOK' /\ Aimed'
<1> DEFINE g == [hub |-> h, to |-> {p}, class |-> "create", all |-> TRUE]
<1>1. /\ greeting' = greeting \cup {g} /\ {h, p} \in links /\ links' = links
      /\ errors' = errors /\ budget > 0 /\ budget' = budget - 1
      /\ UNCHANGED <<envs, wire, storing, serving, clients, given, skipped>>
  BY DEF Walk, Upset, net, history
<1>2. h # p
  <2>1. PICK i \in Hubs, q \in Hubs : i # q /\ {h, p} = {i, q}
    BY <1>1 DEF Aimed
  <2>2. QED
    BY <2>1
<1>3. /\ g \in [hub : Hubs, to : SUBSET Hubs, class : {"create", "text"}, all : BOOLEAN]
      /\ g.hub = h /\ g.to = {p}
  OBVIOUS
<1> HIDE DEF g
<1>4. NetOK'
  BY <1>1, <1>3 DEF NetOK
<1>5. Aimed'
  BY <1>1, <1>2, <1>3 DEF Aimed
<1>6. QED
  BY <1>4, <1>5

\* What an offer is about and turns into.
LEMMA OfferShape ==
    ASSUME TypeOK, Aimed, NEW g \in greeting
    PROVE  /\ g.hub \in Hubs /\ g.class \in {"create", "text"}
           /\ \E p \in Hubs \ {g.hub} :
                /\ g.to = {p} /\ {g.hub, p} \in links /\ (CHOOSE q \in g.to : TRUE) = p
           /\ [g EXCEPT !.class = "text"] \in
                [hub : Hubs, to : SUBSET Hubs, class : {"create", "text"}, all : BOOLEAN]
           /\ [g EXCEPT !.class = "text"].hub = g.hub
           /\ [g EXCEPT !.class = "text"].to = g.to
           /\ [g EXCEPT !.class = "text"].class = "text"
<1>1. g \in [hub : Hubs, to : SUBSET Hubs, class : {"create", "text"}, all : BOOLEAN]
  BY DEF TypeOK
<1>2. PICK p \in Hubs \ {g.hub} : g.to = {p} /\ {g.hub, p} \in links
  BY DEF Aimed
<1>3. (CHOOSE q \in g.to : TRUE) = p
  BY <1>2
<1>4. QED
  BY <1>1, <1>2, <1>3

LEMMA OfferOK ==
    ASSUME TypeOK, Aimed, NEW g \in greeting, Offer(g)
    PROVE  NetOK' /\ Aimed'
<1>1. TablesOK /\ NetOK
  BY TypeParts
<1>2. PICK p \in Hubs \ {g.hub} : /\ g.to = {p} /\ {g.hub, p} \in links
                                  /\ (CHOOSE q \in g.to : TRUE) = p
  BY OfferShape
<1> DEFINE es == Held(g.hub, g.class) \ (IF g.all THEN {} ELSE old[g.hub][p])
           f == Have(g.hub, p, g.class, es)
           n == [g EXCEPT !.class = "text"]
<1>3. g.hub \in Hubs /\ g.class \in {"create", "text"}
  BY OfferShape
<1>4. f \in Frame /\ f.from = g.hub /\ f.to = p
  <2>1. es \subseteq Creates \cup Texts
    BY <1>1, <1>3, HeldOK
  <2> HIDE DEF es
  <2>2. QED
    BY <1>3, <2>1 DEF Have, Frame
<1>5. /\ wire' \subseteq wire \cup {f} /\ greeting' \subseteq greeting \cup {n}
      /\ UNCHANGED <<envs, links, storing, serving, clients, given, skipped, errors, budget>>
  BY <1>2 DEF Offer, net, history, faults
<1>6. /\ n \in [hub : Hubs, to : SUBSET Hubs, class : {"create", "text"}, all : BOOLEAN]
      /\ n.hub = g.hub /\ n.to = g.to
  BY OfferShape
<1> HIDE DEF f, n
<1>7. NetOK'
  BY <1>1, <1>4, <1>5, <1>6 DEF NetOK
<1>8. Aimed'
  BY <1>2, <1>3, <1>4, <1>5, <1>6 DEF Aimed
<1>9. QED
  BY <1>7, <1>8

LEMMA UnlinkOK ==
    ASSUME NetOK, Aimed, NEW lost, Unlink(lost)
    PROVE  /\ links' \subseteq {{h, p} : h, p \in Hubs} /\ wire' \subseteq Frame
           /\ greeting' \subseteq [hub : Hubs, to : SUBSET Hubs,
                                   class : {"create", "text"}, all : BOOLEAN]
           /\ Aimed'
<1>1. /\ links' = links \ lost
      /\ wire' = {f \in wire : {f.from, f.to} \notin lost}
      /\ greeting' = {g \in greeting : g.to \cup {g.hub} \notin lost}
  BY DEF Unlink
<1>2. links' \subseteq links /\ wire' \subseteq wire /\ greeting' \subseteq greeting
  BY <1>1
<1>3. \A f \in wire' : f.from # f.to /\ {f.from, f.to} \in links'
  BY <1>1 DEF Aimed
<1>4. ASSUME NEW g \in greeting'
      PROVE  \E p \in Hubs \ {g.hub} : g.to = {p} /\ {g.hub, p} \in links'
  <2>1. PICK p \in Hubs \ {g.hub} : g.to = {p} /\ {g.hub, p} \in links
    BY <1>2 DEF Aimed
  <2>2. g.to \cup {g.hub} = {g.hub, p}
    BY <2>1
  <2>3. QED
    BY <1>1, <2>1, <2>2
<1>5. \A l \in links' : \E h, p \in Hubs : h # p /\ l = {h, p}
  BY <1>2 DEF Aimed
<1>6. Aimed'
  BY <1>3, <1>4, <1>5 DEF Aimed
<1>7. QED
  BY <1>2, <1>6 DEF NetOK

\* What a frame is about and where it is.
LEMMA FrameShape ==
    ASSUME NetOK, NEW f \in wire
    PROVE  /\ f.from \in Hubs /\ f.to \in Hubs
           /\ f.type \in {"have", "want"} =>
                f.class \in {"create", "text"} /\ f.hashes \subseteq Creates \cup Texts
           /\ f.type = "ship" => f.items \subseteq Item
  BY DEF NetOK, Frame

LEMMA HaveOK ==
    ASSUME TypeOK, Aimed, NEW f \in wire, HandleHave(f)
    PROVE  NetOK' /\ Aimed'
<1>1. TablesOK /\ NetOK
  BY TypeParts
<1> DEFINE missing == f.hashes \ Held(f.to, f.class)
           w == Want(f.to, f.from, f.class, missing)
<1>2. w \in Frame /\ w.from = f.to /\ w.to = f.from
  <2>1. missing \subseteq Creates \cup Texts
    BY <1>1, FrameShape DEF HandleHave
  <2> HIDE DEF missing
  <2>2. QED
    BY <1>1, <2>1, FrameShape DEF HandleHave, Want, Frame
<1>3. /\ wire' \subseteq wire \cup {w}
      /\ UNCHANGED <<envs, links, greeting, storing, serving, clients, given, skipped,
                     errors, budget>>
  BY DEF HandleHave, net, history, faults
<1>4. {w.from, w.to} = {f.from, f.to}
  BY <1>2
<1> HIDE DEF w
<1>5. NetOK'
  BY <1>1, <1>2, <1>3 DEF NetOK
<1>6. Aimed'
  BY <1>2, <1>3, <1>4 DEF Aimed
<1>7. QED
  BY <1>5, <1>6

LEMMA WantOK ==
    ASSUME TypeOK, Aimed, NEW f \in wire, HandleWant(f)
    PROVE  NetOK' /\ Aimed'
<1>1. TablesOK /\ NetOK
  BY TypeParts
<1> DEFINE es == f.hashes \cap Held(f.to, f.class)
           w == Ship(f.to, f.from, f.class, Pulled(f.to, es))
<1>2. w \in Frame /\ w.from = f.to /\ w.to = f.from
  <2>1. es \subseteq Creates \cup Texts
    BY <1>1, FrameShape DEF HandleWant
  <2> HIDE DEF es
  <2>2. Pulled(f.to, es) \subseteq Item
    BY <1>1, <2>1, PulledOK, FrameShape
  <2>3. QED
    BY <1>1, <2>2, FrameShape DEF HandleWant, Ship, Frame
<1>3. /\ wire' \subseteq wire \cup {w}
      /\ UNCHANGED <<envs, links, greeting, storing, serving, clients, given, skipped,
                     errors, budget>>
  BY DEF HandleWant, net, history, faults
<1>4. {w.from, w.to} = {f.from, f.to}
  BY <1>2
<1> HIDE DEF w
<1>5. NetOK'
  BY <1>1, <1>2, <1>3 DEF NetOK
<1>6. Aimed'
  BY <1>2, <1>3, <1>4 DEF Aimed
<1>7. QED
  BY <1>5, <1>6

LEMMA ShipOK ==
    ASSUME NetOK, Aimed, NEW f \in wire, HandleShip(f)
    PROVE  NetOK' /\ Aimed'
<1> DEFINE j == [hub |-> f.to, from |-> f.from, todo |-> f.items, cur |-> NoItem, stage |-> "row"]
<1>1. j \in StoreJob
  BY FrameShape DEF HandleShip, StoreJob
<1>2. /\ wire' \subseteq wire /\ storing' = storing \cup {j}
      /\ UNCHANGED <<envs, links, greeting, serving, clients, given, skipped, errors, budget>>
  BY DEF HandleShip, net, history, faults
<1> HIDE DEF j
<1>3. NetOK'
  BY <1>1, <1>2 DEF NetOK
<1>4. Aimed'
  BY <1>2 DEF Aimed
<1>5. QED
  BY <1>3, <1>4

LEMMA AcceptOK ==
    ASSUME NetOK, Aimed, NEW j \in storing, Accept(j)
    PROVE  NetOK' /\ Aimed'
<1>1. j \in StoreJob
  BY DEF NetOK
<1>2. PICK i \in j.todo :
         /\ envs' = IF i.data THEN [envs EXCEPT ![j.hub] = @ \cup {i.env}] ELSE envs
         /\ storing' = (storing \ {j}) \cup
                {[j EXCEPT !.todo = @ \ {i}, !.cur = Believed(i), !.stage = "row"]}
  BY DEF Accept
<1>3. i \in Item /\ i.env \in Envelopes
  BY <1>1, JobShape DEF Item
<1>4. storing' \subseteq StoreJob
  <2> DEFINE n == [j EXCEPT !.todo = @ \ {i}, !.cur = Believed(i), !.stage = "row"]
  <2>1. n \in StoreJob
    BY <1>1, <1>3, JobShape
  <2> HIDE DEF n
  <2>2. storing' = (storing \ {j}) \cup {n}
    BY <1>2 DEF n
  <2>3. QED
    BY <2>1, <2>2 DEF NetOK
<1>5. envs' \in [Hubs -> SUBSET Envelopes]
  <2>1. envs \in [Hubs -> SUBSET Envelopes]
    BY DEF NetOK
  <2>2. [envs EXCEPT ![j.hub] = @ \cup {i.env}] \in [Hubs -> SUBSET Envelopes]
    BY <1>3, <2>1
  <2>3. QED
    BY <1>2, <2>1, <2>2
<1>6. UNCHANGED <<links, wire, greeting, serving, clients, given, skipped, errors, budget>>
  BY DEF Accept, net, history, faults
<1>7. NetOK'
  BY <1>4, <1>5, <1>6 DEF NetOK
<1>8. Aimed'
  BY <1>6 DEF Aimed
<1>9. QED
  BY <1>7, <1>8

LEMMA RejectOK ==
    ASSUME NetOK, Aimed, NEW j \in storing, Reject(j)
    PROVE  NetOK' /\ Aimed'
<1>1. j \in StoreJob
  BY DEF NetOK
<1>2. PICK i \in j.todo :
         storing' = (storing \ {j}) \cup {[j EXCEPT !.todo = @ \ {i}]}
  BY DEF Reject
<1>3. storing' \subseteq StoreJob
  <2> DEFINE n == [j EXCEPT !.todo = @ \ {i}]
  <2>1. n \in StoreJob
    BY <1>1, JobShape
  <2>2. storing' = (storing \ {j}) \cup {n}
    BY <1>2
  <2> HIDE DEF n
  <2>3. QED
    BY <2>1, <2>2 DEF NetOK
<1>4. {errors', budget'} \subseteq Nat
  BY DEF Reject, Error, faults, NetOK
<1>5. UNCHANGED <<envs, links, wire, greeting, serving, clients, given, skipped>>
  BY DEF Reject, net, history
<1>6. NetOK'
  BY <1>3, <1>4, <1>5 DEF NetOK
<1>7. Aimed'
  BY <1>5 DEF Aimed
<1>8. QED
  BY <1>6, <1>7

LEMMA StoreFailsOK ==
    ASSUME NetOK, Aimed, NEW j \in storing, StoreFails(j)
    PROVE  NetOK' /\ Aimed'
<1>1. storing' \subseteq StoreJob
  BY StoringOK DEF StoreFails
<1>2. {errors', budget'} \subseteq Nat
  BY DEF StoreFails, Error, NetOK
<1>3. UNCHANGED <<envs, links, wire, greeting, serving, clients, given, skipped>>
  BY DEF StoreFails, net, history
<1>4. NetOK'
  BY <1>1, <1>2, <1>3 DEF NetOK
<1>5. Aimed'
  BY <1>3 DEF Aimed
<1>6. QED
  BY <1>4, <1>5

LEMMA RequestOK ==
    ASSUME NetOK, Aimed, NEW h \in Hubs, NEW e \in Envelopes, Request(h, e)
    PROVE  NetOK' /\ Aimed'
<1> DEFINE j == [hub |-> h, env |-> e, stage |-> IF e \in Creates THEN "row" ELSE "check"]
<1>1. j \in [hub : Hubs, env : Envelopes, stage : Stages]
  BY DEF Stages
<1>2. /\ serving' \subseteq serving \cup {j} /\ clients' \subseteq clients
      /\ envs' \in {envs, [envs EXCEPT ![h] = @ \cup {e}]}
      /\ UNCHANGED <<links, wire, greeting, storing, given, skipped, errors, budget>>
  BY DEF Request, net, history, faults
<1> HIDE DEF j
<1>3. envs' \in [Hubs -> SUBSET Envelopes]
  BY <1>2 DEF NetOK
<1>4. NetOK'
  BY <1>1, <1>2, <1>3 DEF NetOK
<1>5. Aimed'
  BY <1>2 DEF Aimed
<1>6. QED
  BY <1>4, <1>5

LEMMA FaultyOK ==
    ASSUME NetOK, Aimed,
           (\E h, p \in Hubs : Drop(h, p)) \/ (\E h \in Hubs : Crash(h))
    PROVE  NetOK' /\ Aimed'
<1>1. \E lost : Unlink(lost)
  BY DEF Drop, Crash
<1>2. /\ links' \subseteq {{h, p} : h, p \in Hubs} /\ wire' \subseteq Frame
      /\ greeting' \subseteq [hub : Hubs, to : SUBSET Hubs,
                              class : {"create", "text"}, all : BOOLEAN]
      /\ Aimed'
  BY <1>1, UnlinkOK
<1>3. /\ storing' \subseteq storing /\ serving' \subseteq serving
      /\ UNCHANGED <<envs, clients, given, skipped>>
  BY DEF Drop, Crash, history
<1>4. {errors', budget'} \subseteq Nat
  <2>1. errors \in Nat /\ budget \in Nat
    BY DEF NetOK
  <2>2. Upset \/ Error
    BY DEF Drop, Crash
  <2>3. QED
    BY <2>1, <2>2 DEF Upset, Error
<1>5. QED
  BY <1>2, <1>3, <1>4 DEF NetOK

\* The only steps on the tables, and on what last syncs cover.
LEMMA TableSteps ==
    ASSUME [Next]_vars
    PROVE  \/ UNCHANGED tables
           \/ \E j \in storing : Store(j)
           \/ \E j \in serving : Route(j)
  BY DEF Next, Step, vars, Link, Walk, TweetStored, Request, Offer, Handle, HandleHave,
         HandleWant, HandleShip, Process, Accept, FinishStore, Reject, StoreFails,
         RouteFails, Failed, Drop, Crash

LEMMA StepTypeOK == TypeOK /\ Aimed /\ [Next]_vars => TypeOK' /\ Aimed'
<1> SUFFICES ASSUME TypeOK, Aimed, [Next]_vars
             PROVE  TablesOK' /\ NetOK' /\ Aimed'
  BY DEF TypeOK, TablesOK, NetOK
<1>1. TablesOK /\ NetOK
  BY TypeParts
<1> DEFINE Quietly == UNCHANGED <<tables, old>>
<1>2. Quietly => TablesOK'
  BY <1>1 DEF TablesOK, tables, Exists
<1>3. ASSUME NEW h \in Hubs, NEW p \in Hubs, Link(h, p)
      PROVE  TablesOK' /\ NetOK' /\ Aimed'
  BY <1>1, <1>2, <1>3, LinkOK DEF Link
<1>4. ASSUME NEW h \in Hubs, NEW p \in Hubs, Walk(h, p)
      PROVE  TablesOK' /\ NetOK' /\ Aimed'
  BY <1>1, <1>2, <1>4, WalkOK DEF Walk, net
<1>5. ASSUME NEW h \in Hubs, NEW p \in Hubs, TweetStored(h, p)
      PROVE  TablesOK' /\ NetOK' /\ Aimed'
  <2>1. Held(h, "create") \cup texts[h] \subseteq Creates \cup Texts
    BY <1>1 DEF TablesOK, Held
  <2> DEFINE rows == Held(h, "create") \cup texts[h]
  <2>2. old' = [old EXCEPT ![h][p] = rows] /\ UNCHANGED tables
    BY <1>5 DEF TweetStored
  <2> HIDE DEF rows
  <2>3. old' \in [Hubs -> [Hubs -> SUBSET (Creates \cup Texts)]]
    BY <1>1, <2>1, <2>2 DEF TablesOK, rows
  <2>4. TablesOK'
    BY <1>1, <2>2, <2>3 DEF TablesOK, tables, Exists
  <2>5. /\ UNCHANGED <<envs, links, wire, greeting, storing, serving, clients, given, skipped>>
        /\ {errors', budget'} \subseteq Nat
    BY <1>1, <1>5 DEF TweetStored, Upset, history, NetOK
  <2>6. NetOK'
    BY <1>1, <2>5 DEF NetOK
  <2>7. Aimed'
    BY <2>5 DEF Aimed
  <2>8. QED
    BY <2>4, <2>6, <2>7
<1>6. ASSUME NEW h \in Hubs, NEW e \in Envelopes, Request(h, e)
      PROVE  TablesOK' /\ NetOK' /\ Aimed'
  BY <1>1, <1>2, <1>6, RequestOK DEF Request, net
<1>7. ASSUME NEW g \in greeting, Offer(g)
      PROVE  TablesOK' /\ NetOK' /\ Aimed'
  BY <1>1, <1>2, <1>7, OfferOK DEF Offer, net
<1>8. ASSUME NEW f \in wire, Handle(f)
      PROVE  TablesOK' /\ NetOK' /\ Aimed'
  BY <1>1, <1>2, <1>8, HaveOK, WantOK, ShipOK
     DEF Handle, HandleHave, HandleWant, HandleShip, net
<1>9. ASSUME NEW j \in storing, Store(j)
      PROVE  TablesOK' /\ NetOK' /\ Aimed'
  <2>1. TablesOK' /\ storing' \subseteq StoreJob /\ skipped' \subseteq Hubs \X Texts
    BY <1>9, StoreOK
  <2>2. UNCHANGED <<envs, links, wire, greeting, serving, clients, given, errors, budget>>
    BY <1>9 DEF Store, faults
  <2>3. NetOK'
    BY <1>1, <2>1, <2>2 DEF NetOK
  <2>4. Aimed'
    BY <2>2 DEF Aimed
  <2>5. QED
    BY <2>1, <2>3, <2>4
<1>10. ASSUME NEW j \in storing, Accept(j) \/ FinishStore(j) \/ Reject(j) \/ StoreFails(j)
       PROVE  TablesOK' /\ NetOK' /\ Aimed'
  <2>1. CASE FinishStore(j)
    <3>1. /\ storing' \subseteq storing
          /\ UNCHANGED <<tables, envs, old, links, wire, greeting, serving, clients, given,
                         skipped, errors, budget>>
      BY <2>1 DEF FinishStore, net, history, faults
    <3>2. NetOK'
      BY <1>1, <3>1 DEF NetOK
    <3>3. QED
      BY <1>2, <3>1, <3>2 DEF Aimed
  <2>2. QED
    BY <1>1, <1>2, <1>10, <2>1, AcceptOK, RejectOK, StoreFailsOK
       DEF Accept, Reject, StoreFails, net
<1>11. ASSUME NEW j \in serving, Route(j)
       PROVE  TablesOK' /\ NetOK' /\ Aimed'
  <2>1. /\ TablesOK' /\ wire' \subseteq Frame
        /\ serving' \subseteq [hub : Hubs, env : Envelopes, stage : Stages]
        /\ given' \subseteq Hubs \X Envelopes
    BY <1>11, RouteOK
  <2>2. UNCHANGED <<envs, links, greeting, storing, clients, skipped, errors, budget>>
    BY <1>11 DEF Route, faults
  <2>3. NetOK'
    BY <1>1, <2>1, <2>2 DEF NetOK
  <2>4. wire' = wire \/ Push(j.hub, j.env)
    BY <1>11 DEF Route, RouteCheck, RouteDuplicate, RouteCreate, RouteSend, RouteOp,
                 Answered, Failed
  <2>5. Aimed'
    BY <2>2, <2>4, PushShape DEF Aimed
  <2>6. QED
    BY <2>1, <2>3, <2>5
<1>12. ASSUME NEW j \in serving, RouteFails(j)
       PROVE  TablesOK' /\ NetOK' /\ Aimed'
  <2>1. /\ serving' \subseteq serving /\ {errors', budget'} \subseteq Nat
        /\ UNCHANGED <<tables, old, wire, given, envs, links, greeting, storing, clients, skipped>>
    BY <1>1, <1>12 DEF RouteFails, Failed, Done, Error, NetOK
  <2>2. NetOK'
    BY <1>1, <2>1 DEF NetOK
  <2>3. Aimed'
    BY <2>1 DEF Aimed
  <2>4. QED
    BY <1>2, <2>1, <2>2, <2>3
<1>13. ASSUME (\E h, p \in Hubs : Drop(h, p)) \/ (\E h \in Hubs : Crash(h))
       PROVE  TablesOK' /\ NetOK' /\ Aimed'
  BY <1>1, <1>2, <1>13, FaultyOK DEF Drop, Crash
<1>14. CASE UNCHANGED vars
  <2>1. NetOK'
    BY <1>1, <1>14 DEF NetOK, vars, net, history, faults
  <2>2. QED
    BY <1>2, <1>14, <2>1 DEF Aimed, vars, net
<1>15. QED
  BY <1>3, <1>4, <1>5, <1>6, <1>7, <1>8, <1>9, <1>10, <1>11, <1>12, <1>13, <1>14
     DEF Next, Step, Process

----------------------------------------------------------------------------
(* What only grows, and what is therefore true for good. *)

\* A step that touches neither tables nor signed bytes nor what was given, ships
\* nothing new and, unless it is an error, loses no handler at work.
Calm ==
    /\ UNCHANGED <<tables, envs, given>>
    /\ serving' \subseteq serving
    /\ \A f \in wire' : f.type = "ship" => f \in wire
    /\ \A j \in storing' : \E i \in storing :
         /\ j.hub = i.hub /\ j.todo \subseteq i.todo
         /\ j.cur # NoItem => j.cur = i.cur /\ j.stage = i.stage
    /\ errors' = 0 => /\ errors = 0 /\ serving' = serving
                      /\ \A j \in storing : j.cur # NoItem => j \in storing'

LEMMA CalmTalk ==
    ASSUME TypeOK,
           \/ \E h, p \in Hubs : Link(h, p) \/ Walk(h, p) \/ TweetStored(h, p) \/ Drop(h, p)
           \/ \E g \in greeting : Offer(g)
           \/ \E f \in wire : HandleHave(f)
           \/ UNCHANGED vars
    PROVE  Calm
<1>1. /\ UNCHANGED <<tables, envs, given, serving, storing>> /\ errors' = errors
  BY DEF Link, Walk, TweetStored, Drop, Offer, HandleHave, Upset, history, faults, vars
<1>2. \A f \in wire' : f.type = "ship" => f \in wire
  <2>1. \A h, p, c, es : Have(h, p, c, es).type = "have" /\ Want(h, p, c, es).type = "want"
    BY DEF Have, Want
  <2>2. ASSUME NEW g \in greeting, Offer(g)
        PROVE  \E h, p, c, es : wire' \subseteq wire \cup {Have(h, p, c, es)}
    BY <2>2 DEF Offer
  <2>3. ASSUME NEW f \in wire, HandleHave(f)
        PROVE  \E h, p, c, es : wire' \subseteq wire \cup {Want(h, p, c, es)}
    BY <2>3 DEF HandleHave
  <2>4. CASE \E g \in greeting : Offer(g)
    BY <2>1, <2>2, <2>4
  <2>5. CASE \E f \in wire : HandleHave(f)
    BY <2>1, <2>3, <2>5
  <2>6. QED
    BY <2>4, <2>5 DEF Link, Walk, TweetStored, Drop, Unlink, vars
<1>3. QED
  BY <1>1, <1>2 DEF Calm

LEMMA CalmWork ==
    ASSUME TypeOK,
           \/ \E j \in storing : FinishStore(j) \/ Reject(j) \/ StoreFails(j)
           \/ \E j \in serving : RouteFails(j)
           \/ \E h \in Hubs : Crash(h)
    PROVE  Calm
<1>1. errors \in Nat /\ storing \subseteq StoreJob
  BY DEF TypeOK
<1>2. ASSUME NEW j \in storing, FinishStore(j)
      PROVE  Calm
  <2>1. /\ j.cur = NoItem /\ storing' = storing \ {j}
        /\ UNCHANGED <<tables, envs, given, serving, wire, errors>>
    BY <1>2 DEF FinishStore, history, faults
  <2>2. QED
    BY <2>1 DEF Calm
<1>3. ASSUME NEW j \in storing, Reject(j)
      PROVE  Calm
  <2>1. PICK i \in j.todo : storing' = (storing \ {j}) \cup {[j EXCEPT !.todo = @ \ {i}]}
    BY <1>3 DEF Reject
  <2> DEFINE n == [j EXCEPT !.todo = @ \ {i}]
  <2>2. n.hub = j.hub /\ n.todo \subseteq j.todo /\ n.cur = j.cur /\ j.cur = NoItem
    BY <1>1, <1>3 DEF Reject, StoreJob
  <2> HIDE DEF n
  <2>3. storing' = (storing \ {j}) \cup {n}
    BY <2>1 DEF n
  <2>4. UNCHANGED <<tables, envs, given, serving, wire>> /\ (errors' = 0 => errors = 0)
    BY <1>1, <1>3 DEF Reject, history, faults, Error
  <2>5. QED
    BY <2>2, <2>3, <2>4 DEF Calm
<1>4. ASSUME NEW j \in storing, StoreFails(j)
      PROVE  Calm
  <2> DEFINE n == [j EXCEPT !.cur = NoItem]
  <2>1. n.hub = j.hub /\ n.todo = j.todo /\ n.cur = NoItem
    BY <1>1 DEF StoreJob
  <2>2. storing' = (storing \ {j}) \cup {n} \/ storing' = storing \ {j}
    BY <1>4 DEF StoreFails, NextItem, Abandon
  <2>3. UNCHANGED <<tables, envs, given, serving, wire>> /\ errors' # 0
    BY <1>1, <1>4 DEF StoreFails, history, Error
  <2> HIDE DEF n
  <2>4. QED
    BY <2>1, <2>2, <2>3 DEF Calm
<1>5. ASSUME NEW j \in serving, RouteFails(j)
      PROVE  Calm
  <2>1. /\ UNCHANGED <<tables, envs, given, storing, wire>> /\ errors' # 0
        /\ serving' \subseteq serving
    BY <1>1, <1>5 DEF RouteFails, Failed, Done, Error
  <2>2. QED
    BY <2>1 DEF Calm
<1>6. ASSUME NEW h \in Hubs, Crash(h)
      PROVE  Calm
  <2>1. /\ UNCHANGED <<tables, envs, given>> /\ errors' # 0
        /\ serving' \subseteq serving /\ storing' \subseteq storing /\ wire' \subseteq wire
    BY <1>1, <1>6 DEF Crash, Unlink, Error, history
  <2>2. QED
    BY <2>1 DEF Calm
<1>7. QED
  BY <1>2, <1>3, <1>4, <1>5, <1>6

\* Every step is one of seven kinds.
LEMMA StepKinds ==
    ASSUME TypeOK, [Next]_vars
    PROVE  \/ Calm
           \/ \E h \in Hubs, e \in Envelopes : Request(h, e)
           \/ \E f \in wire : HandleWant(f) \/ HandleShip(f)
           \/ \E j \in storing : Accept(j) \/ Store(j)
           \/ \E j \in serving : Route(j)
  BY CalmTalk, CalmWork DEF Next, Step, Handle, Process

Grows == /\ founded \subseteq founded' /\ given \subseteq given'
         /\ \A h \in Hubs : envs[h] \subseteq envs'[h]
         /\ errors' = 0 => errors = 0

LEMMA StepGrows ==
    ASSUME TypeOK, [Next]_vars
    PROVE  Grows
<1>1. CASE Calm
  BY <1>1 DEF Calm, Grows, tables
<1>2. ASSUME NEW h \in Hubs, NEW e \in Envelopes, Request(h, e)
      PROVE  Grows
  <2>1. \A i \in Hubs : envs[i] \subseteq envs'[i]
    <3>1. envs' \in {envs, [envs EXCEPT ![h] = @ \cup {e}]} /\ envs \in [Hubs -> SUBSET Envelopes]
      BY <1>2 DEF Request, TypeOK
    <3>2. QED
      BY <3>1
  <2>2. QED
    BY <1>2, <2>1 DEF Request, Grows, tables, history, faults
<1>3. ASSUME NEW f \in wire, HandleWant(f) \/ HandleShip(f)
      PROVE  Grows
  BY <1>3 DEF HandleWant, HandleShip, Grows, tables, history, faults
<1>4. ASSUME NEW j \in storing, Accept(j)
      PROVE  Grows
  <2>1. \A i \in Hubs : envs[i] \subseteq envs'[i]
    BY <1>4 DEF Accept, TypeOK
  <2>2. QED
    BY <1>4, <2>1 DEF Accept, Grows, tables, history, faults
<1>5. ASSUME NEW j \in storing, Store(j)
      PROVE  Grows
  <2>1. founded \subseteq founded'
    BY <1>5, OpFounded DEF Store, StoreCreateRow, StoreCreateMembers, StoreText, StoreCiphers,
          StoreOp, InsertGroup, InsertMembers, InsertText, InsertCiphers, tables
  <2>2. QED
    BY <1>5, <2>1 DEF Store, Grows, faults
<1>6. ASSUME NEW j \in serving, Route(j)
      PROVE  Grows
  <2>1. founded \subseteq founded'
    BY <1>6, OpFounded DEF Route, RouteCheck, RouteDuplicate, RouteCreate, RouteSend, RouteOp,
          Failed, InsertGroup, InsertMembers, InsertText, InsertCiphers, tables
  <2>2. given \subseteq given'
    BY <1>6 DEF Route, RouteCheck, RouteDuplicate, RouteCreate, RouteSend, RouteOp, Failed,
                Answered
  <2>3. QED
    BY <1>6, <2>1, <2>2 DEF Route, Grows, faults
<1>7. QED
  BY <1>1, <1>2, <1>3, <1>4, <1>5, <1>6, StepKinds

LEMMA StaysTrue ==
    ASSUME Grows
    PROVE  /\ \A g : CreatesOf(g) \subseteq CreatesOf(g)'
           /\ \A e : Accepted(e) => Accepted(e)'
           /\ \A e : ByCreator(e) => ByCreator(e)'
           /\ \A g, t : Vouched(g, t) => Vouched(g, t)'
           /\ \A o : Rightful(o) => Rightful(o)'
           /\ \A i : ItemSound(i) => ItemSound(i)'
<1>1. \A e : Accepted(e) => Accepted(e)'
  BY DEF Grows, Accepted
<1>2. \A g : CreatesOf(g) \subseteq CreatesOf(g)'
  BY <1>1 DEF Grows, CreatesOf
<1>3. \A e : ByCreator(e) => ByCreator(e)'
  BY <1>2 DEF ByCreator
<1>4. \A g, t : Vouched(g, t) => Vouched(g, t)'
  BY <1>1, <1>2, <1>3 DEF Vouched
<1>5. \A o : Rightful(o) => Rightful(o)'
  BY <1>2, <1>3 DEF Rightful
<1>6. \A i : ItemSound(i) => ItemSound(i)'
  BY <1>1, <1>2, <1>4 DEF ItemSound
<1>7. QED
  BY <1>1, <1>2, <1>3, <1>4, <1>5, <1>6

----------------------------------------------------------------------------
(* Row by row, what each statement does. *)

LEMMA InsertGroupAt ==
    ASSUME TablesOK, NEW h \in Hubs, NEW e \in Creates, InsertGroup(h, e)
    PROVE  /\ \A i \in Hubs, g \in Groups : group'[i][g] =
                IF i = h /\ g = GroupOf[e] /\ ~Exists(h, g) THEN e ELSE group[i][g]
           /\ ~Exists(h, GroupOf[e]) => e \in founded'
           /\ UNCHANGED <<members, texts, ciphers>>
<1>1. group \in [Hubs -> [Groups -> Creates \cup {NoGroup}]]
  BY DEF TablesOK
<1>2. CASE Exists(h, GroupOf[e])
  BY <1>2 DEF InsertGroup
<1>3. CASE ~Exists(h, GroupOf[e])
  <2>1. group' = [group EXCEPT ![h][GroupOf[e]] = e] /\ founded' = founded \cup {e}
    BY <1>3 DEF InsertGroup
  <2>2. QED
    BY <1>1, <1>3, <2>1 DEF InsertGroup
<1>4. QED
  BY <1>2, <1>3

LEMMA InsertMembersAt ==
    ASSUME TablesOK, NEW h \in Hubs, NEW k, NEW tids, InsertMembers(h, k, tids)
    PROVE  /\ \A i \in Hubs, g \in Groups : members'[i][g] =
                IF i = h /\ g = k THEN members[i][g] \cup tids ELSE members[i][g]
           /\ UNCHANGED <<group, founded, texts, ciphers, old>>
  BY DEF TablesOK, InsertMembers

LEMMA DeleteMembersAt ==
    ASSUME TablesOK, NEW h \in Hubs, NEW k, NEW tids, DeleteMembers(h, k, tids)
    PROVE  /\ \A i \in Hubs, g \in Groups : members'[i][g] =
                IF i = h /\ g = k THEN members[i][g] \ tids ELSE members[i][g]
           /\ UNCHANGED <<group, founded, texts, ciphers, old>>
  BY DEF TablesOK, DeleteMembers

LEMMA InsertTextAt ==
    ASSUME TablesOK, NEW h \in Hubs, NEW e, InsertText(h, e)
    PROVE  /\ \A i \in Hubs : texts'[i] = IF i = h THEN texts[i] \cup {e} ELSE texts[i]
           /\ UNCHANGED <<group, founded, members, ciphers>>
  BY DEF TablesOK, InsertText

LEMMA InsertCiphersAt ==
    ASSUME TablesOK, NEW h \in Hubs, NEW e, NEW tids, InsertCiphers(h, e, tids)
    PROVE  /\ \A i \in Hubs, m \in Texts : ciphers'[i][m] =
                IF i = h /\ m = e THEN ciphers[i][m] \cup tids ELSE ciphers[i][m]
           /\ UNCHANGED <<group, founded, members, texts, old>>
  BY DEF TablesOK, InsertCiphers

LEMMA DeleteGroupAt ==
    ASSUME TablesOK, NEW h \in Hubs, NEW k, DeleteGroup(h, k)
    PROVE  /\ \A i \in Hubs, g \in Groups :
                /\ group'[i][g] = IF i = h /\ g = k THEN NoGroup ELSE group[i][g]
                /\ members'[i][g] = IF i = h /\ g = k THEN {} ELSE members[i][g]
           /\ \A i \in Hubs : texts'[i] =
                IF i = h THEN {m \in texts[i] : GroupOf[m] # k} ELSE texts[i]
           /\ \A i \in Hubs, m \in Texts : ciphers'[i][m] =
                IF i = h /\ GroupOf[m] = k THEN {} ELSE ciphers[i][m]
           /\ UNCHANGED <<founded, old>>
<1>1. \A i \in Hubs, m \in Texts : ciphers'[i][m] =
                IF i = h /\ GroupOf[m] = k THEN {} ELSE ciphers[i][m]
  BY DEF TablesOK, DeleteGroup
<1>2. \A i \in Hubs, g \in Groups :
         /\ group'[i][g] = IF i = h /\ g = k THEN NoGroup ELSE group[i][g]
         /\ members'[i][g] = IF i = h /\ g = k THEN {} ELSE members[i][g]
  BY DEF TablesOK, DeleteGroup
<1>3. \A i \in Hubs : texts'[i] =
         IF i = h THEN {m \in texts[i] : GroupOf[m] # k} ELSE texts[i]
  BY DEF TablesOK, DeleteGroup
<1>4. QED
  BY <1>1, <1>2, <1>3 DEF DeleteGroup

\* Where the statements stand in the handlers and routes.
LEMMA StoreStatements ==
    ASSUME TypeOK, NEW j \in storing, Store(j)
    PROVE  /\ j \in StoreJob /\ j.hub \in Hubs /\ j.cur # NoItem /\ j.cur \in Item
           /\ j.cur.env \in Envelopes /\ GroupOf[j.cur.env] \in Groups
           /\ \/ UNCHANGED tables
              \/ j.cur.env \in Creates /\ InsertGroup(j.hub, j.cur.env)
              \/ /\ j.cur.env \in Creates /\ j.stage = "rest"
                 /\ Exists(j.hub, GroupOf[j.cur.env])
                 /\ InsertMembers(j.hub, GroupOf[j.cur.env], j.cur.named)
              \/ /\ j.cur.env \in Texts /\ Exists(j.hub, GroupOf[j.cur.env])
                 /\ j.cur.env \notin texts[j.hub] /\ InsertText(j.hub, j.cur.env)
              \/ /\ j.cur.env \in Texts /\ j.stage = "rest" /\ j.cur.env \in texts[j.hub]
                 /\ InsertCiphers(j.hub, j.cur.env, j.cur.named)
              \/ /\ j.cur.env \in Ops /\ Applicable(j.hub, j.cur.env)
                 /\ ApplyOp(j.hub, j.cur.env)
<1>1. j \in StoreJob /\ j.cur # NoItem
  BY DEF TypeOK, Store
<1>2. j.hub \in Hubs /\ j.cur \in Item /\ j.cur.env \in Envelopes
      /\ GroupOf[j.cur.env] \in Groups
  BY <1>1, JobShape, EnvelopesAssumption
<1>3. QED
  BY <1>1, <1>2 DEF Store, StoreCreateRow, StoreCreateMembers, StoreText, StoreCiphers, StoreOp

LEMMA RouteStatements ==
    ASSUME TypeOK, NEW j \in serving, Route(j)
    PROVE  /\ j.hub \in Hubs /\ j.env \in Envelopes /\ GroupOf[j.env] \in Groups
           /\ \/ /\ UNCHANGED tables /\ given' = given /\ wire' = wire
                 /\ \/ Done(j)
                    \/ /\ j.env \in Ops /\ j.stage = "check" /\ Permitted(j.hub, j.env)
                       /\ Then(j, "row")
                    \/ /\ j.env \notin Ops /\ j.stage = "check" /\ Then(j, "row")
                    \/ j.env \in Texts /\ Then(j, "dup")
                    \/ j.stage = "dup" /\ Then(j, "row")
              \/ /\ j.env \in Creates /\ j.stage = "row" /\ InsertGroup(j.hub, j.env)
                 /\ Then(j, "rest") /\ given' = given /\ wire' = wire
              \/ /\ j.env \in Creates /\ j.stage = "rest" /\ Exists(j.hub, GroupOf[j.env])
                 /\ InsertMembers(j.hub, GroupOf[j.env], Named[j.env]) /\ Answered(j)
              \/ /\ j.env \in Texts /\ j.stage = "row" /\ Exists(j.hub, GroupOf[j.env])
                 /\ j.env \notin texts[j.hub] /\ InsertText(j.hub, j.env)
                 /\ Then(j, "rest") /\ given' = given /\ wire' = wire
              \/ /\ j.env \in Texts /\ j.stage = "rest" /\ j.env \in texts[j.hub]
                 /\ InsertCiphers(j.hub, j.env, Named[j.env]) /\ Answered(j)
              \/ /\ j.env \in Ops /\ j.stage = "row" /\ Applicable(j.hub, j.env)
                 /\ ApplyOp(j.hub, j.env) /\ Answered(j)
<1>1. j.hub \in Hubs /\ j.env \in Envelopes /\ GroupOf[j.env] \in Groups
  BY EnvelopesAssumption DEF TypeOK
<1>2. QED
  BY <1>1 DEF Route, RouteCheck, RouteDuplicate, RouteCreate, RouteSend, RouteOp, Failed

\* Rows of groups.
LEMMA FoundedStep ==
    ASSUME TypeOK, RowsFounded, [Next]_vars
    PROVE  RowsFounded'
<1>1. TablesOK /\ Grows
  BY TypeParts, StepGrows
<1>2. founded \subseteq founded'
  BY <1>1 DEF Grows
<1>3. CASE UNCHANGED tables
  BY <1>3 DEF RowsFounded, tables, Exists
<1>4. CASE \E h \in Hubs, e \in Creates : GroupOf[e] \in Groups /\ InsertGroup(h, e)
  <2>1. PICK h \in Hubs, e \in Creates : GroupOf[e] \in Groups /\ InsertGroup(h, e)
    BY <1>4
  <2>2. QED
    BY <1>1, <1>2, <2>1, InsertGroupAt DEF RowsFounded, Exists
<1>5. CASE group' = group
  BY <1>2, <1>5 DEF RowsFounded, Exists
<1>6. CASE \E h \in Hubs : \E k : DeleteGroup(h, k)
  BY <1>1, <1>2, <1>6, DeleteGroupAt DEF RowsFounded, Exists
<1>7. \A h \in Hubs, o \in Ops : ApplyOp(h, o) => group' = group \/ DeleteGroup(h, GroupOf[o])
  BY OpStatement DEF InsertMembers, DeleteMembers
<1>8. ASSUME NEW j \in storing, Store(j)
      PROVE  RowsFounded'
  BY <1>3, <1>4, <1>5, <1>6, <1>7, <1>8, StoreStatements
     DEF InsertMembers, InsertText, InsertCiphers
<1>9. ASSUME NEW j \in serving, Route(j)
      PROVE  RowsFounded'
  BY <1>3, <1>4, <1>5, <1>6, <1>7, <1>9, RouteStatements
     DEF InsertMembers, InsertText, InsertCiphers
<1>10. QED
  BY <1>3, <1>8, <1>9, TableSteps

----------------------------------------------------------------------------
(* The rights behind every op. *)

\* The answers of Permitted are what Rightful remembers.
LEMMA PermittedRightful ==
    ASSUME TypeOK, RowsFounded, NEW h \in Hubs, NEW o \in Ops, Permitted(h, o)
    PROVE  Rightful(o)
<1> DEFINE g == GroupOf[o]
           c == group[h][g]
<1>1. g \in Groups /\ o \notin Texts
  BY EnvelopesAssumption, DistinctAssumption DEF Envelopes
<1>2. /\ Exists(h, g) /\ (KindOf[o] = "leave") # (SignerOf[c] = SignerOf[o])
      /\ KindOf[o] = "remove" => SignerOf[c] \notin Named[o]
  BY <1>1 DEF Permitted, Creator
<1>3. c \in Creates /\ GroupOf[c] = g /\ c \in founded
  BY <1>1, <1>2 DEF RowsFounded, Exists, TypeOK
<1>4. c \in CreatesOf(GroupOf[o])
  BY <1>3 DEF CreatesOf
<1>5. QED
  BY <1>2, <1>4 DEF Rightful, ByCreator

LEMMA ThenDone ==
    ASSUME TypeOK, NEW j \in serving
    PROVE  /\ \A s : Then(j, s) => \A i \in serving' :
                i \in serving \/ (i.hub = j.hub /\ i.env = j.env /\ i.stage = s)
           /\ \A s : Then(j, s) => \E i \in serving' :
                i.hub = j.hub /\ i.env = j.env /\ i.stage = s
           /\ \A s : Then(j, s) => serving \ {j} \subseteq serving'
           /\ Done(j) => serving' = serving \ {j}
<1>1. j \in [hub : Hubs, env : Envelopes, stage : Stages]
  BY DEF TypeOK
<1>2. ASSUME NEW s, Then(j, s)
      PROVE  /\ \A i \in serving' :
                  i \in serving \/ (i.hub = j.hub /\ i.env = j.env /\ i.stage = s)
             /\ \E i \in serving' : i.hub = j.hub /\ i.env = j.env /\ i.stage = s
             /\ serving \ {j} \subseteq serving'
  <2> DEFINE n == [j EXCEPT !.stage = s]
  <2>1. serving' = (serving \ {j}) \cup {n}
    BY <1>2 DEF Then
  <2>2. n.hub = j.hub /\ n.env = j.env /\ n.stage = s
    BY <1>1
  <2> HIDE DEF n
  <2>3. QED
    BY <2>1, <2>2
<1>3. QED
  BY <1>2 DEF Done

\* What a step of a request leaves in serving and in given.
LEMMA RouteTrail ==
    ASSUME TypeOK, NEW j \in serving, Route(j)
    PROVE  /\ \A i \in serving' : i \in serving \/
                /\ i.hub = j.hub /\ i.env = j.env
                /\ \/ j.env \in Ops /\ i.stage = "row" /\ Permitted(j.hub, j.env)
                   \/ j.env \notin Ops /\ i.stage = "row" /\ j.stage \in {"check", "dup"}
                   \/ j.env \in Texts /\ i.stage = "dup"
                   \/ j.env \in Creates \cup Texts /\ i.stage = "rest" /\ j.stage = "row"
                   \/ j.stage = "dup" /\ i.stage = "row"
           /\ given' \subseteq given \cup {<<j.hub, j.env>>}
           /\ given' # given => /\ <<j.hub, j.env>> \in given'
                                /\ j.env \in Ops => j.stage = "row"
                                /\ Push(j.hub, j.env)
<1>1. Answered(j) => /\ serving' \subseteq serving /\ given' = given \cup {<<j.hub, j.env>>}
                     /\ Push(j.hub, j.env)
  BY DEF Answered, Done
<1>2. Done(j) => serving' \subseteq serving
  BY DEF Done
<1>3. Creates \cap Ops = {} /\ Texts \cap Ops = {}
  BY DistinctAssumption
<1>4. QED
  BY <1>1, <1>2, <1>3, RouteStatements, ThenDone

LEMMA RightfulStep ==
    ASSUME TypeOK, RowsFounded, OpsRightful, [Next]_vars
    PROVE  OpsRightful'
<1>1. Grows /\ \A o : Rightful(o) => Rightful(o)'
  BY StepGrows, StaysTrue
<1>2. ASSUME UNCHANGED given, serving' \subseteq serving
      PROVE  OpsRightful'
  <2>1. \A o \in Ops : Accepted(o)' => Accepted(o)
    BY <1>2 DEF Accepted
  <2>2. \A o \in Ops : Applying(o)' => Applying(o)
    BY <1>2 DEF Applying
  <2>3. QED
    BY <1>1, <1>2, <2>1, <2>2 DEF OpsRightful
<1>3. CASE Calm
  BY <1>2, <1>3 DEF Calm
<1>4. ASSUME NEW h \in Hubs, NEW e \in Envelopes, Request(h, e)
      PROVE  OpsRightful'
  <2> DEFINE n == [hub |-> h, env |-> e, stage |-> IF e \in Creates THEN "row" ELSE "check"]
  <2>1. serving' \subseteq serving \cup {n} /\ given' = given
    BY <1>4 DEF Request, history
  <2>2. n.env = e /\ n.stage = IF e \in Creates THEN "row" ELSE "check"
    OBVIOUS
  <2>3. Creates \cap Ops = {}
    BY DistinctAssumption
  <2> HIDE DEF n
  <2>4. \A o \in Ops : Accepted(o)' => Accepted(o)
    BY <2>1 DEF Accepted
  <2>5. \A o \in Ops : Applying(o)' => Applying(o)
    BY <2>1, <2>2, <2>3 DEF Applying
  <2>6. QED
    BY <1>1, <2>1, <2>2, <2>3, <2>4, <2>5 DEF OpsRightful
<1>5. ASSUME NEW f \in wire, HandleWant(f) \/ HandleShip(f)
      PROVE  OpsRightful'
  BY <1>2, <1>5 DEF HandleWant, HandleShip, history
<1>6. ASSUME NEW j \in storing, Accept(j) \/ Store(j)
      PROVE  OpsRightful'
  BY <1>2, <1>6 DEF Accept, Store, history
<1>7. ASSUME NEW j \in serving, Route(j)
      PROVE  OpsRightful'
  <2>1. \A o \in Ops : Accepted(o)' => Accepted(o) \/ Applying(o)
    BY <1>7, RouteTrail DEF Accepted, Applying
  <2>2. j.hub \in Hubs /\ \A o \in Ops : Permitted(j.hub, o) => Rightful(o)
    BY <1>7, RouteStatements, PermittedRightful
  <2>3. Creates \cap Ops = {} /\ Texts \cap Ops = {} /\ Creates \cap Texts = {}
    BY DistinctAssumption
  <2>4. ASSUME NEW o \in Ops, NEW i \in serving', i.env = o, i.stage = "row"
        PROVE  Applying(o) \/ Permitted(j.hub, o)
    <3>1. CASE i \in serving
      BY <2>4, <3>1 DEF Applying
    <3>2. CASE i \notin serving
      <4>1. /\ o = j.env /\ i.stage = "row"
            /\ Permitted(j.hub, j.env) \/ j.env \notin Ops \/ j.env \in Texts \/ j.stage = "dup"
        BY <1>7, <2>4, <3>2, RouteTrail
      <4>2. QED
        BY <2>3, <4>1 DEF OpsRightful
    <3>3. QED
      BY <3>1, <3>2
  <2>5. \A o \in Ops : Applying(o)' => Applying(o) \/ Permitted(j.hub, o)
    BY <2>4 DEF Applying
  <2>6. \A o \in Ops : Accepted(o)' \/ Applying(o)' => Rightful(o)'
    BY <1>1, <2>1, <2>2, <2>5 DEF OpsRightful
  <2>7. ASSUME NEW i \in serving'
        PROVE  /\ i.env \in Ops => i.stage \in {"check", "row"}
               /\ i.env \in Creates => i.stage \in {"row", "rest"}
    <3>1. CASE i \in serving
      BY <3>1 DEF OpsRightful
    <3>2. CASE i \notin serving
      <4>1. /\ i.stage \in {"row", "rest"} \/ (i.stage = "dup" /\ i.env \in Texts)
            /\ i.stage = "rest" => i.env \in Creates \cup Texts
        BY <1>7, <3>2, RouteTrail
      <4>2. QED
        BY <2>3, <4>1
    <3>3. QED
      BY <3>1, <3>2
  <2>8. QED
    BY <2>6, <2>7 DEF OpsRightful
<1>8. QED
  BY <1>3, <1>4, <1>5, <1>6, <1>7, StepKinds

----------------------------------------------------------------------------
(* Who is on a member list, and who left it. *)

LEMMA MembersGained ==
    ASSUME TypeOK, [Next]_vars, NEW h \in Hubs, NEW g \in Groups,
           NEW t \in members'[h][g] \ members[h][g]
    PROVE  \/ \E j \in storing :
                /\ j.hub = h /\ j.cur # NoItem /\ GroupOf[j.cur.env] = g
                /\ \/ j.cur.env \in Creates /\ t \in j.cur.named
                   \/ j.cur.env \in Ops /\ KindOf[j.cur.env] = "add" /\ t \in Named[j.cur.env]
           \/ \E j \in serving :
                /\ j.hub = h /\ GroupOf[j.env] = g /\ t \in Named[j.env]
                /\ <<h, j.env>> \in given'
                /\ j.env \in Creates \/ (j.env \in Ops /\ KindOf[j.env] = "add")
<1>1. TablesOK
  BY TypeParts
<1>2. ASSUME NEW i \in Hubs, NEW k, NEW tids, InsertMembers(i, k, tids)
      PROVE  i = h /\ k = g /\ t \in tids
  <2>1. members'[h][g] = IF h = i /\ g = k THEN members[h][g] \cup tids ELSE members[h][g]
    BY <1>1, <1>2, InsertMembersAt
  <2>2. QED
    BY <2>1
<1>3. ASSUME NEW i \in Hubs, NEW k, NEW tids
      PROVE  ~DeleteMembers(i, k, tids)
  BY <1>1, DeleteMembersAt
<1>4. \A i \in Hubs : \A k : ~DeleteGroup(i, k)
  BY <1>1, DeleteGroupAt
<1>5. \A i \in Hubs, o \in Ops : ApplyOp(i, o) =>
         i = h /\ GroupOf[o] = g /\ KindOf[o] = "add" /\ t \in Named[o]
  BY <1>2, <1>3, <1>4, OpStatement DEF Envelopes
<1>6. members' # members
  OBVIOUS
<1>7. ASSUME NEW j \in storing, Store(j)
      PROVE  /\ j.hub = h /\ j.cur # NoItem /\ GroupOf[j.cur.env] = g
             /\ \/ j.cur.env \in Creates /\ t \in j.cur.named
                \/ j.cur.env \in Ops /\ KindOf[j.cur.env] = "add" /\ t \in Named[j.cur.env]
  BY <1>2, <1>5, <1>6, <1>7, StoreStatements
     DEF tables, InsertGroup, InsertText, InsertCiphers
<1>8. ASSUME NEW j \in serving, Route(j)
      PROVE  /\ j.hub = h /\ GroupOf[j.env] = g /\ t \in Named[j.env]
             /\ <<h, j.env>> \in given'
             /\ j.env \in Creates \/ (j.env \in Ops /\ KindOf[j.env] = "add")
  BY <1>2, <1>5, <1>6, <1>8, RouteStatements
     DEF tables, InsertGroup, InsertText, InsertCiphers, Answered
<1>9. QED
  BY <1>6, <1>7, <1>8, TableSteps DEF tables

\* The ops that take t off a list.
Ejects(o, t) == \/ KindOf[o] = "leave" /\ SignerOf[o] = t
                \/ KindOf[o] = "remove" /\ t \in Named[o]
                \/ KindOf[o] = "delete"

LEMMA MembersLost ==
    ASSUME TypeOK, [Next]_vars, NEW h \in Hubs, NEW g \in Groups,
           NEW t \in members[h][g] \ members'[h][g]
    PROVE  \E o \in Ops :
             /\ GroupOf[o] = g /\ Ejects(o, t)
             /\ KindOf[o] = "delete" => ~Exists(h, g)'
             /\ \/ \E j \in storing : j.hub = h /\ j.cur # NoItem /\ j.cur.env = o
                \/ \E j \in serving : /\ j.env = o /\ j.stage = "row"
                                      /\ <<j.hub, o>> \in given' /\ j.hub \in Hubs
<1>1. TablesOK
  BY TypeParts
<1>2. ASSUME NEW i \in Hubs, NEW k, NEW tids
      PROVE  ~InsertMembers(i, k, tids)
  BY <1>1, InsertMembersAt
<1>3. ASSUME NEW i \in Hubs, NEW k, NEW tids, DeleteMembers(i, k, tids)
      PROVE  i = h /\ k = g /\ t \in tids
  <2>1. members'[h][g] = IF h = i /\ g = k THEN members[h][g] \ tids ELSE members[h][g]
    BY <1>1, <1>3, DeleteMembersAt
  <2>2. QED
    BY <2>1
<1>4. \A i \in Hubs : \A k : DeleteGroup(i, k) => i = h /\ k = g /\ ~Exists(h, g)'
  BY <1>1, DeleteGroupAt DEF Exists
<1>5. \A i \in Hubs, o \in Ops : ApplyOp(i, o) =>
         /\ i = h /\ GroupOf[o] = g /\ Ejects(o, t)
         /\ KindOf[o] = "delete" => ~Exists(h, g)'
  <2> SUFFICES ASSUME NEW i \in Hubs, NEW o \in Ops, ApplyOp(i, o)
               PROVE  /\ i = h /\ GroupOf[o] = g /\ Ejects(o, t)
                      /\ KindOf[o] = "delete" => ~Exists(h, g)'
    OBVIOUS
  <2>1. CASE KindOf[o] = "leave" /\ DeleteMembers(i, GroupOf[o], {SignerOf[o]})
    BY <1>3, <2>1 DEF Ejects
  <2>2. CASE KindOf[o] = "remove" /\ DeleteMembers(i, GroupOf[o], Named[o])
    BY <1>3, <2>2 DEF Ejects
  <2>3. CASE KindOf[o] = "delete" /\ DeleteGroup(i, GroupOf[o])
    BY <1>4, <2>3 DEF Ejects
  <2>4. QED
    BY <1>2, <2>1, <2>2, <2>3, OpStatement
<1>6. members' # members
  OBVIOUS
<1>7. ASSUME NEW j \in storing, Store(j)
      PROVE  /\ j.hub \in Hubs /\ j.cur # NoItem /\ j.cur.env \in Ops
             /\ ApplyOp(j.hub, j.cur.env)
  BY <1>2, <1>6, <1>7, StoreStatements DEF tables, InsertGroup, InsertText, InsertCiphers
<1>8. ASSUME NEW j \in serving, Route(j)
      PROVE  /\ j.hub \in Hubs /\ j.env \in Ops /\ j.stage = "row"
             /\ ApplyOp(j.hub, j.env) /\ <<j.hub, j.env>> \in given'
  BY <1>2, <1>6, <1>8, RouteStatements
     DEF tables, InsertGroup, InsertText, InsertCiphers, Answered
<1>9. CASE \E j \in storing : Store(j)
  BY <1>5, <1>7, <1>9
<1>10. CASE \E j \in serving : Route(j)
  BY <1>5, <1>8, <1>10
<1>11. QED
  BY <1>6, <1>9, <1>10, TableSteps DEF tables

LEMMA VouchedStep ==
    ASSUME TypeOK, ItemsSound, OpsRightful, OpsRightful', AllVouched, [Next]_vars
    PROVE  AllVouched'
<1> SUFFICES ASSUME NEW h \in Hubs, NEW g \in Groups, NEW t \in members'[h][g]
             PROVE  Vouched(g, t)'
  BY DEF AllVouched
<1>1. Grows /\ (Vouched(g, t) => Vouched(g, t)')
  BY StepGrows, StaysTrue
<1>2. CASE t \in members[h][g]
  BY <1>1, <1>2 DEF AllVouched
<1>3. ASSUME NEW j \in storing, j.hub = h, j.cur # NoItem, GroupOf[j.cur.env] = g,
             j.cur.env \in Creates, t \in j.cur.named
      PROVE  Vouched(g, t)'
  BY <1>1, <1>3 DEF ItemsSound, JobSound, ItemSound
<1>4. ASSUME NEW j \in storing, j.hub = h, j.cur # NoItem, GroupOf[j.cur.env] = g,
             j.cur.env \in Ops, KindOf[j.cur.env] = "add", t \in Named[j.cur.env]
      PROVE  Vouched(g, t)'
  <2>1. PICK o \in Ops : o = j.cur.env
    BY <1>4
  <2>2. Accepted(o)
    BY <1>4, <2>1 DEF ItemsSound, JobSound, ItemSound
  <2>3. ByCreator(o)
    BY <1>4, <2>1, <2>2 DEF OpsRightful, Rightful
  <2>4. QED
    BY <1>1, <1>4, <2>1, <2>2, <2>3 DEF Vouched
<1>5. ASSUME NEW c \in Creates, GroupOf[c] = g, t \in Named[c], <<h, c>> \in given'
      PROVE  Vouched(g, t)'
  BY <1>5 DEF Vouched, CreatesOf, Accepted
<1>6. ASSUME NEW o \in Ops, GroupOf[o] = g, t \in Named[o], <<h, o>> \in given', KindOf[o] = "add"
      PROVE  Vouched(g, t)'
  <2>1. Accepted(o)'
    BY <1>6 DEF Accepted
  <2>2. ByCreator(o)'
    BY <1>6, <2>1 DEF OpsRightful, Rightful
  <2>3. QED
    BY <1>6, <2>1, <2>2 DEF Vouched
<1>7. CASE t \notin members[h][g]
  <2>1. \/ \E j \in storing :
               /\ j.hub = h /\ j.cur # NoItem /\ GroupOf[j.cur.env] = g
               /\ \/ j.cur.env \in Creates /\ t \in j.cur.named
                  \/ j.cur.env \in Ops /\ KindOf[j.cur.env] = "add" /\ t \in Named[j.cur.env]
        \/ \E j \in serving :
               /\ j.hub = h /\ GroupOf[j.env] = g /\ t \in Named[j.env]
               /\ <<h, j.env>> \in given'
               /\ j.env \in Creates \/ (j.env \in Ops /\ KindOf[j.env] = "add")
    BY <1>7, MembersGained
  <2>2. QED
    BY <1>3, <1>4, <1>5, <1>6, <2>1
<1>8. QED
  BY <1>2, <1>7

----------------------------------------------------------------------------
(* What is on the wire and in the handlers. *)

\* What becomes of a storing handler at a query.
LEMMA StoreTrail ==
    ASSUME TypeOK, NEW j \in storing, Store(j)
    PROVE  /\ storing \ {j} \subseteq storing'
           /\ \A i \in storing' : i \in storing \/
                /\ i.hub = j.hub /\ i.from = j.from /\ i.todo = j.todo
                /\ i.cur = NoItem \/ (i.cur = j.cur /\ i.stage = "rest")
           /\ NextItem(j) => \E i \in storing' :
                i.hub = j.hub /\ i.from = j.from /\ i.todo = j.todo /\ i.cur = NoItem
           /\ Onwards(j) => \E i \in storing' :
                /\ i.hub = j.hub /\ i.from = j.from /\ i.todo = j.todo
                /\ i.cur = j.cur /\ i.stage = "rest"
<1>1. j \in StoreJob
  BY DEF TypeOK
<1>2. ASSUME NextItem(j)
      PROVE  /\ storing \ {j} \subseteq storing'
             /\ \A i \in storing' : i \in storing \/
                  (i.hub = j.hub /\ i.from = j.from /\ i.todo = j.todo /\ i.cur = NoItem)
             /\ \E i \in storing' :
                  i.hub = j.hub /\ i.from = j.from /\ i.todo = j.todo /\ i.cur = NoItem
  <2> DEFINE n == [j EXCEPT !.cur = NoItem]
  <2>1. n.hub = j.hub /\ n.from = j.from /\ n.todo = j.todo /\ n.cur = NoItem
    BY <1>1 DEF StoreJob
  <2>2. storing' = (storing \ {j}) \cup {n}
    BY <1>2 DEF NextItem
  <2> HIDE DEF n
  <2>3. QED
    BY <2>1, <2>2
<1>3. ASSUME Onwards(j)
      PROVE  /\ storing \ {j} \subseteq storing'
             /\ \A i \in storing' : i \in storing \/
                  /\ i.hub = j.hub /\ i.from = j.from /\ i.todo = j.todo
                  /\ i.cur = j.cur /\ i.stage = "rest"
             /\ \E i \in storing' :
                  /\ i.hub = j.hub /\ i.from = j.from /\ i.todo = j.todo
                  /\ i.cur = j.cur /\ i.stage = "rest"
  <2> DEFINE n == [j EXCEPT !.stage = "rest"]
  <2>1. n.hub = j.hub /\ n.from = j.from /\ n.todo = j.todo /\ n.cur = j.cur /\ n.stage = "rest"
    BY <1>1 DEF StoreJob
  <2>2. storing' = (storing \ {j}) \cup {n}
    BY <1>3 DEF Onwards
  <2> HIDE DEF n
  <2>3. QED
    BY <2>1, <2>2
<1>4. Abandon(j) => storing' = storing \ {j}
  BY DEF Abandon
<1>5. NextItem(j) \/ Onwards(j) \/ Abandon(j)
  BY DEF Store, StoreCreateRow, StoreCreateMembers, StoreText, StoreCiphers, StoreOp
<1>6. QED
  BY <1>2, <1>3, <1>4, <1>5

LEMMA AcceptTrail ==
    ASSUME TypeOK, NEW j \in storing, Accept(j)
    PROVE  \E i \in j.todo, n \in StoreJob :
             /\ i \in Item /\ i.env \in Envelopes /\ (j.hub \in Strict => i.data)
             /\ i.data => i.env \in envs'[j.hub]
             /\ storing' = (storing \ {j}) \cup {n}
             /\ n.hub = j.hub /\ n.from = j.from /\ n.todo = j.todo \ {i}
             /\ n.cur = Believed(i) /\ n.stage = "row" /\ n.cur # NoItem
<1>1. j \in StoreJob /\ envs \in [Hubs -> SUBSET Envelopes]
  BY DEF TypeOK
<1>2. PICK i \in j.todo :
         /\ j.hub \in Strict => i.data
         /\ envs' = IF i.data THEN [envs EXCEPT ![j.hub] = @ \cup {i.env}] ELSE envs
         /\ storing' = (storing \ {j}) \cup
                {[j EXCEPT !.todo = @ \ {i}, !.cur = Believed(i), !.stage = "row"]}
  BY DEF Accept
<1>3. i \in Item /\ i.env \in Envelopes /\ j.hub \in Hubs
  BY <1>1, JobShape DEF Item
<1>4. i.data => i.env \in envs'[j.hub]
  BY <1>1, <1>2, <1>3
<1> DEFINE n == [j EXCEPT !.todo = @ \ {i}, !.cur = Believed(i), !.stage = "row"]
<1>5. /\ n.hub = j.hub /\ n.from = j.from /\ n.todo = j.todo \ {i}
      /\ n.cur = Believed(i) /\ n.stage = "row"
  BY <1>1 DEF StoreJob
<1>6. n \in StoreJob /\ Believed(i) # NoItem
  BY <1>1, <1>3, JobShape, BelievedOK, DistinctAssumption
<1>7. storing' = (storing \ {j}) \cup {n}
  BY <1>2
<1> HIDE DEF n
<1>8. QED
  BY <1>2, <1>3, <1>4, <1>5, <1>6, <1>7

LEMMA ShipTrail ==
    ASSUME TypeOK, NEW f \in wire, HandleShip(f)
    PROVE  \E n \in StoreJob :
             /\ storing' = storing \cup {n} /\ wire' = wire \ {f} /\ f.type = "ship"
             /\ n.hub = f.to /\ n.from = f.from /\ n.todo = f.items /\ n.cur = NoItem
<1> DEFINE n == [hub |-> f.to, from |-> f.from, todo |-> f.items, cur |-> NoItem, stage |-> "row"]
<1>1. n \in StoreJob
  BY FrameShape, TypeParts DEF HandleShip, StoreJob
<1>2. n.hub = f.to /\ n.from = f.from /\ n.todo = f.items /\ n.cur = NoItem
  OBVIOUS
<1>3. storing' = storing \cup {n} /\ wire' = wire \ {f} /\ f.type = "ship"
  BY DEF HandleShip
<1> HIDE DEF n
<1>4. QED
  BY <1>1, <1>2, <1>3

LEMMA PulledSound ==
    ASSUME TypeOK, RowsFounded, EnvelopesKept, AllVouched, CiphersDue,
           NEW h \in Hubs, NEW c \in {"create", "text"}, NEW es \in SUBSET Held(h, c),
           NEW i \in Pulled(h, es)
    PROVE  ItemSound(i)
<1>1. PICK e \in es : i = [env |-> e, data |-> e \in envs[h],
          named |-> IF e \in Creates THEN members[h][GroupOf[e]] ELSE ciphers[h][e]]
  BY DEF Pulled
<1>2. /\ i.env = e /\ i.data = (e \in envs[h])
      /\ i.named = IF e \in Creates THEN members[h][GroupOf[e]] ELSE ciphers[h][e]
  BY <1>1
<1>3. e \in Held(h, "create") \/ e \in texts[h]
  BY <1>1 DEF Held
<1>4. Form[e] = "json" => i.data
  BY <1>2, <1>3 DEF EnvelopesKept
<1>5. CASE e \in Creates
  <2>1. e \in Held(h, "create") /\ GroupOf[e] \in Groups
    BY <1>3, <1>5, EnvelopesAssumption, DistinctAssumption DEF TypeOK, Envelopes
  <2>2. e \in founded
    BY <1>5, <2>1, DistinctAssumption DEF Held, RowsFounded, Exists
  <2>3. e \in CreatesOf(GroupOf[e])
    BY <1>5, <2>2 DEF CreatesOf
  <2>4. \A t \in i.named : Vouched(GroupOf[e], t)
    BY <1>2, <1>5, <2>1 DEF AllVouched
  <2>5. QED
    BY <1>2, <1>4, <1>5, <2>3, <2>4, DistinctAssumption DEF ItemSound
<1>6. CASE e \notin Creates
  <2>1. e \in texts[h] /\ e \in Texts
    BY <1>3, <1>6 DEF Held, TypeOK
  <2>2. i.named \in {{}, Named[e]}
    BY <1>2, <1>6, <2>1 DEF CiphersDue
  <2>3. QED
    BY <1>2, <1>4, <1>6, <2>1, <2>2, DistinctAssumption DEF ItemSound
<1>7. QED
  BY <1>5, <1>6

LEMMA PushedSound ==
    ASSUME NEW h \in Hubs, NEW e \in Envelopes, <<h, e>> \in given', NEW i, i = PushedItem(e)
    PROVE  ItemSound(i)'
<1>1. i.env = e /\ i.named = Named[e] /\ i.data = (Form[e] # "none")
  BY DEF PushedItem
<1>2. Accepted(e)'
  BY DEF Accepted
<1>3. CASE e \in Creates
  <2>1. e \in CreatesOf(GroupOf[e])'
    BY <1>2, <1>3 DEF CreatesOf
  <2>2. \A t \in Named[e] : Vouched(GroupOf[e], t)'
    BY <2>1 DEF Vouched
  <2>3. QED
    BY <1>1, <1>2, <1>3, <2>1, <2>2, DistinctAssumption DEF ItemSound
<1>4. CASE e \notin Creates
  BY <1>1, <1>2, <1>4 DEF ItemSound
<1>5. QED
  BY <1>3, <1>4

LEMMA BelievedSound ==
    ASSUME NEW i \in Item, ItemSound(i), NEW b, b = Believed(i)
    PROVE  ItemSound(b)
<1>1. b.env = i.env /\ b.data = i.data /\ b.named \in {i.named, Named[i.env]}
  BY BelievedOK
<1>2. i.env \in Creates => \A t \in Named[i.env] : Vouched(GroupOf[i.env], t)
  BY DEF ItemSound, Vouched
<1>3. QED
  BY <1>1, <1>2 DEF ItemSound

LEMMA WantSent ==
    ASSUME TypeOK, NEW f \in wire, HandleWant(f)
    PROVE  /\ f.to \in Hubs /\ f.from \in Hubs /\ f.class \in {"create", "text"}
           /\ wire \ {f} \subseteq wire'
           /\ \A w \in wire' : w \in wire \/
                (w.type = "ship" /\ w.items = Pulled(f.to, f.hashes \cap Held(f.to, f.class)))
           /\ f.hashes \cap Held(f.to, f.class) # {} => \E w \in wire' :
                /\ w.type = "ship" /\ w.from = f.to /\ w.to = f.from /\ w.class = f.class
                /\ w.items = Pulled(f.to, f.hashes \cap Held(f.to, f.class))
<1>1. f.to \in Hubs /\ f.from \in Hubs /\ f.class \in {"create", "text"}
  BY TypeParts, FrameShape DEF HandleWant
<1> DEFINE es == f.hashes \cap Held(f.to, f.class)
           s == Ship(f.to, f.from, f.class, Pulled(f.to, es))
<1>2. wire' = (wire \ {f}) \cup (IF es = {} THEN {} ELSE {s})
  BY DEF HandleWant
<1>3. /\ s.type = "ship" /\ s.from = f.to /\ s.to = f.from /\ s.class = f.class
      /\ s.items = Pulled(f.to, es)
  BY DEF Ship
<1> HIDE DEF s
<1>4. QED
  BY <1>1, <1>2, <1>3

LEMMA ItemsStep ==
    ASSUME TypeOK, RowsFounded, ItemsSound, EnvelopesKept, AllVouched, CiphersDue, [Next]_vars
    PROVE  ItemsSound'
<1>1. /\ Grows /\ \A i : ItemSound(i) => ItemSound(i)'
      /\ storing \subseteq StoreJob
  BY StepGrows, StaysTrue DEF TypeOK
<1>2. ASSUME NEW f \in wire, f.type = "ship"
      PROVE  \A i \in f.items : ItemSound(i)'
  BY <1>1, <1>2 DEF ItemsSound
<1>3. ASSUME NEW j \in storing
      PROVE  JobSound(j)'
  <2>1. JobSound(j) /\ j.hub \in Hubs
    BY <1>1, <1>3 DEF ItemsSound, StoreJob
  <2>2. envs[j.hub] \subseteq envs'[j.hub]
    BY <1>1, <2>1 DEF Grows
  <2>3. QED
    BY <1>1, <2>1, <2>2 DEF JobSound
<1>4. CASE Calm
  <2>1. \A f \in wire' : f.type = "ship" => \A i \in f.items : ItemSound(i)'
    BY <1>2, <1>4 DEF Calm
  <2>2. \A j \in storing' : JobSound(j)'
    <3> SUFFICES ASSUME NEW j \in storing' PROVE JobSound(j)'
      OBVIOUS
    <3>1. PICK i \in storing : /\ j.hub = i.hub /\ j.todo \subseteq i.todo
                               /\ j.cur # NoItem => j.cur = i.cur /\ j.stage = i.stage
      BY <1>4 DEF Calm
    <3>2. JobSound(i)'
      BY <1>3
    <3>3. QED
      BY <3>1, <3>2 DEF JobSound
  <2>3. QED
    BY <2>1, <2>2 DEF ItemsSound
<1>5. ASSUME NEW h \in Hubs, NEW e \in Envelopes, Request(h, e)
      PROVE  ItemsSound'
  BY <1>2, <1>3, <1>5 DEF Request, ItemsSound
<1>6. ASSUME NEW f \in wire, HandleWant(f)
      PROVE  ItemsSound'
  <2> DEFINE es == f.hashes \cap Held(f.to, f.class)
  <2>1. /\ f.to \in Hubs /\ f.class \in {"create", "text"} /\ storing' = storing
        /\ \A w \in wire' : w \in wire \/ (w.type = "ship" /\ w.items = Pulled(f.to, es))
    BY <1>6, WantSent DEF HandleWant
  <2>2. es \in SUBSET Held(f.to, f.class)
    OBVIOUS
  <2> HIDE DEF es
  <2>3. \A i \in Pulled(f.to, es) : ItemSound(i)'
    BY <1>1, <2>1, <2>2, PulledSound
  <2>4. QED
    BY <1>2, <1>3, <2>1, <2>3 DEF ItemsSound
<1>7. ASSUME NEW f \in wire, HandleShip(f)
      PROVE  ItemsSound'
  <2>1. PICK n \in StoreJob :
             /\ storing' = storing \cup {n} /\ wire' = wire \ {f} /\ f.type = "ship"
             /\ n.hub = f.to /\ n.from = f.from /\ n.todo = f.items /\ n.cur = NoItem
    BY <1>7, ShipTrail
  <2>2. JobSound(n)'
    BY <1>2, <2>1 DEF JobSound
  <2>3. QED
    BY <1>2, <1>3, <2>1, <2>2 DEF ItemsSound
<1>8. ASSUME NEW j \in storing, Accept(j)
      PROVE  ItemsSound'
  <2>1. PICK i \in j.todo, n \in StoreJob :
             /\ i \in Item /\ i.env \in Envelopes /\ (j.hub \in Strict => i.data)
             /\ i.data => i.env \in envs'[j.hub]
             /\ storing' = (storing \ {j}) \cup {n}
             /\ n.hub = j.hub /\ n.from = j.from /\ n.todo = j.todo \ {i}
             /\ n.cur = Believed(i) /\ n.stage = "row" /\ n.cur # NoItem
    BY <1>8, AcceptTrail
  <2>2. JobSound(j) /\ ItemSound(i)
    BY <2>1 DEF ItemsSound, JobSound
  <2>3. ItemSound(n.cur)'
    BY <1>1, <2>1, <2>2, BelievedSound
  <2>4. /\ n.cur.env = i.env
        /\ Form[i.env] = "json" => n.cur.named = Named[i.env] /\ i.env \in envs'[n.hub]
    BY <2>1, <2>2, BelievedOK DEF ItemSound
  <2>5. JobSound(n)'
    BY <1>1, <2>1, <2>2, <2>3, <2>4 DEF JobSound
  <2>6. wire' = wire
    BY <1>8 DEF Accept
  <2>7. QED
    BY <1>2, <1>3, <2>1, <2>5, <2>6 DEF ItemsSound
<1>9. ASSUME NEW j \in storing, Store(j)
      PROVE  ItemsSound'
  <2>1. wire' = wire
    BY <1>9 DEF Store
  <2>2. \A i \in storing' : i \in storing \/
             /\ i.hub = j.hub /\ i.from = j.from /\ i.todo = j.todo
             /\ i.cur = NoItem \/ (i.cur = j.cur /\ i.stage = "rest")
    BY <1>9, StoreTrail
  <2>3. JobSound(j)'
    BY <1>3
  <2>4. \A i \in storing' : JobSound(i)'
    BY <1>3, <2>2, <2>3 DEF JobSound
  <2>5. QED
    BY <1>2, <2>1, <2>4 DEF ItemsSound
<1>10. ASSUME NEW j \in serving, Route(j)
      PROVE  ItemsSound'
  <2>1. j.hub \in Hubs /\ j.env \in Envelopes
        /\ (wire' = wire \/ (Push(j.hub, j.env) /\ <<j.hub, j.env>> \in given'))
    BY <1>10, RouteStatements DEF Answered
  <2>2. ASSUME NEW f \in wire' \ wire, NEW i \in f.items
        PROVE  i = PushedItem(j.env) /\ <<j.hub, j.env>> \in given'
    BY <2>1, PushShape
  <2>3. \A f \in wire' \ wire : \A i \in f.items : ItemSound(i)'
    BY <2>1, <2>2, PushedSound
  <2>4. storing' = storing
    BY <1>10 DEF Route
  <2>5. QED
    BY <1>2, <1>3, <2>3, <2>4 DEF ItemsSound
<1>11. QED
  BY <1>4, <1>5, <1>6, <1>7, <1>8, <1>9, <1>10, StepKinds

----------------------------------------------------------------------------
(* The signed bytes behind the rows. *)

\* A hub's rows are new only for the envelope its handler or request is at.
LEMMA RowsGained ==
    ASSUME TypeOK, TypeOK', [Next]_vars, NEW h \in Hubs, NEW e,
           e \in (Held(h, "create") \cup texts[h])' \ (Held(h, "create") \cup texts[h])
    PROVE  /\ e \in Creates \cup Texts
           /\ \/ \E j \in storing : /\ Store(j) /\ j.hub = h /\ j.cur # NoItem /\ j.cur.env = e
              \/ \E j \in serving : /\ Route(j) /\ j.hub = h /\ j.env = e /\ j.stage = "row"
                                    /\ Then(j, "rest")
<1>1. TablesOK
  BY TypeParts
<1>2. Creates \cap Texts = {} /\ \A c \in Creates : GroupOf[c] \in Groups /\ c # NoGroup
  BY DistinctAssumption, EnvelopesAssumption DEF Envelopes
<1>3. e \in Held(h, "create")' \/ e \in texts'[h]
  BY DEF Held
<1>4. ASSUME NEW i \in Hubs, NEW c \in Creates, InsertGroup(i, c)
      PROVE  i = h /\ e = c
  <2>1. texts' = texts
    BY <1>1, <1>4, InsertGroupAt
  <2>2. e \in Creates /\ group'[h][GroupOf[e]] = e /\ group[h][GroupOf[e]] # e
    BY <1>3, <2>1 DEF Held
  <2>3. group'[h][GroupOf[e]] = IF h = i /\ GroupOf[e] = GroupOf[c] /\ ~Exists(i, GroupOf[e])
                                THEN c ELSE group[h][GroupOf[e]]
    BY <1>1, <1>2, <1>4, <2>2, InsertGroupAt
  <2>4. QED
    BY <2>2, <2>3
<1>5. ASSUME NEW i \in Hubs, NEW m, InsertText(i, m)
      PROVE  i = h /\ e = m
  <2>1. /\ group' = group
        /\ texts'[h] = IF h = i THEN texts[h] \cup {m} ELSE texts[h]
    BY <1>1, <1>5, InsertTextAt
  <2>2. QED
    BY <1>3, <2>1 DEF Held
<1>6. ASSUME NEW i \in Hubs, NEW o \in Ops, ApplyOp(i, o)
      PROVE  FALSE
  <2>1. CASE DeleteGroup(i, GroupOf[o])
    <3>1. /\ \A g \in Groups : group'[h][g] \in {NoGroup, group[h][g]}
          /\ texts'[h] \subseteq texts[h]
      <4>1. /\ \A g \in Groups : group'[h][g] =
                  IF h = i /\ g = GroupOf[o] THEN NoGroup ELSE group[h][g]
            /\ texts'[h] = IF h = i THEN {m \in texts[h] : GroupOf[m] # GroupOf[o]}
                           ELSE texts[h]
        BY <1>1, <2>1, DeleteGroupAt
      <4>2. QED
        BY <4>1
    <3>2. e \in Creates /\ group'[h][GroupOf[e]] = e /\ group[h][GroupOf[e]] # e
      BY <1>3, <3>1 DEF Held
    <3>3. QED
      BY <1>2, <3>1, <3>2
  <2>2. CASE group' = group /\ texts' = texts
    BY <2>2, <1>3 DEF Held
  <2>3. QED
    BY <1>6, <2>1, <2>2, OpStatement DEF InsertMembers, DeleteMembers
<1>7. ~UNCHANGED <<group, texts>>
  BY <1>3 DEF Held
<1>8. e \in Creates \cup Texts
  BY <1>3 DEF Held, TypeOK
<1>9. ASSUME NEW j \in storing, Store(j)
      PROVE  j.hub = h /\ j.cur # NoItem /\ j.cur.env = e
  BY <1>4, <1>5, <1>6, <1>7, <1>9, StoreStatements
     DEF tables, InsertMembers, InsertCiphers
<1>10. ASSUME NEW j \in serving, Route(j)
      PROVE  j.hub = h /\ j.env = e /\ j.stage = "row" /\ Then(j, "rest")
  BY <1>4, <1>5, <1>6, <1>7, <1>10, RouteStatements
     DEF tables, InsertMembers, InsertCiphers
<1>11. QED
  BY <1>7, <1>8, <1>9, <1>10, TableSteps DEF tables

\* Who is in the routes, and whom they have answered.
LEMMA ServingTrail ==
    ASSUME TypeOK, [Next]_vars
    PROVE  /\ \A i \in serving' :
                \/ \E j \in serving : i.hub = j.hub /\ i.env = j.env
                \/ \E h \in Hubs, e \in Envelopes :
                     /\ i.hub = h /\ i.env = e /\ (Form[e] # "none" => e \in envs'[h])
                     /\ i.stage \in {"row", "check"}
           /\ \A h, e : <<h, e>> \in given' =>
                <<h, e>> \in given \/ \E j \in serving : j.hub = h /\ j.env = e
<1>1. ASSUME serving' \subseteq serving, given' = given
      PROVE  /\ \A i \in serving' : \E j \in serving : i.hub = j.hub /\ i.env = j.env
             /\ given' = given
  BY <1>1
<1>2. ASSUME NEW h \in Hubs, NEW e \in Envelopes, Request(h, e)
      PROVE  /\ \A i \in serving' : i \in serving \/
                  /\ i.hub = h /\ i.env = e /\ (Form[e] # "none" => e \in envs'[h])
                  /\ i.stage \in {"row", "check"}
             /\ given' = given
  <2> DEFINE n == [hub |-> h, env |-> e, stage |-> IF e \in Creates THEN "row" ELSE "check"]
  <2>1. n.hub = h /\ n.env = e /\ n.stage \in {"row", "check"}
    OBVIOUS
  <2>2. /\ \/ serving' = serving
           \/ serving' = serving \cup {n} /\
              envs' = IF Form[e] = "none" THEN envs ELSE [envs EXCEPT ![h] = @ \cup {e}]
        /\ given' = given
    BY <1>2 DEF Request, history
  <2> HIDE DEF n
  <2>3. envs \in [Hubs -> SUBSET Envelopes]
    BY DEF TypeOK
  <2>4. QED
    BY <2>1, <2>2, <2>3
<1>3. ASSUME NEW j \in serving, Route(j)
      PROVE  /\ \A i \in serving' : i \in serving \/ (i.hub = j.hub /\ i.env = j.env)
             /\ given' \subseteq given \cup {<<j.hub, j.env>>}
  BY <1>3, RouteTrail
<1>4. ASSUME NEW j \in storing, Accept(j) \/ Store(j)
      PROVE  serving' = serving /\ given' = given
  BY <1>4 DEF Accept, Store, history
<1>5. ASSUME NEW f \in wire, HandleWant(f) \/ HandleShip(f)
      PROVE  serving' = serving /\ given' = given
  BY <1>5 DEF HandleWant, HandleShip, history
<1>6. Calm => serving' \subseteq serving /\ given' = given
  BY DEF Calm
<1>7. QED
  BY <1>1, <1>2, <1>3, <1>4, <1>5, <1>6, StepKinds

LEMMA KeptStep ==
    ASSUME TypeOK, TypeOK', ItemsSound, EnvelopesKept, [Next]_vars
    PROVE  EnvelopesKept'
<1>1. \A h \in Hubs : envs[h] \subseteq envs'[h]
  BY StepGrows DEF Grows
<1>2. /\ \A j \in serving : j.hub \in Hubs /\ j.env \in Envelopes
      /\ \A j \in storing : j.hub \in Hubs
  BY DEF TypeOK, StoreJob
<1>3. ASSUME NEW h \in Hubs, NEW e \in (Held(h, "create") \cup texts[h])', Form[e] = "json"
      PROVE  e \in envs'[h]
  <2>1. CASE e \in Held(h, "create") \cup texts[h]
    BY <1>1, <1>3, <2>1 DEF EnvelopesKept
  <2>2. CASE e \notin Held(h, "create") \cup texts[h]
    <3>1. \/ \E j \in storing : j.hub = h /\ j.cur # NoItem /\ j.cur.env = e
          \/ \E j \in serving : j.hub = h /\ j.env = e
      BY <2>2, RowsGained
    <3>2. QED
      BY <1>1, <1>3, <3>1 DEF EnvelopesKept, ItemsSound, JobSound
  <2>3. QED
    BY <2>1, <2>2
<1>4. ASSUME NEW i \in serving', Form[i.env] # "none"
      PROVE  i.env \in envs'[i.hub]
  <2>1. \/ \E j \in serving : i.hub = j.hub /\ i.env = j.env
        \/ \E h \in Hubs, e \in Envelopes :
             i.hub = h /\ i.env = e /\ (Form[e] # "none" => e \in envs'[h])
    BY ServingTrail
  <2>2. QED
    BY <1>1, <1>2, <1>4, <2>1 DEF EnvelopesKept
<1>5. ASSUME NEW h \in Hubs, NEW e \in Envelopes, <<h, e>> \in given', Form[e] # "none"
      PROVE  e \in envs'[h]
  BY <1>1, <1>2, <1>5, ServingTrail DEF EnvelopesKept
<1>6. QED
  BY <1>3, <1>4, <1>5 DEF EnvelopesKept

----------------------------------------------------------------------------
(* Creators and ciphertexts: what a handler owes it still does. *)

\* Without an error, a handler at an item and a request go on until their query.
LEMMA Lingers ==
    ASSUME TypeOK, [Next]_vars, errors' = 0
    PROVE  /\ \A j \in storing : j.cur # NoItem => j \in storing' \/ Store(j)
           /\ \A j \in serving : j \in serving' \/ Route(j)
<1>1. ASSUME NEW h \in Hubs, NEW e \in Envelopes, Request(h, e)
      PROVE  storing' = storing /\ serving \subseteq serving'
  BY <1>1 DEF Request
<1>2. ASSUME NEW f \in wire, HandleWant(f) \/ HandleShip(f)
      PROVE  storing \subseteq storing' /\ serving' = serving
  BY <1>2 DEF HandleWant, HandleShip
<1>3. ASSUME NEW i \in storing, Accept(i)
      PROVE  (\A j \in storing : j.cur # NoItem => j \in storing') /\ serving' = serving
  BY <1>3 DEF Accept
<1>4. ASSUME NEW i \in storing, Store(i)
      PROVE  (\A j \in storing : j = i \/ j \in storing') /\ serving' = serving
  <2>1. storing \ {i} \subseteq storing' /\ serving' = serving
    BY <1>4, StoreTrail DEF Store
  <2>2. QED
    BY <2>1
<1>5. ASSUME NEW i \in serving, Route(i)
      PROVE  storing' = storing /\ \A j \in serving : j = i \/ j \in serving'
  <2>1. storing' = storing /\ (Done(i) \/ \E s : Then(i, s))
    BY <1>5, RouteStatements DEF Route, Answered
  <2>2. Done(i) => serving \ {i} \subseteq serving'
    BY DEF Done
  <2>3. serving \ {i} \subseteq serving'
    BY <2>1, <2>2, ThenDone
  <2>4. QED
    BY <2>1, <2>3
<1>6. CASE Calm
  BY <1>6 DEF Calm
<1>7. QED
  BY <1>1, <1>2, <1>3, <1>4, <1>5, <1>6, StepKinds

LEMMA CreatorStep ==
    ASSUME TypeOK, TypeOK', RowsFounded, RowsFounded', ItemsSound, OpsRightful',
           CreatorEntered, [Next]_vars
    PROVE  CreatorEntered'
<1> SUFFICES ASSUME NEW h \in Hubs, NEW g \in Groups, errors' = 0, Exists(h, g)',
                    FoundedBy(g, Creator(h, g))'
             PROVE  (Creator(h, g) \in members[h][g] \/ Entering(h, g, Creator(h, g)))'
  BY DEF CreatorEntered
<1>0. PICK e, s : e = group'[h][g] /\ s = SignerOf[e]
  OBVIOUS
<1>1. /\ TablesOK /\ Grows /\ errors = 0 /\ Creator(h, g)' = s
      /\ CreatesOf(g) \subseteq CreatesOf(g)' /\ \A x : Accepted(x) => Accepted(x)'
  BY <1>0, TypeParts, StepGrows, StaysTrue DEF Grows, Creator
<1>2. /\ e \in Creates /\ GroupOf[e] = g /\ e \in CreatesOf(g)'
      /\ \A c \in CreatesOf(g)' : SignerOf[c] = s /\ Form[c] = "json" /\ s \in Named[c]
  BY <1>0, <1>1 DEF RowsFounded, Exists, TypeOK, CreatesOf, FoundedBy
<1>3. CASE group[h][g] = e
  <2>1. Exists(h, g) /\ FoundedBy(g, s) /\ Creator(h, g) = s
    BY <1>0, <1>1, <1>2, <1>3, DistinctAssumption DEF Exists, FoundedBy, Creator
  <2>2. ASSUME s \in members[h][g]
        PROVE  s \in members'[h][g]
    <3>1. ASSUME s \notin members'[h][g]
          PROVE  FALSE
      <4>1. PICK o \in Ops :
             /\ GroupOf[o] = g /\ Ejects(o, s)
             /\ KindOf[o] = "delete" => ~Exists(h, g)'
             /\ \/ \E j \in storing : j.hub = h /\ j.cur # NoItem /\ j.cur.env = o
                \/ \E j \in serving : /\ j.env = o /\ j.stage = "row"
                                      /\ <<j.hub, o>> \in given' /\ j.hub \in Hubs
        BY <2>2, <3>1, MembersLost
      <4>2. (\E j \in storing : j.hub = h /\ j.cur # NoItem /\ j.cur.env = o) => Accepted(o)
        BY DEF ItemsSound, JobSound, ItemSound
      <4>3. Accepted(o)'
        BY <1>1, <4>1, <4>2 DEF Accepted
      <4>4. Rightful(o)'
        BY <4>3 DEF OpsRightful
      <4>5. KindOf[o] # "delete"
        BY <4>1
      <4>6. CASE KindOf[o] = "leave"
        <5>1. SignerOf[o] = s
          BY <4>1, <4>6 DEF Ejects
        <5>2. \E c \in CreatesOf(g)' : SignerOf[c] # SignerOf[o]
          BY <4>1, <4>4, <4>6 DEF Rightful
        <5>3. QED
          BY <1>2, <5>1, <5>2
      <4>7. CASE KindOf[o] = "remove"
        <5>1. s \in Named[o]
          BY <4>1, <4>7 DEF Ejects
        <5>2. \E c \in CreatesOf(g)' : SignerOf[c] \notin Named[o]
          BY <4>1, <4>4, <4>7 DEF Rightful
        <5>3. QED
          BY <1>2, <5>1, <5>2
      <4>8. QED
        BY <4>1, <4>5, <4>6, <4>7 DEF Ejects
    <3>2. QED
      BY <3>1
  <2>3. ASSUME NEW j \in storing, j.hub = h, j.stage = "rest", j.cur # NoItem,
               j.cur.env \in CreatesOf(g), s \in j.cur.named
        PROVE  s \in members'[h][g] \/ Entering(h, g, s)'
    <3>1. CASE j \in storing'
      BY <1>1, <2>3, <3>1 DEF Entering
    <3>2. CASE Store(j)
      <4>1. j.cur.env \in Creates /\ GroupOf[j.cur.env] = g
        BY <2>3 DEF CreatesOf
      <4>2. InsertMembers(h, g, j.cur.named)
        BY <2>1, <2>3, <3>2, <4>1, DistinctAssumption
           DEF Store, StoreCreateRow, StoreCreateMembers, StoreText, StoreCiphers, StoreOp
      <4>3. members'[h][g] = members[h][g] \cup j.cur.named
        BY <1>1, <4>2 DEF InsertMembers, TablesOK
      <4>4. QED
        BY <2>3, <4>3
    <3>3. QED
      BY <2>3, <3>1, <3>2, Lingers
  <2>4. ASSUME NEW j \in serving, j.hub = h, j.stage = "rest",
               j.env \in CreatesOf(g), s \in Named[j.env]
        PROVE  s \in members'[h][g] \/ Entering(h, g, s)'
    <3>1. CASE j \in serving'
      BY <1>1, <2>4, <3>1 DEF Entering
    <3>2. CASE Route(j)
      <4>1. j.env \in Creates /\ GroupOf[j.env] = g
        BY <2>4 DEF CreatesOf
      <4>2. InsertMembers(h, g, Named[j.env])
        BY <2>1, <2>4, <3>2, <4>1, DistinctAssumption
           DEF Route, RouteCheck, RouteDuplicate, RouteCreate, RouteSend, RouteOp
      <4>3. members'[h][g] = members[h][g] \cup Named[j.env]
        BY <1>1, <4>2 DEF InsertMembers, TablesOK
      <4>4. QED
        BY <2>4, <4>3
    <3>3. QED
      BY <3>1, <3>2, Lingers
  <2>5. s \in members[h][g] \/ Entering(h, g, s)
    BY <1>1, <2>1 DEF CreatorEntered
  <2>6. Entering(h, g, s) =>
          \/ \E j \in storing : /\ j.hub = h /\ j.stage = "rest" /\ j.cur # NoItem
                                /\ j.cur.env \in CreatesOf(g) /\ s \in j.cur.named
          \/ \E j \in serving : /\ j.hub = h /\ j.stage = "rest"
                                /\ j.env \in CreatesOf(g) /\ s \in Named[j.env]
    BY DEF Entering
  <2>7. s \in members'[h][g] \/ Entering(h, g, s)'
    BY <2>2, <2>3, <2>4, <2>5, <2>6
  <2>8. QED
    BY <1>1, <2>7
<1>4. CASE group[h][g] # e
  <2>1. e \in (Held(h, "create") \cup texts[h])' \ (Held(h, "create") \cup texts[h])
    <3>1. e \in Held(h, "create")'
      BY <1>0, <1>2 DEF Held
    <3>2. e \notin Held(h, "create")
      BY <1>2, <1>4 DEF Held
    <3>3. e \notin texts[h]
      BY <1>2, DistinctAssumption DEF TypeOK
    <3>4. QED
      BY <3>1, <3>2, <3>3
  <2>2. CASE \E j \in storing : Store(j) /\ j.hub = h /\ j.cur # NoItem /\ j.cur.env = e
    <3>1. PICK j \in storing : Store(j) /\ j.hub = h /\ j.cur # NoItem /\ j.cur.env = e
      BY <2>2
    <3>2. j.cur.named = Named[e]
      BY <1>2, <3>1 DEF ItemsSound, JobSound
    <3>3. group' # group
      BY <1>0, <1>4
    <3>4. Onwards(j)
      BY <1>2, <3>1, <3>2, <3>3, DistinctAssumption
         DEF Store, StoreCreateRow, StoreCreateMembers, StoreText, StoreCiphers, StoreOp,
             InsertMembers, tables
    <3>5. PICK i \in storing' : i.hub = j.hub /\ i.cur = j.cur /\ i.stage = "rest"
      BY <3>1, <3>4, StoreTrail
    <3>6. Entering(h, g, s)'
      BY <1>2, <3>1, <3>2, <3>5 DEF Entering
    <3>7. QED
      BY <1>1, <3>6
  <2>3. CASE \E j \in serving : /\ Route(j) /\ j.hub = h /\ j.env = e /\ j.stage = "row"
                                /\ Then(j, "rest")
    <3>1. PICK j \in serving : Route(j) /\ j.hub = h /\ j.env = e /\ Then(j, "rest")
      BY <2>3
    <3>2. PICK i \in serving' : i.hub = h /\ i.env = e /\ i.stage = "rest"
      BY <3>1, ThenDone
    <3>3. Entering(h, g, s)'
      BY <1>2, <3>2 DEF Entering
    <3>4. QED
      BY <1>1, <3>3
  <2>4. QED
    BY <2>1, <2>2, <2>3, RowsGained
<1>5. QED
  BY <1>3, <1>4

\* What a step makes of the ciphertexts of a message.
LEMMA CiphersMoved ==
    ASSUME TypeOK, ItemsSound, CiphersDue, [Next]_vars, NEW h \in Hubs, NEW m \in Texts,
           m \in texts'[h], ciphers'[h][m] # ciphers[h][m]
    PROVE  m \in texts[h] /\ ciphers'[h][m] \in {ciphers[h][m], ciphers[h][m] \cup Named[m]}
<1>1. TablesOK
  BY TypeParts
<1>2. ASSUME NEW i \in Hubs, NEW e, NEW tids, InsertCiphers(i, e, tids)
      PROVE  i = h /\ e = m /\ ciphers'[h][m] = ciphers[h][m] \cup tids /\ texts' = texts
  <2>1. /\ ciphers'[h][m] = IF h = i /\ m = e THEN ciphers[h][m] \cup tids ELSE ciphers[h][m]
        /\ texts' = texts
    BY <1>1, <1>2, InsertCiphersAt
  <2>2. QED
    BY <2>1
<1>3. ASSUME NEW i \in Hubs, NEW k, DeleteGroup(i, k)
      PROVE  FALSE
  <2>1. /\ texts'[h] = IF h = i THEN {x \in texts[h] : GroupOf[x] # k} ELSE texts[h]
        /\ ciphers'[h][m] = IF h = i /\ GroupOf[m] = k THEN {} ELSE ciphers[h][m]
    BY <1>1, <1>3, DeleteGroupAt
  <2>2. QED
    BY <2>1
<1>4. \A i \in Hubs, o \in Ops : ~ApplyOp(i, o)
  BY <1>3, OpStatement DEF InsertMembers, DeleteMembers
<1>5. ASSUME NEW j \in storing, Store(j)
      PROVE  m \in texts[h] /\ ciphers'[h][m] \in {ciphers[h][m], ciphers[h][m] \cup Named[m]}
  <2>1. j.hub \in Hubs /\ j.cur # NoItem /\ j.cur.env \in Texts /\ j.cur.env \in texts[j.hub]
        /\ InsertCiphers(j.hub, j.cur.env, j.cur.named)
    BY <1>4, <1>5, StoreStatements DEF tables, InsertGroup, InsertMembers, InsertText
  <2>2. j.hub = h /\ j.cur.env = m /\ ciphers'[h][m] = ciphers[h][m] \cup j.cur.named
    BY <1>2, <2>1
  <2>3. j.cur.named \in {{}, Named[m]}
    BY <2>1, <2>2 DEF ItemsSound, JobSound, ItemSound
  <2>4. QED
    BY <2>1, <2>2, <2>3
<1>6. ASSUME NEW j \in serving, Route(j)
      PROVE  m \in texts[h] /\ ciphers'[h][m] \in {ciphers[h][m], ciphers[h][m] \cup Named[m]}
  <2>1. j.hub \in Hubs /\ j.env \in texts[j.hub] /\ InsertCiphers(j.hub, j.env, Named[j.env])
    BY <1>4, <1>6, RouteStatements DEF tables, InsertGroup, InsertMembers, InsertText
  <2>2. QED
    BY <1>2, <2>1
<1>7. ~UNCHANGED tables
  BY DEF tables
<1>8. QED
  BY <1>5, <1>6, <1>7, TableSteps

LEMMA CiphersStep ==
    ASSUME TypeOK, TypeOK', ItemsSound, CiphersDue, [Next]_vars
    PROVE  CiphersDue'
<1> SUFFICES ASSUME NEW h \in Hubs, NEW m \in texts'[h]
             PROVE  /\ ciphers'[h][m] \in {{}, Named[m]}
                    /\ Form[m] = "json" /\ errors' = 0 =>
                         ciphers'[h][m] = Named[m] \/ Sealing(h, m)'
  BY DEF CiphersDue
<1>1. /\ TablesOK /\ m \in Texts /\ m \notin Creates /\ m \notin Ops
      /\ errors' = 0 => errors = 0
  BY TypeParts, StepGrows, DistinctAssumption DEF TypeOK, Grows
<1>2. CASE m \in texts[h]
  <2>1. /\ ciphers[h][m] \in {{}, Named[m]}
        /\ Form[m] = "json" /\ errors = 0 => ciphers[h][m] = Named[m] \/ Sealing(h, m)
    BY <1>2 DEF CiphersDue
  <2>2. ciphers'[h][m] \in {ciphers[h][m], ciphers[h][m] \cup Named[m]}
    BY <1>1, CiphersMoved
  <2>3. ciphers'[h][m] \in {{}, Named[m]} /\ (ciphers[h][m] = Named[m] => ciphers'[h][m] = Named[m])
    BY <2>1, <2>2
  <2>4. ASSUME errors' = 0, NEW j \in storing, j.hub = h, j.stage = "rest", j.cur # NoItem,
               j.cur.env = m, j.cur.named = Named[m]
        PROVE  ciphers'[h][m] = Named[m] \/ Sealing(h, m)'
    <3>1. CASE j \in storing'
      BY <2>4, <3>1 DEF Sealing
    <3>2. CASE Store(j)
      <4>1. InsertCiphers(h, m, Named[m])
        BY <1>1, <1>2, <2>4, <3>2
           DEF Store, StoreCreateRow, StoreCreateMembers, StoreText, StoreCiphers, StoreOp
      <4>2. ciphers'[h][m] = ciphers[h][m] \cup Named[m]
        BY <1>1, <4>1 DEF InsertCiphers, TablesOK
      <4>3. QED
        BY <2>1, <4>2
    <3>3. QED
      BY <2>4, <3>1, <3>2, Lingers
  <2>5. ASSUME errors' = 0, NEW j \in serving, j.hub = h, j.stage = "rest", j.env = m
        PROVE  ciphers'[h][m] = Named[m] \/ Sealing(h, m)'
    <3>1. CASE j \in serving'
      BY <2>5, <3>1 DEF Sealing
    <3>2. CASE Route(j)
      <4>1. InsertCiphers(h, m, Named[m])
        BY <1>1, <1>2, <2>5, <3>2
           DEF Route, RouteCheck, RouteDuplicate, RouteCreate, RouteSend, RouteOp
      <4>2. ciphers'[h][m] = ciphers[h][m] \cup Named[m]
        BY <1>1, <4>1 DEF InsertCiphers, TablesOK
      <4>3. QED
        BY <2>1, <4>2
    <3>3. QED
      BY <2>5, <3>1, <3>2, Lingers
  <2>6. Sealing(h, m) =>
          \/ \E j \in storing : /\ j.hub = h /\ j.stage = "rest" /\ j.cur # NoItem
                                /\ j.cur.env = m /\ j.cur.named = Named[m]
          \/ \E j \in serving : j.hub = h /\ j.stage = "rest" /\ j.env = m
    BY DEF Sealing
  <2>7. QED
    BY <1>1, <2>1, <2>3, <2>4, <2>5, <2>6
<1>3. CASE m \notin texts[h]
  <2>1. ciphers[h][m] = {} /\ ciphers'[h][m] = {}
    <3>1. ciphers[h][m] = {}
      BY <1>1, <1>3 DEF TablesOK
    <3>2. QED
      BY <1>1, <1>3, <3>1, CiphersMoved
  <2>2. m \notin Held(h, "create")
    BY <1>1 DEF Held
  <2>3. m \in (Held(h, "create") \cup texts[h])' \ (Held(h, "create") \cup texts[h])
    BY <1>3, <2>2
  <2>4. ASSUME NEW j \in storing, Store(j), j.hub = h, j.cur # NoItem, j.cur.env = m,
               Form[m] = "json"
        PROVE  Named[m] = {} \/ Sealing(h, m)'
    <3>1. j.cur.named = Named[m]
      BY <2>4 DEF ItemsSound, JobSound
    <3>2. texts' # texts
      BY <1>3
    <3>3. Named[m] # {} => Onwards(j)
      BY <1>1, <2>4, <3>1, <3>2
         DEF Store, StoreCreateRow, StoreCreateMembers, StoreText, StoreCiphers, StoreOp,
             InsertCiphers, tables
    <3>4. Onwards(j) => \E i \in storing' : i.hub = j.hub /\ i.cur = j.cur /\ i.stage = "rest"
      BY <2>4, StoreTrail
    <3>5. QED
      BY <2>4, <3>1, <3>3, <3>4 DEF Sealing
  <2>5. ASSUME NEW j \in serving, j.hub = h, j.env = m, Then(j, "rest")
        PROVE  Sealing(h, m)'
    <3>1. PICK i \in serving' : i.hub = h /\ i.env = m /\ i.stage = "rest"
      BY <2>5, ThenDone
    <3>2. QED
      BY <3>1 DEF Sealing
  <2>6. \/ \E j \in storing : Store(j) /\ j.hub = h /\ j.cur # NoItem /\ j.cur.env = m
        \/ \E j \in serving : j.hub = h /\ j.env = m /\ Then(j, "rest")
    BY <2>3, RowsGained
  <2>7. QED
    BY <2>1, <2>4, <2>5, <2>6
<1>4. QED
  BY <1>2, <1>3

----------------------------------------------------------------------------
(* The theorems about members and ciphertexts. *)

RightsKept == RightsInv /\ Aimed

LEMMA InitRights == Init => RightsKept
<1> SUFFICES ASSUME Init PROVE RightsKept
  OBVIOUS
<1>1. TypeOK /\ Aimed
  BY InitTypeOK, InitAimed
<1>2. /\ \A h \in Hubs, g \in Groups : ~Exists(h, g) /\ members[h][g] = {}
      /\ \A h \in Hubs : texts[h] = {} /\ Held(h, "create") = {}
      /\ wire = {} /\ storing = {} /\ serving = {} /\ given = {}
  <2>1. \A h \in Hubs : texts[h] = {} /\ \A g \in Groups : group[h][g] = NoGroup /\ members[h][g] = {}
    BY DEF Init
  <2>2. \A c \in Creates : GroupOf[c] \in Groups /\ c # NoGroup
    BY EnvelopesAssumption, DistinctAssumption DEF Envelopes
  <2>3. QED
    BY <2>1, <2>2 DEF Init, Exists, Held
<1>3. RowsFounded /\ ItemsSound /\ AllVouched
  BY <1>2 DEF RowsFounded, ItemsSound, AllVouched
<1>4. OpsRightful
  BY <1>2 DEF OpsRightful, Accepted, Applying
<1>5. EnvelopesKept
  BY <1>2 DEF EnvelopesKept
<1>6. CreatorEntered /\ CiphersDue
  BY <1>2 DEF CreatorEntered, CiphersDue
<1>7. QED
  BY <1>1, <1>3, <1>4, <1>5, <1>6 DEF RightsKept, RightsInv

LEMMA StepRights == RightsKept /\ [Next]_vars => RightsKept'
<1> SUFFICES ASSUME RightsKept, [Next]_vars PROVE RightsKept'
  OBVIOUS
<1>1. /\ TypeOK /\ Aimed /\ RowsFounded /\ ItemsSound /\ OpsRightful /\ EnvelopesKept
      /\ AllVouched /\ CreatorEntered /\ CiphersDue
  BY DEF RightsKept, RightsInv
<1>2. TypeOK' /\ Aimed'
  BY <1>1, StepTypeOK
<1>3. RowsFounded' /\ OpsRightful' /\ ItemsSound'
  BY <1>1, FoundedStep, RightfulStep, ItemsStep
<1>4. EnvelopesKept' /\ AllVouched' /\ CreatorEntered' /\ CiphersDue'
  BY <1>1, <1>2, <1>3, KeptStep, VouchedStep, CreatorStep, CiphersStep
<1>5. QED
  BY <1>2, <1>3, <1>4 DEF RightsKept, RightsInv

LEMMA RightsImply == RightsKept => MembersVouched /\ CiphersWhole
<1> SUFFICES ASSUME RightsKept PROVE MembersVouched /\ CiphersWhole
  OBVIOUS
<1>1. AllVouched /\ CreatorEntered /\ CiphersDue
  BY DEF RightsKept, RightsInv
<1>2. CreatorIsMember
  <2> SUFFICES ASSUME NEW h \in Hubs, NEW g \in Groups, Exists(h, g), errors = 0,
                      \A c \in CreatesOf(g) : /\ SignerOf[c] = Creator(h, g) /\ Form[c] = "json"
                                              /\ SignerOf[c] \in Named[c] /\ ~AtWork(h, c)
               PROVE  Creator(h, g) \in members[h][g]
    BY DEF CreatorIsMember
  <2>1. FoundedBy(g, Creator(h, g))
    BY DEF FoundedBy
  <2>2. ~Entering(h, g, Creator(h, g))
    BY DEF Entering, AtWork
  <2>3. QED
    BY <1>1, <2>1, <2>2 DEF CreatorEntered
<1>3. MembersVouched
  BY <1>1, <1>2 DEF MembersVouched, AllVouched, Vouched
<1>4. CiphersWhole
  BY <1>1 DEF CiphersWhole, CiphersDue, Sealing, AtWork
<1>5. QED
  BY <1>3, <1>4

\* A step of the inbox is a step of the groups or leaves them alone.
LEMMA InboxSteps == [DmNext]_<<vars, dmVars>> => [Next]_vars
  BY DEF DmNext, Faulty, Next

\* Messages, members and ciphertexts exist only under their group and message,
\* and every frame, offer, handler and request is of its shape and on an open
\* link, whatever hubs, clients and groups there are.
THEOREM GroupsTyped == DmSpec => []TypeOK
<1>1. DmInit => RightsKept
  BY InitRights DEF DmInit
<1>2. RightsKept /\ [DmNext]_<<vars, dmVars>> => RightsKept'
  BY StepRights, InboxSteps
<1>3. RightsKept => TypeOK
  BY DEF RightsKept, RightsInv
<1>4. QED
  BY <1>1, <1>2, <1>3, PTL DEF DmSpec

\* Only a creator of the group makes a member, at whatever hub and along
\* whatever path the row came; and the creator stays one.
THEOREM MembersAreVouched == DmSpec => []MembersVouched
<1>1. DmInit => RightsKept
  BY InitRights DEF DmInit
<1>2. RightsKept /\ [DmNext]_<<vars, dmVars>> => RightsKept'
  BY StepRights, InboxSteps
<1>3. RightsKept => MembersVouched
  BY RightsImply
<1>4. QED
  BY <1>1, <1>2, <1>3, PTL DEF DmSpec

\* A message's ciphertexts are there all or none, and all when its signed bytes
\* are JSON and its handler is through.
THEOREM CiphersAreWhole == DmSpec => []CiphersWhole
<1>1. DmInit => RightsKept
  BY InitRights DEF DmInit
<1>2. RightsKept /\ [DmNext]_<<vars, dmVars>> => RightsKept'
  BY StepRights, InboxSteps
<1>3. RightsKept => CiphersWhole
  BY RightsImply
<1>4. QED
  BY <1>1, <1>2, <1>3, PTL DEF DmSpec

\* Nobody leaves a member list but by an envelope of their own or of a creator
\* that some hub accepted.
THEOREM RemovalsAreByRight == DmSpec => RemovalsByRight
<1> DEFINE Right == \A h \in Hubs, g \in Groups : \A t \in members[h][g] \ members'[h][g] :
                      \E o \in Ops :
                        /\ GroupOf[o] = g /\ \E i \in Hubs : <<i, o>> \in given'
                        /\ \/ KindOf[o] = "leave" /\ SignerOf[o] = t
                           \/ KindOf[o] = "remove" /\ t \in Named[o] /\ ByCreator(o)
                           \/ KindOf[o] = "delete" /\ ByCreator(o)
<1>1. DmInit => RightsKept
  BY InitRights DEF DmInit
<1>2. RightsKept /\ [DmNext]_<<vars, dmVars>> => RightsKept'
  BY StepRights, InboxSteps
<1>3. ASSUME RightsKept, [DmNext]_<<vars, dmVars>>
      PROVE  Right
  <2> SUFFICES ASSUME NEW h \in Hubs, NEW g \in Groups, NEW t \in members[h][g] \ members'[h][g]
               PROVE  \E o \in Ops :
                        /\ GroupOf[o] = g /\ \E i \in Hubs : <<i, o>> \in given'
                        /\ \/ KindOf[o] = "leave" /\ SignerOf[o] = t
                           \/ KindOf[o] = "remove" /\ t \in Named[o] /\ ByCreator(o)
                           \/ KindOf[o] = "delete" /\ ByCreator(o)
    OBVIOUS
  <2>1. /\ TypeOK /\ ItemsSound /\ OpsRightful /\ [Next]_vars
        /\ given \subseteq given'
    <3>1. TypeOK /\ ItemsSound /\ OpsRightful /\ [Next]_vars
      BY <1>3, InboxSteps DEF RightsKept, RightsInv
    <3>2. QED
      BY <3>1, StepGrows DEF Grows
  <2>2. PICK o \in Ops :
             /\ GroupOf[o] = g /\ Ejects(o, t)
             /\ \/ \E j \in storing : j.hub = h /\ j.cur # NoItem /\ j.cur.env = o
                \/ \E j \in serving : /\ j.env = o /\ j.stage = "row"
                                      /\ <<j.hub, o>> \in given' /\ j.hub \in Hubs
    BY <2>1, MembersLost
  <2>3. CASE \E j \in storing : j.hub = h /\ j.cur # NoItem /\ j.cur.env = o
    <3>1. Accepted(o)
      BY <2>1, <2>3 DEF ItemsSound, JobSound, ItemSound
    <3>2. Rightful(o) /\ \E i \in Hubs : <<i, o>> \in given'
      BY <2>1, <3>1 DEF OpsRightful, Accepted
    <3>3. QED
      BY <2>2, <3>2 DEF Rightful, Ejects
  <2>4. CASE \E j \in serving : /\ j.env = o /\ j.stage = "row"
                                /\ <<j.hub, o>> \in given' /\ j.hub \in Hubs
    <3>1. Rightful(o) /\ \E i \in Hubs : <<i, o>> \in given'
      BY <2>1, <2>4 DEF OpsRightful, Applying
    <3>2. QED
      BY <2>2, <3>1 DEF Rightful, Ejects
  <2>5. QED
    BY <2>2, <2>3, <2>4
<1>4. QED
  BY <1>1, <1>2, <1>3, PTL DEF DmSpec, RemovalsByRight
=============================================================================
