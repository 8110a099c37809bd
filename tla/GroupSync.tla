------------------------------ MODULE GroupSync ------------------------------
(***************************************************************************)
(* Group DMs across hubs: the routes that create a group, send to it,      *)
(* leave it, add or remove a member and delete it; the frames that         *)
(* replicate those envelopes (group_create, group_msg, their have / want   *)
(* pairs and group_state_op); and the hello offers and catch-up walks that *)
(* repair creates and messages.  State ops are pushed once and never       *)
(* offered again.                                                          *)
(*                                                                         *)
(* A route or a frame handler is a record in serving / storing; each of    *)
(* its queries is one step, so handlers of one hub interleave between any  *)
(* two of them.  Frames of a socket start their handlers in order, but the *)
(* first await of each (the app-key lookup) lets a later one overtake.     *)
(***************************************************************************)
EXTENDS Naturals, FiniteSets

CONSTANTS
    Hubs, Tids, Groups,
    Creates, Texts, Ops, \* hashes of DM_GROUP_CREATE, DM_GROUP_SEND, other ops
    GroupOf,             \* GroupOf[e]: the signed group_id
    SignerOf,            \* SignerOf[e]: the signed tid
    Named,               \* Named[e]: member_tids, recipients, or {target tid}
    KindOf,              \* KindOf[o]: the type of a state op
    Form,                \* Form[e]: the client's dataB64 is JSON, protobuf, none
    Homes,               \* Homes[e]: the hubs its client submits it to
    Scenarios,           \* envelopes that clients submit, faults that may
                         \* happen, pairs that are connected from the start
    Strict,              \* hubs that run with config.requireDataB64
    NoGroup, NoItem

Envelopes == Creates \cup Texts \cup Ops
Kinds == {"leave", "add", "remove", "delete"}
Item == [env : Envelopes, named : SUBSET Tids, data : BOOLEAN]

ASSUME EnvelopesAssumption ==
    /\ GroupOf \in [Envelopes -> Groups]
    /\ SignerOf \in [Envelopes -> Tids]
    /\ Named \in [Envelopes -> SUBSET Tids]
    /\ KindOf \in [Ops -> Kinds]
    /\ Form \in [Envelopes -> {"json", "proto", "none"}]
    /\ Homes \in [Envelopes -> SUBSET Hubs]
    /\ Scenarios \subseteq
           [sent : SUBSET Envelopes, faults : Nat, linked : SUBSET SUBSET Hubs]
    /\ \A s \in Scenarios : \A l \in s.linked : \E h, p \in Hubs : h # p /\ l = {h, p}
ASSUME DistinctAssumption ==
    /\ Creates \cap Texts = {} /\ Creates \cap Ops = {} /\ Texts \cap Ops = {}
    /\ NoGroup \notin Creates /\ NoItem \notin Item
    /\ Strict \subseteq Hubs

VARIABLES
    group,     \* group[h][g]: hash of the create in dm_groups, or NoGroup
    founded,   \* creates that have had a row in dm_groups of some hub
    members,   \* members[h][g]: the tids of dm_group_members
    texts,     \* texts[h]: hashes in dm_group_messages
    ciphers,   \* ciphers[h][m]: recipients with a row in dm_group_ciphertexts
    envs,      \* envs[h]: hashes in signed_envelopes
    old,       \* old[h][p]: rows of h not newer than its last sync with p
    links,     \* pairs of hubs that have greeted each other on an open socket
    wire,      \* frames sent and not yet handled
    greeting,  \* offers a hello handler or a walk still has to make
    storing,   \* group_create, group_msg and group_state_op handlers
    serving,   \* requests past verifyAndPersistEnvelope
    clients,   \* <<h, e>>: a client has still to submit e to h
    given,     \* <<h, e>>: h accepted e from a client and pushed it
    skipped,   \* <<h, m>>: h logged "Skipped gossip group msg"
    errors,    \* failed queries, failed app-key lookups and restarts so far
    budget     \* errors, lost connections, walks, moved marks still to come

tables == <<group, founded, members, texts, ciphers>>
net == <<links, old>>
history == <<given, skipped>>
faults == <<errors, budget>>
vars == <<tables, envs, net, wire, greeting, storing, serving, clients,
          history, faults>>

----------------------------------------------------------------------------
ClassOf(e) == IF e \in Creates THEN "create" ELSE IF e \in Texts THEN "text" ELSE "op"
Creator(h, g) == SignerOf[group[h][g]]
Exists(h, g) == group[h][g] # NoGroup
Others(h) == Hubs \ {h}

\* Hashes of class c in the tables of h.
Held(h, c) == IF c = "create" THEN {e \in Creates : group[h][GroupOf[e]] = e}
              ELSE texts[h]

Have(h, p, c, es) == [type |-> "have", from |-> h, to |-> p, class |-> c, hashes |-> es]
Want(h, p, c, es) == [type |-> "want", from |-> h, to |-> p, class |-> c, hashes |-> es]
Ship(h, p, c, is) == [type |-> "ship", from |-> h, to |-> p, class |-> c, items |-> is]

\* gossipGroupCreate, gossipGroupMessage, gossipGroupStateOp: to every peer.
Push(h, e) ==
    LET item == [env |-> e, named |-> Named[e], data |-> Form[e] # "none"] IN
    wire' = wire \cup {Ship(h, p, ClassOf(e), {item}) : p \in {q \in Others(h) : {h, q} \in links}}

\* A row inserted now is newer than every last sync.
Fresh(h, e) == [old EXCEPT ![h] = [p \in Hubs |-> @[p] \ {e}]]

----------------------------------------------------------------------------
(* The statements routes and handlers share. *)

\* INSERT INTO dm_groups ... ON CONFLICT (id) DO NOTHING
InsertGroup(h, e) ==
    /\ IF Exists(h, GroupOf[e]) THEN UNCHANGED <<group, founded, old>>
       ELSE /\ group' = [group EXCEPT ![h][GroupOf[e]] = e]
            /\ founded' = founded \cup {e}
            /\ old' = Fresh(h, e)
    /\ UNCHANGED <<members, texts, ciphers>>

InsertMembers(h, g, tids) ==
    /\ members' = [members EXCEPT ![h][g] = @ \cup tids]
    /\ UNCHANGED <<group, founded, texts, ciphers, old>>

DeleteMembers(h, g, tids) ==
    /\ members' = [members EXCEPT ![h][g] = @ \ tids]
    /\ UNCHANGED <<group, founded, texts, ciphers, old>>

InsertText(h, e) ==
    /\ texts' = [texts EXCEPT ![h] = @ \cup {e}]
    /\ old' = Fresh(h, e)
    /\ UNCHANGED <<group, founded, members, ciphers>>

InsertCiphers(h, e, tids) ==
    /\ ciphers' = [ciphers EXCEPT ![h][e] = @ \cup tids]
    /\ UNCHANGED <<group, founded, members, texts, old>>

\* DELETE FROM dm_groups cascades to members, messages and their ciphertexts.
DeleteGroup(h, g) ==
    /\ group' = [group EXCEPT ![h][g] = NoGroup]
    /\ members' = [members EXCEPT ![h][g] = {}]
    /\ texts' = [texts EXCEPT ![h] = {m \in @ : GroupOf[m] # g}]
    /\ ciphers' = [ciphers EXCEPT ![h] =
                      [m \in Texts |-> IF GroupOf[m] = g THEN {} ELSE @[m]]]
    /\ UNCHANGED <<founded, old>>

\* An ADD names a group that must exist; the deletes match what is there.
Applicable(h, o) == KindOf[o] = "add" => Exists(h, GroupOf[o])

\* Mutant: a gossiped or local LEAVE clears the row of the creator's choice.
ApplyOpLeavingAll(h, o) ==
    CASE KindOf[o] = "leave"  -> DeleteMembers(h, GroupOf[o], Tids)
      [] KindOf[o] = "remove" -> DeleteMembers(h, GroupOf[o], Named[o])
      [] KindOf[o] = "add"    -> InsertMembers(h, GroupOf[o], Named[o])
      [] KindOf[o] = "delete" -> DeleteGroup(h, GroupOf[o])

ApplyOp(h, o) ==
    CASE KindOf[o] = "leave"  -> DeleteMembers(h, GroupOf[o], {SignerOf[o]})
      [] KindOf[o] = "remove" -> DeleteMembers(h, GroupOf[o], Named[o])
      [] KindOf[o] = "add"    -> InsertMembers(h, GroupOf[o], Named[o])
      [] KindOf[o] = "delete" -> DeleteGroup(h, GroupOf[o])

----------------------------------------------------------------------------
Init ==
    /\ group = [h \in Hubs |-> [g \in Groups |-> NoGroup]]
    /\ founded = {}
    /\ members = [h \in Hubs |-> [g \in Groups |-> {}]]
    /\ texts = [h \in Hubs |-> {}]
    /\ ciphers = [h \in Hubs |-> [m \in Texts |-> {}]]
    /\ envs = [h \in Hubs |-> {}]
    /\ old = [h \in Hubs |-> [p \in Hubs |-> {}]]
    /\ wire = {}
    /\ greeting = {} /\ storing = {} /\ serving = {}
    /\ \E scenario \in Scenarios :
         /\ clients = UNION {Homes[e] \X {e} : e \in scenario.sent}
         /\ budget = scenario.faults
         /\ links = scenario.linked
    /\ given = {} /\ skipped = {}
    /\ errors = 0

----------------------------------------------------------------------------
(* Connections and offers. *)

Upset == budget > 0 /\ budget' = budget - 1 /\ errors' = errors
Error == budget > 0 /\ budget' = budget - 1 /\ errors' = errors + 1

\* Both ends have handled hello: each is about to offer its creates and then
\* its messages.
Link(h, p) ==
    /\ h # p /\ {h, p} \notin links
    /\ links' = links \cup {{h, p}}
    /\ greeting' = greeting \cup {[hub |-> i, to |-> {h, p} \ {i}, class |-> "create",
                                   all |-> FALSE] : i \in {h, p}}
    /\ UNCHANGED <<tables, envs, old, wire, storing, serving, clients, history, faults>>

\* broadcastHaveSince from the epoch, to one connected peer.
Walk(h, p) ==
    /\ {h, p} \in links
    /\ Upset
    /\ greeting' = greeting \cup
           {[hub |-> h, to |-> {p}, class |-> "create", all |-> TRUE]}
    /\ UNCHANGED <<tables, envs, net, wire, storing, serving, clients, history>>

\* Mutant: hello offers the groups and forgets the messages.
OfferCreatesOnly(g) ==
    LET p == CHOOSE q \in g.to : TRUE
        es == Held(g.hub, g.class) \ (IF g.all THEN {} ELSE old[g.hub][p])
    IN  /\ wire' = IF es = {} THEN wire ELSE wire \cup {Have(g.hub, p, g.class, es)}
        /\ greeting' = greeting \ {g}
        /\ UNCHANGED <<tables, envs, net, storing, serving, clients, history, faults>>

\* getGroupCreateHashes, then getGroupMsgHashes, and a frame for what is there.
Offer(g) ==
    LET p == CHOOSE q \in g.to : TRUE
        es == Held(g.hub, g.class) \ (IF g.all THEN {} ELSE old[g.hub][p])
    IN  /\ wire' = IF es = {} THEN wire ELSE wire \cup {Have(g.hub, p, g.class, es)}
        /\ greeting' = (greeting \ {g}) \cup
               (IF g.class = "create" THEN {[g EXCEPT !.class = "text"]} ELSE {})
        /\ UNCHANGED <<tables, envs, net, storing, serving, clients, history, faults>>

\* A tweet of p is stored: h's last sync with p is now, whatever group rows it
\* has not offered yet.
TweetStored(h, p) ==
    /\ {h, p} \in links
    /\ Upset
    /\ old[h][p] # Held(h, "create") \cup texts[h]
    /\ old' = [old EXCEPT ![h][p] = Held(h, "create") \cup texts[h]]
    /\ UNCHANGED <<tables, envs, links, wire, greeting, storing, serving, clients, history>>

Unlink(lost) ==
    /\ links' = links \ lost
    /\ wire' = {f \in wire : {f.from, f.to} \notin lost}
    /\ greeting' = {g \in greeting : g.to \cup {g.hub} \notin lost}

Drop(h, p) ==
    /\ {h, p} \in links
    /\ Upset
    /\ Unlink({{h, p}})
    /\ UNCHANGED <<tables, envs, old, storing, serving, clients, history>>

\* Hub h restarts: its handlers and requests die with it.
Crash(h) ==
    /\ Error
    /\ Unlink({l \in links : h \in l})
    /\ storing' = {j \in storing : j.hub # h}
    /\ serving' = {j \in serving : j.hub # h}
    /\ UNCHANGED <<tables, envs, old, clients, history>>

----------------------------------------------------------------------------
(* have and want. *)

HandleHave(f) ==
    LET missing == f.hashes \ Held(f.to, f.class) IN
    /\ f.type = "have"
    /\ wire' = (wire \ {f}) \cup
           (IF missing = {} THEN {} ELSE {Want(f.to, f.from, f.class, missing)})
    /\ UNCHANGED <<tables, envs, net, greeting, storing, serving, clients, history, faults>>

\* A create goes out with the members of now, a message with the ciphertexts
\* it has by now.
Pulled(h, es) ==
    {[env |-> e, data |-> e \in envs[h],
      named |-> IF e \in Creates THEN members[h][GroupOf[e]] ELSE ciphers[h][e]] : e \in es}

HandleWant(f) ==
    LET es == f.hashes \cap Held(f.to, f.class) IN
    /\ f.type = "want"
    /\ wire' = (wire \ {f}) \cup
           (IF es = {} THEN {} ELSE {Ship(f.to, f.from, f.class, Pulled(f.to, es))})
    /\ UNCHANGED <<tables, envs, net, greeting, storing, serving, clients, history, faults>>

----------------------------------------------------------------------------
(* group_create, group_msg, group_state_op: item by item. *)

HandleShip(f) ==
    /\ f.type = "ship"
    /\ wire' = wire \ {f}
    /\ storing' = storing \cup
           {[hub |-> f.to, from |-> f.from, todo |-> f.items, cur |-> NoItem, stage |-> "row"]}
    /\ UNCHANGED <<tables, envs, net, greeting, serving, clients, history, faults>>

\* Mutant: the received list is kept although the signed bytes have another.
BelievedWire(item) == item

\* Signed JSON bytes replace the projection that came with them.
Believed(item) ==
    IF item.data /\ Form[item.env] = "json"
    THEN [item EXCEPT !.named = Named[item.env]] ELSE item

\* Signature, dataB64 and app key are good: the envelope is kept.
Accept(j) ==
    /\ j.cur = NoItem
    /\ \E item \in j.todo :
         /\ j.hub \in Strict => item.data
         /\ envs' = IF item.data THEN [envs EXCEPT ![j.hub] = @ \cup {item.env}] ELSE envs
         /\ storing' = (storing \ {j}) \cup
                {[j EXCEPT !.todo = @ \ {item}, !.cur = Believed(item), !.stage = "row"]}
    /\ UNCHANGED <<tables, net, wire, greeting, serving, clients, history, faults>>

\* dataB64 is required and absent, or the app-key lookup throws.
Reject(j) ==
    /\ j.cur = NoItem
    /\ \E item \in j.todo :
         /\ \/ j.hub \in Strict /\ ~item.data /\ UNCHANGED faults
            \/ Error
         /\ storing' = (storing \ {j}) \cup {[j EXCEPT !.todo = @ \ {item}]}
    /\ UNCHANGED <<tables, envs, net, wire, greeting, serving, clients, history>>

\* The handler is through with its item.
NextItem(j) == storing' = (storing \ {j}) \cup {[j EXCEPT !.cur = NoItem]}
\* The item's second statement is due.
Onwards(j) == storing' = (storing \ {j}) \cup {[j EXCEPT !.stage = "rest"]}
\* A statement throws past the loop: the rest of the frame is lost.
Abandon(j) == storing' = storing \ {j}

StoreCreateRow(j) ==
    /\ j.stage = "row" /\ j.cur.env \in Creates
    /\ InsertGroup(j.hub, j.cur.env)
    /\ IF j.cur.named = {} THEN NextItem(j) ELSE Onwards(j)
    /\ UNCHANGED skipped

StoreCreateMembers(j) ==
    LET g == GroupOf[j.cur.env] IN
    /\ j.stage = "rest" /\ j.cur.env \in Creates
    /\ IF Exists(j.hub, g)
       THEN InsertMembers(j.hub, g, j.cur.named) /\ NextItem(j)
       ELSE Abandon(j) /\ UNCHANGED <<tables, old>>
    /\ UNCHANGED skipped

StoreText(j) ==
    LET e == j.cur.env IN
    /\ j.stage = "row" /\ e \in Texts
    /\ \/ /\ Exists(j.hub, GroupOf[e]) /\ e \notin texts[j.hub]
          /\ InsertText(j.hub, e)
          /\ IF j.cur.named = {} THEN NextItem(j) ELSE Onwards(j)
          /\ UNCHANGED skipped
       \/ /\ e \in texts[j.hub]
          /\ NextItem(j) /\ UNCHANGED <<tables, old, skipped>>
       \/ /\ ~Exists(j.hub, GroupOf[e])
          /\ skipped' = skipped \cup {<<j.hub, e>>}
          /\ NextItem(j) /\ UNCHANGED <<tables, old>>

StoreCiphers(j) ==
    LET e == j.cur.env IN
    /\ j.stage = "rest" /\ e \in Texts
    /\ IF e \in texts[j.hub]
       THEN InsertCiphers(j.hub, e, j.cur.named) /\ UNCHANGED skipped
       ELSE skipped' = skipped \cup {<<j.hub, e>>} /\ UNCHANGED <<tables, old>>
    /\ NextItem(j)

StoreOp(j) ==
    /\ j.cur.env \in Ops
    /\ IF Applicable(j.hub, j.cur.env)
       THEN ApplyOp(j.hub, j.cur.env) /\ NextItem(j)
       ELSE Abandon(j) /\ UNCHANGED <<tables, old>>
    /\ UNCHANGED skipped

Store(j) ==
    /\ j.cur # NoItem
    /\ \/ StoreCreateRow(j) \/ StoreCreateMembers(j)
       \/ StoreText(j) \/ StoreCiphers(j) \/ StoreOp(j)
    /\ UNCHANGED <<envs, links, wire, greeting, serving, clients, given, faults>>

FinishStore(j) ==
    /\ j.cur = NoItem /\ j.todo = {}
    /\ storing' = storing \ {j}
    /\ UNCHANGED <<tables, envs, net, wire, greeting, serving, clients, history, faults>>

\* A query throws.  The catch around a message's two inserts goes on with the
\* next item; anything else ends the frame.
StoreFails(j) ==
    /\ Error
    /\ IF j.cur # NoItem /\ j.cur.env \in Texts THEN NextItem(j) ELSE Abandon(j)
    /\ UNCHANGED <<tables, envs, net, wire, greeting, serving, clients, history>>

----------------------------------------------------------------------------
(* The /v1/dm/groups routes. *)

\* verifyAndPersistEnvelope.
Request(h, e) ==
    /\ <<h, e>> \in clients
    /\ clients' = clients \ {<<h, e>>}
    /\ IF h \in Strict /\ Form[e] = "none" THEN UNCHANGED <<envs, serving>>
       ELSE /\ envs' = IF Form[e] = "none" THEN envs ELSE [envs EXCEPT ![h] = @ \cup {e}]
            /\ serving' = serving \cup
                   {[hub |-> h, env |-> e,
                     stage |-> IF e \in Creates THEN "row" ELSE "check"]}
    /\ UNCHANGED <<tables, net, wire, greeting, storing, history, faults>>

\* Mutant: anyone may remove or add a member.
PermittedToAll(h, e) ==
    LET g == GroupOf[e] IN
    IF e \in Texts THEN SignerOf[e] \in members[h][g]
    ELSE /\ Exists(h, g)
         /\ KindOf[e] = "leave" => Creator(h, g) # SignerOf[e]

\* The 403 and 404 answers: a sender is a member; a group has to exist; its
\* creator adds, removes others and deletes, and anyone else leaves.
Permitted(h, e) ==
    LET g == GroupOf[e] IN
    IF e \in Texts THEN SignerOf[e] \in members[h][g]
    ELSE /\ Exists(h, g)
         /\ (KindOf[e] = "leave") # (Creator(h, g) = SignerOf[e])
         /\ KindOf[e] = "remove" => Creator(h, g) \notin Named[e]

Done(j) == serving' = serving \ {j}
Then(j, stage) == serving' = (serving \ {j}) \cup {[j EXCEPT !.stage = stage]}
Answered(j) == /\ Done(j) /\ Push(j.hub, j.env)
               /\ given' = given \cup {<<j.hub, j.env>>}
Failed(j) == Done(j) /\ UNCHANGED <<tables, old, wire, given>>

RouteCheck(j) ==
    /\ j.stage = "check"
    /\ IF Permitted(j.hub, j.env)
       THEN Then(j, IF j.env \in Texts THEN "dup" ELSE "row") ELSE Done(j)
    /\ UNCHANGED <<tables, old, wire, given>>

RouteDuplicate(j) ==
    /\ j.stage = "dup"
    /\ IF j.env \in texts[j.hub] THEN Done(j) ELSE Then(j, "row")
    /\ UNCHANGED <<tables, old, wire, given>>

RouteCreate(j) ==
    LET g == GroupOf[j.env] IN
    /\ j.env \in Creates
    /\ \/ /\ j.stage = "row"
          /\ InsertGroup(j.hub, j.env)
          /\ Then(j, "rest") /\ UNCHANGED <<wire, given>>
       \/ /\ j.stage = "rest" /\ Exists(j.hub, g)
          /\ InsertMembers(j.hub, g, Named[j.env]) /\ Answered(j)
       \/ j.stage = "rest" /\ ~Exists(j.hub, g) /\ Failed(j)

\* Without ON CONFLICT: a row that came by gossip meanwhile fails the request.
RouteSend(j) ==
    /\ j.env \in Texts
    /\ \/ /\ j.stage = "row" /\ Exists(j.hub, GroupOf[j.env]) /\ j.env \notin texts[j.hub]
          /\ InsertText(j.hub, j.env)
          /\ Then(j, "rest") /\ UNCHANGED <<wire, given>>
       \/ /\ j.stage = "row" /\ (~Exists(j.hub, GroupOf[j.env]) \/ j.env \in texts[j.hub])
          /\ Failed(j)
       \/ /\ j.stage = "rest" /\ j.env \in texts[j.hub]
          /\ InsertCiphers(j.hub, j.env, Named[j.env]) /\ Answered(j)
       \/ j.stage = "rest" /\ j.env \notin texts[j.hub] /\ Failed(j)

RouteOp(j) ==
    /\ j.env \in Ops /\ j.stage = "row"
    /\ IF Applicable(j.hub, j.env) THEN ApplyOp(j.hub, j.env) /\ Answered(j)
       ELSE Failed(j)

Route(j) ==
    /\ RouteCheck(j) \/ RouteDuplicate(j) \/ RouteCreate(j) \/ RouteSend(j) \/ RouteOp(j)
    /\ UNCHANGED <<envs, links, greeting, storing, clients, skipped, faults>>

RouteFails(j) ==
    /\ Error
    /\ Failed(j)
    /\ UNCHANGED <<envs, links, greeting, storing, clients, skipped>>

----------------------------------------------------------------------------
Handle(f) == HandleHave(f) \/ HandleWant(f) \/ HandleShip(f)
Process(j) == Accept(j) \/ Store(j) \/ FinishStore(j)

Step ==
    \/ \E h, p \in Hubs : Link(h, p) \/ Walk(h, p) \/ TweetStored(h, p)
    \/ \E h \in Hubs, e \in Envelopes : Request(h, e)
    \/ \E g \in greeting : Offer(g)
    \/ \E f \in wire : Handle(f)
    \/ \E j \in storing : Process(j) \/ Reject(j) \/ StoreFails(j)
    \/ \E j \in serving : Route(j) \/ RouteFails(j)

Next ==
    \/ Step
    \/ \E h, p \in Hubs : Drop(h, p)
    \/ \E h \in Hubs : Crash(h)

Spec == Init /\ [][Next]_vars

----------------------------------------------------------------------------
(* Properties. *)

Stages == {"row", "rest", "check", "dup"}
StoreJob == [hub : Hubs, from : Hubs, todo : SUBSET Item, cur : Item \cup {NoItem},
             stage : {"row", "rest"}]
Frame ==
    [type : {"have", "want"}, from : Hubs, to : Hubs, class : {"create", "text"},
     hashes : SUBSET (Creates \cup Texts)]
    \cup [type : {"ship"}, from : Hubs, to : Hubs, class : {"create", "text", "op"},
          items : SUBSET Item]

\* Every variable stays in its type; members, messages and ciphertexts exist
\* only under their group and message (the ON DELETE CASCADE of migration 011).
TypeOK ==
    /\ group \in [Hubs -> [Groups -> Creates \cup {NoGroup}]]
    /\ founded \subseteq Creates
    /\ members \in [Hubs -> [Groups -> SUBSET Tids]]
    /\ texts \in [Hubs -> SUBSET Texts]
    /\ ciphers \in [Hubs -> [Texts -> SUBSET Tids]]
    /\ envs \in [Hubs -> SUBSET Envelopes]
    /\ old \in [Hubs -> [Hubs -> SUBSET (Creates \cup Texts)]]
    /\ links \subseteq {{h, p} : h, p \in Hubs}
    /\ wire \subseteq Frame
    /\ greeting \subseteq [hub : Hubs, to : SUBSET Hubs, class : {"create", "text"},
                           all : BOOLEAN]
    /\ storing \subseteq StoreJob
    /\ serving \subseteq [hub : Hubs, env : Envelopes, stage : Stages]
    /\ clients \subseteq Hubs \X Envelopes /\ given \subseteq Hubs \X Envelopes
    /\ skipped \subseteq Hubs \X Texts
    /\ {errors, budget} \subseteq Nat
    /\ \A h \in Hubs : /\ \A g \in Groups : members[h][g] # {} => Exists(h, g)
                       /\ \A m \in texts[h] : Exists(h, GroupOf[m])
                       /\ \A m \in Texts : ciphers[h][m] # {} => m \in texts[h]

Accepted(e) == \E h \in Hubs : <<h, e>> \in given

\* The creates of group id g that some hub has accepted or has had a row of.
CreatesOf(g) == {c \in Creates : GroupOf[c] = g /\ (c \in founded \/ Accepted(c))}
ByCreator(e) == \E c \in CreatesOf(GroupOf[e]) : SignerOf[c] = SignerOf[e]

AtWork(h, e) ==
    \/ \E j \in storing : j.hub = h /\ j.cur # NoItem /\ j.cur.env = e
    \/ \E j \in serving : j.hub = h /\ j.env = e

\* "Creator cannot leave their own group" (dms.ts:578): unless two clients have
\* created the same id, the creator of a signed-JSON create is on the member
\* list of every hub that has finished storing the group, whatever order
\* leaves, removals, late creates and deletes are applied in.
CreatorIsMember ==
    \A h \in Hubs, g \in Groups :
        (/\ Exists(h, g) /\ errors = 0
         /\ \A c \in CreatesOf(g) : /\ SignerOf[c] = Creator(h, g) /\ Form[c] = "json"
                                    /\ SignerOf[c] \in Named[c] /\ ~AtWork(h, c))
        => Creator(h, g) \in members[h][g]

\* A tid is a member at some hub only because a creator of the group named it:
\* in the create, or in an ADD that a hub accepted from its client.  The
\* receivers check no rights (sync.ts:845-848), so this rests on the origin's
\* check and on nothing else turning a frame into a membership.  And the creator
\* is a member.
MembersVouched ==
    /\ \A h \in Hubs, g \in Groups : \A t \in members[h][g] :
         \/ \E c \in CreatesOf(g) : t \in Named[c]
         \/ \E o \in Ops : /\ KindOf[o] = "add" /\ GroupOf[o] = g /\ t \in Named[o]
                           /\ Accepted(o) /\ ByCreator(o)
    /\ CreatorIsMember

\* A step takes a tid off a member list only for a signed envelope that some
\* hub accepted: the tid's own LEAVE, or the creator's REMOVE of it or DELETE
\* (dms.ts:550-790, sync.ts:855-936).
RemovalsByRight ==
    [][\A h \in Hubs, g \in Groups : \A t \in members[h][g] \ members'[h][g] :
         \E o \in Ops :
            /\ GroupOf[o] = g /\ \E i \in Hubs : <<i, o>> \in given'
            /\ \/ KindOf[o] = "leave" /\ SignerOf[o] = t
               \/ KindOf[o] = "remove" /\ t \in Named[o] /\ ByCreator(o)
               \/ KindOf[o] = "delete" /\ ByCreator(o)]_members

\* The ciphertexts of a message are stored all or none, and when its signed
\* bytes are JSON none are missing once its handler is through: a relay that
\* answers a want between its own two inserts sends an empty list, and the
\* signed bytes make up for it (sync.ts:565-605).
CiphersWhole ==
    \A h \in Hubs : \A m \in texts[h] :
        /\ ciphers[h][m] \in {{}, Named[m]}
        /\ (Form[m] = "json" /\ errors = 0 /\ ~AtWork(h, m)) => ciphers[h][m] = Named[m]

Quiet(h, p) ==
    /\ {h, p} \in links
    /\ \A f \in wire : {f.from, f.to} # {h, p}
    /\ \A g \in greeting : g.to \cup {g.hub} # {h, p}
    /\ \A j \in storing : {j.hub, j.from} # {h, p}
    /\ \A j \in serving : j.hub # h

\* What hello and push do guarantee: a quiet pair has exchanged every group and
\* message a client gave h since its last sync with p, however connections were
\* lost on the way, but for the messages p logged as skipped because they
\* overtook their group (protocol.ts:507-537, sync.ts:688-770).
GroupsExchanged ==
    \A h, p \in Hubs : (h # p /\ errors = 0 /\ Quiet(h, p)) =>
        \A e \in (Held(h, "create") \cup Held(h, "text")) \ old[h][p] :
            (/\ <<h, e>> \in given /\ (p \in Strict => Form[e] # "none")
             /\ \A o \in Ops : KindOf[o] = "delete" => ~Accepted(o)) =>
            \/ Exists(p, GroupOf[e]) /\ (e \in Texts => e \in texts[p])
            \/ <<p, e>> \in skipped
=============================================================================
