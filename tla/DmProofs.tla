------------------------------ MODULE DmProofs ------------------------------
(***************************************************************************)
(* More proofs about GroupSync and DmInbox: a quiet pair of hubs has       *)
(* exchanged the groups and messages clients gave it, the inbox of a relay *)
(* is in order, and a read receipt is the newest one submitted.            *)
(***************************************************************************)
EXTENDS GroupProofs, FiniteSetTheorems

(* What GroupSync's steps maintain about delivery. *)

NoDelete == \A o \in Ops : KindOf[o] = "delete" => ~Accepted(o)

\* A frame carries one class.
OneClass ==
    /\ \A f \in wire :
         /\ f.type \in {"have", "want"} => f.hashes \subseteq OfClass(f.class)
         /\ f.type = "ship" => \A i \in f.items : i.env \in OfClass(f.class)
    /\ \A j \in storing : \E c \in {"create", "text", "op"} :
         /\ \A i \in j.todo : i.env \in OfClass(c)
         /\ j.cur # NoItem => j.cur.env \in OfClass(c)

\* Without deletes, rows stay.
RowsStay == NoDelete =>
    /\ \A h \in Hubs : /\ \A c \in Creates : <<h, c>> \in given => Exists(h, GroupOf[c])
                       /\ \A m \in Texts : <<h, m>> \in given => m \in texts[h]
    /\ \A j \in storing : (j.stage = "rest" /\ j.cur # NoItem /\ j.cur.env \in Creates)
           => Exists(j.hub, GroupOf[j.cur.env])

\* A client gave e to h, which has still to offer it to its peer p.
Owed(h, p, e) ==
    /\ h # p /\ {h, p} \in links
    /\ e \in (Held(h, "create") \cup Held(h, "text")) \ old[h][p]
    /\ <<h, e>> \in given /\ (p \in Strict => Form[e] # "none")

Delivered(p, e) ==
    \/ Exists(p, GroupOf[e]) /\ (e \in Texts => e \in texts[p])
    \/ <<p, e>> \in skipped

\* An item that p's handler will not refuse for want of signed bytes.
Carries(items, p, e) == \E i \in items : i.env = e /\ (p \in Strict => i.data)

\* How far e has come from h to p: an offer to make, a have, a want, a ship, a
\* handler.
ToOffer(h, p, e) == \E g \in greeting :
    g.hub = h /\ g.to = {p} /\ (e \in Texts \/ g.class = "create")
Offered(h, p, e) == \E f \in wire : f.type = "have" /\ f.from = h /\ f.to = p /\ e \in f.hashes
Wanted(h, p, e) == \E f \in wire : f.type = "want" /\ f.from = p /\ f.to = h /\ e \in f.hashes
Shipped(h, p, e) == \E f \in wire :
    f.type = "ship" /\ f.from = h /\ f.to = p /\ Carries(f.items, p, e)
Received(h, p, e) == \E j \in storing :
    j.hub = p /\ j.from = h /\ (Carries(j.todo, p, e) \/ (j.cur # NoItem /\ j.cur.env = e))

OnItsWay(h, p, e) == \/ ToOffer(h, p, e) \/ Offered(h, p, e) \/ Wanted(h, p, e)
                     \/ Shipped(h, p, e) \/ Received(h, p, e)

Delivering == errors = 0 /\ NoDelete =>
    \A h, p \in Hubs, e \in Creates \cup Texts :
        Owed(h, p, e) => Delivered(p, e) \/ OnItsWay(h, p, e)

ExchangeInv == RightsKept /\ OneClass /\ RowsStay /\ Delivering

----------------------------------------------------------------------------
(* What stays, and what takes it away. *)

LEMMA WireStays ==
    ASSUME TypeOK, [Next]_vars, NEW f \in wire, {f.from, f.to} \in links'
    PROVE  f \in wire' \/ Handle(f)
<1>1. ASSUME NEW lost, Unlink(lost)
      PROVE  f \in wire'
  BY <1>1 DEF Unlink
<1>2. ASSUME NEW g \in greeting, Offer(g)
      PROVE  wire \subseteq wire'
  BY <1>2 DEF Offer
<1>3. ASSUME NEW x \in wire, Handle(x)
      PROVE  x = f \/ f \in wire'
  BY <1>3 DEF Handle, HandleHave, HandleWant, HandleShip
<1>4. ASSUME NEW j \in serving, Route(j)
      PROVE  wire \subseteq wire'
  BY <1>4, RouteStatements, PushShape DEF Answered
<1>5. ASSUME NEW j \in serving, RouteFails(j)
      PROVE  wire' = wire
  BY <1>5 DEF RouteFails, Failed
<1>6. ASSUME NEW j \in storing, Process(j) \/ Reject(j) \/ StoreFails(j)
      PROVE  wire' = wire
  BY <1>6 DEF Process, Accept, Store, FinishStore, Reject, StoreFails
<1>7. \A h, p : Drop(h, p) => \E lost : Unlink(lost)
  BY DEF Drop
<1>8. \A h : Crash(h) => \E lost : Unlink(lost)
  BY DEF Crash
<1>9. \A h, p : Link(h, p) \/ Walk(h, p) \/ TweetStored(h, p) => wire' = wire
  BY DEF Link, Walk, TweetStored
<1>10. \A h, e : Request(h, e) => wire' = wire
  BY DEF Request
<1>11. CASE UNCHANGED vars
  BY <1>11 DEF vars
<1>12. QED
  BY <1>1, <1>2, <1>3, <1>4, <1>5, <1>6, <1>7, <1>8, <1>9, <1>10, <1>11 DEF Next, Step

LEMMA GreetingStays ==
    ASSUME TypeOK, [Next]_vars, NEW g \in greeting, g.to \cup {g.hub} \in links'
    PROVE  g \in greeting' \/ Offer(g)
<1>1. ASSUME NEW lost, Unlink(lost)
      PROVE  g \in greeting'
  BY <1>1 DEF Unlink
<1>2. ASSUME NEW x \in greeting, Offer(x)
      PROVE  x = g \/ g \in greeting'
  BY <1>2 DEF Offer
<1>3. ASSUME NEW f \in wire, Handle(f)
      PROVE  greeting' = greeting
  BY <1>3 DEF Handle, HandleHave, HandleWant, HandleShip
<1>4. ASSUME NEW j \in serving, Route(j) \/ RouteFails(j)
      PROVE  greeting' = greeting
  BY <1>4 DEF Route, RouteFails
<1>5. ASSUME NEW j \in storing, Process(j) \/ Reject(j) \/ StoreFails(j)
      PROVE  greeting' = greeting
  BY <1>5 DEF Process, Accept, Store, FinishStore, Reject, StoreFails
<1>6. \A h, p : Drop(h, p) => \E lost : Unlink(lost)
  BY DEF Drop
<1>7. \A h : Crash(h) => \E lost : Unlink(lost)
  BY DEF Crash
<1>8. \A h, p : Link(h, p) \/ Walk(h, p) \/ TweetStored(h, p) => greeting \subseteq greeting'
  BY DEF Link, Walk, TweetStored
<1>9. \A h, e : Request(h, e) => greeting' = greeting
  BY DEF Request
<1>10. CASE UNCHANGED vars
  BY <1>10 DEF vars
<1>11. QED
  BY <1>1, <1>2, <1>3, <1>4, <1>5, <1>6, <1>7, <1>8, <1>9, <1>10 DEF Next, Step

LEMMA StoringStays ==
    ASSUME TypeOK, [Next]_vars, errors' = 0, NEW j \in storing
    PROVE  j \in storing' \/ Process(j) \/ Reject(j)
<1>1. errors \in Nat
  BY DEF TypeOK
<1>2. ~Error
  BY <1>1 DEF Error
<1>3. ASSUME NEW x \in storing, Process(x) \/ Reject(x)
      PROVE  x = j \/ j \in storing'
  <2>1. CASE Store(x)
    <3>1. storing \ {x} \subseteq storing'
      BY <2>1, StoreTrail
    <3>2. QED
      BY <3>1
  <2>2. QED
    BY <1>3, <2>1 DEF Process, Accept, FinishStore, Reject
<1>4. ASSUME NEW f \in wire, Handle(f)
      PROVE  storing \subseteq storing'
  BY <1>4 DEF Handle, HandleHave, HandleWant, HandleShip
<1>5. ASSUME NEW x \in serving, Route(x) \/ RouteFails(x)
      PROVE  storing' = storing
  BY <1>5 DEF Route, RouteFails
<1>6. \A g : Offer(g) => storing' = storing
  BY DEF Offer
<1>7. \A h, p : Link(h, p) \/ Walk(h, p) \/ TweetStored(h, p) \/ Drop(h, p) => storing' = storing
  BY DEF Link, Walk, TweetStored, Drop
<1>8. \A h, e : Request(h, e) => storing' = storing
  BY DEF Request
<1>9. (\A h : ~Crash(h)) /\ (\A x : ~StoreFails(x))
  BY <1>2 DEF Crash, StoreFails
<1>10. CASE UNCHANGED vars
  BY <1>10 DEF vars
<1>11. QED
  BY <1>3, <1>4, <1>5, <1>6, <1>7, <1>8, <1>9, <1>10 DEF Next, Step

LEMMA StepSkips == [Next]_vars => skipped \subseteq skipped'
<1> SUFFICES ASSUME [Next]_vars PROVE skipped \subseteq skipped'
  OBVIOUS
<1>1. ASSUME NEW j \in storing, Process(j) \/ Reject(j) \/ StoreFails(j)
      PROVE  skipped \subseteq skipped'
  BY <1>1 DEF Process, Accept, Store, FinishStore, Reject, StoreFails, history, StoreCreateRow,
          StoreCreateMembers, StoreText, StoreCiphers, StoreOp
<1>2. ASSUME NEW f \in wire, Handle(f)
      PROVE  skipped' = skipped
  BY <1>2 DEF Handle, HandleHave, HandleWant, HandleShip, history
<1>3. QED
  BY <1>1, <1>2 DEF Next, Step, vars, Link, Walk, TweetStored, Drop, Crash, Request, Offer,
                    Route, RouteFails, history

\* Without an accepted delete, no row of dm_groups or dm_group_messages goes.
LEMMA RowsRemain ==
    ASSUME TypeOK, ItemsSound, NoDelete', [Next]_vars
    PROVE  /\ NoDelete
           /\ \A h \in Hubs, g \in Groups : Exists(h, g) => group'[h][g] = group[h][g]
           /\ \A h \in Hubs : texts[h] \subseteq texts'[h]
           /\ skipped \subseteq skipped'
<1>1. TablesOK /\ \A e : Accepted(e) => Accepted(e)'
  BY TypeParts, StepGrows, StaysTrue
<1>2. NoDelete
  BY <1>1 DEF NoDelete
<1> DEFINE Remain == /\ \A h \in Hubs, g \in Groups : Exists(h, g) => group'[h][g] = group[h][g]
                     /\ \A h \in Hubs : texts[h] \subseteq texts'[h]
<1>3. UNCHANGED <<group, texts>> => Remain
  OBVIOUS
<1>4. ASSUME NEW h \in Hubs, NEW e \in Creates, InsertGroup(h, e)
      PROVE  Remain
  BY <1>1, <1>4, InsertGroupAt
<1>5. ASSUME NEW h \in Hubs, NEW e, InsertText(h, e)
      PROVE  Remain
  <2>1. \A i \in Hubs : texts'[i] = IF i = h THEN texts[i] \cup {e} ELSE texts[i]
    BY <1>1, <1>5, InsertTextAt
  <2>2. group' = group
    BY <1>5 DEF InsertText
  <2>3. QED
    BY <2>1, <2>2
<1>6. ASSUME NEW h, NEW o \in Ops, ApplyOp(h, o), KindOf[o] # "delete"
      PROVE  Remain
  BY <1>3, <1>6, OpStatement DEF InsertMembers, DeleteMembers
<1> HIDE DEF Remain
<1>7. ASSUME NEW j \in storing, Store(j)
      PROVE  Remain
  <2>1. j.cur.env \in Ops => KindOf[j.cur.env] # "delete"
    BY <1>2, <1>7, StoreStatements DEF ItemsSound, JobSound, ItemSound, NoDelete
  <2>2. QED
    BY <1>3, <1>4, <1>5, <1>6, <1>7, <2>1, StoreStatements
       DEF tables, InsertMembers, InsertCiphers
<1>8. ASSUME NEW j \in serving, Route(j)
      PROVE  Remain
  <2>1. Answered(j) => Accepted(j.env)'
    BY <1>8, RouteStatements DEF Answered, Accepted
  <2>2. j.env \in Ops /\ Answered(j) => KindOf[j.env] # "delete"
    BY <2>1 DEF NoDelete
  <2>3. QED
    BY <1>3, <1>4, <1>5, <1>6, <1>8, <2>2, RouteStatements
       DEF tables, InsertMembers, InsertCiphers
<1>9. Remain
  BY <1>3, <1>7, <1>8, TableSteps DEF tables
<1>10. skipped \subseteq skipped'
  BY StepSkips
<1>11. QED
  BY <1>2, <1>9, <1>10 DEF Remain

----------------------------------------------------------------------------
(* What an offer, a have and a push put on the wire. *)

LEMMA OfferSent ==
    ASSUME TypeOK, Aimed, NEW g \in greeting, Offer(g), NEW p \in Hubs, g.to = {p}
    PROVE  /\ g.hub \in Hubs /\ g.class \in {"create", "text"}
           /\ \A w \in wire' : w \in wire \/
                (w.type = "have" /\ w.class = g.class /\ w.hashes \subseteq Held(g.hub, g.class))
           /\ \A e \in Held(g.hub, g.class) \ old[g.hub][p] : \E w \in wire' :
                w.type = "have" /\ w.from = g.hub /\ w.to = p /\ e \in w.hashes
           /\ g.class = "create" => \E n \in greeting' : n.hub = g.hub /\ n.to = g.to
<1>1. /\ g.hub \in Hubs /\ g.class \in {"create", "text"} /\ (CHOOSE q \in g.to : TRUE) = p
      /\ [g EXCEPT !.class = "text"].hub = g.hub /\ [g EXCEPT !.class = "text"].to = g.to
  BY OfferShape
<1> DEFINE es == Held(g.hub, g.class) \ (IF g.all THEN {} ELSE old[g.hub][p])
           w0 == Have(g.hub, p, g.class, es)
           n0 == [g EXCEPT !.class = "text"]
<1>2. /\ wire' = IF es = {} THEN wire ELSE wire \cup {w0}
      /\ greeting' = (greeting \ {g}) \cup (IF g.class = "create" THEN {n0} ELSE {})
  BY <1>1 DEF Offer
<1>3. /\ w0.type = "have" /\ w0.class = g.class /\ w0.hashes = es /\ w0.from = g.hub
      /\ w0.to = p /\ n0.hub = g.hub /\ n0.to = g.to
  BY <1>1 DEF Have
<1>4. es \subseteq Held(g.hub, g.class) /\ Held(g.hub, g.class) \ old[g.hub][p] \subseteq es
  OBVIOUS
<1> HIDE DEF es, w0, n0
<1>5. QED
  BY <1>1, <1>2, <1>3, <1>4

LEMMA HaveAnswered ==
    ASSUME NEW f \in wire, HandleHave(f)
    PROVE  /\ \A w \in wire' : w \in wire \/
                (w.type = "want" /\ w.class = f.class /\ w.hashes \subseteq f.hashes)
           /\ \A e \in f.hashes \ Held(f.to, f.class) : \E w \in wire' :
                w.type = "want" /\ w.from = f.to /\ w.to = f.from /\ e \in w.hashes
<1> DEFINE missing == f.hashes \ Held(f.to, f.class)
           w0 == Want(f.to, f.from, f.class, missing)
<1>1. wire' = (wire \ {f}) \cup (IF missing = {} THEN {} ELSE {w0})
  BY DEF HandleHave
<1>2. /\ w0.type = "want" /\ w0.class = f.class /\ w0.hashes = missing /\ w0.from = f.to
      /\ w0.to = f.from
  BY DEF Want
<1>3. missing \subseteq f.hashes
  OBVIOUS
<1> HIDE DEF w0
<1>4. QED
  BY <1>1, <1>2, <1>3

LEMMA PulledItems ==
    ASSUME NEW h \in Hubs, NEW es
    PROVE  /\ \A i \in Pulled(h, es) : i.env \in es
           /\ \A e \in es : \E i \in Pulled(h, es) : i.env = e /\ (e \in envs[h] => i.data)
<1> DEFINE item(e) == [env |-> e, data |-> e \in envs[h],
                       named |-> IF e \in Creates THEN members[h][GroupOf[e]] ELSE ciphers[h][e]]
<1>1. Pulled(h, es) = {item(e) : e \in es}
  BY DEF Pulled
<1>2. \A e : item(e).env = e /\ item(e).data = (e \in envs[h])
  OBVIOUS
<1> HIDE DEF item
<1>3. QED
  BY <1>1, <1>2

\* The steps that send.
LEMMA WireGained ==
    ASSUME TypeOK, [Next]_vars
    PROVE  \/ wire' \subseteq wire
           \/ \E g \in greeting : Offer(g)
           \/ \E f \in wire : HandleHave(f) \/ HandleWant(f)
           \/ \E j \in serving : /\ Route(j) /\ Push(j.hub, j.env)
                                 /\ j.hub \in Hubs /\ j.env \in Envelopes
<1>1. ASSUME NEW j \in serving, Route(j)
      PROVE  wire' = wire \/ (Push(j.hub, j.env) /\ j.hub \in Hubs /\ j.env \in Envelopes)
  BY <1>1, RouteStatements DEF Answered
<1>2. ASSUME NEW j \in storing, Process(j) \/ Reject(j) \/ StoreFails(j)
      PROVE  wire' = wire
  BY <1>2 DEF Process, Accept, Store, FinishStore, Reject, StoreFails
<1>3. ASSUME NEW f \in wire, HandleShip(f)
      PROVE  wire' \subseteq wire
  BY <1>3 DEF HandleShip
<1>4. QED
  BY <1>1, <1>2, <1>3 DEF Next, Step, Handle, vars, Link, Walk, TweetStored, Drop, Crash,
                          Unlink, Request, RouteFails, Failed

LEMMA OneClassStep ==
    ASSUME TypeOK, Aimed, OneClass, [Next]_vars
    PROVE  OneClass'
<1>1. TablesOK /\ NetOK
  BY TypeParts
<1> DEFINE Sorted(f) ==
        /\ f.type \in {"have", "want"} => f.hashes \subseteq OfClass(f.class)
        /\ f.type = "ship" => \A i \in f.items : i.env \in OfClass(f.class)
      Kept(j) == \E c \in {"create", "text", "op"} :
        /\ \A i \in j.todo : i.env \in OfClass(c)
        /\ j.cur # NoItem => j.cur.env \in OfClass(c)
<1>2. /\ \A f \in wire : Sorted(f)
      /\ \A j \in storing : Kept(j)
  BY DEF OneClass
<1>3. ASSUME NEW w \in wire'
      PROVE  Sorted(w)
  <2>1. ASSUME NEW g \in greeting, Offer(g)
        PROVE  Sorted(w)
    <3>1. PICK p \in Hubs : g.to = {p}
      BY <2>1, OfferShape
    <3>2. /\ g.hub \in Hubs /\ g.class \in {"create", "text"}
          /\ w \in wire \/ (w.type = "have" /\ w.class = g.class
                            /\ w.hashes \subseteq Held(g.hub, g.class))
      BY <2>1, <3>1, OfferSent
    <3>3. Held(g.hub, g.class) \subseteq OfClass(g.class)
      BY <1>1, <3>2, HeldOK
    <3>4. QED
      BY <1>2, <3>2, <3>3
  <2>2. ASSUME NEW f \in wire, HandleHave(f)
        PROVE  Sorted(w)
    <3>1. w \in wire \/ (w.type = "want" /\ w.class = f.class /\ w.hashes \subseteq f.hashes)
      BY <2>2, HaveAnswered
    <3>2. f.hashes \subseteq OfClass(f.class)
      BY <1>2, <2>2 DEF HandleHave
    <3>3. QED
      BY <1>2, <3>1, <3>2
  <2>3. ASSUME NEW f \in wire, HandleWant(f)
        PROVE  Sorted(w)
    <3> DEFINE es == f.hashes \cap Held(f.to, f.class)
    <3>1. /\ f.to \in Hubs /\ f.hashes \subseteq OfClass(f.class)
      BY <1>2, <2>3, WantSent DEF HandleWant
    <3>2. es \subseteq OfClass(f.class)
      BY <3>1
    <3>3. wire' = (wire \ {f}) \cup
             (IF es = {} THEN {} ELSE {Ship(f.to, f.from, f.class, Pulled(f.to, es))})
      BY <2>3 DEF HandleWant
    <3> HIDE DEF es
    <3>4. w \in wire \/ (w.type = "ship" /\ w.class = f.class /\ w.items = Pulled(f.to, es))
      BY <3>3 DEF Ship
    <3>5. \A i \in Pulled(f.to, es) : i.env \in OfClass(f.class)
      BY <3>1, <3>2, PulledItems
    <3>6. QED
      BY <1>2, <3>4, <3>5
  <2>4. ASSUME NEW j \in serving, j.hub \in Hubs, j.env \in Envelopes, Push(j.hub, j.env)
        PROVE  Sorted(w)
    <3>1. ASSUME w \notin wire
          PROVE  /\ w.type = "ship" /\ w.class = ClassOf(j.env)
                 /\ \A i \in w.items : i = PushedItem(j.env)
      <4>1. w \in wire' \ wire
        BY <3>1
      <4>2. w.type = "ship" /\ w.class = ClassOf(j.env)
        BY <2>4, <4>1, PushShape DEF ClassOf
      <4>3. ASSUME NEW i \in w.items
            PROVE  i = PushedItem(j.env)
        BY <2>4, <4>1, PushShape
      <4>4. QED
        BY <4>2, <4>3
    <3>2. PushedItem(j.env).env = j.env /\ j.env \in OfClass(ClassOf(j.env))
      BY <2>4 DEF PushedItem, OfClass, ClassOf, Envelopes
    <3>3. QED
      BY <1>2, <3>1, <3>2
  <2>5. QED
    BY <1>2, <2>1, <2>2, <2>3, <2>4, WireGained
<1>4. ASSUME NEW j \in storing'
      PROVE  Kept(j)
  <2>1. CASE Calm
    <3>1. PICK i \in storing : /\ j.hub = i.hub /\ j.todo \subseteq i.todo
                               /\ j.cur # NoItem => j.cur = i.cur /\ j.stage = i.stage
      BY <2>1 DEF Calm
    <3>2. QED
      BY <1>2, <3>1
  <2>2. ASSUME NEW f \in wire, HandleShip(f)
        PROVE  Kept(j)
    <3>1. PICK n \in StoreJob : /\ storing' = storing \cup {n} /\ f.type = "ship"
                                /\ n.todo = f.items /\ n.cur = NoItem
      BY <2>2, ShipTrail
    <3>2. f.class \in {"create", "text", "op"} /\ \A i \in f.items : i.env \in OfClass(f.class)
      BY <1>1, <1>2, <3>1 DEF NetOK, Frame
    <3>3. QED
      BY <1>2, <3>1, <3>2
  <2>3. ASSUME NEW x \in storing, Accept(x)
        PROVE  Kept(j)
    <3>1. PICK i \in x.todo, n \in StoreJob :
             /\ i \in Item /\ storing' = (storing \ {x}) \cup {n}
             /\ n.todo = x.todo \ {i} /\ n.cur = Believed(i)
      BY <2>3, AcceptTrail
    <3>2. n.cur.env = i.env
      BY <3>1, BelievedOK
    <3>3. Kept(n)
      BY <1>2, <3>1, <3>2
    <3>4. QED
      BY <1>2, <3>1, <3>3
  <2>4. ASSUME NEW x \in storing, Store(x)
        PROVE  Kept(j)
    <3>1. j \in storing \/ (j.todo = x.todo /\ (j.cur = NoItem \/ j.cur = x.cur))
      BY <2>4, StoreTrail
    <3>2. Kept(x)
      BY <1>2
    <3>3. QED
      BY <1>2, <3>1, <3>2
  <2>5. storing' = storing => Kept(j)
    BY <1>2
  <2>6. QED
    BY <2>1, <2>2, <2>3, <2>4, <2>5, StepKinds DEF Request, HandleWant, Route
<1>5. QED
  BY <1>3, <1>4 DEF OneClass

LEMMA RowsStayStep ==
    ASSUME TypeOK, TypeOK', ItemsSound, RowsStay, [Next]_vars
    PROVE  RowsStay'
<1> SUFFICES ASSUME NoDelete'
             PROVE  /\ \A h \in Hubs :
                         /\ \A c \in Creates : <<h, c>> \in given' => Exists(h, GroupOf[c])'
                         /\ \A m \in Texts : <<h, m>> \in given' => m \in texts'[h]
                    /\ \A j \in storing' :
                         (j.stage = "rest" /\ j.cur # NoItem /\ j.cur.env \in Creates)
                         => Exists(j.hub, GroupOf[j.cur.env])'
  BY DEF RowsStay
<1>1. /\ TablesOK /\ NoDelete
      /\ \A h \in Hubs, g \in Groups : Exists(h, g) => Exists(h, g)'
      /\ \A h \in Hubs : texts[h] \subseteq texts'[h]
  BY TypeParts, RowsRemain DEF Exists
<1>2. Creates \cap Texts = {} /\ Creates \cap Ops = {} /\ Texts \cap Ops = {}
      /\ \A e \in Envelopes : GroupOf[e] \in Groups
  BY DistinctAssumption, EnvelopesAssumption
<1>3. ASSUME NEW h \in Hubs, NEW e, <<h, e>> \in given
      PROVE  /\ e \in Creates => Exists(h, GroupOf[e])'
             /\ e \in Texts => e \in texts'[h]
  BY <1>1, <1>2, <1>3 DEF RowsStay, Envelopes
<1>4. ASSUME NEW h \in Hubs, NEW e, <<h, e>> \in given' \ given
      PROVE  /\ e \in Creates => Exists(h, GroupOf[e])'
             /\ e \in Texts => e \in texts'[h]
  <2>1. given' # given
    BY <1>4
  <2>2. PICK j \in serving : Route(j)
    <3>1. \A j \in storing : Accept(j) \/ Store(j) => given' = given
      BY DEF Accept, Store, history
    <3>2. \A f \in wire : HandleWant(f) \/ HandleShip(f) => given' = given
      BY DEF HandleWant, HandleShip, history
    <3>3. \A i \in Hubs, x \in Envelopes : Request(i, x) => given' = given
      BY DEF Request, history
    <3>4. QED
      BY <2>1, <3>1, <3>2, <3>3, StepKinds DEF Calm
  <2>3. /\ j.hub = h /\ j.env = e /\ e \in Envelopes
        /\ \/ e \in Creates /\ Exists(h, GroupOf[e])
           \/ e \in Texts /\ e \in texts[h]
           \/ e \in Ops
    <3>1. Answered(j) => given' = given \cup {<<j.hub, j.env>>}
      BY DEF Answered
    <3>2. QED
      BY <1>4, <2>1, <2>2, <3>1, RouteStatements
  <2>4. QED
    BY <1>1, <1>2, <2>3
<1>5. ASSUME NEW i \in storing, i.stage = "rest", i.cur # NoItem, i.cur.env \in Creates
      PROVE  Exists(i.hub, GroupOf[i.cur.env])'
  <2>1. i \in StoreJob
    BY DEF TypeOK
  <2>2. i.hub \in Hubs /\ i.cur.env \in Envelopes
    BY <1>5, <2>1, JobShape
  <2>3. QED
    BY <1>1, <1>2, <1>5, <2>2 DEF RowsStay
<1>6. ASSUME NEW j \in storing', j.stage = "rest", j.cur # NoItem, j.cur.env \in Creates
      PROVE  Exists(j.hub, GroupOf[j.cur.env])'
  <2>1. CASE Calm
    <3>1. PICK i \in storing : /\ j.hub = i.hub
                               /\ j.cur # NoItem => j.cur = i.cur /\ j.stage = i.stage
      BY <2>1 DEF Calm
    <3>2. QED
      BY <1>5, <1>6, <3>1
  <2>2. ASSUME NEW f \in wire, HandleShip(f)
        PROVE  j \in storing
    BY <1>6, <2>2, ShipTrail
  <2>3. ASSUME NEW x \in storing, Accept(x)
        PROVE  j \in storing
    BY <1>6, <2>3, AcceptTrail
  <2>4. ASSUME NEW x \in storing, Store(x), j \notin storing
        PROVE  Exists(j.hub, GroupOf[j.cur.env])'
    <3>1. j.hub = x.hub /\ j.cur = x.cur
      BY <1>6, <2>4, StoreTrail
    <3>2. x.hub \in Hubs /\ x.cur.env \in Envelopes /\ x.cur.env \in Creates
      BY <1>6, <2>4, <3>1, StoreStatements
    <3>3. CASE StoreCreateRow(x)
      <4>1. InsertGroup(x.hub, x.cur.env)
        BY <3>3 DEF StoreCreateRow
      <4>2. Exists(x.hub, GroupOf[x.cur.env])'
        <5>1. group'[x.hub][GroupOf[x.cur.env]] =
                IF ~Exists(x.hub, GroupOf[x.cur.env]) THEN x.cur.env
                ELSE group[x.hub][GroupOf[x.cur.env]]
          BY <1>1, <1>2, <3>2, <4>1, InsertGroupAt
        <5>2. QED
          BY <3>2, <5>1, DistinctAssumption DEF Exists
      <4>3. QED
        BY <3>1, <4>2
    <3>4. CASE StoreCreateMembers(x)
      BY <1>1, <1>2, <2>4, <3>1, <3>2, <3>4 DEF StoreCreateMembers, Abandon
    <3>5. QED
      BY <1>2, <2>4, <3>2, <3>3, <3>4 DEF Store, StoreText, StoreCiphers, StoreOp
  <2>5. CASE j \in storing
    BY <1>5, <1>6, <2>5
  <2>6. QED
    BY <2>1, <2>2, <2>3, <2>4, <2>5, StepKinds DEF Request, HandleWant, Route
<1>7. QED
  BY <1>3, <1>4, <1>6

----------------------------------------------------------------------------
(* What h owes p and how it comes. *)

LEMMA LinksGained ==
    ASSUME [Next]_vars
    PROVE  links' \subseteq links \/ \E h, p \in Hubs : Link(h, p)
<1>1. ASSUME NEW j \in storing, Process(j) \/ Reject(j) \/ StoreFails(j)
      PROVE  links' = links
  BY <1>1 DEF Process, Accept, Store, FinishStore, Reject, StoreFails, net
<1>2. ASSUME NEW f \in wire, Handle(f)
      PROVE  links' = links
  BY <1>2 DEF Handle, HandleHave, HandleWant, HandleShip, net
<1>3. QED
  BY <1>1, <1>2 DEF Next, Step, vars, net, Walk, TweetStored, Drop, Crash, Unlink, Request,
                    Offer, Route, RouteFails

\* A stored row that the last sync covers is covered from now on.
LEMMA OldStays ==
    ASSUME TypeOK, [Next]_vars, NEW h \in Hubs, NEW p \in Hubs,
           NEW e \in Held(h, "create") \cup texts[h], e \in old[h][p]
    PROVE  e \in old'[h][p]
<1>1. /\ TablesOK /\ old \in [Hubs -> [Hubs -> SUBSET (Creates \cup Texts)]]
      /\ \A c \in Creates : c # NoGroup /\ c \notin Texts
  BY TypeParts, DistinctAssumption DEF TablesOK
<1>2. ASSUME NEW i \in Hubs, NEW c, old' = Fresh(i, c), i = h => c # e
      PROVE  e \in old'[h][p]
  BY <1>1, <1>2 DEF Fresh
<1>3. CASE old' = old
  BY <1>3
<1>4. ASSUME NEW x \in Hubs, NEW y \in Hubs, TweetStored(x, y)
      PROVE  e \in old'[h][p]
  <2> DEFINE rows == Held(x, "create") \cup texts[x]
  <2>1. old' = [old EXCEPT ![x][y] = rows]
    BY <1>4 DEF TweetStored
  <2>2. h = x => e \in rows
    OBVIOUS
  <2> HIDE DEF rows
  <2>3. QED
    BY <1>1, <2>1, <2>2
<1>5. ASSUME NEW i \in Hubs, NEW c \in Creates, InsertGroup(i, c)
      PROVE  e \in old'[h][p]
  <2>1. CASE Exists(i, GroupOf[c])
    BY <1>5, <2>1 DEF InsertGroup
  <2>2. CASE ~Exists(i, GroupOf[c])
    <3>1. old' = Fresh(i, c)
      BY <1>5, <2>2 DEF InsertGroup
    <3>2. i = h => c # e
      BY <1>1, <2>2 DEF Held, Exists, TablesOK
    <3>3. QED
      BY <1>2, <3>1, <3>2
  <2>3. QED
    BY <2>1, <2>2
<1>6. ASSUME NEW i \in Hubs, NEW m \in Texts, InsertText(i, m), m \notin texts[i]
      PROVE  e \in old'[h][p]
  <2>1. old' = Fresh(i, m)
    BY <1>6 DEF InsertText
  <2>2. i = h => m # e
    BY <1>1, <1>6 DEF Held
  <2>3. QED
    BY <1>2, <2>1, <2>2
<1>7. \A i : \A o \in Ops : ApplyOp(i, o) => old' = old
  BY OpStatement DEF InsertMembers, DeleteMembers, DeleteGroup
<1>8. ASSUME NEW j \in storing, Store(j)
      PROVE  e \in old'[h][p]
  <2>1. j.hub \in Hubs
    BY <1>8, StoreStatements
  <2>2. \/ old' = old
        \/ j.cur.env \in Creates /\ InsertGroup(j.hub, j.cur.env)
        \/ j.cur.env \in Texts /\ InsertText(j.hub, j.cur.env) /\ j.cur.env \notin texts[j.hub]
        \/ j.cur.env \in Ops /\ ApplyOp(j.hub, j.cur.env)
    BY <1>8 DEF Store, StoreCreateRow, StoreCreateMembers, StoreText, StoreCiphers, StoreOp,
                InsertMembers, InsertCiphers
  <2>3. QED
    BY <1>3, <1>5, <1>6, <1>7, <2>1, <2>2
<1>9. ASSUME NEW j \in serving, Route(j)
      PROVE  e \in old'[h][p]
  <2>1. j.hub \in Hubs
    BY <1>9, RouteStatements
  <2>2. \/ old' = old
        \/ j.env \in Creates /\ InsertGroup(j.hub, j.env)
        \/ j.env \in Texts /\ InsertText(j.hub, j.env) /\ j.env \notin texts[j.hub]
        \/ j.env \in Ops /\ ApplyOp(j.hub, j.env)
    BY <1>9 DEF Route, RouteCheck, RouteDuplicate, RouteCreate, RouteSend, RouteOp, Failed,
                InsertMembers, InsertCiphers
  <2>3. QED
    BY <1>3, <1>5, <1>6, <1>7, <2>1, <2>2
<1>10. ASSUME NEW j \in storing, Accept(j) \/ FinishStore(j) \/ Reject(j) \/ StoreFails(j)
      PROVE  old' = old
  BY <1>10 DEF Accept, FinishStore, Reject, StoreFails, net
<1>11. ASSUME NEW f \in wire, Handle(f)
      PROVE  old' = old
  BY <1>11 DEF Handle, HandleHave, HandleWant, HandleShip, net
<1>12. ASSUME NEW j \in serving, RouteFails(j)
      PROVE  old' = old
  BY <1>12 DEF RouteFails, Failed
<1>13. \/ old' = old
       \/ \E x, y \in Hubs : TweetStored(x, y)
       \/ \E j \in storing : Store(j)
       \/ \E j \in serving : Route(j)
  BY <1>10, <1>11, <1>12 DEF Next, Step, Process, vars, net, Link, Walk, Drop, Crash,
                             Request, Offer
<1>14. QED
  BY <1>3, <1>4, <1>8, <1>9, <1>13

\* An envelope is owed anew only with its push or on a new connection.
LEMMA OwedGained ==
    ASSUME RightsKept, RowsStay, NoDelete', [Next]_vars, NEW h \in Hubs, NEW p \in Hubs,
           NEW e \in Creates \cup Texts, Owed(h, p, e)', ~Owed(h, p, e)
    PROVE  OnItsWay(h, p, e)'
<1>1. /\ TypeOK /\ ItemsSound /\ GroupOf[e] \in Groups /\ e \in Envelopes
      /\ \A c \in Creates : c # NoGroup
  BY EnvelopesAssumption, DistinctAssumption DEF RightsKept, RightsInv, Envelopes
<1>2. /\ h # p /\ {h, p} \in links'
      /\ e \in (Held(h, "create") \cup Held(h, "text"))' /\ e \notin old'[h][p]
      /\ <<h, e>> \in given' /\ (p \in Strict => Form[e] # "none")
  BY DEF Owed
<1>3. CASE {h, p} \notin links
  <2>1. PICK x \in Hubs, y \in Hubs : Link(x, y)
    BY <1>2, <1>3, LinksGained
  <2>2. {x, y} = {h, p}
    BY <1>2, <1>3, <2>1 DEF Link
  <2> DEFINE g == [hub |-> h, to |-> {x, y} \ {h}, class |-> "create", all |-> FALSE]
  <2>3. g \in greeting' /\ g.hub = h /\ g.to = {p} /\ g.class = "create"
    <3>1. \A i \in {x, y} : [hub |-> i, to |-> {x, y} \ {i}, class |-> "create", all |-> FALSE]
                               \in greeting'
      BY <2>1 DEF Link
    <3>2. {x, y} \ {h} = {p} /\ h \in {x, y}
      BY <1>2, <2>2
    <3>3. QED
      BY <3>1, <3>2
  <2> HIDE DEF g
  <2>4. ToOffer(h, p, e)'
    BY <2>3 DEF ToOffer
  <2>5. QED
    BY <2>4 DEF OnItsWay
<1>4. CASE <<h, e>> \notin given /\ {h, p} \in links
  <2>1. PICK j \in serving : Route(j)
    <3>1. \A j \in storing : Accept(j) \/ Store(j) => given' = given
      BY DEF Accept, Store, history
    <3>2. \A f \in wire : HandleWant(f) \/ HandleShip(f) => given' = given
      BY DEF HandleWant, HandleShip, history
    <3>3. \A i \in Hubs, x \in Envelopes : Request(i, x) => given' = given
      BY DEF Request, history
    <3>4. QED
      BY <1>1, <1>2, <1>4, <3>1, <3>2, <3>3, StepKinds DEF Calm
  <2>2. j.hub = h /\ j.env = e /\ Push(h, e)
    BY <1>1, <1>2, <1>4, <2>1, RouteTrail
  <2>3. PICK f \in wire' : f.from = h /\ f.to = p /\ f.type = "ship" /\ PushedItem(e) \in f.items
    BY <1>2, <1>4, <2>2, PushShape DEF Others
  <2>4. PushedItem(e).env = e /\ (p \in Strict => PushedItem(e).data)
    BY <1>2 DEF PushedItem
  <2>5. Shipped(h, p, e)'
    BY <2>3, <2>4 DEF Shipped, Carries
  <2>6. QED
    BY <2>5 DEF OnItsWay
<1>5. CASE <<h, e>> \in given /\ {h, p} \in links
  <2>1. NoDelete /\ (\A g \in Groups : Exists(h, g) => group'[h][g] = group[h][g])
    BY <1>1, RowsRemain
  <2>2. e \in Creates => Exists(h, GroupOf[e])
    BY <1>5, <2>1 DEF RowsStay
  <2>3. e \in Texts => e \in texts[h]
    BY <1>5, <2>1 DEF RowsStay
  <2>4. e \in Held(h, "create") \cup Held(h, "text")
    <3>1. CASE e \in Texts
      BY <2>3, <3>1 DEF Held
    <3>2. CASE e \in Creates
      <4>1. e \notin texts'[h]
        BY <1>1, <3>2, StepTypeOK, DistinctAssumption DEF TypeOK, RightsKept
      <4>2. group'[h][GroupOf[e]] = e
        BY <1>2, <4>1 DEF Held
      <4>3. QED
        BY <1>1, <2>1, <2>2, <3>2, <4>2 DEF Held
    <3>3. QED
      BY <3>1, <3>2
  <2>5. e \in old[h][p]
    BY <1>2, <1>5, <2>4 DEF Owed
  <2>6. e \in old'[h][p]
    BY <1>1, <2>4, <2>5, OldStays DEF Held
  <2>7. QED
    BY <1>2, <2>6
<1>6. QED
  BY <1>3, <1>4, <1>5

\* A step without an error or a delete, while h owes e to p.
Exchanging(h, p, e) ==
    /\ RightsKept /\ OneClass /\ RowsStay /\ [Next]_vars /\ errors' = 0 /\ NoDelete'
    /\ Owed(h, p, e) /\ Owed(h, p, e)'

LEMMA ExchangingFacts ==
    ASSUME NEW h \in Hubs, NEW p \in Hubs, NEW e \in Creates \cup Texts, Exchanging(h, p, e)
    PROVE  /\ TypeOK /\ TablesOK /\ NetOK /\ Aimed /\ ItemsSound /\ EnvelopesKept
           /\ OneClass /\ RowsStay /\ [Next]_vars /\ errors' = 0 /\ NoDelete /\ errors = 0
           /\ e \in Envelopes /\ GroupOf[e] \in Groups /\ e \notin Ops
           /\ h # p /\ {h, p} \in links /\ {h, p} \in links'
           /\ e \in Creates => e \in Held(h, "create") \ old[h][p]
           /\ e \in Texts => e \in Held(h, "text") \ old[h][p] /\ e \notin Creates
           /\ p \in Strict => e \in envs[h]
           /\ Delivered(p, e) => Delivered(p, e)'
<1>1. /\ TypeOK /\ Aimed /\ ItemsSound /\ EnvelopesKept
      /\ OneClass /\ RowsStay /\ [Next]_vars /\ errors' = 0 /\ NoDelete'
  BY DEF Exchanging, RightsKept, RightsInv
<1>2. /\ TablesOK /\ NetOK /\ e \in Envelopes /\ GroupOf[e] \in Groups /\ e \notin Ops
      /\ e \in Texts => e \notin Creates
      /\ errors = 0
  BY <1>1, TypeParts, EnvelopesAssumption, DistinctAssumption, StepGrows DEF Envelopes, Grows
<1>3. /\ NoDelete
      /\ \A i \in Hubs, g \in Groups : Exists(i, g) => Exists(i, g)'
      /\ \A i \in Hubs : texts[i] \subseteq texts'[i]
      /\ skipped \subseteq skipped'
  BY <1>1, RowsRemain DEF Exists
<1>4. /\ h # p /\ {h, p} \in links /\ {h, p} \in links'
      /\ e \in (Held(h, "create") \cup Held(h, "text")) \ old[h][p]
      /\ <<h, e>> \in given /\ (p \in Strict => Form[e] # "none")
  BY DEF Exchanging, Owed
<1>5. /\ e \in Creates => e \in Held(h, "create")
      /\ e \in Texts => e \in Held(h, "text")
  BY <1>2, <1>4 DEF Held, TablesOK
<1>6. p \in Strict => e \in envs[h]
  BY <1>1, <1>2, <1>4 DEF EnvelopesKept
<1>7. Delivered(p, e) => Delivered(p, e)'
  BY <1>2, <1>3 DEF Delivered
<1>8. QED
  BY <1>1, <1>2, <1>3, <1>4, <1>5, <1>6, <1>7

LEMMA FromOffer ==
    ASSUME NEW h \in Hubs, NEW p \in Hubs, NEW e \in Creates \cup Texts, Exchanging(h, p, e),
           ToOffer(h, p, e)
    PROVE  OnItsWay(h, p, e)'
<1>1. PICK g \in greeting : g.hub = h /\ g.to = {p} /\ (e \in Texts \/ g.class = "create")
  BY DEF ToOffer
<1>2. TypeOK /\ Aimed /\ [Next]_vars /\ {h, p} \in links'
  BY ExchangingFacts
<1>3. CASE g \in greeting'
  BY <1>1, <1>3 DEF ToOffer, OnItsWay
<1>4. CASE Offer(g)
  <2>1. /\ g.class \in {"create", "text"}
        /\ \A x \in Held(h, g.class) \ old[h][p] : \E w \in wire' :
                w.type = "have" /\ w.from = h /\ w.to = p /\ x \in w.hashes
        /\ g.class = "create" => \E n \in greeting' : n.hub = h /\ n.to = {p}
    BY <1>1, <1>2, <1>4, OfferSent
  <2>2. CASE e \in Texts /\ g.class = "create"
    BY <2>1, <2>2 DEF ToOffer, OnItsWay
  <2>3. CASE ~(e \in Texts /\ g.class = "create")
    <3>1. e \in Held(h, g.class) \ old[h][p]
      BY <1>1, <2>1, <2>3, ExchangingFacts
    <3>2. Offered(h, p, e)'
      BY <2>1, <3>1 DEF Offered
    <3>3. QED
      BY <3>2 DEF OnItsWay
  <2>4. QED
    BY <2>2, <2>3
<1>5. g.to \cup {g.hub} = {h, p}
  BY <1>1
<1>6. g \in greeting' \/ Offer(g)
  BY <1>2, <1>5, GreetingStays
<1>7. QED
  BY <1>3, <1>4, <1>6

LEMMA FromHave ==
    ASSUME NEW h \in Hubs, NEW p \in Hubs, NEW e \in Creates \cup Texts, Exchanging(h, p, e),
           Offered(h, p, e)
    PROVE  OnItsWay(h, p, e)' \/ Delivered(p, e)
<1>1. PICK f \in wire : f.type = "have" /\ f.from = h /\ f.to = p /\ e \in f.hashes
  BY DEF Offered
<1>2. TypeOK /\ TablesOK /\ NetOK /\ OneClass /\ [Next]_vars /\ {h, p} \in links'
  BY ExchangingFacts
<1>3. f \in wire' \/ Handle(f)
  <2>1. {f.from, f.to} \in links'
    BY <1>1, <1>2
  <2>2. QED
    BY <1>2, <2>1, WireStays
<1>4. CASE f \in wire'
  BY <1>1, <1>4 DEF Offered, OnItsWay
<1>5. CASE HandleHave(f)
  <2>1. CASE e \in Held(p, f.class)
    <3>1. f.class \in {"create", "text"} /\ e \in OfClass(f.class)
      BY <1>1, <1>2, FrameShape DEF OneClass
    <3>2. CASE f.class = "create"
      BY <2>1, <3>1, <3>2, ExchangingFacts, DistinctAssumption
         DEF Held, OfClass, Delivered, Exists
    <3>3. CASE f.class = "text"
      BY <1>2, <2>1, <3>1, <3>3 DEF Held, OfClass, Delivered, TablesOK
    <3>4. QED
      BY <3>1, <3>2, <3>3
  <2>2. CASE e \notin Held(p, f.class)
    <3>1. \E w \in wire' : w.type = "want" /\ w.from = p /\ w.to = h /\ e \in w.hashes
      BY <1>1, <1>5, <2>2, HaveAnswered
    <3>2. QED
      BY <3>1 DEF Wanted, OnItsWay
  <2>3. QED
    BY <2>1, <2>2
<1>6. QED
  BY <1>1, <1>3, <1>4, <1>5 DEF Handle, HandleWant, HandleShip

LEMMA FromWant ==
    ASSUME NEW h \in Hubs, NEW p \in Hubs, NEW e \in Creates \cup Texts, Exchanging(h, p, e),
           Wanted(h, p, e)
    PROVE  OnItsWay(h, p, e)'
<1>1. PICK f \in wire : f.type = "want" /\ f.from = p /\ f.to = h /\ e \in f.hashes
  BY DEF Wanted
<1>2. /\ TypeOK /\ NetOK /\ OneClass /\ [Next]_vars /\ {h, p} \in links'
      /\ p \in Strict => e \in envs[h]
  BY ExchangingFacts
<1>3. f \in wire' \/ Handle(f)
  <2>1. {f.from, f.to} \in links'
    BY <1>1, <1>2
  <2>2. QED
    BY <1>2, <2>1, WireStays
<1>4. CASE f \in wire'
  BY <1>1, <1>4 DEF Wanted, OnItsWay
<1>5. CASE HandleWant(f)
  <2>1. f.class \in {"create", "text"} /\ e \in OfClass(f.class)
    BY <1>1, <1>2, FrameShape DEF OneClass
  <2>2. e \in Held(h, f.class)
    BY <2>1, ExchangingFacts DEF OfClass
  <2> DEFINE es == f.hashes \cap Held(f.to, f.class)
  <2>3. e \in es
    BY <1>1, <2>2
  <2>4. \E w \in wire' : w.type = "ship" /\ w.from = h /\ w.to = p /\ w.items = Pulled(h, es)
    <3>1. wire' = (wire \ {f}) \cup
             (IF es = {} THEN {} ELSE {Ship(f.to, f.from, f.class, Pulled(f.to, es))})
      BY <1>5 DEF HandleWant
    <3> HIDE DEF es
    <3>2. Ship(h, p, f.class, Pulled(h, es)) \in wire'
      BY <1>1, <2>3, <3>1
    <3>3. QED
      BY <3>2 DEF Ship
  <2>5. Carries(Pulled(h, es), p, e)
    <3> HIDE DEF es
    <3>1. \E i \in Pulled(h, es) : i.env = e /\ (e \in envs[h] => i.data)
      BY <2>3, PulledItems
    <3>2. QED
      BY <1>2, <3>1 DEF Carries
  <2> HIDE DEF es
  <2>6. Shipped(h, p, e)'
    BY <2>4, <2>5 DEF Shipped, Carries
  <2>7. QED
    BY <2>6 DEF OnItsWay
<1>6. QED
  BY <1>1, <1>3, <1>4, <1>5 DEF Handle, HandleHave, HandleShip

LEMMA FromShip ==
    ASSUME NEW h \in Hubs, NEW p \in Hubs, NEW e \in Creates \cup Texts, Exchanging(h, p, e),
           Shipped(h, p, e)
    PROVE  OnItsWay(h, p, e)'
<1>1. PICK f \in wire : /\ f.type = "ship" /\ f.from = h /\ f.to = p
                        /\ Carries(f.items, p, e)
  BY DEF Shipped
<1>2. TypeOK /\ [Next]_vars /\ {h, p} \in links'
  BY ExchangingFacts
<1>3. f \in wire' \/ Handle(f)
  <2>1. {f.from, f.to} \in links'
    BY <1>1, <1>2
  <2>2. QED
    BY <1>2, <2>1, WireStays
<1>4. CASE f \in wire'
  BY <1>1, <1>4 DEF Shipped, Carries, OnItsWay
<1>5. CASE HandleShip(f)
  <2>1. PICK n \in storing' : n.hub = p /\ n.from = h /\ n.todo = f.items
    BY <1>1, <1>2, <1>5, ShipTrail
  <2>2. Received(h, p, e)'
    BY <1>1, <2>1 DEF Received, Carries
  <2>3. QED
    BY <2>2 DEF OnItsWay
<1>6. QED
  BY <1>1, <1>3, <1>4, <1>5 DEF Handle, HandleHave, HandleWant

\* A handler goes on to its next item, or its frame held no row of a group.
LEMMA HandlerGoesOn ==
    ASSUME TypeOK, OneClass, RowsStay, NoDelete, NEW j \in storing, Store(j),
           NEW i \in j.todo, i.env \in Creates \cup Texts
    PROVE  \E n \in storing' : n.hub = j.hub /\ n.from = j.from /\ n.todo = j.todo
<1>1. PICK c \in {"create", "text", "op"} :
        /\ i.env \in OfClass(c)
        /\ j.cur # NoItem => j.cur.env \in OfClass(c)
  BY DEF OneClass
<1>2. j.cur # NoItem /\ j.cur.env \notin Ops
  BY <1>1, DistinctAssumption DEF Store, OfClass
<1>3. ~Abandon(j) \/ NextItem(j) \/ Onwards(j)
  <2>1. j.stage = "rest" /\ j.cur.env \in Creates => Exists(j.hub, GroupOf[j.cur.env])
    BY <1>2 DEF RowsStay
  <2>2. QED
    BY <1>2, <2>1 DEF Store, StoreCreateRow, StoreCreateMembers, StoreText, StoreCiphers, StoreOp
<1>4. NextItem(j) \/ Onwards(j) \/ Abandon(j)
  BY DEF Store, StoreCreateRow, StoreCreateMembers, StoreText, StoreCiphers, StoreOp
<1>5. QED
  BY <1>3, <1>4, StoreTrail

\* An item a handler is at becomes a row, or is one, or is logged.
LEMMA ItemStored ==
    ASSUME TypeOK, TypeOK', RowsStay, NoDelete, NEW j \in storing, Store(j),
           j.cur.env \in Creates \cup Texts
    PROVE  Delivered(j.hub, j.cur.env)'
<1>1. /\ TablesOK /\ TablesOK' /\ j.hub \in Hubs /\ j.cur # NoItem
      /\ j.cur.env \in Envelopes /\ GroupOf[j.cur.env] \in Groups
  <2>1. TablesOK /\ TablesOK'
    BY TypeParts DEF TypeOK, TablesOK
  <2>2. QED
    BY <2>1, StoreStatements
<1>2. Creates \cap Texts = {} /\ Creates \cap Ops = {} /\ Texts \cap Ops = {}
      /\ \A c \in Creates : c # NoGroup
  BY DistinctAssumption
<1>3. CASE StoreCreateRow(j)
  <2>1. j.cur.env \in Creates /\ InsertGroup(j.hub, j.cur.env)
    BY <1>3 DEF StoreCreateRow
  <2>2. group'[j.hub][GroupOf[j.cur.env]] =
          IF ~Exists(j.hub, GroupOf[j.cur.env]) THEN j.cur.env
          ELSE group[j.hub][GroupOf[j.cur.env]]
    BY <1>1, <2>1, InsertGroupAt
  <2>3. group'[j.hub][GroupOf[j.cur.env]] # NoGroup
    BY <1>2, <2>1, <2>2 DEF Exists
  <2>4. QED
    BY <1>2, <2>1, <2>3 DEF Delivered, Exists
<1>4. CASE StoreCreateMembers(j)
  <2>1. j.cur.env \in Creates /\ j.stage = "rest"
    BY <1>4 DEF StoreCreateMembers
  <2>2. Exists(j.hub, GroupOf[j.cur.env])
    BY <1>1, <2>1 DEF RowsStay
  <2>3. group' = group
    BY <1>4, <2>2 DEF StoreCreateMembers, InsertMembers
  <2>4. QED
    BY <1>2, <2>1, <2>2, <2>3 DEF Delivered, Exists
<1>5. ASSUME j.cur.env \in Texts, j.cur.env \in texts'[j.hub]
      PROVE  Delivered(j.hub, j.cur.env)'
  BY <1>1, <1>5 DEF Delivered, TablesOK
<1>6. CASE StoreText(j)
  <2>1. \/ j.cur.env \in texts'[j.hub]
        \/ <<j.hub, j.cur.env>> \in skipped'
    BY <1>1, <1>6 DEF StoreText, InsertText, TablesOK, tables
  <2>2. QED
    BY <1>5, <1>6, <2>1 DEF Delivered, StoreText
<1>7. CASE StoreCiphers(j)
  <2>1. \/ j.cur.env \in texts'[j.hub]
        \/ <<j.hub, j.cur.env>> \in skipped'
    BY <1>7 DEF StoreCiphers, InsertCiphers
  <2>2. QED
    BY <1>5, <1>7, <2>1 DEF Delivered, StoreCiphers
<1>8. QED
  BY <1>2, <1>3, <1>4, <1>6, <1>7 DEF Store, StoreOp

LEMMA FromHandler ==
    ASSUME NEW h \in Hubs, NEW p \in Hubs, NEW e \in Creates \cup Texts, Exchanging(h, p, e),
           Received(h, p, e)
    PROVE  OnItsWay(h, p, e)' \/ Delivered(p, e)'
<1>1. PICK j \in storing : /\ j.hub = p /\ j.from = h
                           /\ Carries(j.todo, p, e) \/ (j.cur # NoItem /\ j.cur.env = e)
  BY DEF Received
<1>2. /\ TypeOK /\ Aimed /\ OneClass /\ RowsStay /\ [Next]_vars /\ errors' = 0 /\ NoDelete
      /\ errors = 0 /\ j \in StoreJob
  <2>1. /\ TypeOK /\ Aimed /\ OneClass /\ RowsStay /\ [Next]_vars /\ errors' = 0 /\ NoDelete
        /\ errors = 0
    BY ExchangingFacts
  <2>2. j \in StoreJob
    BY <2>1 DEF TypeOK
  <2>3. QED
    BY <2>1, <2>2
<1>3. TypeOK'
  BY <1>2, StepTypeOK
<1>4. j \in storing' \/ Process(j) \/ Reject(j)
  BY <1>2, StoringStays
<1>5. CASE j \in storing'
  BY <1>1, <1>5 DEF Received, Carries, OnItsWay
<1>6. CASE Store(j)
  <2>1. CASE j.cur # NoItem /\ j.cur.env = e
    BY <1>1, <1>2, <1>3, <1>6, <2>1, ItemStored
  <2>2. CASE Carries(j.todo, p, e)
    <3>1. PICK i \in j.todo : i.env = e
      BY <2>2 DEF Carries
    <3>2. PICK n \in storing' : n.hub = p /\ n.from = h /\ n.todo = j.todo
      BY <1>1, <1>2, <1>6, <3>1, HandlerGoesOn
    <3>3. QED
      BY <2>2, <3>2 DEF Received, Carries, OnItsWay
  <2>3. QED
    BY <1>1, <2>1, <2>2
<1>7. CASE Accept(j)
  <2>1. PICK i \in j.todo, n \in StoreJob :
             /\ i \in Item /\ storing' = (storing \ {j}) \cup {n}
             /\ n.hub = j.hub /\ n.from = j.from /\ n.todo = j.todo \ {i}
             /\ n.cur = Believed(i) /\ n.cur # NoItem
    BY <1>2, <1>7, AcceptTrail
  <2>2. PICK x \in j.todo : x.env = e /\ (p \in Strict => x.data)
    BY <1>1, <1>7 DEF Accept, Carries
  <2>3. n \in storing' /\ n.hub = p /\ n.from = h /\ Believed(i).env = i.env
    BY <1>1, <2>1, BelievedOK
  <2>4. CASE x = i
    BY <2>1, <2>2, <2>3, <2>4 DEF Received, OnItsWay
  <2>5. CASE x # i
    <3>1. x \in n.todo
      BY <2>1, <2>5
    <3>2. QED
      BY <2>2, <2>3, <3>1 DEF Received, Carries, OnItsWay
  <2>6. QED
    BY <2>4, <2>5
<1>8. CASE Reject(j)
  <2>1. PICK i \in j.todo :
          /\ (j.hub \in Strict /\ ~i.data) \/ Error
          /\ storing' = (storing \ {j}) \cup {[j EXCEPT !.todo = @ \ {i}]}
    BY <1>8 DEF Reject
  <2>2. ~Error
    BY <1>2 DEF Error
  <2>3. PICK x \in j.todo : x.env = e /\ (p \in Strict => x.data)
    BY <1>1, <1>8 DEF Reject, Carries
  <2> DEFINE n == [j EXCEPT !.todo = @ \ {i}]
  <2>4. n.hub = j.hub /\ n.from = j.from /\ n.todo = j.todo \ {i} /\ n \in storing'
    BY <1>2, <2>1 DEF StoreJob
  <2> HIDE DEF n
  <2>5. x # i
    BY <1>1, <2>1, <2>2, <2>3
  <2>6. x \in n.todo
    BY <2>4, <2>5
  <2>7. QED
    BY <1>1, <2>3, <2>4, <2>6 DEF Received, Carries, OnItsWay
<1>9. CASE FinishStore(j)
  BY <1>1, <1>9 DEF FinishStore, Carries
<1>10. QED
  BY <1>4, <1>5, <1>6, <1>7, <1>8, <1>9 DEF Process

LEMMA DeliveringStep ==
    ASSUME ExchangeInv, [Next]_vars
    PROVE  Delivering'
<1> SUFFICES ASSUME errors' = 0, NoDelete', NEW h \in Hubs, NEW p \in Hubs,
                    NEW e \in Creates \cup Texts, Owed(h, p, e)'
             PROVE  Delivered(p, e)' \/ OnItsWay(h, p, e)'
  BY DEF Delivering
<1>1. RightsKept /\ OneClass /\ RowsStay /\ Delivering
  BY DEF ExchangeInv
<1>2. CASE ~Owed(h, p, e)
  BY <1>1, <1>2, OwedGained
<1>3. CASE Owed(h, p, e)
  <2>1. Exchanging(h, p, e)
    BY <1>1, <1>3 DEF Exchanging
  <2>2. errors = 0 /\ NoDelete /\ (Delivered(p, e) => Delivered(p, e)')
    BY <2>1, ExchangingFacts
  <2>3. Delivered(p, e) \/ OnItsWay(h, p, e)
    BY <1>1, <1>3, <2>2 DEF Delivering
  <2>4. OnItsWay(h, p, e) => Delivered(p, e)' \/ OnItsWay(h, p, e)'
    BY <2>1, <2>2, FromOffer, FromHave, FromWant, FromShip, FromHandler DEF OnItsWay
  <2>5. QED
    BY <2>2, <2>3, <2>4
<1>4. QED
  BY <1>2, <1>3

LEMMA InitExchange == Init => ExchangeInv
<1> SUFFICES ASSUME Init PROVE ExchangeInv
  OBVIOUS
<1>1. RightsKept
  BY InitRights
<1>2. wire = {} /\ storing = {} /\ given = {}
  BY DEF Init
<1>3. OneClass /\ RowsStay
  BY <1>2 DEF OneClass, RowsStay
<1>4. Delivering
  BY <1>2 DEF Delivering, Owed
<1>5. QED
  BY <1>1, <1>3, <1>4 DEF ExchangeInv

LEMMA StepExchange == ExchangeInv /\ [Next]_vars => ExchangeInv'
<1> SUFFICES ASSUME ExchangeInv, [Next]_vars PROVE ExchangeInv'
  OBVIOUS
<1>1. /\ RightsKept /\ OneClass /\ RowsStay /\ TypeOK /\ Aimed /\ ItemsSound
  BY DEF ExchangeInv, RightsKept, RightsInv
<1>2. RightsKept' /\ TypeOK'
  BY <1>1, StepRights DEF RightsKept, RightsInv
<1>3. OneClass' /\ RowsStay'
  BY <1>1, <1>2, OneClassStep, RowsStayStep
<1>4. QED
  BY <1>2, <1>3, DeliveringStep DEF ExchangeInv

LEMMA ExchangeImplies == ExchangeInv => GroupsExchanged
<1> SUFFICES ASSUME ExchangeInv, NEW h \in Hubs, NEW p \in Hubs, h # p, errors = 0, Quiet(h, p),
                    NEW e \in (Held(h, "create") \cup Held(h, "text")) \ old[h][p],
                    <<h, e>> \in given /\ (p \in Strict => Form[e] # "none"),
                    \A o \in Ops : KindOf[o] = "delete" => ~Accepted(o)
             PROVE  \/ Exists(p, GroupOf[e]) /\ (e \in Texts => e \in texts[p])
                    \/ <<p, e>> \in skipped
  BY DEF GroupsExchanged
<1>1. TablesOK /\ Delivering
  BY TypeParts DEF ExchangeInv, RightsKept, RightsInv
<1>2. e \in Creates \cup Texts /\ NoDelete
  BY <1>1, HeldOK DEF NoDelete
<1>3. Owed(h, p, e)
  BY DEF Owed, Quiet
<1>4. ~OnItsWay(h, p, e)
  BY DEF Quiet, OnItsWay, ToOffer, Offered, Wanted, Shipped, Received
<1>5. QED
  BY <1>1, <1>2, <1>3, <1>4 DEF Delivering, Delivered

\* Connected hubs that have nothing in flight between them agree on every group
\* and message a client gave to one of them since their last sync.
THEOREM GroupsAreExchanged == DmSpec => []GroupsExchanged
<1>1. DmInit => ExchangeInv
  BY InitExchange DEF DmInit
<1>2. ExchangeInv /\ [DmNext]_<<vars, dmVars>> => ExchangeInv'
  BY StepExchange, InboxSteps
<1>3. ExchangeInv => GroupsExchanged
  BY ExchangeImplies
<1>4. QED
  BY <1>1, <1>2, <1>3, PTL DEF DmSpec

----------------------------------------------------------------------------
(* The inbox: what its steps maintain of the desk, the inbox order and the *)
(* receipts.                                                               *)

DmAction == [DmNext]_<<vars, dmVars>>

MailTyped ==
    /\ dmKey \in [Hubs -> [Tids -> Regs \cup {NoKey}]]
    /\ conv \in [Hubs -> [Pairs -> Nat]]
    /\ mail \in [Hubs -> SUBSET Mails]
    /\ receipt \in [Hubs -> [Tids -> [Conversations -> Nat]]]
    /\ post \subseteq [to : Hubs, from : Hubs, env : Mails \cup Regs]
    /\ desk \subseteq [hub : Hubs, env : Mails, stage : {"conv", "row"}, mine : BOOLEAN]
    /\ letters \subseteq Hubs \X (Mails \cup Reads \cup Regs)
    /\ posted \subseteq Hubs \X (Mails \cup Reads \cup Regs)

\* A client submits only to its homes, and a route's DM is no longer to submit.
LettersHome == \A h \in Hubs, e \in Mails \cup Reads \cup Regs :
                   <<h, e>> \in letters => h \in DmHomes[e]
DeskSound == \A j \in desk :
                   j.mine => j.hub \in DmHomes[j.env] /\ <<j.hub, j.env>> \notin letters

\* A message row, or a handler about to write it, has its conversation row.
MailHasConv == \A h \in Hubs : \A m \in mail[h] : conv[h][ConvOf(m)] # 0
DeskHasConv == \A j \in desk : j.stage = "row" => conv[j.hub][ConvOf(j.env)] # 0

KeysSigned == \A h \in Hubs, t \in Tids :
                   dmKey[h][t] # NoKey => AuthorOf[dmKey[h][t]] = t

\* Every DM of c at h came by gossip, before a client submits it there.
Relayed(h, c) ==
    /\ \A m \in mail[h] : ConvOf(m) = c => h \notin DmHomes[m] \/ <<h, m>> \in letters
    /\ \A j \in desk : j.hub = h /\ ConvOf(j.env) = c => ~j.mine

\* The DMs whose time is in last_message_at: stored, or with a handler that has
\* moved the conversation row and not yet written the message row.
Counted(h, c) == {m \in Mails : /\ ConvOf(m) = c
                                /\ \/ m \in mail[h]
                                   \/ \E j \in desk : j.hub = h /\ j.env = m /\ j.stage = "row"}
InOrder(h, c) ==
    /\ \A m \in Counted(h, c) : SentAt[m] <= conv[h][c]
    /\ conv[h][c] # 0 => \E m \in Counted(h, c) : SentAt[m] = conv[h][c]
InboxOrdered == \A h \in Hubs, c \in Pairs : errors = 0 /\ Relayed(h, c) => InOrder(h, c)

Submitted(h, t, c) == {r \in Reads : AuthorOf[r] = t /\ ReadIn[r] = c /\ <<h, r>> \in posted}
ReceiptsNewest ==
    \A h \in Hubs, t \in Tids, c \in Conversations :
        /\ \A r \in Submitted(h, t, c) : SentAt[r] <= receipt[h][t][c]
        /\ receipt[h][t][c] # 0 => \E r \in Submitted(h, t, c) : SentAt[r] = receipt[h][t][c]

InboxInv == /\ RightsKept
            /\ MailTyped /\ LettersHome /\ DeskSound /\ MailHasConv /\ DeskHasConv /\ KeysSigned
            /\ InboxOrdered /\ ReceiptsNewest

LEMMA ConvOK == \A m \in Mails : /\ ConvOf(m) \in Pairs /\ AuthorOf[m] \in Tids
                                 /\ SentAt[m] \in Nat \ {0}
  BY DmAssumption DEF ConvOf, Pairs

LEMMA PostOK ==
    ASSUME NEW h \in Hubs, NEW e \in Mails \cup Regs, Post(h, e), MailTyped
    PROVE  post' \subseteq [to : Hubs, from : Hubs, env : Mails \cup Regs]
<1>1. ASSUME NEW p \in Hubs
      PROVE  [to |-> p, from |-> h, env |-> e] \in [to : Hubs, from : Hubs, env : Mails \cup Regs]
  OBVIOUS
<1>2. ASSUME NEW f \in post'
      PROVE  f \in [to : Hubs, from : Hubs, env : Mails \cup Regs]
  <2>1. f \in post \/ \E p \in Hubs : f = [to |-> p, from |-> h, env |-> e]
    BY <1>2 DEF Post, Others
  <2>2. QED
    BY <1>1, <2>1 DEF MailTyped
<1>3. QED
  BY <1>2

\* A handler n goes on from j, and the conversation row takes the time at.
Moves(j, n, at) ==
    /\ n = [j EXCEPT !.stage = "row"]
    /\ n.hub = j.hub /\ n.env = j.env /\ n.mine = j.mine /\ n.stage = "row"
    /\ desk' = (desk \ {j}) \cup {n}
    /\ at = LastMessageAt(j, conv[j.hub][ConvOf(j.env)])
    /\ conv' = [conv EXCEPT ![j.hub][ConvOf(j.env)] = at]

LEMMA UpsertShape ==
    ASSUME MailTyped, NEW j \in desk, UpsertConversation(j)
    PROVE  \E n \in [hub : Hubs, env : Mails, stage : {"conv", "row"}, mine : BOOLEAN],
              at \in Nat \ {0} : Moves(j, n, at)
<1> DEFINE n == [j EXCEPT !.stage = "row"]
           at == LastMessageAt(j, conv[j.hub][ConvOf(j.env)])
<1>1. j \in [hub : Hubs, env : Mails, stage : {"conv", "row"}, mine : BOOLEAN]
  BY DEF MailTyped
<1>2. /\ n \in [hub : Hubs, env : Mails, stage : {"conv", "row"}, mine : BOOLEAN]
      /\ n.hub = j.hub /\ n.env = j.env /\ n.mine = j.mine /\ n.stage = "row"
  BY <1>1
<1>3. at \in Nat \ {0}
  <2>1. conv[j.hub][ConvOf(j.env)] \in Nat /\ SentAt[j.env] \in Nat \ {0}
    BY <1>1, ConvOK DEF MailTyped
  <2>2. QED
    BY <2>1 DEF LastMessageAt
<1>4. /\ desk' = (desk \ {j}) \cup {n}
      /\ conv' = [conv EXCEPT ![j.hub][ConvOf(j.env)] = at]
  BY DEF UpsertConversation
<1>5. Moves(j, n, at)
  BY <1>2, <1>4 DEF Moves
<1>6. QED
  BY <1>2, <1>3, <1>5

LEMMA InboxKinds ==
    ASSUME MailTyped, DmAction
    PROVE  \/ \E h \in Hubs, r \in Regs : RegisterKey(h, r) /\ UNCHANGED vars
           \/ \E h \in Hubs, m \in Mails : SendRequest(h, m) /\ UNCHANGED vars
           \/ \E h \in Hubs, r \in Reads : Read(h, r) /\ UNCHANGED vars
           \/ \E f \in post : HandleKey(f) /\ UNCHANGED vars
           \/ \E f \in post : HandleMail(f) /\ UNCHANGED vars
           \/ \E j \in desk : UpsertConversation(j) /\ UNCHANGED vars
           \/ \E j \in desk : InsertMail(j) /\ UNCHANGED vars
           \/ \E h, p \in Hubs, m \in Mails : Resend(h, p, m) /\ UNCHANGED vars
           \/ /\ UNCHANGED <<dmTables, letters, posted>>
              /\ post' \subseteq post /\ desk' \subseteq desk
              /\ errors' = 0 /\ TypeOK => desk' = desk
<1>1. CASE DmStep /\ UNCHANGED vars
  BY <1>1 DEF DmStep
<1>2. CASE UNCHANGED dmVars
  BY <1>2 DEF dmVars, dmTables
<1>3. CASE Faulty /\ UNCHANGED <<dmTables, letters, posted>>
  <2>1. CASE \E h, p \in Hubs : /\ Drop(h, p)
                                /\ post' = {f \in post : {f.to, f.from} # {h, p}}
                                /\ desk' = desk
    BY <1>3, <2>1
  <2>2. CASE \E h \in Hubs : /\ Crash(h)
                             /\ post' = {f \in post : h \notin {f.to, f.from}}
                             /\ desk' = {j \in desk : j.hub # h}
    BY <1>3, <2>2 DEF Crash, Error, TypeOK
  <2>3. QED
    BY <1>3, <2>1, <2>2 DEF Faulty
<1>4. QED
  BY <1>1, <1>2, <1>3 DEF DmAction, DmNext

LEMMA InitInbox == DmInit => InboxInv
<1> SUFFICES ASSUME DmInit PROVE InboxInv
  OBVIOUS
<1>1. RightsKept
  BY InitRights DEF DmInit
<1>2. MailTyped /\ LettersHome
  <2>1. PICK story \in DmStories : letters = UNION {DmHomes[e] \X {e} : e \in story.sent}
    BY DEF DmInit
  <2>2. story.sent \subseteq Mails \cup Reads \cup Regs
    BY DmAssumption
  <2>3. \A e \in story.sent : DmHomes[e] \subseteq Hubs
    BY <2>2, DmAssumption
  <2>4. letters \subseteq Hubs \X (Mails \cup Reads \cup Regs)
    BY <2>1, <2>2, <2>3
  <2>5. LettersHome
    BY <2>1 DEF LettersHome
  <2>6. QED
    BY <2>4, <2>5 DEF DmInit, MailTyped
<1>3. DeskSound /\ MailHasConv /\ DeskHasConv
  BY DEF DmInit, DeskSound, MailHasConv, DeskHasConv
<1>4. KeysSigned
  BY DEF DmInit, KeysSigned
<1>5. InboxOrdered
  <2>1. \A h \in Hubs, c \in Pairs : Counted(h, c) = {} /\ conv[h][c] = 0
    BY DEF DmInit, Counted
  <2>2. QED
    BY <2>1 DEF InboxOrdered, InOrder
<1>6. ReceiptsNewest
  <2>1. \A h \in Hubs, t \in Tids, c \in Conversations :
            Submitted(h, t, c) = {} /\ receipt[h][t][c] = 0
    BY DEF DmInit, Submitted
  <2>2. QED
    BY <2>1 DEF ReceiptsNewest
<1>7. QED
  BY <1>1, <1>2, <1>3, <1>4, <1>5, <1>6 DEF InboxInv

LEMMA MailTypedStep == MailTyped /\ DmAction => MailTyped'
<1> SUFFICES ASSUME MailTyped, DmAction PROVE MailTyped'
  OBVIOUS
<1>1. ASSUME NEW h \in Hubs, NEW r \in Regs, RegisterKey(h, r)
      PROVE  MailTyped'
  <2>1. post' \subseteq [to : Hubs, from : Hubs, env : Mails \cup Regs]
    BY <1>1, PostOK DEF RegisterKey
  <2>2. AuthorOf[r] \in Tids
    BY DmAssumption
  <2>3. dmKey' \in [Hubs -> [Tids -> Regs \cup {NoKey}]]
    BY <1>1, <2>2 DEF RegisterKey, MailTyped
  <2>4. QED
    BY <1>1, <2>1, <2>3 DEF RegisterKey, MailTyped
<1>2. ASSUME NEW h \in Hubs, NEW m \in Mails, SendRequest(h, m)
      PROVE  MailTyped'
  <2>1. [hub |-> h, env |-> m, stage |-> "conv", mine |-> TRUE]
            \in [hub : Hubs, env : Mails, stage : {"conv", "row"}, mine : BOOLEAN]
    OBVIOUS
  <2>2. desk' \subseteq [hub : Hubs, env : Mails, stage : {"conv", "row"}, mine : BOOLEAN]
    BY <1>2, <2>1 DEF SendRequest, MailTyped
  <2>3. QED
    BY <1>2, <2>2 DEF SendRequest, MailTyped, dmTables
<1>3. ASSUME NEW h \in Hubs, NEW r \in Reads, Read(h, r)
      PROVE  MailTyped'
  <2>1. AuthorOf[r] \in Tids /\ ReadIn[r] \in Conversations /\ SentAt[r] \in Nat
    BY DmAssumption
  <2>2. receipt' \in [Hubs -> [Tids -> [Conversations -> Nat]]]
    BY <1>3, <2>1 DEF Read, MailTyped
  <2>3. QED
    BY <1>3, <2>2 DEF Read, MailTyped
<1>4. ASSUME NEW f \in post, HandleKey(f)
      PROVE  MailTyped'
  <2>1. f.to \in Hubs /\ f.env \in Regs /\ AuthorOf[f.env] \in Tids
    BY <1>4, DmAssumption DEF HandleKey, MailTyped
  <2>2. dmKey' \in [Hubs -> [Tids -> Regs \cup {NoKey}]]
    BY <1>4, <2>1 DEF HandleKey, MailTyped
  <2>3. QED
    BY <1>4, <2>2 DEF HandleKey, MailTyped
<1>5. ASSUME NEW f \in post, HandleMail(f)
      PROVE  MailTyped'
  <2>1. f.to \in Hubs /\ f.env \in Mails
    BY <1>5 DEF HandleMail, MailTyped
  <2>2. [hub |-> f.to, env |-> f.env, stage |-> "conv", mine |-> FALSE]
            \in [hub : Hubs, env : Mails, stage : {"conv", "row"}, mine : BOOLEAN]
    BY <2>1
  <2>3. QED
    BY <1>5, <2>2 DEF HandleMail, MailTyped, dmTables
<1>6. ASSUME NEW j \in desk, UpsertConversation(j)
      PROVE  MailTyped'
  <2>1. PICK n \in [hub : Hubs, env : Mails, stage : {"conv", "row"}, mine : BOOLEAN],
             at \in Nat \ {0} : Moves(j, n, at)
    BY <1>6, UpsertShape
  <2>2. j.hub \in Hubs /\ ConvOf(j.env) \in Pairs
    BY ConvOK DEF MailTyped
  <2>3. conv' \in [Hubs -> [Pairs -> Nat]]
    BY <2>1, <2>2 DEF MailTyped, Moves
  <2>4. QED
    BY <1>6, <2>1, <2>3 DEF UpsertConversation, MailTyped, Moves
<1>7. ASSUME NEW j \in desk, InsertMail(j)
      PROVE  MailTyped'
  <2>1. j.hub \in Hubs /\ j.env \in Mails
    BY DEF MailTyped
  <2>2. post' \subseteq [to : Hubs, from : Hubs, env : Mails \cup Regs]
    BY <1>7, <2>1, PostOK DEF InsertMail, MailTyped
  <2>3. mail' \in [Hubs -> SUBSET Mails]
    BY <1>7, <2>1 DEF InsertMail, MailTyped
  <2>4. posted' \subseteq Hubs \X (Mails \cup Reads \cup Regs)
    BY <1>7, <2>1 DEF InsertMail, MailTyped
  <2>5. QED
    BY <1>7, <2>2, <2>3, <2>4 DEF InsertMail, MailTyped
<1>8. ASSUME NEW h \in Hubs, NEW p \in Hubs, NEW m \in Mails, Resend(h, p, m)
      PROVE  MailTyped'
  <2>1. [to |-> p, from |-> h, env |-> m] \in [to : Hubs, from : Hubs, env : Mails \cup Regs]
    OBVIOUS
  <2>2. QED
    BY <1>8, <2>1 DEF Resend, MailTyped, dmTables
<1>9. CASE /\ UNCHANGED <<dmTables, letters, posted>>
           /\ post' \subseteq post /\ desk' \subseteq desk
  BY <1>9 DEF MailTyped, dmTables
<1>10. QED
  BY <1>1, <1>2, <1>3, <1>4, <1>5, <1>6, <1>7, <1>8, <1>9, InboxKinds

\* Every step, but an upsert that moves one conversation row, keeps the rows.
LEMMA ConvMoved ==
    ASSUME MailTyped, DmAction
    PROVE  \/ conv' = conv
           \/ \E j \in desk, n \in [hub : Hubs, env : Mails, stage : {"conv", "row"}, mine : BOOLEAN],
                 at \in Nat \ {0} :
                   Moves(j, n, at) /\ UNCHANGED <<mail, letters, vars>>
<1>1. CASE \E j \in desk : UpsertConversation(j) /\ UNCHANGED vars
  BY <1>1, UpsertShape DEF UpsertConversation
<1>2. CASE ~\E j \in desk : UpsertConversation(j) /\ UNCHANGED vars
  BY <1>2, InboxKinds DEF RegisterKey, SendRequest, Read, HandleKey, HandleMail, InsertMail, Resend,
        dmTables
<1>3. QED
  BY <1>1, <1>2

LEMMA MailGrows ==
    ASSUME MailTyped, DmAction
    PROVE  /\ letters' \subseteq letters
           /\ \A h \in Hubs : mail[h] \subseteq mail'[h]
           /\ \A h \in Hubs, c \in Pairs : conv[h][c] # 0 => conv'[h][c] # 0
           /\ \A h \in Hubs : \A m \in mail'[h] :
                  m \in mail[h] \/ \E j \in desk : j.hub = h /\ j.env = m /\ InsertMail(j)
<1>1. /\ letters' \subseteq letters
      /\ mail' = mail \/ \E j \in desk : InsertMail(j)
  BY InboxKinds DEF RegisterKey, SendRequest, Read, HandleKey, HandleMail, UpsertConversation,
        InsertMail, Resend, dmTables
<1>2. ASSUME NEW j \in desk, InsertMail(j)
      PROVE  /\ \A h \in Hubs : mail[h] \subseteq mail'[h]
             /\ \A h \in Hubs : \A m \in mail'[h] : m \in mail[h] \/ (j.hub = h /\ j.env = m)
  BY <1>2 DEF InsertMail, MailTyped
<1>3. ASSUME NEW h \in Hubs, NEW c \in Pairs, conv[h][c] # 0
      PROVE  conv'[h][c] # 0
  <2>1. CASE conv' = conv
    BY <1>3, <2>1
  <2>2. ASSUME NEW j \in desk, NEW n, NEW at \in Nat \ {0}, Moves(j, n, at)
        PROVE  conv'[h][c] # 0
    BY <1>3, <2>2 DEF Moves, MailTyped
  <2>3. QED
    BY <2>1, <2>2, ConvMoved
<1>4. QED
  BY <1>1, <1>2, <1>3

\* Where the handlers on the desk come from.
LEMMA DeskGained ==
    ASSUME MailTyped, DmAction, NEW k \in desk'
    PROVE  \/ k \in desk
           \/ /\ \/ \E m \in Mails : /\ SendRequest(k.hub, m) /\ k.env = m /\ k.hub \in Hubs
                 \/ k.mine = FALSE
              /\ k.stage = "conv" /\ conv' = conv /\ mail' = mail
           \/ \E j \in desk : k.hub = j.hub /\ k.env = j.env /\ k.mine = j.mine
                              /\ Moves(j, k, LastMessageAt(j, conv[j.hub][ConvOf(j.env)]))
                              /\ letters' = letters
<1>1. ASSUME NEW h \in Hubs, NEW m \in Mails, SendRequest(h, m), k \notin desk
      PROVE  /\ k.hub = h /\ k.env = m /\ k.stage = "conv" /\ conv' = conv /\ mail' = mail
  <2> DEFINE r == [hub |-> h, env |-> m, stage |-> "conv", mine |-> TRUE]
  <2>1. k = r /\ conv' = conv /\ mail' = mail
    BY <1>1 DEF SendRequest, dmTables
  <2>2. QED
    BY <2>1
<1>2. ASSUME NEW f \in post, HandleMail(f), k \notin desk
      PROVE  k.mine = FALSE /\ k.stage = "conv" /\ conv' = conv /\ mail' = mail
  <2> DEFINE r == [hub |-> f.to, env |-> f.env, stage |-> "conv", mine |-> FALSE]
  <2>1. k = r /\ conv' = conv /\ mail' = mail
    BY <1>2 DEF HandleMail, dmTables
  <2>2. QED
    BY <2>1
<1>3. ASSUME NEW j \in desk, UpsertConversation(j), k \notin desk
      PROVE  /\ k.hub = j.hub /\ k.env = j.env /\ k.mine = j.mine
             /\ Moves(j, k, LastMessageAt(j, conv[j.hub][ConvOf(j.env)]))
             /\ letters' = letters
  <2>1. PICK n, at : Moves(j, n, at)
    BY <1>3, UpsertShape
  <2>2. k = n
    BY <1>3, <2>1 DEF Moves
  <2>3. QED
    BY <1>3, <2>1, <2>2 DEF Moves, UpsertConversation
<1>4. CASE k \in desk
  BY <1>4
<1>5. CASE k \notin desk
  <2>1. \/ \E h \in Hubs, m \in Mails : SendRequest(h, m)
        \/ \E f \in post : HandleMail(f)
        \/ \E j \in desk : UpsertConversation(j)
    BY <1>5, InboxKinds DEF RegisterKey, Read, HandleKey, InsertMail, Resend, dmTables
  <2>2. QED
    BY <1>1, <1>2, <1>3, <1>5, <2>1
<1>6. QED
  BY <1>4, <1>5

LEMMA DeskStep ==
    ASSUME MailTyped, LettersHome, DeskSound, MailHasConv, DeskHasConv, DmAction
    PROVE  LettersHome' /\ DeskSound' /\ MailHasConv' /\ DeskHasConv'
<1>1. /\ letters' \subseteq letters
      /\ \A h \in Hubs, c \in Pairs : conv[h][c] # 0 => conv'[h][c] # 0
      /\ \A h \in Hubs : \A m \in mail'[h] :
             m \in mail[h] \/ \E j \in desk : j.hub = h /\ j.env = m /\ InsertMail(j)
      /\ MailTyped'
  BY MailGrows, MailTypedStep
<1>2. LettersHome'
  BY <1>1 DEF LettersHome
<1>3. DeskSound'
  <2>1. ASSUME NEW k \in desk', k.mine
        PROVE  k.hub \in DmHomes[k.env] /\ <<k.hub, k.env>> \notin letters'
    <3>1. CASE k \in desk
      BY <1>1, <2>1, <3>1 DEF DeskSound
    <3>2. CASE \E m \in Mails : SendRequest(k.hub, m) /\ k.env = m /\ k.hub \in Hubs
      BY <3>2 DEF SendRequest, LettersHome
    <3>3. CASE \E j \in desk : /\ k.hub = j.hub /\ k.env = j.env /\ k.mine = j.mine
                               /\ letters' = letters
      BY <2>1, <3>3 DEF DeskSound
    <3>4. QED
      BY <2>1, <3>1, <3>2, <3>3, DeskGained
  <2>2. QED
    BY <2>1 DEF DeskSound
<1>4. MailHasConv'
  <2>1. ASSUME NEW h \in Hubs, NEW m \in mail'[h]
        PROVE  conv'[h][ConvOf(m)] # 0
    <3>1. m \in Mails /\ ConvOf(m) \in Pairs
      BY <1>1, ConvOK DEF MailTyped
    <3>2. conv[h][ConvOf(m)] # 0
      BY <1>1 DEF MailHasConv, DeskHasConv, InsertMail
    <3>3. QED
      BY <1>1, <3>1, <3>2
  <2>2. QED
    BY <2>1 DEF MailHasConv, ConvOf
<1>5. DeskHasConv'
  <2>1. ASSUME NEW k \in desk', k.stage = "row"
        PROVE  conv'[k.hub][ConvOf(k.env)] # 0
    <3>1. k.hub \in Hubs /\ k.env \in Mails /\ ConvOf(k.env) \in Pairs
      BY <1>1, ConvOK DEF MailTyped
    <3>2. CASE k \in desk
      BY <1>1, <2>1, <3>1, <3>2 DEF DeskHasConv
    <3>3. ASSUME NEW j \in desk, k.hub = j.hub, k.env = j.env,
                 Moves(j, k, LastMessageAt(j, conv[j.hub][ConvOf(j.env)]))
          PROVE  conv'[k.hub][ConvOf(k.env)] # 0
      <4>1. LastMessageAt(j, conv[j.hub][ConvOf(j.env)]) # 0
        BY <3>1, <3>3, ConvOK DEF LastMessageAt, MailTyped
      <4>2. QED
        BY <3>1, <3>3, <4>1 DEF Moves, MailTyped
    <3>4. QED
      BY <2>1, <3>2, <3>3, DeskGained
  <2>2. QED
    BY <2>1 DEF DeskHasConv, ConvOf
<1>6. QED
  BY <1>2, <1>3, <1>4, <1>5

LEMMA KeysStep ==
    ASSUME MailTyped, KeysSigned, DmAction
    PROVE  KeysSigned'
<1>1. \/ dmKey' = dmKey
      \/ \E h \in Hubs, r \in Regs : dmKey' = [dmKey EXCEPT ![h][AuthorOf[r]] = r]
  BY InboxKinds DEF RegisterKey, SendRequest, Read, HandleKey, HandleMail, UpsertConversation,
        InsertMail, Resend, dmTables, MailTyped
<1>2. ASSUME NEW h \in Hubs, NEW r \in Regs, dmKey' = [dmKey EXCEPT ![h][AuthorOf[r]] = r]
      PROVE  KeysSigned'
  <2>1. \A i \in Hubs, t \in Tids :
            dmKey'[i][t] = dmKey[i][t] \/ (t = AuthorOf[r] /\ dmKey'[i][t] = r)
    BY <1>2 DEF MailTyped
  <2>2. QED
    BY <2>1 DEF KeysSigned
<1>3. QED
  BY <1>1, <1>2 DEF KeysSigned

LEMMA ReceiptsStep ==
    ASSUME MailTyped, ReceiptsNewest, DmAction
    PROVE  ReceiptsNewest'
<1>1. CASE \E h \in Hubs, r \in Reads : Read(h, r)
  <2>1. PICK h \in Hubs, r \in Reads : Read(h, r)
    BY <1>1
  <2> DEFINE u == AuthorOf[r]
             d == ReadIn[r]
             at == IF receipt[h][u][d] < SentAt[r] THEN SentAt[r] ELSE receipt[h][u][d]
  <2>2. u \in Tids /\ d \in Conversations /\ SentAt[r] \in Nat /\ receipt[h][u][d] \in Nat
    BY DmAssumption DEF MailTyped
  <2>3. /\ receipt' = [receipt EXCEPT ![h][u][d] = at]
        /\ posted' = posted \cup {<<h, r>>}
    BY <2>1 DEF Read
  <2>4. /\ at \in Nat /\ SentAt[r] <= at /\ receipt[h][u][d] <= at
        /\ at = SentAt[r] \/ at = receipt[h][u][d]
    BY <2>2
  <2> HIDE DEF u, d, at
  <2>5. /\ receipt'[h][u][d] = at
        /\ \A i \in Hubs, t \in Tids, c \in Conversations :
             <<i, t, c>> # <<h, u, d>> => receipt'[i][t][c] = receipt[i][t][c]
    BY <2>2, <2>3 DEF MailTyped
  <2>6. /\ Submitted(h, u, d)' = Submitted(h, u, d) \cup {r}
        /\ \A i \in Hubs, t \in Tids, c \in Conversations :
             <<i, t, c>> # <<h, u, d>> => Submitted(i, t, c)' = Submitted(i, t, c)
    BY <2>3 DEF Submitted, u, d
  <2>7. ASSUME NEW i \in Hubs, NEW t \in Tids, NEW c \in Conversations
        PROVE  /\ \A x \in Submitted(i, t, c)' : SentAt[x] <= receipt'[i][t][c]
               /\ receipt'[i][t][c] # 0 =>
                    \E x \in Submitted(i, t, c)' : SentAt[x] = receipt'[i][t][c]
    <3>1. /\ \A x \in Submitted(i, t, c) : SentAt[x] <= receipt[i][t][c] /\ SentAt[x] \in Nat
          /\ receipt[i][t][c] # 0 => \E x \in Submitted(i, t, c) : SentAt[x] = receipt[i][t][c]
          /\ receipt[i][t][c] \in Nat
      <4>1. /\ \A x \in Submitted(i, t, c) : SentAt[x] <= receipt[i][t][c]
            /\ receipt[i][t][c] # 0 => \E x \in Submitted(i, t, c) : SentAt[x] = receipt[i][t][c]
        BY DEF ReceiptsNewest
      <4>2. \A x \in Submitted(i, t, c) : SentAt[x] \in Nat
        BY DmAssumption DEF Submitted
      <4>3. receipt[i][t][c] \in Nat
        BY DEF MailTyped
      <4>4. QED
        BY <4>1, <4>2, <4>3
    <3>2. CASE <<i, t, c>> = <<h, u, d>>
      <4>1. i = h /\ t = u /\ c = d
        BY <3>2
      <4>2. \A x \in Submitted(i, t, c)' : SentAt[x] <= receipt'[i][t][c]
        BY <2>2, <2>4, <2>5, <2>6, <3>1, <4>1
      <4>3. receipt'[i][t][c] # 0 =>
               \E x \in Submitted(i, t, c)' : SentAt[x] = receipt'[i][t][c]
        BY <2>4, <2>5, <2>6, <3>1, <4>1
      <4>4. QED
        BY <4>2, <4>3
    <3>3. CASE <<i, t, c>> # <<h, u, d>>
      BY <2>5, <2>6, <3>1, <3>3
    <3>4. QED
      BY <3>2, <3>3
  <2>8. QED
    BY <2>7 DEF ReceiptsNewest
<1>2. CASE ~\E h \in Hubs, r \in Reads : Read(h, r)
  <2>1. /\ receipt' = receipt
        /\ \/ posted' = posted
           \/ \E h \in Hubs, e \in Mails \cup Regs : posted' = posted \cup {<<h, e>>}
    <3>1. CASE \E h \in Hubs, r \in Regs : RegisterKey(h, r)
      BY <3>1 DEF RegisterKey
    <3>2. ASSUME NEW j \in desk, InsertMail(j)
          PROVE  /\ receipt' = receipt
                 /\ posted' = posted \/ posted' = posted \cup {<<j.hub, j.env>>}
                 /\ j.hub \in Hubs /\ j.env \in Mails
      BY <3>2 DEF InsertMail, MailTyped
    <3>3. CASE /\ ~\E h \in Hubs, r \in Regs : RegisterKey(h, r)
               /\ ~\E j \in desk : InsertMail(j)
      BY <1>2, <3>3, InboxKinds DEF SendRequest, HandleKey, HandleMail, UpsertConversation,
            Resend, dmTables
    <3>4. QED
      BY <3>1, <3>2, <3>3
  <2>2. \A h \in Hubs, r \in Reads : <<h, r>> \in posted' <=> <<h, r>> \in posted
    BY <2>1, TypesDistinct
  <2>3. \A h \in Hubs, t \in Tids, c \in Conversations : Submitted(h, t, c)' = Submitted(h, t, c)
    BY <2>2 DEF Submitted
  <2>4. QED
    BY <2>1, <2>3 DEF ReceiptsNewest
<1>3. QED
  BY <1>1, <1>2

LEMMA DeskLost ==
    ASSUME TypeOK, MailTyped, DmAction, errors' = 0, NEW j \in desk
    PROVE  j \in desk' \/ UpsertConversation(j) \/ InsertMail(j)
<1>1. desk \subseteq desk' \/ \E k \in desk : /\ UpsertConversation(k) \/ InsertMail(k)
                                              /\ desk \ {k} \subseteq desk'
  BY InboxKinds DEF RegisterKey, SendRequest, Read, HandleKey, HandleMail, UpsertConversation,
        InsertMail, Resend, dmTables
<1>2. QED
  BY <1>1

LEMMA RelayedBefore ==
    ASSUME TypeOK, MailTyped, DeskSound, DmAction, errors' = 0,
           NEW h \in Hubs, NEW c \in Pairs, Relayed(h, c)'
    PROVE  errors = 0 /\ Relayed(h, c)
<1>1. errors = 0
  BY InboxSteps, StepGrows DEF DmAction, Grows
<1>2. /\ letters' \subseteq letters
      /\ mail[h] \subseteq mail'[h]
  BY MailGrows
<1>3. /\ \A m \in mail'[h] : ConvOf(m) = c => h \notin DmHomes[m] \/ <<h, m>> \in letters'
      /\ \A k \in desk' : k.hub = h /\ ConvOf(k.env) = c => ~k.mine
  BY DEF Relayed, ConvOf
<1>4. ASSUME NEW j \in desk, j.hub = h, ConvOf(j.env) = c, j.mine
      PROVE  FALSE
  <2>1. j \notin desk'
    BY <1>3, <1>4
  <2>2. ASSUME UpsertConversation(j)
        PROVE  FALSE
    <3>1. PICK n, at : Moves(j, n, at)
      BY <2>2, UpsertShape
    <3>2. n \in desk' /\ n.hub = h /\ n.env = j.env /\ n.mine
      BY <1>4, <3>1 DEF Moves
    <3>3. QED
      BY <1>3, <1>4, <3>2
  <2>3. ASSUME InsertMail(j)
        PROVE  FALSE
    <3>1. j.env \in mail'[h]
      BY <1>4, <2>3 DEF InsertMail, MailTyped
    <3>2. h \in DmHomes[j.env] /\ <<h, j.env>> \notin letters
      BY <1>4 DEF DeskSound
    <3>3. QED
      BY <1>2, <1>3, <1>4, <3>1, <3>2
  <2>4. QED
    BY <2>1, <2>2, <2>3, DeskLost
<1>5. QED
  BY <1>1, <1>2, <1>3, <1>4 DEF Relayed

\* Steps other than an upsert leave what a conversation row counts alone.
LEMMA CountedKept ==
    ASSUME TypeOK, MailTyped, DmAction, errors' = 0, ~\E j \in desk : UpsertConversation(j),
           NEW h \in Hubs, NEW c \in Pairs
    PROVE  Counted(h, c)' = Counted(h, c) /\ conv' = conv
<1>1. conv' = conv
  BY InboxKinds DEF RegisterKey, SendRequest, Read, HandleKey, HandleMail, InsertMail, Resend,
        dmTables
<1>2. ASSUME NEW m \in Mails, \E k \in desk' : k.hub = h /\ k.env = m /\ k.stage = "row"
      PROVE  \E k \in desk : k.hub = h /\ k.env = m /\ k.stage = "row"
  <2>1. PICK k \in desk' : k.hub = h /\ k.env = m /\ k.stage = "row"
    BY <1>2
  <2>2. k \in desk
    <3>1. desk' \subseteq desk \/ \E r : r.stage = "conv" /\ desk' = desk \cup {r}
      <4>1. ASSUME NEW i \in Hubs, NEW d \in Mails, SendRequest(i, d)
            PROVE  desk' \subseteq desk \/ \E r : r.stage = "conv" /\ desk' = desk \cup {r}
        <5> DEFINE r == [hub |-> i, env |-> d, stage |-> "conv", mine |-> TRUE]
        <5>1. r.stage = "conv" /\ (desk' = desk \/ desk' = desk \cup {r})
          BY <4>1 DEF SendRequest
        <5>2. QED
          BY <5>1
      <4>2. ASSUME NEW f \in post, HandleMail(f)
            PROVE  \E r : r.stage = "conv" /\ desk' = desk \cup {r}
        <5> DEFINE r == [hub |-> f.to, env |-> f.env, stage |-> "conv", mine |-> FALSE]
        <5>1. r.stage = "conv" /\ desk' = desk \cup {r}
          BY <4>2 DEF HandleMail
        <5>2. QED
          BY <5>1
      <4>3. CASE ~(\E i \in Hubs, d \in Mails : SendRequest(i, d)) /\ ~\E f \in post : HandleMail(f)
        BY <4>3, InboxKinds DEF RegisterKey, Read, HandleKey, InsertMail, Resend, dmTables
      <4>4. QED
        BY <4>1, <4>2, <4>3
    <3>2. QED
      BY <2>1, <3>1
  <2>3. QED
    BY <2>1, <2>2
<1>3. ASSUME NEW m \in mail'[h]
      PROVE  m \in mail[h] \/ \E k \in desk : k.hub = h /\ k.env = m /\ k.stage = "row"
  BY <1>3, MailGrows DEF InsertMail
<1>4. mail[h] \subseteq mail'[h]
  BY MailGrows
<1>5. ASSUME NEW k \in desk, k.hub = h, k.stage = "row"
      PROVE  k.env \in mail'[h] \/ k \in desk'
  BY <1>5, DeskLost DEF InsertMail, MailTyped
<1>6. ASSUME NEW m \in Mails, ConvOf(m) = c
      PROVE  m \in Counted(h, c)' <=> m \in Counted(h, c)
  <2>1. m \in Counted(h, c)' <=>
            m \in mail'[h] \/ \E j \in desk' : j.hub = h /\ j.env = m /\ j.stage = "row"
    BY <1>6 DEF Counted, ConvOf
  <2>2. m \in Counted(h, c) <=>
            m \in mail[h] \/ \E j \in desk : j.hub = h /\ j.env = m /\ j.stage = "row"
    BY <1>6 DEF Counted
  <2>3. ASSUME m \in mail'[h] \/ \E j \in desk' : j.hub = h /\ j.env = m /\ j.stage = "row"
        PROVE  m \in mail[h] \/ \E j \in desk : j.hub = h /\ j.env = m /\ j.stage = "row"
    BY <1>2, <1>3, <2>3
  <2>4. ASSUME m \in mail[h] \/ \E j \in desk : j.hub = h /\ j.env = m /\ j.stage = "row"
        PROVE  m \in mail'[h] \/ \E j \in desk' : j.hub = h /\ j.env = m /\ j.stage = "row"
    BY <1>4, <1>5, <2>4
  <2>5. QED
    BY <2>1, <2>2, <2>3, <2>4
<1>7. Counted(h, c)' = Counted(h, c)
  <2>1. /\ \A m \in Counted(h, c) : m \in Mails /\ ConvOf(m) = c
        /\ \A m \in Counted(h, c)' : m \in Mails /\ ConvOf(m) = c
    BY DEF Counted, ConvOf
  <2>2. QED
    BY <1>6, <2>1
<1>8. QED
  BY <1>1, <1>7

\* An upsert counts its DM in its conversation, and changes no other.
LEMMA CountedMoved ==
    ASSUME MailTyped, NEW j \in desk,
           NEW n \in [hub : Hubs, env : Mails, stage : {"conv", "row"}, mine : BOOLEAN], NEW at,
           Moves(j, n, at), mail' = mail, NEW h \in Hubs, NEW c \in Pairs
    PROVE  IF h = j.hub /\ c = ConvOf(j.env)
           THEN Counted(h, c)' = Counted(h, c) \cup {j.env}
           ELSE Counted(h, c)' = Counted(h, c)
<1>1. /\ j.env \in Mails
      /\ desk' = (desk \ {j}) \cup {n} /\ n.hub = j.hub /\ n.env = j.env /\ n.stage = "row"
  BY DEF Moves, MailTyped
<1>2. ASSUME NEW m \in Mails
      PROVE  (\E k \in desk' : k.hub = h /\ k.env = m /\ k.stage = "row") <=>
             \/ \E k \in desk : k.hub = h /\ k.env = m /\ k.stage = "row"
             \/ h = j.hub /\ m = j.env
  BY <1>1
<1>3. Counted(h, c)' = {m \in Mails : /\ ConvOf(m) = c
                                      /\ \/ m \in mail[h]
                                         \/ \E k \in desk' : k.hub = h /\ k.env = m /\ k.stage = "row"}
  BY DEF Counted, ConvOf
<1>4. Counted(h, c) = {m \in Mails : /\ ConvOf(m) = c
                                     /\ \/ m \in mail[h]
                                        \/ \E k \in desk : k.hub = h /\ k.env = m /\ k.stage = "row"}
  BY DEF Counted
<1>5. QED
  BY <1>1, <1>2, <1>3, <1>4

LEMMA OrderStep ==
    ASSUME TypeOK, MailTyped, DeskSound, InboxOrdered, DmAction
    PROVE  InboxOrdered'
<1> SUFFICES ASSUME NEW h \in Hubs, NEW c \in Pairs, errors' = 0, Relayed(h, c)'
             PROVE  InOrder(h, c)'
  BY DEF InboxOrdered
<1>1. errors = 0 /\ Relayed(h, c)
  BY RelayedBefore
<1>2. InOrder(h, c)
  BY <1>1 DEF InboxOrdered
<1>3. CASE ~\E j \in desk : UpsertConversation(j)
  BY <1>2, <1>3, CountedKept DEF InOrder
<1>4. ASSUME NEW j \in desk, UpsertConversation(j)
      PROVE  InOrder(h, c)'
  <2>1. PICK n \in [hub : Hubs, env : Mails, stage : {"conv", "row"}, mine : BOOLEAN],
             at \in Nat \ {0} : Moves(j, n, at)
    BY <1>4, UpsertShape
  <2>2. /\ mail' = mail /\ j.hub \in Hubs /\ j.env \in Mails /\ ConvOf(j.env) \in Pairs
        /\ conv[h][c] \in Nat /\ SentAt[j.env] \in Nat
    BY <1>4, ConvOK DEF UpsertConversation, MailTyped
  <2>3. \A m \in Counted(h, c) : SentAt[m] \in Nat
    BY ConvOK DEF Counted
  <2>4. CASE h = j.hub /\ c = ConvOf(j.env)
    <3>1. Counted(h, c)' = Counted(h, c) \cup {j.env}
      BY <2>1, <2>2, <2>4, CountedMoved
    <3>2. conv'[h][c] = at
      BY <2>1, <2>2, <2>4 DEF Moves, MailTyped
    <3>3. ~j.mine
      BY <1>1, <2>4 DEF Relayed
    <3>4. at = IF SentAt[j.env] > conv[h][c] THEN SentAt[j.env] ELSE conv[h][c]
      BY <2>1, <2>4, <3>3 DEF Moves, LastMessageAt
    <3>5. \A m \in Counted(h, c)' : SentAt[m] <= conv'[h][c]
      BY <1>2, <2>2, <2>3, <3>1, <3>2, <3>4 DEF InOrder
    <3>6. \E m \in Counted(h, c)' : SentAt[m] = conv'[h][c]
      BY <1>2, <2>2, <3>1, <3>2, <3>4 DEF InOrder
    <3>7. QED
      BY <3>5, <3>6 DEF InOrder
  <2>5. CASE ~(h = j.hub /\ c = ConvOf(j.env))
    <3>1. Counted(h, c)' = Counted(h, c)
      BY <2>1, <2>2, <2>5, CountedMoved
    <3>2. conv'[h][c] = conv[h][c]
      BY <2>1, <2>2, <2>5 DEF Moves, MailTyped
    <3>3. QED
      BY <1>2, <3>1, <3>2 DEF InOrder
  <2>6. QED
    BY <2>4, <2>5
<1>5. QED
  BY <1>3, <1>4

LEMMA StepInbox == InboxInv /\ DmAction => InboxInv'
<1> SUFFICES ASSUME InboxInv, DmAction PROVE InboxInv'
  OBVIOUS
<1>1. RightsKept /\ TypeOK /\ RightsKept'
  BY StepRights, InboxSteps DEF InboxInv, DmAction, RightsKept, RightsInv
<1>2. MailTyped' /\ KeysSigned' /\ ReceiptsNewest'
  BY MailTypedStep, KeysStep, ReceiptsStep DEF InboxInv
<1>3. LettersHome' /\ DeskSound' /\ MailHasConv' /\ DeskHasConv'
  BY DeskStep DEF InboxInv
<1>4. InboxOrdered'
  BY <1>1, OrderStep DEF InboxInv
<1>5. QED
  BY <1>1, <1>2, <1>3, <1>4 DEF InboxInv

LEMMA NewestIs ==
    ASSUME NEW es, NEW n \in Nat,
           \A e \in es : SentAt[e] \in Nat /\ SentAt[e] <= n,
           n # 0 => \E e \in es : SentAt[e] = n
    PROVE  Newest(es) = n
<1> DEFINE S == {0} \cup {SentAt[e] : e \in es}
<1>1. n \in S /\ S \subseteq Nat /\ \A y \in S : y <= n
  OBVIOUS
<1> HIDE DEF S
<1>2. \A x \in S : (\A y \in S : x >= y) <=> x = n
  BY <1>1
<1>3. (CHOOSE x \in S : \A y \in S : x >= y) = n
  BY <1>1, <1>2
<1>4. QED
  BY <1>3 DEF Newest, Max, S

LEMMA InboxImplies ==
    ASSUME InboxInv
    PROVE  DmTypeOK /\ RelayInboxExact /\ ReceiptIsNewest
<1>1. DmTypeOK
  <2>1. TypeOK
    BY DEF InboxInv, RightsKept, RightsInv
  <2>2. \A h \in Hubs, t \in Tids : KeyFor(h, t) \in {r \in Regs : AuthorOf[r] = t} \cup {NoKey}
    BY DEF InboxInv, MailTyped, KeysSigned, KeyFor
  <2>3. QED
    BY <2>1, <2>2 DEF InboxInv, MailTyped, MailHasConv, DmTypeOK
<1>2. RelayInboxExact
  <2> SUFFICES ASSUME NEW h \in Hubs, NEW c \in Pairs, errors = 0,
                      \A m \in mail[h] : ConvOf(m) = c => h \notin DmHomes[m] \/ <<h, m>> \in letters,
                      \A j \in desk : ~(j.hub = h /\ ConvOf(j.env) = c),
                      NEW t \in c
               PROVE  LET stored == {m \in mail[h] : ConvOf(m) = c} IN
                      /\ stored # {} => \E row \in ConversationList(h, t) : row.id = c
                      /\ \A row \in ConversationList(h, t) : row.id = c => row.last = Newest(stored)
    BY DEF RelayInboxExact
  <2> DEFINE stored == {m \in mail[h] : ConvOf(m) = c}
             rowOf(d) == [id |-> d, peer |-> CHOOSE u \in d : u # t, last |-> conv[h][d],
                          count |-> Cardinality({m \in mail[h] : ConvOf(m) = d}),
                          unread |-> Cardinality(Unread(h, t, d))]
  <2>1. /\ MailTyped /\ MailHasConv /\ InboxOrdered
        /\ Relayed(h, c)
    BY DEF InboxInv, Relayed
  <2>2. Counted(h, c) = stored
    BY <2>1 DEF Counted, MailTyped
  <2>3. Newest(stored) = conv[h][c]
    <3>1. /\ \A m \in stored : SentAt[m] <= conv[h][c]
          /\ conv[h][c] # 0 => \E m \in stored : SentAt[m] = conv[h][c]
      BY <2>1, <2>2 DEF InboxOrdered, InOrder
    <3>2. conv[h][c] \in Nat /\ \A m \in stored : SentAt[m] \in Nat
      BY <2>1, ConvOK DEF MailTyped
    <3>3. QED
      BY <3>1, <3>2, NewestIs
  <2>4. ConversationList(h, t) = {rowOf(d) : d \in {x \in Pairs : t \in x /\ conv[h][x] # 0}}
    BY DEF ConversationList
  <2>5. \A d : rowOf(d).id = d /\ rowOf(d).last = conv[h][d]
    OBVIOUS
  <2> HIDE DEF rowOf
  <2>6. stored # {} => \E row \in ConversationList(h, t) : row.id = c
    <3>1. stored # {} => conv[h][c] # 0
      BY <2>1 DEF MailHasConv
    <3>2. QED
      BY <2>4, <2>5, <3>1
  <2>7. \A row \in ConversationList(h, t) : row.id = c => row.last = Newest(stored)
    BY <2>3, <2>4, <2>5
  <2>8. QED
    BY <2>6, <2>7
<1>3. ReceiptIsNewest
  <2> SUFFICES ASSUME NEW h \in Hubs, NEW t \in Tids, NEW c \in Conversations
               PROVE  LET newest == Newest({r \in Reads : /\ AuthorOf[r] = t /\ ReadIn[r] = c
                                                          /\ <<h, r>> \in posted}) IN
                      /\ {x.at : x \in {y \in ReadsIn(h, c) : y.tid = t}} = {newest} \ {0}
                      /\ \A row \in GroupList(h, t) : row.id = c =>
                           row.unread = Cardinality({m \in texts[h] :
                                          GroupOf[m] = c /\ SignerOf[m] # t /\ SentAt[m] > newest})
    BY DEF ReceiptIsNewest
  <2> DEFINE at == receipt[h][t][c]
  <2>1. Newest(Submitted(h, t, c)) = at
    <3>1. at \in Nat /\ \A r \in Submitted(h, t, c) : SentAt[r] \in Nat
      BY DmAssumption DEF InboxInv, MailTyped, Submitted
    <3>2. /\ \A r \in Submitted(h, t, c) : SentAt[r] <= at
          /\ at # 0 => \E r \in Submitted(h, t, c) : SentAt[r] = at
      BY DEF InboxInv, ReceiptsNewest
    <3>3. QED
      BY <3>1, <3>2, NewestIs
  <2>2. {x.at : x \in {y \in ReadsIn(h, c) : y.tid = t}} = {at} \ {0}
    <3> DEFINE entry(u) == [tid |-> u, at |-> receipt[h][u][c]]
    <3>1. \A y : y \in ReadsIn(h, c) <=> \E u \in Tids : receipt[h][u][c] # 0 /\ y = entry(u)
      BY DEF ReadsIn
    <3>2. \A u : entry(u).tid = u /\ entry(u).at = receipt[h][u][c]
      OBVIOUS
    <3> HIDE DEF entry
    <3>3. QED
      BY <3>1, <3>2
  <2>3. ASSUME NEW row \in GroupList(h, t), row.id = c
        PROVE  row.unread = Cardinality({m \in texts[h] :
                              GroupOf[m] = c /\ SignerOf[m] # t /\ SentAt[m] > at})
    <3> DEFINE rowOf(g) == [id |-> g, members |-> Cardinality(members[h][g]),
                            last |-> Max({0} \cup {SentAt[m] : m \in {n \in texts[h] : GroupOf[n] = g}}),
                            unread |-> Cardinality(Unread(h, t, g))]
    <3>1. PICK g \in Groups : row = rowOf(g)
      BY DEF GroupList
    <3>2. rowOf(g).id = g /\ rowOf(g).unread = Cardinality(Unread(h, t, g))
      OBVIOUS
    <3>3. g = c /\ row.unread = Cardinality(Unread(h, t, g))
      BY <2>3, <3>1, <3>2
    <3>4. QED
      BY <3>3 DEF Unread
  <2>4. QED
    BY <2>1, <2>2, <2>3 DEF Submitted
<1>4. QED
  BY <1>1, <1>2, <1>3

\* Every variable of the inbox stays in its type, a stored DM has its
\* conversation row whatever upserts, inserts and restarts come between, and the
\* key served for a tid is one that tid signed.
THEOREM InboxTyped == DmSpec => []DmTypeOK
<1>1. InboxInv /\ [DmNext]_<<vars, dmVars>> => InboxInv'
  BY StepInbox DEF DmAction
<1>2. InboxInv => DmTypeOK
  BY InboxImplies
<1>3. QED
  BY <1>1, <1>2, InitInbox, PTL DEF DmSpec

\* At a hub that only relays a conversation last_message_at is the time of the
\* newest message stored, in whatever order pushes and repeated offers come.
THEOREM RelaysKeepInboxOrder == DmSpec => []RelayInboxExact
<1>1. InboxInv /\ [DmNext]_<<vars, dmVars>> => InboxInv'
  BY StepInbox DEF DmAction
<1>2. InboxInv => RelayInboxExact
  BY InboxImplies
<1>3. QED
  BY <1>1, <1>2, InitInbox, PTL DEF DmSpec

\* A late read receipt never sets a newer one back, nor the badge of a group.
THEOREM ReceiptsOnlyAdvance == DmSpec => []ReceiptIsNewest
<1>1. InboxInv /\ [DmNext]_<<vars, dmVars>> => InboxInv'
  BY StepInbox DEF DmAction
<1>2. InboxInv => ReceiptIsNewest
  BY InboxImplies
<1>3. QED
  BY <1>1, <1>2, InitInbox, PTL DEF DmSpec

----------------------------------------------------------------------------
(* Paging through a conversation. *)

LEMMA Least ==
    ASSUME NEW S, S \subseteq Nat, S # {}
    PROVE  \E n \in S : \A i \in S : n <= i
<1>1. PICK top \in Nat : top \in S
  OBVIOUS
<1> DEFINE below(n) == {i \in S : i < n}
           I == 0 .. top
           R == StrictSubsetOrdering(I)
           T == {below(n) : n \in {i \in S : i <= top}}
<1>2. IsFiniteSet(I) /\ FiniteSubsetsOf(I) = SUBSET I
  <2>1. IsFiniteSet(I)
    BY FS_Interval
  <2>2. QED
    BY <2>1, FS_FiniteSubsetsOfFinite
<1>3. IsWellFoundedOn(R, SUBSET I)
  BY <1>2, FS_StrictSubsetOrderingWellFounded
<1>4. ASSUME NEW n \in S, n <= top PROVE below(n) \in SUBSET I
  <2>1. n \in Nat
    OBVIOUS
  <2>2. ASSUME NEW i \in below(n) PROVE i \in I
    <3>1. i \in Nat /\ i < n
      BY <2>2
    <3>2. QED
      BY <1>4, <2>1, <3>1
  <2>3. QED
    BY <2>2
<1>5. T \subseteq SUBSET I /\ T # {}
  <2>1. below(top) \in T
    BY <1>1
  <2> HIDE DEF below, I
  <2>2. QED
    BY <1>4, <2>1
<1>6. \E y \in T : \A z \in T : <<z, y>> \notin R
  <2> HIDE DEF R, T, I
  <2>1. QED
    BY <1>3, <1>5, WFMin
<1>7. PICK n \in S : n <= top /\ \A z \in T : <<z, below(n)>> \notin R
  <2> HIDE DEF R
  <2>1. QED
    BY <1>6
<1>8. ASSUME NEW i \in S, i < n PROVE FALSE
  <2>1. i <= top /\ i \in Nat /\ n \in Nat
    BY <1>1, <1>7, <1>8
  <2>2. below(i) \in T
    BY <2>1
  <2>3. below(i) \in SUBSET I /\ below(n) \in SUBSET I
    BY <1>4, <1>7, <2>1
  <2>4. i \in below(n) /\ i \notin below(i)
    BY <1>8, <2>1
  <2>5. below(i) \subseteq below(n)
    <3> SUFFICES ASSUME NEW k \in S, k < i PROVE k < n
      OBVIOUS
    <3>1. k \in Nat
      OBVIOUS
    <3>2. QED
      BY <1>8, <2>1, <3>1
  <2>6. <<below(i), below(n)>> \in R
    <3> HIDE DEF below, I
    <3>1. QED
      BY <2>3, <2>4, <2>5 DEF StrictSubsetOrdering
  <2>7. QED
    BY <1>7, <2>2, <2>6
<1>9. QED
  <2>1. ASSUME NEW i \in S PROVE n <= i
    <3>1. n \in Nat /\ i \in Nat
      OBVIOUS
    <3>2. QED
      BY <1>8, <3>1
  <2>2. QED
    BY <2>1

\* The newest of some messages
LEMMA SomeNewest ==
    ASSUME NEW S, IsFiniteSet(S), S # {}, \A m \in S : SentAt[m] \in Nat
    PROVE  \E m \in S : \A o \in S : SentAt[o] <= SentAt[m]
<1> DEFINE later(m) == {o \in S : SentAt[o] > SentAt[m]}
           R == StrictSubsetOrdering(S)
           T == {later(m) : m \in S}
<1>1. IsWellFoundedOn(R, SUBSET S)
  BY FS_FiniteSubsetsOfFinite, FS_StrictSubsetOrderingWellFounded
<1>2. T \subseteq SUBSET S /\ T # {}
  OBVIOUS
<1>3. \E x \in T : \A y \in T : <<y, x>> \notin R
  <2> HIDE DEF R, T
  <2>1. QED
    BY <1>1, <1>2, WFMin
<1>4. PICK m \in S : \A y \in T : <<y, later(m)>> \notin R
  BY <1>3
<1>5. ASSUME NEW o \in later(m) PROVE FALSE
  <2>1. later(o) \subseteq later(m) /\ o \notin later(o) /\ later(o) \in T
    BY <1>5
  <2>2. <<later(o), later(m)>> \in R
    BY <1>5, <2>1 DEF StrictSubsetOrdering
  <2>3. QED
    BY <1>4, <2>1, <2>2
<1>6. QED
  BY <1>5

IsNewest(page, older, n) ==
    /\ Cardinality(page) = IF Cardinality(older) < n THEN Cardinality(older) ELSE n
    /\ \A m \in page, o \in older \ page : SentAt[m] >= SentAt[o]

\* ORDER BY timestamp DESC LIMIT n has an answer.
LEMMA PageExists ==
    ASSUME NEW older, IsFiniteSet(older), \A m \in older : SentAt[m] \in Nat, NEW n \in 1 .. 2
    PROVE  \E page \in SUBSET older : IsNewest(page, older, n)
<1>1. Cardinality(older) \in Nat
  BY FS_CardinalityType
<1>2. CASE Cardinality(older) < n
  BY <1>2 DEF IsNewest
<1>3. CASE ~(Cardinality(older) < n)
  <2>1. older # {}
    BY <1>1, <1>3, FS_EmptySet
  <2>2. PICK m \in older : \A o \in older : SentAt[o] <= SentAt[m]
    BY <2>1, SomeNewest
  <2>3. Cardinality({m}) = 1 /\ IsFiniteSet({m})
    BY FS_Singleton
  <2>4. CASE n = 1
    BY <1>3, <2>2, <2>3, <2>4 DEF IsNewest
  <2>5. CASE n = 2
    <3> DEFINE rest == older \ {m}
    <3>1. IsFiniteSet(rest) /\ Cardinality(rest) = Cardinality(older) - 1
      BY FS_RemoveElement
    <3>2. rest # {}
      BY <1>1, <1>3, <2>5, <3>1, FS_EmptySet
    <3>3. PICK q \in rest : \A o \in rest : SentAt[o] <= SentAt[q]
      BY <3>1, <3>2, SomeNewest
    <3>4. Cardinality({m} \cup {q}) = 2
      <4>1. q \notin {m}
        BY <3>3
      <4>2. Cardinality({m} \cup {q}) = Cardinality({m}) + 1
        BY <2>3, <4>1, FS_AddElement
      <4>3. QED
        BY <2>3, <4>2
    <3>5. \A o \in older \ ({m} \cup {q}) : SentAt[o] <= SentAt[q] /\ SentAt[o] <= SentAt[m]
      BY <2>2, <3>3
    <3>6. IsNewest({m} \cup {q}, older, n)
      BY <1>3, <2>5, <3>3, <3>4, <3>5 DEF IsNewest
    <3>7. QED
      BY <3>3, <3>6
  <2>6. QED
    BY <2>4, <2>5
<1>4. QED
  BY <1>2, <1>3

\* f[b] is what a client collects that asks for page b, then for page low[b],
\* and so on.
IsWalk(f, K, page, low) ==
    f = [b \in 0 .. K |-> IF page[b] = {} THEN {} ELSE page[b] \cup f[low[b]]]

LEMMA WalkExists ==
    ASSUME NEW K \in Nat, NEW page, NEW low,
           \A b \in 0 .. K : page[b] # {} => low[b] \in Nat /\ low[b] < b
    PROVE  \E f : IsWalk(f, K, page, low)
<1> USE DEF IsWalk
<1> DEFINE Walks(f, top) == IsWalk(f, top, page, low)
           S == {b \in 0 .. K : ~ \E f : Walks(f, b)}
<1>1. SUFFICES ASSUME S # {} PROVE FALSE
  <2>1. K \in 0 .. K
    OBVIOUS
  <2>2. QED
    BY <1>1, <2>1
<1>2. S \subseteq Nat
  OBVIOUS
<1>3. PICK top \in S : \A i \in S : top <= i
  <2> HIDE DEF S
  <2>1. QED
    BY <1>1, <1>2, Least
<1>4. CASE top = 0
  <2> DEFINE f == [b \in 0 .. 0 |-> {}]
  <2>1. page[0] = {}
    OBVIOUS
  <2>2. \A b \in 0 .. 0 : page[b] = {}
    BY <2>1
  <2>3. Walks(f, 0)
    BY <2>2
  <2>4. QED
    BY <1>4, <2>3
<1>5. CASE top # 0
  <2>1. top \in Nat /\ top - 1 \in 0 .. K /\ top \in 0 .. K /\ top - 1 < top
    BY <1>5
  <2>2. top - 1 \notin S
    <3> HIDE DEF S
    <3>1. QED
      BY <1>3, <2>1
  <2>3. PICK g : Walks(g, top - 1)
    BY <2>1, <2>2
  <2> DEFINE f == [b \in 0 .. top |-> IF b # top THEN g[b]
                                      ELSE IF page[b] = {} THEN {} ELSE page[b] \cup g[low[b]]]
  <2>4. \A b \in 0 .. top - 1 : f[b] = g[b]
    BY <2>1
  <2>5. \A b \in 0 .. top : page[b] # {} => low[b] \in 0 .. top - 1 /\ f[low[b]] = g[low[b]]
    <3> SUFFICES ASSUME NEW b \in 0 .. top, page[b] # {} PROVE low[b] \in 0 .. top - 1
      BY <2>4
    <3>1. b \in 0 .. K /\ b <= top
      BY <2>1
    <3>2. low[b] \in Nat /\ low[b] < b
      BY <3>1
    <3>3. QED
      BY <2>1, <3>1, <3>2
  <2>6. ASSUME NEW b \in 0 .. top
        PROVE  f[b] = IF page[b] = {} THEN {} ELSE page[b] \cup f[low[b]]
    <3>1. CASE b = top
      BY <2>5, <3>1
    <3>2. CASE b # top
      <4>1. b \in 0 .. top - 1
        BY <2>1, <3>2
      <4>2. g[b] = IF page[b] = {} THEN {} ELSE page[b] \cup g[low[b]]
        BY <2>3, <4>1
      <4>3. QED
        BY <2>4, <2>5, <4>1, <4>2
    <3>3. QED
      BY <3>1, <3>2
  <2>7. DOMAIN f = 0 .. top
    OBVIOUS
  <2>8. Walks(f, top)
    <3>1. f = [b \in 0 .. top |-> f[b]]
      OBVIOUS
    <3> HIDE DEF f
    <3>2. QED
      BY <2>6, <3>1
  <2>9. QED
    BY <2>8
<1>6. QED
  BY <1>4, <1>5

Older(h, c, b) == {m \in mail[h] : ConvOf(m) = c /\ SentAt[m] < b}

LEMMA MailPageFacts ==
    ASSUME InboxInv, NEW h \in Hubs, IsFiniteSet(mail[h]), NEW c \in Pairs, NEW t \in c,
           NEW b \in Nat, NEW n \in 1 .. 2
    PROVE  LET page == MailPage(h, t, c, b, n) IN
           /\ page \subseteq Older(h, c, b) /\ (Older(h, c, b) # {} => page # {})
           /\ \A m \in page, o \in Older(h, c, b) \ page : SentAt[m] >= SentAt[o]
<1> DEFINE older == Older(h, c, b)
           page == MailPage(h, t, c, b, n)
<1>1. mail[h] \subseteq Mails /\ \A m \in mail[h] : conv[h][ConvOf(m)] # 0
  BY DEF InboxInv, MailTyped, MailHasConv
<1>2. /\ IsFiniteSet(older) /\ older \subseteq mail[h] /\ older \subseteq Mails
      /\ \A m \in older : SentAt[m] \in Nat
  <2>1. older \subseteq mail[h]
    BY DEF Older
  <2>2. IsFiniteSet(older)
    BY <2>1, FS_Subset
  <2>3. QED
    BY <1>1, <2>1, <2>2, DmAssumption
<1>3. CASE conv[h][c] = 0
  <2>1. older = {}
    BY <1>1, <1>3 DEF Older
  <2>2. page = {}
    BY <1>3 DEF MailPage
  <2>3. QED
    BY <2>1, <2>2
<1>4. CASE conv[h][c] # 0
  <2>1. page = CHOOSE q \in SUBSET older : IsNewest(q, older, n)
    BY <1>4 DEF MailPage, IsNewest, Older
  <2>2. page \in SUBSET older /\ IsNewest(page, older, n)
    <3> HIDE DEF older, page
    <3>1. \E q \in SUBSET older : IsNewest(q, older, n)
      BY <1>2, PageExists
    <3>2. QED
      BY <2>1, <3>1
  <2>3. older # {} => page # {}
    <3> SUFFICES ASSUME older # {}, page = {} PROVE FALSE
      OBVIOUS
    <3>1. Cardinality(older) \in Nat /\ Cardinality(older) # 0
      BY <1>2, FS_CardinalityType, FS_EmptySet
    <3>2. Cardinality(page) = 0
      BY FS_EmptySet
    <3> HIDE DEF older, page
    <3>3. QED
      BY <2>2, <3>1, <3>2 DEF IsNewest
  <2>4. QED
    BY <2>2, <2>3 DEF IsNewest
<1>5. QED
  BY <1>3, <1>4

LEMMA MinOf ==
    ASSUME NEW S, S \subseteq Nat, S # {}
    PROVE  Min(S) \in S /\ \A i \in S : Min(S) <= i
<1>1. \E n \in S : \A i \in S : n <= i
  BY Least
<1>2. QED
  BY <1>1 DEF Min

LEMMA NewestBounds ==
    ASSUME NEW es, IsFiniteSet(es), \A m \in es : SentAt[m] \in Nat
    PROVE  Newest(es) \in Nat /\ \A m \in es : SentAt[m] <= Newest(es)
<1>1. CASE es = {}
  <2>1. Newest(es) = 0
    BY <1>1, NewestIs
  <2>2. QED
    BY <1>1, <2>1
<1>2. CASE es # {}
  <2>1. PICK m \in es : \A o \in es : SentAt[o] <= SentAt[m]
    BY <1>2, SomeNewest
  <2>2. Newest(es) = SentAt[m]
    BY <2>1, NewestIs
  <2>3. QED
    BY <2>1, <2>2
<1>3. QED
  BY <1>1, <1>2

\* What is older than a page's time is collected from there on, or tied with
\* what is.
LEMMA AllCollected ==
    ASSUME InboxInv, NEW h \in Hubs, IsFiniteSet(mail[h]), NEW c \in Pairs, NEW t \in c,
           NEW n \in 1 .. 2, NEW m \in mail[h], ConvOf(m) = c
    PROVE  \E o \in Collected(h, t, c, n) : SentAt[o] = SentAt[m]
<1> DEFINE K == Newest(mail[h]) + 1
           page == [b \in 0 .. K |-> MailPage(h, t, c, b, n)]
           low == [b \in 0 .. K |-> Min({SentAt[o] : o \in page[b]})]
           Walks(f) == IsWalk(f, K, page, low)
           Pages(f) == f = [b \in 0 .. K |->
             LET answer == MailPage(h, t, c, b, n) IN
             IF answer = {} THEN {} ELSE answer \cup f[Min({SentAt[o] : o \in answer})]]
           F == CHOOSE f : Pages(f)
           Lost(b) == \E o \in Older(h, c, b) : \A z \in F[b] : SentAt[z] # SentAt[o]
           S == {b \in 0 .. K : Lost(b)}
<1>1. mail[h] \subseteq Mails /\ \A o \in mail[h] : SentAt[o] \in Nat
  BY DmAssumption DEF InboxInv, MailTyped
<1>2. K \in Nat /\ m \in Older(h, c, K)
  <2>1. Newest(mail[h]) \in Nat /\ SentAt[m] <= Newest(mail[h]) /\ SentAt[m] \in Nat
    BY <1>1, NewestBounds
  <2>2. QED
    BY <2>1 DEF Older
<1>3. ASSUME NEW b \in 0 .. K
      PROVE  /\ page[b] \subseteq Older(h, c, b) /\ (Older(h, c, b) # {} => page[b] # {})
             /\ \A z \in page[b], o \in Older(h, c, b) \ page[b] : SentAt[z] >= SentAt[o]
  <2>1. b \in Nat
    BY <1>2
  <2>2. page[b] = MailPage(h, t, c, b, n)
    OBVIOUS
  <2>3. QED
    BY <2>1, <2>2, MailPageFacts
<1>4. ASSUME NEW b \in 0 .. K, page[b] # {}
      PROVE  /\ low[b] \in Nat /\ low[b] < b /\ low[b] \in 0 .. K
             /\ \E z \in page[b] : SentAt[z] = low[b]
  <2> DEFINE times == {SentAt[o] : o \in page[b]}
  <2>1. b \in Nat /\ b <= K
    BY <1>2
  <2>2. \A o \in page[b] : SentAt[o] \in Nat /\ SentAt[o] < b
    BY <1>1, <1>3 DEF Older
  <2>3. times \subseteq Nat /\ times # {}
    BY <1>4, <2>2
  <2>4. low[b] = Min(times)
    OBVIOUS
  <2>5. low[b] \in times
    <3> HIDE DEF times, low
    <3>1. QED
      BY <2>3, <2>4, MinOf
  <2>6. PICK z \in page[b] : SentAt[z] = low[b]
    <3> HIDE DEF low, page
    <3>1. QED
      BY <2>5
  <2>7. QED
    <3> HIDE DEF low, page
    <3>1. QED
      BY <1>2, <2>1, <2>2, <2>6
<1> HIDE DEF page, low
<1>5. Walks(F)
  <2>1. \E f : Walks(f)
    <3>1. \A b \in 0 .. K : page[b] # {} => low[b] \in Nat /\ low[b] < b
      BY <1>4
    <3> HIDE DEF K
    <3>2. QED
      BY <1>2, <3>1, WalkExists
  <2>2. \A f : Pages(f) <=> Walks(f)
    <3>1. \A b \in 0 .. K : /\ page[b] = MailPage(h, t, c, b, n)
                            /\ low[b] = Min({SentAt[o] : o \in MailPage(h, t, c, b, n)})
      BY DEF page, low
    <3>2. QED
      BY <3>1 DEF IsWalk
  <2> HIDE DEF Walks, Pages
  <2>3. QED
    BY <2>1, <2>2
<1>6. \A b \in 0 .. K : F[b] = IF page[b] = {} THEN {} ELSE page[b] \cup F[low[b]]
  <2> HIDE DEF F
  <2>1. QED
    BY <1>5 DEF IsWalk
<1>7. Collected(h, t, c, n) = F[K]
  BY DEF Collected
<1> HIDE DEF F, K
<1>8. S = {}
  <2> SUFFICES ASSUME S # {} PROVE FALSE
    OBVIOUS
  <2>1. S \subseteq Nat
    BY <1>2
  <2>2. PICK b \in S : \A i \in S : b <= i
    <3> HIDE DEF S
    <3>1. QED
      BY <2>1, Least
  <2>3. b \in 0 .. K /\ b \in Nat
    BY <1>2
  <2>4. PICK o \in Older(h, c, b) : \A z \in F[b] : SentAt[z] # SentAt[o]
    BY <2>3
  <2>5. page[b] # {} /\ o \in mail[h] /\ ConvOf(o) = c /\ SentAt[o] \in Nat
    BY <1>1, <1>3, <2>3, <2>4 DEF Older
  <2>6. F[b] = page[b] \cup F[low[b]]
    BY <1>6, <2>3, <2>5
  <2>7. o \notin page[b]
    BY <2>4, <2>6
  <2>8. PICK z \in page[b] : SentAt[z] = low[b]
    BY <1>4, <2>3, <2>5
  <2>9. SentAt[z] >= SentAt[o] /\ SentAt[z] # SentAt[o]
    BY <1>3, <2>3, <2>4, <2>6, <2>7, <2>8
  <2>10. low[b] \in Nat /\ low[b] < b /\ low[b] \in 0 .. K
    BY <1>4, <2>3, <2>5
  <2>11. o \in Older(h, c, low[b])
    BY <2>5, <2>8, <2>9, <2>10 DEF Older
  <2>12. low[b] \in S
    BY <2>4, <2>6, <2>10, <2>11
  <2>13. QED
    BY <2>2, <2>3, <2>10, <2>12
<1>9. K \in 0 .. K
  BY <1>2
<1>10. QED
  BY <1>2, <1>7, <1>8, <1>9

MailFinite == \A h \in Hubs : IsFiniteSet(mail[h])

LEMMA MailFiniteStep == InboxInv /\ MailFinite /\ DmAction => MailFinite'
<1> SUFFICES ASSUME InboxInv, MailFinite, DmAction PROVE MailFinite'
  OBVIOUS
<1>1. mail' = mail \/ \E j \in desk : InsertMail(j)
  <2>1. MailTyped
    BY DEF InboxInv
  <2>2. QED
    BY <2>1, InboxKinds DEF RegisterKey, SendRequest, Read, HandleKey, HandleMail, UpsertConversation,
        InsertMail, Resend, dmTables
<1>2. CASE mail' = mail
  BY <1>2 DEF MailFinite
<1>3. ASSUME NEW j \in desk, InsertMail(j) PROVE MailFinite'
  <2>1. mail \in [Hubs -> SUBSET Mails]
    BY DEF InboxInv, MailTyped
  <2>2. \A h \in Hubs : mail'[h] = mail[h] \/ mail'[h] = mail[h] \cup {j.env}
    BY <1>3, <2>1 DEF InsertMail
  <2>3. ASSUME NEW h \in Hubs PROVE IsFiniteSet(mail'[h])
    <3>1. IsFiniteSet(mail[h])
      BY DEF MailFinite
    <3>2. IsFiniteSet(mail[h] \cup {j.env})
      BY <3>1, FS_AddElement
    <3>3. QED
      BY <2>2, <3>1, <3>2
  <2>4. QED
    BY <2>3 DEF MailFinite
<1>4. QED
  BY <1>1, <1>2, <1>3

LEMMA InboxPages == InboxInv /\ MailFinite => PagesMissOnlyTies
<1> SUFFICES ASSUME InboxInv, MailFinite PROVE PagesMissOnlyTies
  OBVIOUS
<1>1. ASSUME NEW h \in Hubs, NEW c \in Pairs, NEW n \in 1 .. 2, NEW t \in c,
             NEW m \in {x \in mail[h] : ConvOf(x) = c} \cup Unread(h, t, c)
      PROVE  SentAt[m] \in {SentAt[o] : o \in Collected(h, t, c, n)}
  <2>1. m \in mail[h] /\ ConvOf(m) = c
    BY TypesDistinct DEF Unread
  <2>2. IsFiniteSet(mail[h])
    BY DEF MailFinite
  <2>3. QED
    BY <2>1, <2>2, AllCollected
<1>2. ASSUME NEW h \in Hubs, NEW t \in Tids, NEW g \in Groups, NEW m \in GroupPage(h, t, g)
      PROVE  t \in Named[m]
  <2>1. m \in texts[h] /\ t \in ciphers[h][m]
    BY DEF GroupPage
  <2>2. ciphers[h][m] \in {{}, Named[m]}
    BY <2>1 DEF InboxInv, RightsKept, RightsInv, CiphersDue
  <2>3. QED
    BY <2>1, <2>2
<1>3. QED
  BY <1>1, <1>2 DEF PagesMissOnlyTies

\* Paging back through a conversation, one or two messages at a time, returns
\* every message or one signed in the same second, whatever else the hub stores,
\* and a page of a group has only what was sealed for its reader.
THEOREM PagesReturnAll == DmSpec => []PagesMissOnlyTies
<1>1. DmInit => MailFinite
  BY FS_EmptySet DEF DmInit, MailFinite
<1>2. InboxInv /\ MailFinite /\ [DmNext]_<<vars, dmVars>> => (InboxInv /\ MailFinite)'
  BY StepInbox, MailFiniteStep DEF DmAction
<1>3. QED
  BY <1>1, <1>2, InitInbox, InboxPages, PTL DEF DmSpec
=============================================================================
