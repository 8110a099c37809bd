---------------------------- MODULE IndexerProofs ----------------------------
(***************************************************************************)
(* Proofs about EventIndexer for every set of programs, every chain and    *)
(* every value of the bounds: the types, that cursors move forward, and    *)
(* that they leave nothing behind.  What the handlers write plays no part: *)
(* Query is never expanded.                                                *)
(***************************************************************************)
EXTENDS EventIndexer, TLAPS, FiniteSetTheorems, SequenceTheorems

BackfillType == [phase : Phases, until : Nat, before : Nat, queue : Seq(Nat)]
CursorType == [sig : Nat, slot : Nat]
JobType == [owner : Owner, tx : Nat, ev : Nat \ {0}, q : Nat \ {0}]

\* The chain is a sequence (of transactions whose events have many shapes).
Chains ==
  /\ (\E S : chain \in Seq(S)) /\ Len(chain) <= MaxTx
  /\ followed \subseteq Programs /\ reachable \in BOOLEAN
  /\ \A x \in DOMAIN chain : /\ chain[x].prog \in followed
                             /\ chain[x].slot \in Nat \ {0} /\ chain[x].ok \in BOOLEAN

GoodCursor(p, c) ==
  \/ c = [sig |-> 0, slot |-> 0]
  \/ c.sig \in Good(p) /\ c.slot = chain[c.sig].slot

Cursors ==
  /\ cursor \in [Programs -> CursorType]
  /\ \A p \in Programs : GoodCursor(p, cursor[p])

\* A live connection is at a transaction or just behind the last one;
\* connections of calls that have not been made do not exist.
Links ==
  /\ dials \in 0..MaxDials
  /\ link \in [Dials -> {"off", "opening", "live", "closed"}]
  /\ next \in [Dials -> Nat]
  /\ \A g \in Dials : link[g] = "live" => next[g] \in 1..(Len(chain) + 1)
  /\ \A g \in Dials : g > dials => link[g] = "off"

\* A backfill lists downwards: what it collected is not older than its page
\* cursor, and there is room for it above the cursor.
ListsDown(b) ==
  /\ b.phase \in {"off", "start", "complete"} => b.queue = <<>>
  /\ b.phase = "start" => b.before = 0 /\ Limit > 0
  /\ b.phase = "listing" =>
       /\ Len(b.queue) < Limit
       /\ b.before <= Len(chain)
       /\ b.before = 0 => b.queue = <<>>
       /\ b.before > 0 => /\ Len(b.queue) + b.before <= Len(chain) + 1
                          /\ \A i \in DOMAIN b.queue : b.queue[i] >= b.before

GoodBackfill(p, b) ==
  /\ b.until \in Good(p) \cup {0}
  /\ \A i \in DOMAIN b.queue : b.queue[i] \in Good(p)
  /\ Increasing(b.queue)
  /\ Len(b.queue) <= Limit
  /\ ListsDown(b)

Backfills ==
  /\ backfill \in [Dials -> [Programs -> BackfillType]]
  /\ \A g \in Dials, p \in Programs : GoodBackfill(p, backfill[g][p])
  /\ \A g \in Dials, p \in Programs : g > dials => backfill[g][p] = NoBackfill

GoodJob(j) ==
  /\ j \in JobType
  /\ j.tx \in DOMAIN chain /\ chain[j.tx].ok
  /\ j.owner.dial <= dials

\* j belongs to the backfill of call g for p
Of(j, g, p) == j.owner.by = "backfill" /\ j.owner.dial = g /\ chain[j.tx].prog = p

\* The job of a backfill is the head of its queue, and there is only one.
Jobs ==
  /\ \A j \in jobs : GoodJob(j)
  /\ \A j \in jobs, g \in Dials, p \in Programs : Of(j, g, p) =>
       /\ backfill[g][p].phase = "replay"
       /\ backfill[g][p].queue # <<>> /\ Head(backfill[g][p].queue) = j.tx
  /\ \A j, k \in jobs, g \in Dials, p \in Programs : Of(j, g, p) /\ Of(k, g, p) => j = k

History ==
  /\ done \subseteq DOMAIN chain
  /\ crashes \in 0..MaxCrashes /\ errors \in 0..MaxErrors

\* The inductive invariant behind TypeOK
Shape == Chains /\ Cursors /\ Links /\ Backfills /\ Jobs /\ History

LEMMA ShapeTypeOK == Shape => TypeOK
  BY DEF Shape, Chains, Cursors, GoodCursor, Links, Backfills, GoodBackfill, BackfillType,
         CursorType, Jobs, GoodJob, JobType, History, TypeOK

------------------------------------------------------------------------------
(* Helpers *)

LEMMA ChainFacts ==
  ASSUME Chains
  PROVE  /\ Len(chain) \in Nat /\ DOMAIN chain = 1..Len(chain)
         /\ chain \in Seq({chain[i] : i \in DOMAIN chain})
         /\ chain # <<>> => Len(chain) \in DOMAIN chain
<1>1. PICK S : chain \in Seq(S)
  BY DEF Chains
<1>2. Len(chain) \in Nat /\ DOMAIN chain = 1..Len(chain)
  BY <1>1
<1>3. chain \in Seq({chain[i] : i \in DOMAIN chain})
  BY <1>1
<1>4. chain # <<>> => Len(chain) \in Nat \ {0}
  BY <1>1, EmptySeq
<1>5. QED
  BY <1>2, <1>3, <1>4

LEMMA GoodFacts ==
  ASSUME Chains, NEW p, NEW x \in Good(p)
  PROVE  /\ x \in Nat \ {0} /\ x <= Len(chain) /\ x \in DOMAIN chain
         /\ chain[x].ok /\ chain[x].prog = p
         /\ p \in followed /\ p \in Programs
  BY ChainFacts DEF Good, Chains

LEMMA JobFacts ==
  ASSUME Shape, NEW j \in jobs
  PROVE  /\ j \in JobType /\ GoodJob(j)
         /\ j.owner \in Owner /\ j.owner.dial \in Dials /\ j.owner.by \in {"live", "backfill"}
         /\ j.tx \in Nat /\ j.ev \in Nat \ {0} /\ j.q \in Nat \ {0}
         /\ j.tx \in DOMAIN chain /\ chain[j.tx].prog \in Programs
         /\ j.tx \in Good(chain[j.tx].prog)
  BY DEF Shape, Jobs, GoodJob, JobType, Owner, Good, Chains

LEMMA BackfillFacts ==
  ASSUME Shape, NEW g \in Dials, NEW p \in Programs
  PROVE  /\ backfill[g][p] \in BackfillType
         /\ backfill[g][p].queue \in Seq(Nat)
         /\ backfill[g][p].phase \in Phases
         /\ backfill[g][p].until \in Nat /\ backfill[g][p].before \in Nat
         /\ GoodBackfill(p, backfill[g][p])
<1>1. backfill[g][p] \in BackfillType
  BY DEF Shape, Backfills
<1>2. QED
  BY <1>1 DEF Shape, Backfills, BackfillType

\* A call that has a backfill has been made.
LEMMA BackfillDialled ==
  ASSUME Shape, NEW g \in Dials, NEW p \in Programs, backfill[g][p].phase # "off"
  PROVE  g <= dials
  BY ConstantsAssumption DEF Shape, Backfills, NoBackfill, Links, Dials

\* The rest of a backfill's list, when its head has been handled.
LEMMA TailFacts ==
  ASSUME NEW q \in Seq(Nat), q # <<>>, Increasing(q)
  PROVE  /\ Tail(q) \in Seq(Nat) /\ Len(Tail(q)) = Len(q) - 1 /\ Len(q) \in Nat
         /\ Increasing(Tail(q))
         /\ \A i \in DOMAIN Tail(q) : i + 1 \in DOMAIN q /\ Tail(q)[i] = q[i + 1]
         /\ \A i \in DOMAIN q : q[i] = Head(q) \/ \E k \in DOMAIN Tail(q) : Tail(q)[k] = q[i]
<1>1. /\ Tail(q) \in Seq(Nat) /\ Len(Tail(q)) = Len(q) - 1
      /\ \A i \in 1..Len(Tail(q)) : Tail(q)[i] = q[i + 1]
  BY HeadTailProperties
<1>2. Len(q) \in Nat \ {0} /\ DOMAIN q = 1..Len(q) /\ DOMAIN Tail(q) = 1..(Len(q) - 1)
  BY <1>1, EmptySeq, LenProperties
<1>3. \A i \in DOMAIN Tail(q) : i + 1 \in DOMAIN q /\ Tail(q)[i] = q[i + 1]
  BY <1>1, <1>2
<1>4. Increasing(Tail(q))
  BY <1>2, <1>3 DEF Increasing
<1>5. ASSUME NEW i \in DOMAIN q, q[i] # Head(q)
      PROVE  \E k \in DOMAIN Tail(q) : Tail(q)[k] = q[i]
  <2>1. i # 1
    BY <1>5
  <2>2. i - 1 \in DOMAIN Tail(q)
    BY <1>2, <2>1
  <2>3. QED
    BY <1>2, <1>3, <2>2
<1>6. QED
  BY <1>1, <1>2, <1>3, <1>4, <1>5

\* A backfill that has handled the head of its list is still in order.
LEMMA TailGood ==
  ASSUME NEW p \in Programs, NEW b \in BackfillType, GoodBackfill(p, b),
         b.phase = "replay", b.queue # <<>>
  PROVE  /\ [b EXCEPT !.queue = Tail(@)] \in BackfillType
         /\ GoodBackfill(p, [b EXCEPT !.queue = Tail(@)])
<1> DEFINE c == [b EXCEPT !.queue = Tail(@)]
<1>1. /\ b.queue \in Seq(Nat) /\ Increasing(b.queue)
  BY DEF BackfillType, GoodBackfill
<1>2. /\ Tail(b.queue) \in Seq(Nat) /\ Len(Tail(b.queue)) = Len(b.queue) - 1
      /\ Len(b.queue) \in Nat
      /\ Increasing(Tail(b.queue))
      /\ \A i \in DOMAIN Tail(b.queue) : i + 1 \in DOMAIN b.queue
                                         /\ Tail(b.queue)[i] = b.queue[i + 1]
  BY <1>1, TailFacts
<1>3. c \in BackfillType /\ c.phase = "replay" /\ c.until = b.until /\ c.queue = Tail(b.queue)
  BY <1>2 DEF BackfillType
<1>4. \A i \in DOMAIN c.queue : c.queue[i] \in Good(p)
  BY <1>2, <1>3 DEF GoodBackfill
<1>5. Len(c.queue) <= Limit
  BY <1>2, <1>3, ConstantsAssumption DEF GoodBackfill
<1>6. ListsDown(c)
  BY <1>3 DEF ListsDown
<1>7. QED
  BY <1>2, <1>3, <1>4, <1>5, <1>6 DEF GoodBackfill

\* What a step leaves alone stays in order.
LEMMA Kept ==
  ASSUME Shape
  PROVE  /\ UNCHANGED chainVars => Chains'
         /\ UNCHANGED <<chainVars, cursor>> => Cursors'
         /\ UNCHANGED <<chainVars, linkVars>> => Links'
         /\ UNCHANGED <<chainVars, dials, backfill>> => Backfills'
         /\ UNCHANGED <<chainVars, dials, backfill, jobs>> => Jobs'
         /\ UNCHANGED <<chainVars, done, faults>> => History'
<1>1. UNCHANGED chainVars => Chains'
  BY DEF Shape, Chains, chainVars
<1>2. UNCHANGED <<chainVars, cursor>> => Cursors'
  BY DEF Shape, Cursors, GoodCursor, Good, chainVars
<1>3. UNCHANGED <<chainVars, linkVars>> => Links'
  BY DEF Shape, Links, chainVars, linkVars
<1>4. UNCHANGED <<chainVars, dials, backfill>> => Backfills'
  BY DEF Shape, Backfills, GoodBackfill, ListsDown, Good, chainVars
<1>5. UNCHANGED <<chainVars, dials, backfill, jobs>> => Jobs'
  BY DEF Shape, Jobs, GoodJob, Of, chainVars
<1>6. UNCHANGED <<chainVars, done, faults>> => History'
  BY DEF Shape, History, chainVars, faults
<1>7. QED
  BY <1>1, <1>2, <1>3, <1>4, <1>5, <1>6

\* The backfill of call g for p becomes b; the others stay.
OnlyChanged(g, p, b) ==
  \A h \in Dials, r \in Programs :
    backfill'[h][r] = IF h = g /\ r = p THEN b ELSE backfill[h][r]

LEMMA OneBackfill ==
  ASSUME Shape, NEW g \in Dials, NEW p \in Programs, NEW b \in BackfillType,
         g <= dials, GoodBackfill(p, b),
         backfill' = [backfill EXCEPT ![g][p] = b],
         UNCHANGED <<chainVars, dials>>
  PROVE  Backfills' /\ OnlyChanged(g, p, b)
<1>1. backfill \in [Dials -> [Programs -> BackfillType]]
  BY DEF Shape, Backfills
<1>2. \A h \in Dials, r \in Programs :
        backfill'[h][r] = IF h = g /\ r = p THEN b ELSE backfill[h][r]
  BY <1>1
<1>3. backfill' \in [Dials -> [Programs -> BackfillType]]
  BY <1>1
<1>4. \A h \in Dials, r \in Programs : GoodBackfill(r, backfill[h][r])
  BY DEF Shape, Backfills
<1>5. \A h \in Dials, r \in Programs : GoodBackfill(r, backfill'[h][r])
  BY <1>2, <1>4
<1>6. \A h \in Dials, r \in Programs : GoodBackfill(r, backfill[h][r])'
  BY <1>5 DEF GoodBackfill, ListsDown, Good, chainVars
<1>7. \A h \in Dials, r \in Programs : h > dials => backfill'[h][r] = NoBackfill
  <2> SUFFICES ASSUME NEW h \in Dials, NEW r \in Programs, h > dials
               PROVE  backfill'[h][r] = NoBackfill
    OBVIOUS
  <2>1. h # g
    BY DEF Shape, Links, Dials
  <2>2. QED
    BY <1>2, <2>1 DEF Shape, Backfills
<1>8. QED
  BY <1>2, <1>3, <1>6, <1>7 DEF Backfills, OnlyChanged

------------------------------------------------------------------------------

LEMMA EmptyBackfill ==
  /\ NoBackfill \in BackfillType /\ \A p : GoodBackfill(p, NoBackfill)
  /\ Limit > 0 => LET b == [NoBackfill EXCEPT !.phase = "start"] IN
                  b \in BackfillType /\ \A p : GoodBackfill(p, b)
<1>1. NoBackfill \in BackfillType /\ \A p : GoodBackfill(p, NoBackfill)
  BY ConstantsAssumption DEF NoBackfill, BackfillType, Phases, GoodBackfill, ListsDown, Increasing
<1>2. ASSUME Limit > 0, NEW b, b = [phase |-> "start", until |-> 0, before |-> 0, queue |-> <<>>]
      PROVE  b \in BackfillType /\ \A p : GoodBackfill(p, b)
  <2>1. b.phase = "start" /\ b.until = 0 /\ b.before = 0 /\ b.queue = <<>>
    BY <1>2
  <2>2. b \in BackfillType
    BY <1>2 DEF BackfillType, Phases
  <2>3. ListsDown(b) /\ Increasing(b.queue) /\ Len(b.queue) <= Limit
    BY <1>2, <2>1, ConstantsAssumption DEF ListsDown, Increasing
  <2>4. QED
    BY <2>1, <2>2, <2>3 DEF GoodBackfill
<1>3. [NoBackfill EXCEPT !.phase = "start"]
        = [phase |-> "start", until |-> 0, before |-> 0, queue |-> <<>>]
  BY DEF NoBackfill
<1>4. QED
  BY <1>1, <1>2, <1>3

\* The continuations of a job are jobs of the same owner and transaction.
LEMMA NextJob ==
  ASSUME NEW j \in JobType
  PROVE  \A k \in {NextEvent(j), [j EXCEPT !.q = @ + 1]} :
           k \in JobType /\ k.owner = j.owner /\ k.tx = j.tx
<1>1. [j EXCEPT !.q = @ + 1] \in JobType
  BY DEF JobType
<1>2. NextEvent(j) \in JobType
  <2>1. [j EXCEPT !.ev = @ + 1] \in JobType
    BY DEF JobType
  <2>2. NextEvent(j) = [[j EXCEPT !.ev = @ + 1] EXCEPT !.q = 1]
    BY DEF NextEvent, JobType
  <2>3. \A i \in JobType : [i EXCEPT !.q = 1] \in JobType
    BY DEF JobType
  <2>4. QED
    BY <2>1, <2>2, <2>3
<1>3. \A k \in {NextEvent(j), [j EXCEPT !.q = @ + 1]} : k.owner = j.owner /\ k.tx = j.tx
  BY DEF NextEvent, JobType
<1>4. QED
  BY <1>1, <1>2, <1>3

------------------------------------------------------------------------------

LEMMA ShapeInit == Init => Shape
<1> SUFFICES ASSUME Init PROVE Shape
  OBVIOUS
<1> USE DEF Init
<1>1. Chains
  <2>1. chain \in Seq({}) /\ Len(chain) = 0 /\ DOMAIN chain = {}
    OBVIOUS
  <2>2. QED
    BY <2>1, ConstantsAssumption DEF Chains
<1>2. DOMAIN chain = {} /\ \A p : Good(p) = {}
  BY DEF Good
<1>3. Cursors /\ Links /\ History /\ Jobs
  BY <1>2, ConstantsAssumption DEF Cursors, GoodCursor, CursorType, Links, History, Jobs
<1>4. \A g \in Dials, p \in Programs : backfill[g][p] = NoBackfill
  OBVIOUS
<1>5. Backfills
  BY <1>4, EmptyBackfill DEF Backfills
<1>6. QED
  BY <1>1, <1>3, <1>5 DEF Shape
\* Confirm adds one transaction at the end.
LEMMA ConfirmAdds ==
  ASSUME Shape, NEW p \in Programs, Confirm(p)
  PROVE  /\ p \in followed /\ Len(chain) < MaxTx
         /\ \E S : chain' \in Seq(S)
         /\ Len(chain') = Len(chain) + 1
         /\ DOMAIN chain' = 1..(Len(chain) + 1)
         /\ \A i \in DOMAIN chain : chain'[i] = chain[i]
         /\ chain'[Len(chain) + 1].prog = p
         /\ chain'[Len(chain) + 1].slot \in Nat \ {0}
         /\ chain'[Len(chain) + 1].ok \in BOOLEAN
         /\ \A r : Good(r)' = Good(r) \cup
                 (IF r = p /\ chain'[Len(chain) + 1].ok THEN {Len(chain) + 1} ELSE {})
<1>1. /\ Len(chain) \in Nat /\ DOMAIN chain = 1..Len(chain) /\ LastSlot \in Nat
      /\ chain \in Seq({chain[i] : i \in DOMAIN chain})
  BY ChainFacts DEF Shape, Chains, LastSlot
<1>2. PICK t : chain' = Append(chain, t) /\ t.prog = p /\ t.slot \in Nat \ {0} /\ t.ok \in BOOLEAN
  <2>1. PICK ok \in Outcomes, slot \in {LastSlot, LastSlot + 1} \ {0}, two \in BOOLEAN :
          \E events, states : chain' = Append(chain, [prog |-> p, slot |-> slot, ok |-> ok,
                                                      events |-> events, states |-> states])
    BY DEF Confirm
  <2>2. PICK events, states : chain' = Append(chain, [prog |-> p, slot |-> slot, ok |-> ok,
                                                      events |-> events, states |-> states])
    BY <2>1
  <2>3. slot \in Nat \ {0} /\ ok \in BOOLEAN
    BY <1>1, ConstantsAssumption
  <2>4. QED
    BY <2>2, <2>3
<1>3. /\ chain' \in Seq({chain[i] : i \in DOMAIN chain} \cup {t})
      /\ Len(chain') = Len(chain) + 1
      /\ DOMAIN chain' = 1..(Len(chain) + 1)
      /\ \A i \in DOMAIN chain : chain'[i] = chain[i]
      /\ chain'[Len(chain) + 1] = t
  BY <1>1, <1>2
<1>4. \A r : Good(r)' = Good(r) \cup
                 (IF r = p /\ chain'[Len(chain) + 1].ok THEN {Len(chain) + 1} ELSE {})
  BY <1>1, <1>2, <1>3 DEF Good
<1>5. p \in followed /\ Len(chain) < MaxTx
  BY DEF Confirm
<1>6. QED
  BY <1>2, <1>3, <1>4, <1>5

LEMMA ShapeConfirm ==
  ASSUME Shape, NEW p \in Programs, Confirm(p)
  PROVE  Shape'
<1> DEFINE n == Len(chain)
<1>1. /\ p \in followed /\ n < MaxTx /\ \E S : chain' \in Seq(S)
      /\ Len(chain') = n + 1 /\ DOMAIN chain' = 1..(n + 1)
      /\ \A i \in DOMAIN chain : chain'[i] = chain[i]
      /\ chain'[n + 1].prog = p /\ chain'[n + 1].slot \in Nat \ {0} /\ chain'[n + 1].ok \in BOOLEAN
      /\ \A r : Good(r) \subseteq Good(r)'
  BY ConfirmAdds
<1>2. n \in Nat /\ DOMAIN chain = 1..n
  BY ChainFacts DEF Shape
<1>3. UNCHANGED <<followed, reachable, cursor, dials, link, next, backfill, jobs, done, crashes, errors>>
  BY DEF Confirm, linkVars, faults
<1>4. Chains'
  <2>1. \A x \in DOMAIN chain : /\ chain[x].prog \in followed
                                /\ chain[x].slot \in Nat \ {0} /\ chain[x].ok \in BOOLEAN
    BY DEF Shape, Chains
  <2>2. \A x \in DOMAIN chain' : x = n + 1 \/ x \in DOMAIN chain
    BY <1>1, <1>2
  <2>3. Len(chain') <= MaxTx
    BY <1>1, <1>2, ConstantsAssumption
  <2>4. QED
    BY <1>1, <1>3, <2>1, <2>2, <2>3 DEF Shape, Chains
<1>5. Cursors'
  <2>1. \A r \in Programs : GoodCursor(r, cursor[r]) => GoodCursor(r, cursor[r])'
    BY <1>1, <1>3 DEF GoodCursor, Good
  <2>2. QED
    BY <1>3, <2>1 DEF Shape, Cursors
<1>6. Links'
  BY <1>1, <1>2, <1>3 DEF Shape, Links
<1>7. Backfills'
  <2>1. \A g \in Dials, r \in Programs : GoodBackfill(r, backfill[g][r])'
    <3> SUFFICES ASSUME NEW g \in Dials, NEW r \in Programs
                 PROVE  GoodBackfill(r, backfill[g][r])'
      OBVIOUS
    <3>1. /\ GoodBackfill(r, backfill[g][r]) /\ backfill'[g][r] = backfill[g][r]
          /\ backfill[g][r].before \in Nat /\ Len(backfill[g][r].queue) \in Nat
      BY <1>3, BackfillFacts
    <3>2. ListsDown(backfill[g][r])'
      BY <1>1, <1>2, <1>3, <3>1 DEF GoodBackfill, ListsDown
    <3>3. QED
      BY <1>1, <1>3, <3>1, <3>2 DEF GoodBackfill
  <2>2. QED
    BY <1>3, <2>1 DEF Shape, Backfills
<1>8. Jobs'
  <2>1. \A j \in jobs : j.tx \in DOMAIN chain' /\ chain'[j.tx] = chain[j.tx]
    BY <1>1, <1>2, JobFacts
  <2>2. QED
    BY <1>3, <2>1 DEF Shape, Jobs, GoodJob, Of
<1>9. History'
  BY <1>1, <1>2, <1>3 DEF Shape, History
<1>10. QED
  BY <1>4, <1>5, <1>6, <1>7, <1>8, <1>9 DEF Shape

LEMMA ShapeSubscribe == ASSUME Shape, Subscribe PROVE Shape'
<1> DEFINE started(p) == IF p \in followed /\ Limit > 0
                           THEN [NoBackfill EXCEPT !.phase = "start"] ELSE NoBackfill
<1>1. /\ dials + 1 \in Dials /\ dials \in Nat /\ dials' = dials + 1
      /\ link' = [link EXCEPT ![dials + 1] = "opening"]
      /\ backfill' = [backfill EXCEPT ![dials + 1] = [p \in Programs |-> started(p)]]
      /\ UNCHANGED <<chainVars, cursor, next, jobs, done, faults>>
  BY ConstantsAssumption DEF Subscribe, Shape, Links, Dials
<1>2. \A p \in Programs : started(p) \in BackfillType /\ GoodBackfill(p, started(p))
  <2> SUFFICES ASSUME NEW p \in Programs
               PROVE  started(p) \in BackfillType /\ GoodBackfill(p, started(p))
    OBVIOUS
  <2>1. CASE p \in followed /\ Limit > 0
    BY <2>1, EmptyBackfill
  <2>2. CASE ~(p \in followed /\ Limit > 0)
    BY <2>2, EmptyBackfill
  <2>3. QED
    BY <2>1, <2>2
<1> HIDE DEF started
<1>3. \A g \in Dials, p \in Programs :
        backfill'[g][p] = IF g = dials + 1 THEN started(p) ELSE backfill[g][p]
  BY <1>1 DEF Shape, Backfills
<1>4. Backfills'
  <2>1. \A g \in Dials, p \in Programs : GoodBackfill(p, backfill'[g][p])
    BY <1>2, <1>3, BackfillFacts
  <2>2. \A g \in Dials, p \in Programs : GoodBackfill(p, backfill[g][p])'
    BY <1>1, <2>1 DEF GoodBackfill, ListsDown, Good, chainVars
  <2>3. backfill' \in [Dials -> [Programs -> BackfillType]]
    BY <1>1, <1>2 DEF Shape, Backfills
  <2>4. \A g \in Dials, p \in Programs : g > dials + 1 => backfill'[g][p] = NoBackfill
    BY <1>1, <1>3 DEF Shape, Backfills, Dials
  <2>5. QED
    BY <1>1, <2>2, <2>3, <2>4 DEF Backfills
<1>5. Links'
  BY <1>1, ConstantsAssumption DEF Shape, Links, Dials, chainVars
<1>6. Jobs'
  <2>1. \A j \in jobs : j.owner.dial # dials + 1 /\ j.owner.dial \in Nat
    BY <1>1, JobFacts DEF GoodJob, Dials
  <2>2. \A j \in jobs : GoodJob(j)'
    BY <1>1, <2>1, JobFacts DEF GoodJob, chainVars
  <2>3. \A j \in jobs, g \in Dials, p \in Programs :
          Of(j, g, p)' => Of(j, g, p) /\ backfill'[g][p] = backfill[g][p]
    BY <1>1, <1>3, <2>1 DEF Of, chainVars
  <2>4. QED
    BY <1>1, <2>2, <2>3 DEF Shape, Jobs
<1>7. Chains' /\ Cursors' /\ History'
  BY <1>1, Kept
<1>8. QED
  BY <1>4, <1>5, <1>6, <1>7 DEF Shape

LEMMA ShapeActivate == ASSUME Shape, NEW g \in Dials, Activate(g) PROVE Shape'
<1>1. /\ link[g] = "opening"
      /\ link' = [link EXCEPT ![g] = "live"] /\ next' = [next EXCEPT ![g] = Len(chain) + 1]
      /\ UNCHANGED <<chainVars, cursor, dials, backfill, jobs, done, faults>>
  BY DEF Activate
<1>2. Links'
  BY <1>1, ChainFacts DEF Shape, Links, chainVars
<1>3. QED
  BY <1>1, <1>2, Kept DEF Shape

LEMMA ShapeClose == ASSUME Shape, NEW g \in Dials, Close(g) PROVE Shape'
<1>1. /\ link[g] = "live"
      /\ link' = [link EXCEPT ![g] = "closed"]
      /\ UNCHANGED <<chainVars, cursor, dials, next, backfill, jobs, done, faults>>
  BY DEF Close
<1>2. Links'
  BY <1>1 DEF Shape, Links, chainVars
<1>3. QED
  BY <1>1, <1>2, Kept DEF Shape

LEMMA ShapeCrash == ASSUME Shape, Crash PROVE Shape'
<1>1. /\ dials \in Dials /\ crashes < MaxCrashes /\ crashes' = crashes + 1
      /\ link' = [link EXCEPT ![dials] = "closed"]
      /\ backfill' = [g \in Dials |-> [p \in Programs |-> NoBackfill]]
      /\ jobs' = {}
      /\ UNCHANGED <<chainVars, cursor, dials, next, done, errors>>
  BY ConstantsAssumption DEF Crash, Dials
<1>2. NoBackfill \in BackfillType /\ \A p : GoodBackfill(p, NoBackfill)'
  BY ConstantsAssumption DEF NoBackfill, BackfillType, Phases, GoodBackfill, ListsDown, Increasing
<1>3. Backfills'
  BY <1>1, <1>2 DEF Backfills
<1>4. Links'
  BY <1>1, ConstantsAssumption DEF Shape, Links, Dials, chainVars
<1>5. Jobs' /\ History'
  BY <1>1, ConstantsAssumption DEF Shape, Jobs, History, chainVars
<1>6. QED
  BY <1>1, <1>3, <1>4, <1>5, Kept DEF Shape

\* One job is added, none of a backfill that has one already.
LEMMA OneMoreJob ==
  ASSUME Shape, NEW new, GoodJob(new),
         \A g \in Dials, p \in Programs : Of(new, g, p) =>
            /\ backfill[g][p].phase = "replay"
            /\ backfill[g][p].queue # <<>> /\ Head(backfill[g][p].queue) = new.tx
            /\ \A j \in jobs : ~Of(j, g, p),
         jobs' = jobs \cup {new},
         UNCHANGED <<chainVars, dials, backfill>>
  PROVE  Jobs'
<1>1. \A j \in jobs' : j \in jobs \/ j = new
  OBVIOUS
<1>2. \A j, g, p : Of(j, g, p)' <=> Of(j, g, p)
  BY DEF Of, chainVars
<1>3. \A j \in jobs' : GoodJob(j)'
  BY <1>1 DEF Shape, Jobs, GoodJob, chainVars
<1>4. \A j \in jobs', g \in Dials, p \in Programs : Of(j, g, p)' =>
        /\ backfill'[g][p].phase = "replay"
        /\ backfill'[g][p].queue # <<>> /\ Head(backfill'[g][p].queue) = j.tx
  BY <1>1, <1>2 DEF Shape, Jobs
<1>5. \A j, k \in jobs', g \in Dials, p \in Programs : Of(j, g, p)' /\ Of(k, g, p)' => j = k
  BY <1>1, <1>2 DEF Shape, Jobs
<1>6. QED
  BY <1>3, <1>4, <1>5 DEF Jobs

LEMMA ShapeDeliver == ASSUME Shape, NEW g \in Dials, Deliver(g) PROVE Shape'
<1> DEFINE new == Job(Live(g), next[g])
<1>1. /\ link[g] = "live" /\ next[g] <= Len(chain)
      /\ next' = [next EXCEPT ![g] = @ + 1]
      /\ jobs' = IF chain[next[g]].ok THEN jobs \cup {new} ELSE jobs
      /\ UNCHANGED <<chainVars, cursor, dials, link, backfill, done, faults>>
  BY DEF Deliver
<1>2. next[g] \in 1..Len(chain) /\ g <= dials
  BY <1>1, ChainFacts, ConstantsAssumption DEF Shape, Links, Dials
<1>3. Links'
  BY <1>1, <1>2, ChainFacts DEF Shape, Links, chainVars
<1>4. Jobs'
  <2>1. chain[next[g]].ok => GoodJob(new)
    BY <1>2, ChainFacts DEF Job, Live, GoodJob, JobType, Owner, Shape
  <2>2. \A h, p : ~Of(new, h, p)
    BY DEF Of, Job, Live
  <2> HIDE DEF new
  <2>3. CASE chain[next[g]].ok
    BY <1>1, <2>1, <2>2, <2>3, OneMoreJob
  <2>4. CASE ~chain[next[g]].ok
    BY <1>1, <2>4, Kept
  <2>5. QED
    BY <2>3, <2>4
<1>5. QED
  BY <1>1, <1>3, <1>4, Kept DEF Shape
------------------------------------------------------------------------------
(* Jobs *)

\* A job is replaced by its own continuation.
LEMMA JobGoesOn ==
  ASSUME Shape, NEW j \in jobs, NEW k \in JobType, k.owner = j.owner, k.tx = j.tx,
         Becomes(j, k), UNCHANGED <<chainVars, dials, backfill>>
  PROVE  Jobs'
<1>1. \A i \in jobs' : (i \in jobs /\ i # j) \/ i = k
  BY DEF Becomes
<1>2. \A i, g, p : Of(i, g, p)' <=> Of(i, g, p)
  BY DEF Of, chainVars
<1>3. \A g, p : Of(k, g, p) <=> Of(j, g, p)
  BY DEF Of
<1>4. \A i \in jobs' : GoodJob(i)'
  BY <1>1, JobFacts DEF GoodJob, chainVars
<1>5. \A i \in jobs', g \in Dials, p \in Programs : Of(i, g, p)' =>
        /\ backfill'[g][p].phase = "replay"
        /\ backfill'[g][p].queue # <<>> /\ Head(backfill'[g][p].queue) = i.tx
  BY <1>1, <1>2, <1>3 DEF Shape, Jobs
<1>6. \A i, m \in jobs', g \in Dials, p \in Programs : Of(i, g, p)' /\ Of(m, g, p)' => i = m
  BY <1>1, <1>2, <1>3 DEF Shape, Jobs
<1>7. QED
  BY <1>4, <1>5, <1>6 DEF Jobs

\* The backfill of call g for p changes when it has no job.
LEMMA JobsElsewhere ==
  ASSUME Shape, NEW g \in Dials, NEW p \in Programs, NEW b, OnlyChanged(g, p, b),
         jobs' \subseteq jobs, \A j \in jobs' : ~Of(j, g, p),
         UNCHANGED <<chainVars, dials>>
  PROVE  Jobs'
<1>1. \A i, h, r : Of(i, h, r)' <=> Of(i, h, r)
  BY DEF Of, chainVars
<1>2. \A j \in jobs' : GoodJob(j)'
  BY DEF Shape, Jobs, GoodJob, chainVars
<1>3. \A j \in jobs', h \in Dials, r \in Programs : Of(j, h, r) => backfill'[h][r] = backfill[h][r]
  BY DEF OnlyChanged
<1>4. QED
  BY <1>1, <1>2, <1>3 DEF Shape, Jobs

LEMMA ShapeRunQuery == ASSUME Shape, NEW j \in jobs, RunQuery(j) PROVE Shape'
<1>1. /\ \E k \in {NextEvent(j), [j EXCEPT !.q = @ + 1]} : Becomes(j, k)
      /\ UNCHANGED <<chainVars, cursor, linkVars, backfill, done, faults>>
  BY DEF RunQuery
<1>2. \A k \in {NextEvent(j), [j EXCEPT !.q = @ + 1]} :
        k \in JobType /\ k.owner = j.owner /\ k.tx = j.tx
  BY JobFacts, NextJob
<1>3. Jobs'
  BY <1>1, <1>2, JobGoesOn DEF linkVars
<1>4. QED
  BY <1>1, <1>3, Kept DEF Shape, linkVars

LEMMA ShapeQueryFails == ASSUME Shape, NEW j \in jobs, QueryFails(j) PROVE Shape'
<1>1. /\ Becomes(j, NextEvent(j)) /\ errors < MaxErrors /\ errors' = errors + 1
      /\ UNCHANGED <<chainVars, cursor, linkVars, backfill, done, crashes>>
  BY DEF QueryFails
<1>2. NextEvent(j) \in JobType /\ NextEvent(j).owner = j.owner /\ NextEvent(j).tx = j.tx
  BY JobFacts, NextJob
<1>3. Jobs'
  BY <1>1, <1>2, JobGoesOn DEF linkVars
<1>4. History'
  BY <1>1, ConstantsAssumption DEF Shape, History, chainVars
<1>5. QED
  BY <1>1, <1>3, <1>4, Kept DEF Shape, linkVars

\* What ends a job: its backfill, if it has one, is changed to a good one.
LEMMA JobEnds ==
  ASSUME Shape, NEW j \in jobs, jobs' = jobs \ {j}, NEW b \in BackfillType,
         LET g == j.owner.dial
             p == chain[j.tx].prog
         IN  backfill' = IF j.owner.by = "backfill" THEN [backfill EXCEPT ![g][p] = b]
                         ELSE backfill,
         j.owner.by = "backfill" => GoodBackfill(chain[j.tx].prog, b),
         UNCHANGED <<chainVars, dials>>
  PROVE  Backfills' /\ Jobs'
<1> DEFINE g == j.owner.dial
           p == chain[j.tx].prog
<1>1. g \in Dials /\ p \in Programs /\ g <= dials /\ j.owner.by \in {"live", "backfill"}
  BY JobFacts DEF GoodJob
<1>2. CASE j.owner.by = "backfill"
  <2>1. /\ backfill' = [backfill EXCEPT ![g][p] = b]
        /\ GoodBackfill(p, b) /\ Of(j, g, p)
    BY <1>2 DEF Of
  <2>2. \A k \in jobs' : ~Of(k, g, p)
    BY <1>1, <2>1 DEF Shape, Jobs
  <2> HIDE DEF g, p
  <2>3. Backfills' /\ OnlyChanged(g, p, b)
    BY <1>1, <2>1, OneBackfill
  <2>4. QED
    BY <1>1, <2>2, <2>3, JobsElsewhere
<1>3. CASE j.owner.by = "live"
  <2>1. backfill' = backfill
    BY <1>3
  <2>2. Jobs'
    BY <2>1 DEF Shape, Jobs, GoodJob, Of, chainVars
  <2>3. QED
    BY <2>1, <2>2, Kept
<1>4. QED
  BY <1>1, <1>2, <1>3

\* The backfill that j belongs to is replaying, with j's transaction first.
LEMMA JobOfBackfill ==
  ASSUME Shape, NEW j \in jobs, j.owner.by = "backfill"
  PROVE  LET b == backfill[j.owner.dial][chain[j.tx].prog] IN
         /\ b \in BackfillType /\ GoodBackfill(chain[j.tx].prog, b)
         /\ b.phase = "replay" /\ b.queue # <<>> /\ Head(b.queue) = j.tx
<1>1. j.owner.dial \in Dials /\ chain[j.tx].prog \in Programs
  BY JobFacts
<1>2. Of(j, j.owner.dial, chain[j.tx].prog)
  BY DEF Of
<1>3. QED
  BY <1>1, <1>2, BackfillFacts DEF Shape, Jobs

LEMMA ShapeAdvanceCursor == ASSUME Shape, NEW j \in jobs, AdvanceCursor(j) PROVE Shape'
<1> DEFINE g == j.owner.dial
           p == chain[j.tx].prog
           b == [backfill[g][p] EXCEPT !.queue = Tail(@)]
<1>1. /\ cursor' = [cursor EXCEPT ![p] = Advanced(@, j.tx)]
      /\ jobs' = jobs \ {j} /\ done' = done \cup {j.tx}
      /\ backfill' = IF j.owner.by = "backfill" THEN Drop1(g, p) ELSE backfill
      /\ UNCHANGED <<chainVars, linkVars, faults>>
  BY DEF AdvanceCursor
<1>2. g \in Dials /\ p \in Programs /\ j.tx \in Good(p) /\ j.tx \in DOMAIN chain
  BY JobFacts
<1>3. Cursors'
  <2>1. cursor \in [Programs -> CursorType] /\ GoodCursor(p, cursor[p])
    BY <1>2 DEF Shape, Cursors
  <2>2. chain[j.tx].slot \in Nat /\ j.tx \in Nat
    BY <1>2, JobFacts DEF Shape, Chains
  <2>3. Advanced(cursor[p], j.tx) \in CursorType /\ GoodCursor(p, Advanced(cursor[p], j.tx))
    BY <1>2, <2>1, <2>2 DEF Advanced, CursorType, GoodCursor
  <2>4. cursor' \in [Programs -> CursorType]
    BY <1>1, <2>1, <2>3
  <2>5. \A r \in Programs : GoodCursor(r, cursor'[r])
    BY <1>1, <2>1, <2>3 DEF Shape, Cursors
  <2>6. QED
    BY <1>1, <2>4, <2>5 DEF Cursors, GoodCursor, Good, chainVars
<1>4. Backfills' /\ Jobs'
  <2>1. CASE j.owner.by = "backfill"
    <3>1. b \in BackfillType /\ GoodBackfill(p, b)
      BY <1>2, <2>1, JobOfBackfill, TailGood
    <3>2. backfill' = [backfill EXCEPT ![g][p] = b]
      BY <1>1, <2>1 DEF Drop1
    <3> HIDE DEF b
    <3>3. QED
      BY <1>1, <2>1, <3>1, <3>2, JobEnds DEF linkVars
  <2>2. CASE j.owner.by # "backfill"
    <3>1. NoBackfill \in BackfillType
      BY DEF NoBackfill, BackfillType, Phases
    <3>2. QED
      BY <1>1, <2>2, <3>1, JobEnds DEF linkVars
  <2>3. QED
    BY <2>1, <2>2
<1>5. History'
  BY <1>1, <1>2 DEF Shape, History, chainVars, faults
<1>6. QED
  BY <1>1, <1>3, <1>4, <1>5, Kept DEF Shape

LEMMA ShapeAdvanceFails == ASSUME Shape, NEW j \in jobs, AdvanceFails(j) PROVE Shape'
<1>1. /\ jobs' = jobs \ {j} /\ errors < MaxErrors /\ errors' = errors + 1
      /\ backfill' = IF j.owner.by = "backfill"
                       THEN [backfill EXCEPT ![j.owner.dial][chain[j.tx].prog] = NoBackfill]
                       ELSE backfill
      /\ UNCHANGED <<chainVars, cursor, linkVars, done, crashes>>
  BY DEF AdvanceFails
<1>2. Backfills' /\ Jobs'
  BY <1>1, EmptyBackfill, JobEnds DEF linkVars
<1>3. History'
  BY <1>1, ConstantsAssumption DEF Shape, History, chainVars
<1>4. QED
  BY <1>1, <1>2, <1>3, Kept DEF Shape

------------------------------------------------------------------------------
(* Backfills *)

LEMMA ShapeReadCursor ==
  ASSUME Shape, NEW g \in Dials, NEW p \in Programs, ReadCursor(g, p) PROVE Shape'
<1> DEFINE old == backfill[g][p]
           b == [old EXCEPT !.phase = "listing", !.until = cursor[p].sig]
<1>1. /\ old.phase = "start" /\ backfill' = [backfill EXCEPT ![g][p] = b]
      /\ UNCHANGED <<chainVars, cursor, linkVars, jobs, done, faults>>
  BY DEF ReadCursor, Shape, Backfills
<1>2. old \in BackfillType /\ GoodBackfill(p, old) /\ g <= dials
  BY <1>1, BackfillFacts, BackfillDialled
<1>3. cursor[p].sig \in Nat /\ cursor[p].sig \in Good(p) \cup {0}
  BY DEF Shape, Cursors, CursorType, GoodCursor
<1>4. /\ b.phase = "listing" /\ b.until = cursor[p].sig
      /\ b.before = old.before /\ b.queue = old.queue
  BY <1>2 DEF BackfillType
<1>5. b \in BackfillType
  <2>1. [old EXCEPT !.phase = "listing"] \in BackfillType
    BY <1>2 DEF BackfillType, Phases
  <2>2. \A c \in BackfillType : [c EXCEPT !.until = cursor[p].sig] \in BackfillType
    BY <1>3 DEF BackfillType
  <2>3. b = [[old EXCEPT !.phase = "listing"] EXCEPT !.until = cursor[p].sig]
    BY <1>2 DEF BackfillType
  <2>4. QED
    BY <2>1, <2>2, <2>3
<1> HIDE DEF b
<1>6. GoodBackfill(p, b)
  <2>1. old.before = 0 /\ old.queue = <<>> /\ Limit > 0
    BY <1>1, <1>2 DEF GoodBackfill, ListsDown
  <2>2. b.until \in Good(p) \cup {0} /\ b.queue = <<>> /\ b.before = 0 /\ b.phase = "listing"
    BY <1>3, <1>4, <2>1
  <2>3. ListsDown(b)
    BY <2>1, <2>2, ChainFacts DEF ListsDown, Shape
  <2>4. QED
    BY <2>2, <2>3, ConstantsAssumption DEF GoodBackfill, Increasing
<1>7. \A j \in jobs : ~Of(j, g, p)
  BY <1>1 DEF Shape, Jobs
<1> HIDE DEF old
<1>8. Backfills' /\ OnlyChanged(g, p, b)
  BY <1>1, <1>2, <1>5, <1>6, OneBackfill DEF linkVars
<1>9. Jobs'
  BY <1>1, <1>7, <1>8, JobsElsewhere DEF linkVars
<1>10. QED
  BY <1>1, <1>8, <1>9, Kept DEF Shape

LEMMA ShapeListFails ==
  ASSUME Shape, NEW g \in Dials, NEW p \in Programs, ListFails(g, p) PROVE Shape'
<1>1. /\ backfill[g][p].phase \in {"start", "listing"}
      /\ backfill' = [backfill EXCEPT ![g][p] = NoBackfill]
      /\ errors < MaxErrors /\ errors' = errors + 1
      /\ UNCHANGED <<chainVars, cursor, linkVars, jobs, done, crashes>>
  BY DEF ListFails
<1>2. g <= dials
  BY <1>1, BackfillDialled
<1>3. \A j \in jobs : ~Of(j, g, p)
  BY <1>1 DEF Shape, Jobs
<1>4. Backfills' /\ OnlyChanged(g, p, NoBackfill)
  BY <1>1, <1>2, EmptyBackfill, OneBackfill DEF linkVars
<1>5. Jobs'
  BY <1>1, <1>3, <1>4, JobsElsewhere DEF linkVars
<1>6. History'
  BY <1>1, ConstantsAssumption DEF Shape, History, chainVars
<1>7. QED
  BY <1>1, <1>4, <1>5, <1>6, Kept DEF Shape

\* A backfill that may fetch has no job.
LEMMA Idle ==
  ASSUME Shape, NEW g \in Dials, NEW p \in Programs, Replaying(g, p)
  PROVE  /\ \A j \in jobs : ~Of(j, g, p)
         /\ backfill[g][p].phase = "replay" /\ backfill[g][p].queue # <<>> /\ g <= dials
         /\ Head(backfill[g][p].queue) \in Good(p)
<1>1. backfill[g][p].phase = "replay" /\ backfill[g][p].queue # <<>> /\ ~Busy(g, p)
  BY DEF Replaying
<1>2. \A j \in jobs : ~Of(j, g, p)
  <2> SUFFICES ASSUME NEW j \in jobs, Of(j, g, p) PROVE j.owner = Replay(g)
    BY <1>1 DEF Busy, Of
  <2>1. j.owner \in Owner
    BY JobFacts
  <2>2. QED
    BY <2>1 DEF Of, Replay, Owner
<1>3. backfill[g][p].queue[1] \in Good(p)
  <2>1. backfill[g][p].queue \in Seq(Nat) /\ GoodBackfill(p, backfill[g][p])
    BY BackfillFacts
  <2>2. 1 \in DOMAIN backfill[g][p].queue
    BY <1>1, <2>1, EmptySeq
  <2>3. QED
    BY <2>1, <2>2 DEF GoodBackfill
<1>4. QED
  BY <1>1, <1>2, <1>3, BackfillDialled

LEMMA ShapeFetchTx ==
  ASSUME Shape, NEW g \in Dials, NEW p \in Programs, FetchTx(g, p) PROVE Shape'
<1> DEFINE new == Job(Replay(g), Head(backfill[g][p].queue))
<1>1. /\ Replaying(g, p) /\ jobs' = jobs \cup {new}
      /\ UNCHANGED <<chainVars, cursor, linkVars, backfill, done, faults>>
  BY DEF FetchTx
<1>2. /\ new.owner.by = "backfill" /\ new.owner.dial = g /\ new.tx = Head(backfill[g][p].queue)
      /\ new.tx \in Good(p) /\ new.tx \in Nat
      /\ new = [owner |-> [by |-> "backfill", dial |-> g], tx |-> new.tx, ev |-> 1, q |-> 1]
  BY <1>1, Idle, GoodFacts DEF Job, Replay, Shape
<1> HIDE DEF new
<1>3. GoodJob(new)
  <2>1. new \in JobType
    BY <1>2 DEF JobType, Owner
  <2>2. QED
    BY <1>1, <1>2, <2>1, Idle DEF GoodJob, Good
<1>4. \A h \in Dials, r \in Programs : Of(new, h, r) => h = g /\ r = p
  BY <1>2 DEF Of, Good
<1>5. Jobs'
  BY <1>1, <1>2, <1>3, <1>4, Idle, OneMoreJob DEF linkVars
<1>6. QED
  BY <1>1, <1>5, Kept DEF Shape, linkVars

LEMMA ShapeFetchFails ==
  ASSUME Shape, NEW g \in Dials, NEW p \in Programs, FetchFails(g, p) PROVE Shape'
<1> DEFINE b == [backfill[g][p] EXCEPT !.queue = Tail(@)]
<1>1. /\ Replaying(g, p) /\ backfill' = [backfill EXCEPT ![g][p] = b]
      /\ errors < MaxErrors /\ errors' = errors + 1
      /\ UNCHANGED <<chainVars, cursor, linkVars, jobs, done, crashes>>
  BY DEF FetchFails, Drop1
<1>2. b \in BackfillType /\ GoodBackfill(p, b)
  BY <1>1, Idle, BackfillFacts, TailGood
<1> HIDE DEF b
<1>3. Backfills' /\ OnlyChanged(g, p, b)
  BY <1>1, <1>2, Idle, OneBackfill DEF linkVars
<1>4. Jobs'
  BY <1>1, <1>3, Idle, JobsElsewhere DEF linkVars
<1>5. History'
  BY <1>1, ConstantsAssumption DEF Shape, History, chainVars
<1>6. QED
  BY <1>1, <1>3, <1>4, <1>5, Kept DEF Shape

LEMMA ShapeFinishBackfill ==
  ASSUME Shape, NEW g \in Dials, NEW p \in Programs, FinishBackfill(g, p) PROVE Shape'
<1> DEFINE old == backfill[g][p]
           b == [old EXCEPT !.phase = "complete"]
<1>1. /\ old.phase = "replay" /\ old.queue = <<>>
      /\ backfill' = [backfill EXCEPT ![g][p] = b]
      /\ UNCHANGED <<chainVars, cursor, linkVars, jobs, done, faults>>
  BY DEF FinishBackfill
<1>2. old \in BackfillType /\ GoodBackfill(p, old) /\ g <= dials
  BY <1>1, BackfillFacts, BackfillDialled
<1>3. b \in BackfillType /\ GoodBackfill(p, b)
  <2>1. b = [phase |-> "complete", until |-> old.until, before |-> old.before, queue |-> old.queue]
    BY <1>2 DEF BackfillType
  <2> HIDE DEF b
  <2>2. b \in BackfillType
    BY <1>2, <2>1 DEF BackfillType, Phases
  <2>3. b.phase = "complete" /\ b.queue = <<>> /\ b.until = old.until
    BY <1>1, <2>1
  <2>4. QED
    BY <1>1, <1>2, <2>2, <2>3 DEF GoodBackfill, ListsDown
<1>4. \A j \in jobs : ~Of(j, g, p)
  BY <1>1 DEF Shape, Jobs
<1> HIDE DEF old, b
<1>5. Backfills' /\ OnlyChanged(g, p, b)
  BY <1>1, <1>2, <1>3, OneBackfill DEF linkVars
<1>6. Jobs'
  BY <1>1, <1>4, <1>5, JobsElsewhere DEF linkVars
<1>7. QED
  BY <1>1, <1>5, <1>6, Kept DEF Shape

\* What a backfill in state b has left to handle for p
Left(p, b) ==
  {b.queue[i] : i \in DOMAIN b.queue}
    \cup (IF b.phase = "listing" THEN Listable(p, b) ELSE {})

\* One page of at most n: s lists what it adds, the next page starts at oldest.
PageOf(p, b, n, page, s, oldest) ==
  /\ page \subseteq Listable(p, b) /\ s \in Seq(Nat) /\ oldest \in Nat
  /\ IsPage(page, p, b, n)
  /\ Len(s) = Cardinality(Usable(page))
  /\ \A i \in DOMAIN s : s[i] \in Usable(page)
  /\ IsSorted(s, Usable(page))
  /\ page = {} => oldest = b.before
  /\ page # {} => oldest \in page
  /\ \A x \in page : oldest <= x

AfterPage(b, n, page, s, oldest) ==
  [b EXCEPT !.queue = Collected(s, b.queue),
            !.before = oldest,
            !.phase = IF IsLast(page, n, Collected(s, b.queue)) THEN "replay" ELSE "listing"]

LEMMA PageRead ==
  ASSUME Shape, NEW g \in Dials, NEW p \in Programs, ListPage(g, p)
  PROVE  LET b == backfill[g][p] IN
         /\ b.phase = "listing"
         /\ \E n, page, s, oldest :
              /\ n \in Nat \ {0} /\ n <= Limit - Len(b.queue)
              /\ PageOf(p, b, n, page, s, oldest)
              /\ backfill' = [backfill EXCEPT ![g][p] = AfterPage(b, n, page, s, oldest)]
<1> DEFINE b == backfill[g][p]
           n == Min2(BatchSize, Limit - Len(b.queue))
<1>1. b \in BackfillType /\ GoodBackfill(p, b) /\ b.phase = "listing" /\ Len(b.queue) \in Nat
  BY BackfillFacts DEF ListPage
<1>2. n \in Nat \ {0} /\ n <= Limit - Len(b.queue)
  <2>1. Len(b.queue) < Limit
    BY <1>1 DEF GoodBackfill, ListsDown
  <2>2. ASSUME NEW k \in Nat, k < Limit
        PROVE  Min2(BatchSize, Limit - k) \in Nat \ {0} /\ Min2(BatchSize, Limit - k) <= Limit - k
    BY <2>2, ConstantsAssumption DEF Min2
  <2>3. QED
    BY <1>1, <2>1, <2>2
<1>3. Listable(p, b) \subseteq 1..Len(chain)
  BY ChainFacts DEF Listable, Shape
<1>4. PICK page \in SUBSET Listable(p, b) :
        /\ IsPage(page, p, b, n)
        /\ \E s \in [1..Cardinality(Usable(page)) -> Usable(page)],
              oldest \in IF page = {} THEN {b.before} ELSE page :
             /\ IsSorted(s, Usable(page))
             /\ \A x \in page : oldest <= x
             /\ backfill' = [backfill EXCEPT ![g][p] = AfterPage(b, n, page, s, oldest)]
  BY DEF ListPage, AfterPage
<1>5. PICK s \in [1..Cardinality(Usable(page)) -> Usable(page)],
           oldest \in IF page = {} THEN {b.before} ELSE page :
        /\ IsSorted(s, Usable(page))
        /\ \A x \in page : oldest <= x
        /\ backfill' = [backfill EXCEPT ![g][p] = AfterPage(b, n, page, s, oldest)]
  BY <1>4
<1>6. oldest \in Nat
  BY <1>1, <1>3, <1>5, ChainFacts DEF BackfillType, Shape
<1>7. s \in Seq(Nat) /\ Len(s) = Cardinality(Usable(page)) /\ DOMAIN s = 1..Cardinality(Usable(page))
  <2>1. IsFiniteSet(1..Len(chain))
    BY ChainFacts, FS_Interval DEF Shape
  <2>2. Usable(page) \in SUBSET (1..Len(chain))
    BY <1>3 DEF Usable
  <2>3. Cardinality(Usable(page)) \in Nat
    BY <2>1, <2>2, FS_Subset, FS_CardinalityType
  <2>4. s \in [1..Cardinality(Usable(page)) -> Nat]
    BY <2>2, ChainFacts DEF Shape
  <2>5. QED
    BY <2>3, <2>4
<1>8. \A i \in DOMAIN s : s[i] \in Usable(page)
  BY <1>7
<1> HIDE DEF b, n
<1>9. PageOf(p, b, n, page, s, oldest)
  BY <1>4, <1>5, <1>6, <1>7, <1>8 DEF PageOf
<1>10. QED
  BY <1>1, <1>2, <1>5, <1>9 DEF b

LEMMA ConcatFacts ==
  ASSUME NEW s \in Seq(Nat), NEW r \in Seq(Nat)
  PROVE  /\ s \o r \in Seq(Nat) /\ Len(s \o r) = Len(s) + Len(r)
         /\ Len(s) \in Nat /\ Len(r) \in Nat
         /\ \A i \in DOMAIN (s \o r) :
              \/ i \in DOMAIN s /\ (s \o r)[i] = s[i]
              \/ i - Len(s) \in DOMAIN r /\ i > Len(s) /\ (s \o r)[i] = r[i - Len(s)]
         /\ \A i \in DOMAIN s : i \in DOMAIN (s \o r) /\ (s \o r)[i] = s[i]
         /\ \A i \in DOMAIN r : i + Len(s) \in DOMAIN (s \o r) /\ (s \o r)[i + Len(s)] = r[i]
<1> DEFINE q == s \o r
<1>1. /\ q \in Seq(Nat) /\ Len(q) = Len(s) + Len(r)
      /\ \A i \in 1..(Len(s) + Len(r)) : q[i] = IF i <= Len(s) THEN s[i] ELSE r[i - Len(s)]
  BY ConcatProperties
<1>2. Len(s) \in Nat /\ Len(r) \in Nat /\ DOMAIN s = 1..Len(s) /\ DOMAIN r = 1..Len(r)
  OBVIOUS
<1> HIDE DEF q
<1>3. DOMAIN q = 1..(Len(s) + Len(r))
  BY <1>1
<1>4. QED
  BY <1>1, <1>2, <1>3 DEF q

LEMMA ConcatIncreasing ==
  ASSUME NEW s \in Seq(Nat), NEW r \in Seq(Nat), Increasing(s), Increasing(r),
         \A i \in DOMAIN s, k \in DOMAIN r : s[i] < r[k]
  PROVE  Increasing(s \o r)
<1> DEFINE q == s \o r
<1> SUFFICES ASSUME NEW i \in DOMAIN q, NEW k \in DOMAIN q, i < k PROVE q[i] < q[k]
  BY DEF Increasing
<1>1. /\ i \in Int /\ k \in Int /\ Len(s) \in Nat /\ DOMAIN s = 1..Len(s)
      /\ (i \in DOMAIN s /\ q[i] = s[i]) \/ (i - Len(s) \in DOMAIN r /\ i > Len(s) /\ q[i] = r[i - Len(s)])
      /\ (k \in DOMAIN s /\ q[k] = s[k]) \/ (k - Len(s) \in DOMAIN r /\ k > Len(s) /\ q[k] = r[k - Len(s)])
  <2>1. q \in Seq(Nat)
    BY ConcatFacts
  <2>2. QED
    BY <2>1, ConcatFacts
<1> HIDE DEF q
<1>2. CASE k \in DOMAIN s /\ q[k] = s[k]
  BY <1>1, <1>2 DEF Increasing
<1>3. CASE k - Len(s) \in DOMAIN r /\ k > Len(s) /\ q[k] = r[k - Len(s)]
  <2>1. CASE i \in DOMAIN s /\ q[i] = s[i]
    BY <1>3, <2>1
  <2>2. CASE i - Len(s) \in DOMAIN r /\ i > Len(s) /\ q[i] = r[i - Len(s)]
    <3>1. i - Len(s) < k - Len(s)
      BY <1>1
    <3>2. QED
      BY <1>3, <2>2, <3>1 DEF Increasing
  <2>3. QED
    BY <1>1, <2>1, <2>2
<1>4. QED
  BY <1>1, <1>2, <1>3

\* The end of what a listing backfill has not listed
Top(b) == IF b.before = 0 THEN Len(chain) + 1 ELSE b.before

LEMMA ListingFacts ==
  ASSUME Shape, NEW p \in Programs, NEW b \in BackfillType, GoodBackfill(p, b),
         b.phase = "listing"
  PROVE  /\ Top(b) \in Nat /\ Len(chain) \in Nat /\ Len(chain) <= MaxTx
         /\ b.queue \in Seq(Nat) /\ Len(b.queue) \in Nat /\ b.until \in Nat /\ b.before \in Nat
         /\ Len(b.queue) + Top(b) <= Len(chain) + 1
         /\ Len(b.queue) < Limit
         /\ \A i \in DOMAIN b.queue : b.queue[i] \in Nat /\ b.queue[i] >= Top(b)
         /\ \A x \in Listable(p, b) :
              x \in 1..Len(chain) /\ x < Top(b) /\ x > b.until /\ chain[x].prog = p
         /\ \A x \in Good(p) : x > b.until /\ x < Top(b) => x \in Listable(p, b)
         /\ IsFiniteSet(Listable(p, b))
<1>1. Len(chain) \in Nat /\ Len(chain) <= MaxTx /\ DOMAIN chain = 1..Len(chain)
  BY ChainFacts DEF Shape, Chains
<1>2. /\ b.queue \in Seq(Nat) /\ Len(b.queue) \in Nat /\ b.until \in Nat /\ b.before \in Nat
      /\ \A i \in DOMAIN b.queue : b.queue[i] \in Nat
  BY DEF BackfillType
<1>3. /\ Len(b.queue) < Limit /\ b.before <= Len(chain)
      /\ b.before = 0 => b.queue = <<>>
      /\ b.before > 0 => /\ Len(b.queue) + b.before <= Len(chain) + 1
                         /\ \A i \in DOMAIN b.queue : b.queue[i] >= b.before
  BY DEF GoodBackfill, ListsDown
<1>4. Top(b) \in Nat
  BY <1>1, <1>2 DEF Top
<1>5. ASSUME b.before = 0
      PROVE  /\ Len(b.queue) + Top(b) <= Len(chain) + 1
             /\ \A i \in DOMAIN b.queue : b.queue[i] >= Top(b)
  <2>1. b.queue = <<>> /\ Len(b.queue) = 0 /\ DOMAIN b.queue = {} /\ Top(b) = Len(chain) + 1
    BY <1>3, <1>5 DEF Top
  <2>2. QED
    BY <1>1, <2>1
<1>6. ASSUME b.before > 0
      PROVE  /\ Len(b.queue) + Top(b) <= Len(chain) + 1
             /\ \A i \in DOMAIN b.queue : b.queue[i] >= Top(b)
  <2>1. Top(b) = b.before
    BY <1>6 DEF Top
  <2>2. QED
    BY <1>2, <1>3, <1>6, <2>1
<1>7. \A x \in Listable(p, b) :
        x \in 1..Len(chain) /\ x < Top(b) /\ x > b.until /\ chain[x].prog = p
  BY <1>1 DEF Listable, Top
<1>8. \A x \in Good(p) : x > b.until /\ x < Top(b) => x \in Listable(p, b)
  BY <1>1 DEF Listable, Top, Good
<1>9. IsFiniteSet(Listable(p, b))
  <2>1. IsFiniteSet(1..Len(chain)) /\ Listable(p, b) \in SUBSET (1..Len(chain))
    BY <1>1, <1>7, FS_Interval
  <2>2. QED
    BY <2>1, FS_Subset
<1>10. /\ Len(b.queue) + Top(b) <= Len(chain) + 1
       /\ \A i \in DOMAIN b.queue : b.queue[i] >= Top(b)
  BY <1>2, <1>5, <1>6
<1>11. QED
  BY <1>1, <1>2, <1>3, <1>4, <1>7, <1>8, <1>9, <1>10

\* How much room a page leaves
LEMMA PageSizes ==
  ASSUME Shape, NEW p \in Programs, NEW b \in BackfillType, GoodBackfill(p, b),
         b.phase = "listing", NEW n \in Nat \ {0},
         NEW page, NEW s, NEW oldest, PageOf(p, b, n, page, s, oldest)
  PROVE  /\ Len(s) \in Nat /\ Cardinality(page) \in Nat /\ oldest \in Nat
         /\ Len(s) <= n
         /\ page # Listable(p, b) => Cardinality(page) >= n
         /\ Cardinality(page) >= n => page # {}
         /\ page # {} => /\ oldest \in 1..Len(chain) /\ oldest < Top(b) /\ oldest > b.until
                         /\ Len(s) <= Top(b) - oldest
<1>1. /\ page \in SUBSET Listable(p, b) /\ s \in Seq(Nat) /\ oldest \in Nat
      /\ Len(s) = Cardinality(Usable(page))
      /\ Cardinality(page) = Min2(n, Cardinality(Listable(p, b)))
      /\ page # {} => oldest \in page
      /\ \A x \in page : oldest <= x
  BY DEF PageOf, IsPage
<1>2. IsFiniteSet(Listable(p, b)) /\ Usable(page) \in SUBSET page /\ Len(s) \in Nat
  BY <1>1, ListingFacts DEF Usable
<1>3. /\ IsFiniteSet(page) /\ Cardinality(page) \in Nat /\ Cardinality(Listable(p, b)) \in Nat
      /\ Cardinality(page) = Cardinality(Listable(p, b)) => page = Listable(p, b)
  BY <1>1, <1>2, FS_Subset, FS_CardinalityType
<1>4. Cardinality(Usable(page)) <= Cardinality(page)
  BY <1>2, <1>3, FS_Subset
<1>5. Cardinality(page) <= n /\ (page # Listable(p, b) => Cardinality(page) >= n)
  BY <1>1, <1>3 DEF Min2
<1>6. Cardinality(page) >= n => page # {}
  BY FS_EmptySet
<1>7. ASSUME page # {}
      PROVE  /\ oldest \in 1..Len(chain) /\ oldest < Top(b) /\ oldest > b.until
             /\ Len(s) <= Top(b) - oldest
  <2>1. oldest \in 1..Len(chain) /\ oldest < Top(b) /\ oldest > b.until
    BY <1>1, <1>7, ListingFacts
  <2>2. Top(b) \in Nat /\ \A x \in page : x \in Nat /\ x < Top(b) /\ oldest <= x
    BY <1>1, ListingFacts
  <2>3. Usable(page) \in SUBSET (oldest..(Top(b) - 1))
    BY <1>1, <1>2, <2>2
  <2>4. IsFiniteSet(oldest..(Top(b) - 1)) /\ Cardinality(oldest..(Top(b) - 1)) = Top(b) - oldest
    <3>1. oldest \in Int /\ Top(b) - 1 \in Int
      BY <1>1, <2>2
    <3>2. /\ IsFiniteSet(oldest..(Top(b) - 1))
          /\ Cardinality(oldest..(Top(b) - 1))
               = IF oldest > Top(b) - 1 THEN 0 ELSE (Top(b) - 1) - oldest + 1
      BY <3>1, FS_Interval
    <3>3. QED
      BY <1>1, <2>1, <2>2, <3>2
  <2>5. Cardinality(Usable(page)) <= Top(b) - oldest
    BY <2>3, <2>4, FS_Subset
  <2>6. QED
    BY <1>1, <2>1, <2>5
<1>8. Len(s) <= n
  BY <1>1, <1>2, <1>3, <1>4, <1>5
<1>9. QED
  BY <1>1, <1>2, <1>3, <1>5, <1>6, <1>7, <1>8

LEMMA AfterPageFields ==
  ASSUME NEW b \in BackfillType, NEW n, NEW page, NEW s \in Seq(Nat), NEW oldest \in Nat
  PROVE  LET c == AfterPage(b, n, page, s, oldest)
             q == Collected(s, b.queue)
         IN
         /\ c \in BackfillType
         /\ c.queue = q /\ c.before = oldest /\ c.until = b.until
         /\ c.phase = IF IsLast(page, n, q) THEN "replay" ELSE "listing"
<1> DEFINE q == Collected(s, b.queue)
           ph == IF IsLast(page, n, q) THEN "replay" ELSE "listing"
           c == AfterPage(b, n, page, s, oldest)
<1>1. q \in Seq(Nat)
  BY ConcatFacts DEF Collected, BackfillType
<1>2. ph \in {"listing", "replay"}
  OBVIOUS
<1>3. c = [b EXCEPT !.queue = q, !.before = oldest, !.phase = ph]
  BY DEF AfterPage
<1> HIDE DEF q, ph, c
<1>4. \A d \in BackfillType : [d EXCEPT !.queue = q] \in BackfillType
  BY <1>1 DEF BackfillType
<1>5. \A d \in BackfillType : [d EXCEPT !.before = oldest] \in BackfillType
  BY DEF BackfillType
<1>6. \A d \in BackfillType : [d EXCEPT !.phase = ph] \in BackfillType
  BY <1>2 DEF BackfillType, Phases
<1>7. c = [[[b EXCEPT !.queue = q] EXCEPT !.before = oldest] EXCEPT !.phase = ph]
  BY <1>3 DEF BackfillType
<1>8. c.queue = q /\ c.before = oldest /\ c.phase = ph /\ c.until = b.until
  BY <1>3 DEF BackfillType
<1>9. c \in BackfillType
  BY <1>4, <1>5, <1>6, <1>7
<1>10. QED
  BY <1>8, <1>9 DEF q, ph, c

\* A page leaves a backfill in order.
LEMMA PageGood ==
  ASSUME Shape, NEW p \in Programs, NEW b \in BackfillType, GoodBackfill(p, b),
         b.phase = "listing", NEW n \in Nat \ {0}, n <= Limit - Len(b.queue),
         NEW page, NEW s, NEW oldest, PageOf(p, b, n, page, s, oldest)
  PROVE  GoodBackfill(p, AfterPage(b, n, page, s, oldest))
<1> DEFINE c == AfterPage(b, n, page, s, oldest)
           q == s \o b.queue
<1>1. s \in Seq(Nat) /\ oldest \in Nat /\ b.queue \in Seq(Nat)
  BY ListingFacts DEF PageOf
<1>2. /\ c \in BackfillType /\ c.queue = q /\ c.before = oldest /\ c.until = b.until
      /\ c.phase = IF IsLast(page, n, q) THEN "replay" ELSE "listing"
  <2>1. q = Collected(s, b.queue)
    BY DEF Collected
  <2> HIDE DEF q, c
  <2>2. /\ AfterPage(b, n, page, s, oldest) \in BackfillType
        /\ AfterPage(b, n, page, s, oldest).queue = q
        /\ AfterPage(b, n, page, s, oldest).before = oldest
        /\ AfterPage(b, n, page, s, oldest).until = b.until
        /\ AfterPage(b, n, page, s, oldest).phase
             = IF IsLast(page, n, q) THEN "replay" ELSE "listing"
    BY <1>1, <2>1, AfterPageFields
  <2>3. QED
    BY <2>2 DEF c
<1>3. /\ q \in Seq(Nat) /\ Len(q) = Len(s) + Len(b.queue) /\ Len(q) \in Nat
      /\ \A i \in DOMAIN q : \/ \E k \in DOMAIN s : q[i] = s[k]
                            \/ \E k \in DOMAIN b.queue : q[i] = b.queue[k]
  BY <1>1, ConcatFacts
<1>4. \A i \in DOMAIN s : s[i] \in page /\ s[i] \in Listable(p, b) /\ s[i] \in Good(p)
                        /\ oldest <= s[i]
  BY DEF PageOf, Usable, Listable, Good
<1>5. Increasing(q)
  <2>1. Increasing(s)
    BY DEF PageOf, IsSorted, Increasing
  <2>2. \A i \in DOMAIN s, k \in DOMAIN b.queue : s[i] < b.queue[k]
    <3> SUFFICES ASSUME NEW i \in DOMAIN s, NEW k \in DOMAIN b.queue PROVE s[i] < b.queue[k]
      OBVIOUS
    <3>1. s[i] < Top(b) /\ s[i] \in Nat
      BY <1>4, ListingFacts
    <3>2. b.queue[k] >= Top(b) /\ b.queue[k] \in Nat /\ Top(b) \in Nat
      BY ListingFacts
    <3>3. QED
      BY <3>1, <3>2
  <2>3. QED
    BY <1>1, <2>1, <2>2, ConcatIncreasing DEF GoodBackfill
<1> HIDE DEF q, c
<1>6. \A i \in DOMAIN c.queue : c.queue[i] \in Good(p)
  BY <1>2, <1>3, <1>4 DEF GoodBackfill
<1>7. Len(q) <= Limit
  BY <1>3, PageSizes, ListingFacts, ConstantsAssumption
<1>8. ListsDown(c)
  <2>1. CASE IsLast(page, n, q)
    BY <1>2, <2>1 DEF ListsDown
  <2>2. CASE ~IsLast(page, n, q)
    <3>1. Cardinality(page) >= n /\ Len(q) < Limit
      BY <1>3, <2>2, PageSizes, ConstantsAssumption DEF IsLast
    <3>2. /\ oldest \in 1..Len(chain) /\ oldest < Top(b) /\ Len(s) <= Top(b) - oldest
          /\ Len(s) \in Nat
      BY <3>1, PageSizes
    <3>3. Len(q) + oldest <= Len(chain) + 1
      BY <1>3, <3>2, ListingFacts
    <3>4. \A i \in DOMAIN q : q[i] >= oldest
      <4> SUFFICES ASSUME NEW i \in DOMAIN q PROVE q[i] >= oldest
        OBVIOUS
      <4>1. CASE \E k \in DOMAIN s : q[i] = s[k]
        BY <1>1, <1>4, <4>1, ListingFacts
      <4>2. CASE \E k \in DOMAIN b.queue : q[i] = b.queue[k]
        <5>1. PICK k \in DOMAIN b.queue : q[i] = b.queue[k]
          BY <4>2
        <5>2. b.queue[k] >= Top(b) /\ b.queue[k] \in Nat /\ Top(b) \in Nat
          BY ListingFacts
        <5>3. QED
          BY <1>1, <3>2, <5>1, <5>2
      <4>3. QED
        BY <1>3, <4>1, <4>2
    <3>5. oldest <= Len(chain) /\ oldest > 0
      BY <3>2, ListingFacts
    <3>6. QED
      BY <1>2, <2>2, <3>1, <3>3, <3>4, <3>5 DEF ListsDown
  <2>3. QED
    BY <2>1, <2>2
<1>9. c.until \in Good(p) \cup {0}
  BY <1>2 DEF GoodBackfill
<1>10. GoodBackfill(p, c)
  BY <1>2, <1>5, <1>6, <1>7, <1>8, <1>9 DEF GoodBackfill
<1>11. QED
  BY <1>10 DEF c

LEMMA ShapeListPage ==
  ASSUME Shape, NEW g \in Dials, NEW p \in Programs, ListPage(g, p) PROVE Shape'
<1>1. /\ backfill[g][p].phase = "listing"
      /\ UNCHANGED <<chainVars, cursor, linkVars, jobs, done, faults>>
  BY DEF ListPage
<1>2. \E c \in BackfillType :
        backfill' = [backfill EXCEPT ![g][p] = c] /\ GoodBackfill(p, c)
  <2> DEFINE b == backfill[g][p]
  <2>1. b \in BackfillType /\ GoodBackfill(p, b) /\ b.phase = "listing"
    BY <1>1, BackfillFacts
  <2>2. PICK n, page, s, oldest :
          /\ n \in Nat \ {0} /\ n <= Limit - Len(b.queue)
          /\ PageOf(p, b, n, page, s, oldest)
          /\ backfill' = [backfill EXCEPT ![g][p] = AfterPage(b, n, page, s, oldest)]
    BY PageRead
  <2> HIDE DEF b
  <2>3. s \in Seq(Nat) /\ oldest \in Nat
    BY <2>2 DEF PageOf
  <2>4. /\ AfterPage(b, n, page, s, oldest) \in BackfillType
        /\ GoodBackfill(p, AfterPage(b, n, page, s, oldest))
    BY <2>1, <2>2, <2>3, AfterPageFields, PageGood
  <2>5. QED
    BY <2>2, <2>4
<1>3. PICK c \in BackfillType :
        backfill' = [backfill EXCEPT ![g][p] = c] /\ GoodBackfill(p, c)
  BY <1>2
<1>4. g <= dials /\ \A j \in jobs : ~Of(j, g, p)
  BY <1>1, BackfillDialled DEF Shape, Jobs
<1>5. Backfills' /\ OnlyChanged(g, p, c)
  BY <1>1, <1>3, <1>4, OneBackfill DEF linkVars
<1>6. Jobs'
  BY <1>1, <1>4, <1>5, JobsElsewhere DEF linkVars
<1>7. QED
  BY <1>1, <1>5, <1>6, Kept DEF Shape

LEMMA ShapeStep == Shape /\ [Next]_vars => Shape'
<1> SUFFICES ASSUME Shape, [Next]_vars PROVE Shape'
  OBVIOUS
<1>1. CASE UNCHANGED vars
  BY <1>1, Kept DEF vars, Shape, chainVars, linkVars, faults
<1>2. CASE \E p \in Programs : Confirm(p)
  BY <1>2, ShapeConfirm
<1>3. CASE Subscribe
  BY <1>3, ShapeSubscribe
<1>4. ASSUME NEW g \in Dials, Activate(g) \/ Deliver(g) \/ Close(g) PROVE Shape'
  BY <1>4, ShapeActivate, ShapeDeliver, ShapeClose
<1>5. CASE Crash
  BY <1>5, ShapeCrash
<1>6. ASSUME NEW j \in jobs, RunJob(j) \/ JobFails(j) PROVE Shape'
  BY <1>6, ShapeRunQuery, ShapeAdvanceCursor, ShapeQueryFails, ShapeAdvanceFails
     DEF RunJob, JobFails
<1>7. ASSUME NEW g \in Dials, NEW p \in Programs, BackfillStep(g, p) \/ BackfillFails(g, p)
      PROVE  Shape'
  BY <1>7, ShapeReadCursor, ShapeListPage, ShapeFetchTx, ShapeFinishBackfill, ShapeListFails,
     ShapeFetchFails DEF BackfillStep, BackfillFails
<1>8. QED
  BY <1>1, <1>2, <1>3, <1>4, <1>5, <1>6, <1>7 DEF Next

LEMMA SpecShape == Spec => []Shape
  BY ShapeInit, ShapeStep, PTL DEF Spec

\* Cursors, jobs and the lists of the backfills always name confirmed,
\* successful transactions of their own program, the lists in the order of the
\* chain and within SOLANA_BACKFILL_LIMIT (solana/backfill.ts).
THEOREM SpecTypeOK == Spec => []TypeOK
  BY SpecShape, ShapeTypeOK, PTL

------------------------------------------------------------------------------
(* Cursors move forward *)

LEMMA OnlyAdvanceMoves ==
  ASSUME Shape, [Next]_vars, cursor' # cursor
  PROVE  \E j \in jobs : AdvanceCursor(j)
<1>1. ~UNCHANGED vars
  BY DEF vars
<1>2. \A p \in Programs : ~Confirm(p)
  BY DEF Confirm
<1>3. ~Subscribe /\ ~Crash
  BY DEF Subscribe, Crash
<1>4. \A g \in Dials : ~Activate(g) /\ ~Deliver(g) /\ ~Close(g)
  BY DEF Activate, Deliver, Close
<1>5. \A j \in jobs : ~RunQuery(j) /\ ~JobFails(j)
  BY DEF RunQuery, JobFails, QueryFails, AdvanceFails
<1>6. \A g \in Dials, p \in Programs : ~BackfillStep(g, p) /\ ~BackfillFails(g, p)
  BY DEF BackfillStep, BackfillFails, ReadCursor, ListPage, ListFails, FetchTx, FetchFails,
         FinishBackfill
<1>7. QED
  BY <1>1, <1>2, <1>3, <1>4, <1>5, <1>6 DEF Next, RunJob

\* No step moves a program's cursor back or within a slot, in whatever order
\* live logs and backfills come to advanceIndexerCursor (solana/backfill.ts).
THEOREM SpecCursorForward == Spec => CursorForward
<1> DEFINE Forward == \A p \in Programs :
             cursor'[p] # cursor[p] => cursor'[p].slot > cursor[p].slot
<1>1. Shape /\ [Next]_vars => [Forward]_cursor
  <2> SUFFICES ASSUME Shape, [Next]_vars, cursor' # cursor, NEW p \in Programs,
                      cursor'[p] # cursor[p]
               PROVE  cursor'[p].slot > cursor[p].slot
    OBVIOUS
  <2>1. PICK j \in jobs : AdvanceCursor(j)
    BY OnlyAdvanceMoves
  <2>2. /\ cursor' = [cursor EXCEPT ![chain[j.tx].prog] = Advanced(@, j.tx)]
        /\ cursor \in [Programs -> CursorType]
    BY <2>1 DEF AdvanceCursor, Shape, Cursors
  <2>3. chain[j.tx].prog = p /\ cursor'[p] = Advanced(cursor[p], j.tx)
    BY <2>2
  <2>4. chain[j.tx].slot \in Nat \ {0}
    BY JobFacts DEF Shape, Chains
  <2>5. /\ cursor[p].slot = 0 \/ cursor[p].slot < chain[j.tx].slot
        /\ cursor'[p].slot = chain[j.tx].slot
    BY <2>3 DEF Advanced
  <2>6. QED
    BY <2>4, <2>5
<1>2. QED
  BY <1>1, SpecShape, PTL DEF Spec, CursorForward

------------------------------------------------------------------------------
(* Cursors leave nothing behind (CursorCovers).                            *)
(*                                                                         *)
(* A transaction is accounted for when its handlers have ended, are        *)
(* running, or wait in a backfill.  What is accounted for of one program   *)
(* is a prefix of the chain at all times: a live log is delivered after    *)
(* all that its connection may have missed is on the connection's own      *)
(* backfill, and a backfill starts at a transaction that was handled.      *)

\* The premise of CursorCovers
Calm == SubscribesFirst /\ Limit >= MaxTx /\ crashes = 0 /\ errors = 0

Accounted(p, x) ==
  x \in done \/ InHand(x) \/ \E g \in Dials : x \in Left(p, backfill[g][p])

Prefix ==
  \A p \in Programs : \A x, y \in Good(p) :
    x < y /\ Accounted(p, y) => Accounted(p, x)

CursorsDone == \A p \in Programs : cursor[p].sig \in done \cup {0}

UntilDone == \A g \in Dials, p \in Programs : backfill[g][p].until \in done \cup {0}

\* Until the endpoint answers the subscriptions it lists nothing.
NotListed ==
  reachable /\ Limit > 0 =>
    \A g \in Dials, p \in followed : link[g] = "opening" =>
      backfill[g][p].phase \in {"start", "listing"} /\ backfill[g][p].before = 0

\* What a connection will not deliver any more
Heard ==
  \A g \in Dials : link[g] = "live" =>
    \A p \in Programs : \A x \in Good(p) : x < next[g] => Accounted(p, x)

Cover == Prefix /\ CursorsDone /\ UntilDone /\ NotListed /\ Heard

LEMMA CoverCovers == Shape /\ (Calm => Cover) => CursorCovers
<1> SUFFICES ASSUME Shape, Cover, NEW p \in followed, NEW x \in Good(p), x <= cursor[p].sig
             PROVE  x \in done \/ InHand(x) \/ \E g \in Dials : x \in Pending(g, p)
  BY DEF CursorCovers, Calm, Covered
<1>1. p \in Programs /\ x \in Nat \ {0}
  BY GoodFacts DEF Shape
<1>2. cursor[p].sig \in done /\ cursor[p].sig \in Nat
  BY <1>1 DEF Cover, CursorsDone, Shape, Cursors, CursorType
<1>3. cursor[p].sig \in Good(p)
  BY <1>1, <1>2 DEF Shape, Cursors, GoodCursor
<1>4. Accounted(p, x)
  <2>1. CASE x = cursor[p].sig
    BY <1>2, <2>1 DEF Accounted
  <2>2. CASE x < cursor[p].sig
    BY <1>1, <1>2, <1>3, <2>2 DEF Cover, Prefix, Accounted
  <2>3. QED
    BY <1>1, <1>2, <2>1, <2>2
<1>5. QED
  BY <1>4 DEF Accounted, Left, Pending

LEMMA CoverInit == Init => Cover
<1> SUFFICES ASSUME Init PROVE Cover
  OBVIOUS
<1>1. DOMAIN chain = {} /\ \A p : Good(p) = {}
  BY DEF Init, Good
<1>2. \A p \in Programs : cursor[p].sig = 0
  BY DEF Init
<1>3. \A g \in Dials, p \in Programs : backfill[g][p].until = 0
  BY DEF Init, NoBackfill
<1>4. \A g \in Dials : link[g] = "off"
  BY DEF Init
<1>5. QED
  BY <1>1, <1>2, <1>3, <1>4 DEF Cover, Prefix, CursorsDone, UntilDone, NotListed, Heard

------------------------------------------------------------------------------
(* What a step does to the transactions accounted for *)

SameAccounted ==
  \A p \in Programs : \A x \in Good(p) : Accounted(p, x)' <=> Accounted(p, x)

LEMMA SamePrefix ==
  ASSUME Cover, SameAccounted, UNCHANGED chainVars
  PROVE  /\ Prefix'
         /\ UNCHANGED <<link, next>> => Heard'
<1>1. \A p : Good(p)' = Good(p)
  BY DEF Good, chainVars
<1>2. Prefix'
  BY <1>1 DEF Cover, Prefix, SameAccounted
<1>3. UNCHANGED <<link, next>> => Heard'
  BY <1>1 DEF Cover, Heard, SameAccounted
<1>4. QED
  BY <1>2, <1>3

\* With the same list of transactions a backfill has the same left.
LEMMA SameLeft ==
  ASSUME UNCHANGED chainVars, NEW g, NEW p
  PROVE  /\ \A b : backfill'[g][p] = b => Left(p, backfill[g][p])' = Left(p, b)
         /\ UNCHANGED backfill => Left(p, backfill[g][p])' = Left(p, backfill[g][p])
  BY DEF Left, Listable, chainVars

LEMMA OneLeft ==
  ASSUME Shape, NEW g \in Dials, NEW p \in Programs, NEW b, OnlyChanged(g, p, b),
         UNCHANGED chainVars, NEW r \in Programs, NEW x,
         r = p => (x \in Left(p, b) <=> x \in Left(p, backfill[g][p]))
  PROVE  (\E h \in Dials : x \in Left(r, backfill[h][r])')
           <=> (\E h \in Dials : x \in Left(r, backfill[h][r]))
<1>1. \A h \in Dials : x \in Left(r, backfill[h][r])' <=> x \in Left(r, backfill[h][r])
  <2> SUFFICES ASSUME NEW h \in Dials
               PROVE  x \in Left(r, backfill[h][r])' <=> x \in Left(r, backfill[h][r])
    OBVIOUS
  <2>1. CASE h = g /\ r = p
    <3>1. backfill'[h][r] = b
      BY <2>1 DEF OnlyChanged
    <3>2. Left(r, backfill[h][r])' = Left(p, b)
      BY <2>1, <3>1, SameLeft
    <3>3. QED
      BY <2>1, <3>2
  <2>2. CASE ~(h = g /\ r = p)
    <3>1. backfill'[h][r] = backfill[h][r]
      BY <2>2 DEF OnlyChanged
    <3>2. Left(r, backfill[h][r])' = Left(r, backfill[h][r])
      BY <3>1, SameLeft
    <3>3. QED
      BY <3>2
  <2>3. QED
    BY <2>1, <2>2
<1>2. QED
  BY <1>1

\* A backfill's step that keeps what it has left keeps the whole account.
LEMMA StepOfBackfill ==
  ASSUME Shape, Cover, NEW g \in Dials, NEW p \in Programs, NEW b, OnlyChanged(g, p, b),
         UNCHANGED <<chainVars, cursor, linkVars, jobs, done>>,
         \A x \in Good(p) : x \in Left(p, b) <=> x \in Left(p, backfill[g][p]),
         b.until = backfill[g][p].until,
         reachable /\ Limit > 0 /\ link[g] = "opening" /\ p \in followed
           => b.phase \in {"start", "listing"} /\ b.before = 0
  PROVE  Cover'
<1>1. SameAccounted
  <2> SUFFICES ASSUME NEW r \in Programs, NEW x \in Good(r)
               PROVE  Accounted(r, x)' <=> Accounted(r, x)
    BY DEF SameAccounted
  <2>1. (\E h \in Dials : x \in Left(r, backfill[h][r])')
          <=> (\E h \in Dials : x \in Left(r, backfill[h][r]))
    BY OneLeft
  <2>2. QED
    BY <2>1 DEF Accounted, InHand
<1>2. Prefix' /\ Heard'
  BY <1>1, SamePrefix DEF linkVars
<1>3. CursorsDone'
  BY DEF Cover, CursorsDone
<1>4. UntilDone'
  BY DEF Cover, UntilDone, OnlyChanged
<1>5. NotListed'
  <2>1. \A h \in Dials, r \in followed : r \in Programs
    BY DEF Shape, Chains
  <2>2. QED
    BY <2>1 DEF Cover, NotListed, OnlyChanged, chainVars, linkVars
<1>6. QED
  BY <1>2, <1>3, <1>4, <1>5 DEF Cover

\* Failures and crashes are counted, so a calm step is no failure.
LEMMA CalmStep ==
  ASSUME Shape, [Next]_vars, Calm'
  PROVE  /\ Calm
         /\ ~Crash
         /\ \A j \in jobs : ~JobFails(j)
         /\ \A g \in Dials, p \in Programs : ~BackfillFails(g, p)
<1>1. crashes \in Nat /\ errors \in Nat /\ crashes' = 0 /\ errors' = 0
  BY ConstantsAssumption DEF Shape, History, Calm
<1>2. ~Crash
  BY <1>1 DEF Crash
<1>3. \A j \in jobs : ~JobFails(j)
  BY <1>1 DEF JobFails, QueryFails, AdvanceFails
<1>4. \A g \in Dials, p \in Programs : ~BackfillFails(g, p)
  BY <1>1 DEF BackfillFails, ListFails, FetchFails
<1>5. UNCHANGED faults
  BY <1>2, <1>3, <1>4 DEF Next, vars, Confirm, Subscribe, Activate, Deliver, Close, RunJob,
     RunQuery, AdvanceCursor, BackfillStep, ReadCursor, ListPage, FetchTx, FinishBackfill, faults
<1>6. Calm
  BY <1>5 DEF Calm, faults
<1>7. QED
  BY <1>2, <1>3, <1>4, <1>6

LEMMA CoverStutter ==
  ASSUME Cover, UNCHANGED <<chainVars, cursor, linkVars, backfill, jobs, done>>
  PROVE  Cover'
<1>1. SameAccounted
  <2>1. \A g, p : Left(p, backfill[g][p])' = Left(p, backfill[g][p])
    BY SameLeft
  <2>2. QED
    BY <2>1 DEF SameAccounted, Accounted, InHand
<1>2. Prefix' /\ Heard'
  BY <1>1, SamePrefix DEF linkVars
<1>3. QED
  BY <1>2 DEF Cover, CursorsDone, UntilDone, NotListed, chainVars, linkVars

\* What a backfill that starts after u need not list is accounted for.
LEMMA BehindDone ==
  ASSUME Shape, Cover, NEW p \in Programs, NEW u \in Good(p) \cup {0}, u \in done \cup {0},
         NEW x \in Good(p)
  PROVE  x > u \/ Accounted(p, x)
<1>1. x \in Nat \ {0} /\ (u = 0 \/ u \in Nat)
  BY GoodFacts DEF Shape
<1>2. CASE u = 0
  BY <1>1, <1>2
<1>3. CASE u # 0
  <2>1. u \in done /\ u \in Good(p) /\ Accounted(p, u)
    BY <1>3 DEF Accounted
  <2>2. x < u => Accounted(p, x)
    BY <2>1 DEF Cover, Prefix
  <2>3. QED
    BY <1>1, <2>1, <2>2
<1>4. QED
  BY <1>2, <1>3

\* A backfill that has not read a page yet accounts for everything.
LEMMA FirstPage ==
  ASSUME Shape, Cover, NEW g \in Dials, NEW p \in Programs,
         backfill[g][p].phase = "listing", backfill[g][p].before = 0, NEW x \in Good(p)
  PROVE  Accounted(p, x)
<1> DEFINE b == backfill[g][p]
<1>1. b.until \in Good(p) \cup {0} /\ b.until \in done \cup {0}
  BY BackfillFacts DEF Cover, UntilDone, GoodBackfill
<1>2. CASE x > b.until
  <2>1. x \in Listable(p, b)
    BY <1>2 DEF Listable, Good
  <2>2. QED
    BY <2>1 DEF Accounted, Left
<1>3. CASE Accounted(p, x)
  BY <1>3
<1> HIDE DEF b
<1>4. QED
  BY <1>1, <1>2, <1>3, BehindDone

------------------------------------------------------------------------------
(* The connection *)

LEMMA CoverClose ==
  ASSUME Shape, Cover, NEW g \in Dials, Close(g) PROVE Cover'
<1> USE DEF Close
<1>1. SameAccounted
  <2>1. \A h, p : Left(p, backfill[h][p])' = Left(p, backfill[h][p])
    BY SameLeft
  <2>2. QED
    BY <2>1 DEF SameAccounted, Accounted, InHand
<1>2. \A h \in Dials : link'[h] = IF h = g THEN "closed" ELSE link[h]
  BY DEF Shape, Links
<1>3. \A p : Good(p)' = Good(p)
  BY DEF Good, chainVars
<1>4. Heard'
  BY <1>1, <1>2, <1>3 DEF Cover, Heard, SameAccounted
<1>5. Prefix'
  BY <1>1, SamePrefix
<1>6. NotListed'
  BY <1>2 DEF Cover, NotListed, chainVars
<1>7. QED
  BY <1>4, <1>5, <1>6 DEF Cover, CursorsDone, UntilDone

\* A connection that goes live has missed nothing its backfill will not list.
LEMMA CoverActivate ==
  ASSUME Shape, Cover, Limit >= MaxTx, NEW g \in Dials, Activate(g) PROVE Cover'
<1> USE DEF Activate
<1>1. SameAccounted
  <2>1. \A h, p : Left(p, backfill[h][p])' = Left(p, backfill[h][p])
    BY SameLeft
  <2>2. QED
    BY <2>1 DEF SameAccounted, Accounted, InHand
<1>2. \A h \in Dials : /\ link'[h] = IF h = g THEN "live" ELSE link[h]
                       /\ next'[h] = IF h = g THEN Len(chain) + 1 ELSE next[h]
  BY DEF Shape, Links
<1>3. \A p : Good(p)' = Good(p)
  BY DEF Good, chainVars
<1>4. ASSUME NEW p \in Programs, NEW x \in Good(p) PROVE Accounted(p, x)
  <2>1. x \in Nat \ {0} /\ x <= Len(chain) /\ p \in followed /\ Len(chain) \in Nat
        /\ Len(chain) <= MaxTx
    BY GoodFacts, ChainFacts DEF Shape, Chains
  <2>2. Limit > 0
    BY <2>1, ConstantsAssumption
  <2>3. backfill[g][p].phase = "listing" /\ backfill[g][p].before = 0
    BY <2>1, <2>2 DEF Cover, NotListed
  <2>4. QED
    BY <2>3, FirstPage
<1>5. Heard'
  BY <1>1, <1>2, <1>3, <1>4 DEF Cover, Heard, SameAccounted
<1>6. Prefix'
  BY <1>1, SamePrefix
<1>7. NotListed'
  BY <1>2 DEF Cover, NotListed, chainVars
<1>8. QED
  BY <1>5, <1>6, <1>7 DEF Cover, CursorsDone, UntilDone

LEMMA CoverSubscribe == ASSUME Shape, Cover, Subscribe PROVE Cover'
<1> DEFINE started(p) == IF p \in followed /\ Limit > 0
                           THEN [NoBackfill EXCEPT !.phase = "start"] ELSE NoBackfill
<1>1. /\ dials + 1 \in Dials /\ dials \in Nat
      /\ link' = [link EXCEPT ![dials + 1] = "opening"]
      /\ backfill' = [backfill EXCEPT ![dials + 1] = [p \in Programs |-> started(p)]]
      /\ UNCHANGED <<chainVars, cursor, next, jobs, done>>
  BY ConstantsAssumption DEF Subscribe, Shape, Links, Dials
<1>2. \A p : /\ started(p).until = 0 /\ started(p).before = 0 /\ Left(p, started(p)) = {}
             /\ p \in followed /\ Limit > 0 => started(p).phase = "start"
  BY DEF NoBackfill, Left
<1>3. \A p : Left(p, NoBackfill) = {}
  BY DEF NoBackfill, Left
<1> HIDE DEF started
<1>4. \A g \in Dials, p \in Programs :
        /\ backfill'[g][p] = IF g = dials + 1 THEN started(p) ELSE backfill[g][p]
        /\ g = dials + 1 => backfill[g][p] = NoBackfill
  BY <1>1 DEF Shape, Backfills
<1>5. \A g \in Dials : link'[g] = IF g = dials + 1 THEN "opening" ELSE link[g]
  BY <1>1 DEF Shape, Links
<1>6. \A g \in Dials, p \in Programs : Left(p, backfill[g][p])' = Left(p, backfill[g][p])
  <2> SUFFICES ASSUME NEW g \in Dials, NEW p \in Programs
               PROVE  Left(p, backfill[g][p])' = Left(p, backfill[g][p])
    OBVIOUS
  <2>1. CASE g = dials + 1
    <3>1. backfill'[g][p] = started(p) /\ backfill[g][p] = NoBackfill
      BY <1>4, <2>1
    <3>2. Left(p, backfill[g][p])' = Left(p, started(p))
      BY <1>1, <3>1, SameLeft
    <3>3. QED
      BY <1>2, <1>3, <3>1, <3>2
  <2>2. CASE g # dials + 1
    <3>1. backfill'[g][p] = backfill[g][p]
      BY <1>4, <2>2
    <3>2. QED
      BY <1>1, <3>1, SameLeft
  <2>3. QED
    BY <2>1, <2>2
<1>7. SameAccounted
  BY <1>1, <1>6 DEF SameAccounted, Accounted, InHand
<1>8. \A p : Good(p)' = Good(p)
  BY <1>1 DEF Good, chainVars
<1>9. Prefix'
  BY <1>1, <1>7, SamePrefix
<1>10. Heard'
  BY <1>1, <1>5, <1>7, <1>8 DEF Cover, Heard, SameAccounted
<1>11. CursorsDone' /\ UntilDone'
  BY <1>1, <1>2, <1>4 DEF Cover, CursorsDone, UntilDone
<1>12. NotListed'
  <2>1. \A p \in followed : p \in Programs
    BY DEF Shape, Chains
  <2>2. QED
    BY <1>1, <1>2, <1>4, <1>5, <2>1 DEF Cover, NotListed, chainVars
<1>13. QED
  BY <1>9, <1>10, <1>11, <1>12 DEF Cover

\* A delivered log is accounted for after everything before it.
LEMMA CoverDeliver == ASSUME Shape, Cover, NEW g \in Dials, Deliver(g) PROVE Cover'
<1> DEFINE new == Job(Live(g), next[g])
<1>1. /\ link[g] = "live" /\ next[g] <= Len(chain)
      /\ next' = [next EXCEPT ![g] = @ + 1]
      /\ jobs' = IF chain[next[g]].ok THEN jobs \cup {new} ELSE jobs
      /\ UNCHANGED <<chainVars, cursor, dials, link, backfill, done>>
  BY DEF Deliver
<1>2. new.tx = next[g]
  BY DEF Job
<1> HIDE DEF new
<1>3. \A p : Good(p)' = Good(p)
  BY <1>1 DEF Good, chainVars
<1>4. \A h, p : Left(p, backfill[h][p])' = Left(p, backfill[h][p])
  BY <1>1, SameLeft
<1>5. \A p \in Programs : \A x \in Good(p) : Accounted(p, x)' <=> Accounted(p, x) \/ x = next[g]
  <2> SUFFICES ASSUME NEW p \in Programs, NEW x \in Good(p)
               PROVE  Accounted(p, x)' <=> Accounted(p, x) \/ x = next[g]
    OBVIOUS
  <2>1. InHand(x)' <=> InHand(x) \/ x = next[g]
    <3>1. x = next[g] => chain[next[g]].ok
      BY DEF Good
    <3>2. QED
      BY <1>1, <1>2, <3>1 DEF InHand
  <2>2. QED
    BY <1>1, <1>4, <2>1 DEF Accounted
<1>6. \A p \in Programs : \A x \in Good(p) : x < next[g] => Accounted(p, x)
  BY <1>1 DEF Cover, Heard
<1>7. Prefix'
  BY <1>3, <1>5, <1>6 DEF Cover, Prefix
<1>8. Heard'
  <2> SUFFICES ASSUME NEW h \in Dials, link[h] = "live", NEW p \in Programs, NEW x \in Good(p),
                      x < next'[h]
               PROVE  Accounted(p, x)'
    BY <1>1, <1>3 DEF Heard
  <2>1. x \in Nat /\ next[h] \in Nat /\ next'[h] = IF h = g THEN next[h] + 1 ELSE next[h]
    BY <1>1, GoodFacts DEF Shape, Links
  <2>2. x < next[h] \/ x = next[g]
    BY <2>1
  <2>3. QED
    BY <1>5, <2>2 DEF Cover, Heard
<1>9. QED
  BY <1>1, <1>7, <1>8 DEF Cover, CursorsDone, UntilDone, NotListed, chainVars

------------------------------------------------------------------------------
(* Jobs *)

LEMMA CoverRunQuery ==
  ASSUME Shape, Cover, NEW j \in jobs, RunQuery(j) PROVE Cover'
<1>1. PICK k \in {NextEvent(j), [j EXCEPT !.q = @ + 1]} : Becomes(j, k)
  BY DEF RunQuery
<1>2. k.tx = j.tx
  BY JobFacts, NextJob
<1>3. \A x : InHand(x)' <=> InHand(x)
  BY <1>1, <1>2 DEF InHand, Becomes
<1>4. UNCHANGED <<chainVars, cursor, linkVars, backfill, done>>
  BY DEF RunQuery
<1>5. \A g, p : Left(p, backfill[g][p])' = Left(p, backfill[g][p])
  BY <1>4, SameLeft
<1>6. SameAccounted
  BY <1>3, <1>4, <1>5 DEF SameAccounted, Accounted
<1>7. Prefix' /\ Heard'
  BY <1>4, <1>6, SamePrefix DEF linkVars
<1>8. QED
  BY <1>4, <1>7 DEF Cover, CursorsDone, UntilDone, NotListed, chainVars, linkVars

\* A transaction that was in hand is done, and leaves its backfill's list.
LEMMA CoverAdvance ==
  ASSUME Shape, Cover, NEW j \in jobs, AdvanceCursor(j) PROVE Cover'
<1> DEFINE g == j.owner.dial
           p == chain[j.tx].prog
           b == [backfill[g][p] EXCEPT !.queue = Tail(@)]
<1>1. /\ cursor' = [cursor EXCEPT ![p] = Advanced(@, j.tx)]
      /\ jobs' = jobs \ {j} /\ done' = done \cup {j.tx}
      /\ backfill' = IF j.owner.by = "backfill" THEN Drop1(g, p) ELSE backfill
      /\ UNCHANGED <<chainVars, linkVars>>
  BY DEF AdvanceCursor
<1>2. g \in Dials /\ p \in Programs
  BY JobFacts
<1>3. j.owner.by = "backfill" =>
        /\ backfill' = [backfill EXCEPT ![g][p] = b]
        /\ b.until = backfill[g][p].until /\ b.phase = "replay" /\ backfill[g][p].phase = "replay"
        /\ \A x : x \in Left(p, b) \/ x = j.tx <=> x \in Left(p, backfill[g][p]) \/ x = j.tx
  <2> SUFFICES ASSUME j.owner.by = "backfill"
               PROVE  /\ backfill' = [backfill EXCEPT ![g][p] = b]
                      /\ b.until = backfill[g][p].until /\ b.phase = "replay"
                      /\ backfill[g][p].phase = "replay"
                      /\ \A x : x \in Left(p, b) \/ x = j.tx
                                  <=> x \in Left(p, backfill[g][p]) \/ x = j.tx
    OBVIOUS
  <2> DEFINE old == backfill[g][p]
  <2>1. /\ old \in BackfillType /\ old.phase = "replay" /\ old.queue # <<>>
        /\ Head(old.queue) = j.tx /\ old.queue \in Seq(Nat) /\ Increasing(old.queue)
    BY <1>2, JobOfBackfill, BackfillFacts DEF GoodBackfill
  <2>2. b.queue = Tail(old.queue) /\ b.phase = "replay" /\ b.until = old.until
    BY <2>1 DEF BackfillType
  <2>3. backfill' = [backfill EXCEPT ![g][p] = b]
    BY <1>1 DEF Drop1
  <2> HIDE DEF b, old
  <2>4. \A x : x \in Left(p, old) <=> \E i \in DOMAIN old.queue : old.queue[i] = x
    BY <2>1 DEF Left
  <2>5. \A x : x \in Left(p, b) <=> \E i \in DOMAIN b.queue : b.queue[i] = x
    BY <2>2 DEF Left
  <2>6. /\ \A i \in DOMAIN b.queue : i + 1 \in DOMAIN old.queue
                                     /\ b.queue[i] = old.queue[i + 1]
        /\ \A i \in DOMAIN old.queue :
             old.queue[i] = j.tx \/ \E k \in DOMAIN b.queue : b.queue[k] = old.queue[i]
    BY <2>1, <2>2, TailFacts
  <2>7. \A x : x \in Left(p, b) \/ x = j.tx <=> x \in Left(p, old) \/ x = j.tx
    BY <2>4, <2>5, <2>6
  <2>8. QED
    BY <2>1, <2>2, <2>3, <2>7 DEF old
<1> HIDE DEF b
<1>4. j.owner.by = "backfill" => OnlyChanged(g, p, b)
  BY <1>2, <1>3 DEF OnlyChanged, Shape, Backfills
<1>5. SameAccounted
  <2> SUFFICES ASSUME NEW r \in Programs, NEW x \in Good(r)
               PROVE  Accounted(r, x)' <=> Accounted(r, x)
    BY DEF SameAccounted
  <2>1. CASE x = j.tx
    <3>1. Accounted(r, x)'
      BY <1>1, <2>1 DEF Accounted
    <3>2. Accounted(r, x)
      BY <2>1 DEF Accounted, InHand
    <3>3. QED
      BY <3>1, <3>2
  <2>2. CASE x # j.tx
    <3>1. x \in done' <=> x \in done
      BY <1>1, <2>2
    <3>2. InHand(x)' <=> InHand(x)
      BY <1>1, <2>2 DEF InHand
    <3>3. (\E h \in Dials : x \in Left(r, backfill[h][r])')
            <=> (\E h \in Dials : x \in Left(r, backfill[h][r]))
      <4>1. CASE j.owner.by = "backfill"
        <5>1. x \in Left(p, b) <=> x \in Left(p, backfill[g][p])
          BY <1>3, <2>2, <4>1
        <5> HIDE DEF p, g
        <5>2. QED
          BY <1>1, <1>2, <1>4, <4>1, <5>1, OneLeft
      <4>2. CASE j.owner.by # "backfill"
        BY <1>1, <4>2, SameLeft
      <4>3. QED
        BY <4>1, <4>2
    <3>4. QED
      BY <3>1, <3>2, <3>3 DEF Accounted
  <2>3. QED
    BY <2>1, <2>2
<1>6. Prefix' /\ Heard'
  BY <1>1, <1>5, SamePrefix DEF linkVars
<1>7. CursorsDone'
  BY <1>1, <1>2 DEF Cover, CursorsDone, Advanced, Shape, Cursors
<1>8. UntilDone'
  BY <1>1, <1>3, <1>4 DEF Cover, UntilDone, OnlyChanged
<1>9. NotListed'
  <2>1. CASE j.owner.by # "backfill"
    BY <1>1, <2>1 DEF Cover, NotListed, chainVars, linkVars
  <2>2. CASE j.owner.by = "backfill"
    <3>1. \A r \in followed : r \in Programs
      BY DEF Shape, Chains
    <3>2. \A h \in Dials, r \in Programs :
            backfill'[h][r] = backfill[h][r] \/ (h = g /\ r = p /\ backfill[g][p].phase = "replay")
      BY <1>3, <1>4, <2>2 DEF OnlyChanged
    <3> HIDE DEF g, p
    <3>3. QED
      BY <1>1, <3>1, <3>2 DEF Cover, NotListed, chainVars, linkVars
  <2>3. QED
    BY <2>1, <2>2
<1>10. QED
  BY <1>6, <1>7, <1>8, <1>9 DEF Cover

------------------------------------------------------------------------------
(* Backfills *)

LEMMA CoverFetchTx ==
  ASSUME Shape, Cover, NEW g \in Dials, NEW p \in Programs, FetchTx(g, p) PROVE Cover'
<1> DEFINE new == Job(Replay(g), Head(backfill[g][p].queue))
<1>1. jobs' = jobs \cup {new} /\ UNCHANGED <<chainVars, cursor, linkVars, backfill, done>>
  BY DEF FetchTx
<1>2. new.tx = Head(backfill[g][p].queue) /\ new.tx \in Good(p)
  BY Idle DEF FetchTx, Job
<1>3. new.tx \in Left(p, backfill[g][p])
  <2>1. backfill[g][p].queue \in Seq(Nat) /\ backfill[g][p].queue # <<>>
    BY Idle, BackfillFacts DEF FetchTx
  <2>2. 1 \in DOMAIN backfill[g][p].queue
    BY <2>1, EmptySeq
  <2>3. QED
    BY <1>2, <2>2 DEF Left
<1> HIDE DEF new
<1>4. \A h, r : Left(r, backfill[h][r])' = Left(r, backfill[h][r])
  BY <1>1, SameLeft
<1>5. SameAccounted
  <2> SUFFICES ASSUME NEW r \in Programs, NEW x \in Good(r)
               PROVE  Accounted(r, x)' <=> Accounted(r, x)
    BY DEF SameAccounted
  <2>1. InHand(x)' <=> InHand(x) \/ x = new.tx
    BY <1>1 DEF InHand
  <2>2. x = new.tx => r = p
    BY <1>2 DEF Good
  <2>3. x = new.tx => Accounted(r, x)
    BY <1>3, <2>2 DEF Accounted
  <2>4. QED
    BY <1>1, <1>4, <2>1, <2>3 DEF Accounted
<1>6. Prefix' /\ Heard'
  BY <1>1, <1>5, SamePrefix DEF linkVars
<1>7. QED
  BY <1>1, <1>6 DEF Cover, CursorsDone, UntilDone, NotListed, chainVars, linkVars

LEMMA CoverFinish ==
  ASSUME Shape, Cover, NEW g \in Dials, NEW p \in Programs, FinishBackfill(g, p) PROVE Cover'
<1> DEFINE old == backfill[g][p]
           b == [old EXCEPT !.phase = "complete"]
<1>1. /\ old.phase = "replay" /\ old.queue = <<>>
      /\ backfill' = [backfill EXCEPT ![g][p] = b]
      /\ UNCHANGED <<chainVars, cursor, linkVars, jobs, done>>
  BY DEF FinishBackfill
<1>2. b.phase = "complete" /\ b.until = old.until /\ b.queue = <<>>
  <2>1. old \in BackfillType
    BY BackfillFacts
  <2>2. QED
    BY <1>1, <2>1 DEF BackfillType
<1>3. Left(p, b) = Left(p, old)
  BY <1>1, <1>2 DEF Left
<1> HIDE DEF b
<1>4. OnlyChanged(g, p, b)
  BY <1>1 DEF OnlyChanged, Shape, Backfills
<1>5. ~(reachable /\ Limit > 0 /\ link[g] = "opening" /\ p \in followed)
  BY <1>1 DEF Cover, NotListed
<1>6. QED
  BY <1>1, <1>2, <1>3, <1>4, <1>5, StepOfBackfill

\* A backfill starts at a transaction that was handled.
LEMMA CoverReadCursor ==
  ASSUME Shape, Cover, NEW g \in Dials, NEW p \in Programs, ReadCursor(g, p) PROVE Cover'
<1> DEFINE old == backfill[g][p]
           b == [old EXCEPT !.phase = "listing", !.until = cursor[p].sig]
<1>1. /\ old.phase = "start" /\ backfill' = [backfill EXCEPT ![g][p] = b]
      /\ UNCHANGED <<chainVars, cursor, linkVars, jobs, done>>
  BY DEF ReadCursor, Shape, Backfills
<1>2. old.before = 0 /\ old.queue = <<>> /\ old \in BackfillType
  BY <1>1, BackfillFacts DEF GoodBackfill, ListsDown
<1>3. b.phase = "listing" /\ b.until = cursor[p].sig /\ b.before = 0 /\ b.queue = <<>>
  BY <1>2 DEF BackfillType
<1> HIDE DEF b
<1>4. OnlyChanged(g, p, b)
  BY <1>1 DEF OnlyChanged, Shape, Backfills
<1>5. cursor[p].sig \in Good(p) \cup {0} /\ cursor[p].sig \in done \cup {0}
  BY DEF Cover, CursorsDone, Shape, Cursors, GoodCursor
<1>6. \A r : Good(r)' = Good(r)
  BY <1>1 DEF Good, chainVars
<1>7. \A r \in Programs : \A x \in Good(r) :
        /\ Accounted(r, x) => Accounted(r, x)'
        /\ r # p => (Accounted(r, x)' <=> Accounted(r, x))
        /\ r = p => Accounted(r, x)'
  <2> SUFFICES ASSUME NEW r \in Programs, NEW x \in Good(r)
               PROVE  /\ Accounted(r, x) => Accounted(r, x)'
                      /\ r # p => (Accounted(r, x)' <=> Accounted(r, x))
                      /\ r = p => Accounted(r, x)'
    OBVIOUS
  <2>1. CASE r # p
    <3>1. (\E h \in Dials : x \in Left(r, backfill[h][r])')
            <=> (\E h \in Dials : x \in Left(r, backfill[h][r]))
      BY <1>1, <1>4, <2>1, OneLeft
    <3>2. QED
      BY <1>1, <2>1, <3>1 DEF Accounted, InHand
  <2>2. CASE r = p
    <3>1. x \in Left(p, b) => Accounted(p, x)'
      <4>1. backfill'[g][p] = b
        BY <1>4 DEF OnlyChanged
      <4>2. Left(p, backfill[g][p])' = Left(p, b)
        BY <1>1, <4>1, SameLeft
      <4>3. QED
        BY <4>2 DEF Accounted
    <3>2. x > cursor[p].sig => x \in Left(p, b)
      BY <1>3, <2>2 DEF Left, Listable, Good
    <3>3. Accounted(p, x) => Accounted(p, x)'
      <4>1. Left(p, old) = {}
        BY <1>1, <1>2 DEF Left
      <4>2. \A h \in Dials : x \in Left(p, backfill[h][p]) => x \in Left(p, backfill[h][p])'
        <5> SUFFICES ASSUME NEW h \in Dials, x \in Left(p, backfill[h][p])
                     PROVE  x \in Left(p, backfill[h][p])'
          OBVIOUS
        <5>1. h # g
          BY <4>1
        <5>2. backfill'[h][p] = backfill[h][p]
          BY <1>4, <5>1 DEF OnlyChanged
        <5>3. QED
          BY <1>1, <5>2, SameLeft
      <4>3. QED
        BY <1>1, <4>2 DEF Accounted, InHand
    <3>4. x > cursor[p].sig \/ Accounted(p, x)
      <4>1. x \in Good(p)
        BY <2>2
      <4>2. QED
        BY <1>5, <4>1, BehindDone
    <3>5. QED
      BY <2>2, <3>1, <3>2, <3>3, <3>4
  <2>3. QED
    BY <2>1, <2>2
<1>8. Prefix'
  BY <1>6, <1>7 DEF Cover, Prefix
<1>9. Heard'
  BY <1>1, <1>6, <1>7 DEF Cover, Heard, linkVars
<1>10. CursorsDone'
  BY <1>1 DEF Cover, CursorsDone
<1>11. UntilDone'
  BY <1>1, <1>3, <1>4, <1>5 DEF Cover, UntilDone, OnlyChanged
<1>12. NotListed'
  <2>1. \A r \in followed : r \in Programs
    BY DEF Shape, Chains
  <2>2. QED
    BY <1>1, <1>3, <1>4, <2>1 DEF Cover, NotListed, OnlyChanged, chainVars, linkVars
<1>13. QED
  BY <1>8, <1>9, <1>10, <1>11, <1>12 DEF Cover

\* A page moves transactions from what is to be listed to the list: it drops
\* none, as long as the limit does not cut the backfill.
LEMMA PageLeft ==
  ASSUME Shape, NEW p \in Programs, NEW b \in BackfillType, GoodBackfill(p, b),
         b.phase = "listing", NEW n \in Nat \ {0},
         NEW page, NEW s, NEW oldest, PageOf(p, b, n, page, s, oldest),
         Limit >= MaxTx, NEW x \in Good(p)
  PROVE  x \in Left(p, AfterPage(b, n, page, s, oldest)) <=> x \in Left(p, b)
<1> DEFINE c == AfterPage(b, n, page, s, oldest)
           q == s \o b.queue
<1>1. /\ s \in Seq(Nat) /\ oldest \in Nat /\ b.queue \in Seq(Nat)
      /\ page \subseteq Listable(p, b)
      /\ \A i \in DOMAIN s : s[i] \in page
      /\ \A y \in Usable(page) : \E i \in DOMAIN s : s[i] = y
      /\ page # {} => oldest \in page
      /\ \A a \in page, y \in Listable(p, b) : y > a => y \in page
  BY ListingFacts DEF PageOf, IsSorted, IsPage, Usable
<1>2. /\ c.queue = q /\ c.before = oldest /\ c.until = b.until
      /\ c.phase = IF IsLast(page, n, q) THEN "replay" ELSE "listing"
  <2>1. q = Collected(s, b.queue)
    BY DEF Collected
  <2> HIDE DEF q, c
  <2>2. /\ AfterPage(b, n, page, s, oldest).queue = q
        /\ AfterPage(b, n, page, s, oldest).before = oldest
        /\ AfterPage(b, n, page, s, oldest).until = b.until
        /\ AfterPage(b, n, page, s, oldest).phase
             = IF IsLast(page, n, q) THEN "replay" ELSE "listing"
    BY <1>1, <2>1, AfterPageFields
  <2>3. QED
    BY <2>2 DEF c
<1>3. /\ Len(q) = Len(s) + Len(b.queue)
      /\ \A i \in DOMAIN q : \/ \E k \in DOMAIN s : q[i] = s[k]
                            \/ \E k \in DOMAIN b.queue : q[i] = b.queue[k]
      /\ \A k \in DOMAIN s : \E i \in DOMAIN q : q[i] = s[k]
      /\ \A k \in DOMAIN b.queue : \E i \in DOMAIN q : q[i] = b.queue[k]
  <2>1. /\ Len(q) = Len(s) + Len(b.queue)
        /\ \A i \in DOMAIN q :
             \/ i \in DOMAIN s /\ q[i] = s[i]
             \/ i - Len(s) \in DOMAIN b.queue /\ i > Len(s) /\ q[i] = b.queue[i - Len(s)]
        /\ \A i \in DOMAIN s : i \in DOMAIN q /\ q[i] = s[i]
        /\ \A i \in DOMAIN b.queue : i + Len(s) \in DOMAIN q /\ q[i + Len(s)] = b.queue[i]
    BY <1>1, ConcatFacts
  <2> HIDE DEF q
  <2>2. QED
    BY <2>1
<1> HIDE DEF q, c
<1>4. x \in Left(p, b) <=> (\E i \in DOMAIN b.queue : b.queue[i] = x) \/ x \in Listable(p, b)
  BY DEF Left
<1>5. x \in Left(p, c) <=> (\E i \in DOMAIN q : q[i] = x)
                             \/ (~IsLast(page, n, q) /\ x \in Listable(p, c))
  BY <1>2 DEF Left
<1>6. x \in Nat \ {0} /\ x \in DOMAIN chain /\ chain[x].ok /\ chain[x].prog = p
  BY GoodFacts DEF Shape
<1>7. ASSUME x \in Left(p, c) PROVE x \in Left(p, b)
  <2>1. CASE \E i \in DOMAIN q : q[i] = x
    BY <1>1, <1>3, <1>4, <2>1
  <2>2. CASE ~IsLast(page, n, q) /\ x \in Listable(p, c)
    <3>1. page # {}
      BY <2>2, PageSizes DEF IsLast
    <3>2. oldest \in 1..Len(chain) /\ oldest < Top(b) /\ Top(b) \in Nat /\ b.until \in Nat
      BY <3>1, PageSizes, ListingFacts
    <3>3. x > b.until /\ x < oldest
      BY <1>2, <2>2, <3>2 DEF Listable
    <3>4. x < Top(b)
      BY <1>1, <1>6, <3>2, <3>3
    <3>5. x \in Listable(p, b)
      BY <3>3, <3>4, ListingFacts
    <3>6. QED
      BY <1>4, <3>5
  <2>3. QED
    BY <1>5, <1>7, <2>1, <2>2
<1>8. ASSUME x \in Left(p, b) PROVE x \in Left(p, c)
  <2>1. CASE \E i \in DOMAIN b.queue : b.queue[i] = x
    BY <1>3, <1>5, <2>1
  <2>2. CASE x \in page
    <3>1. \E i \in DOMAIN s : s[i] = x
      BY <1>1, <1>6, <2>2 DEF Usable
    <3>2. QED
      BY <1>3, <1>5, <3>1
  <2>3. CASE x \in Listable(p, b) /\ x \notin page
    <3>1. Cardinality(page) >= n /\ page # {}
      BY <2>3, PageSizes
    <3>2. /\ oldest \in 1..Len(chain) /\ oldest < Top(b) /\ Len(s) <= Top(b) - oldest
          /\ Len(s) \in Nat /\ Cardinality(page) \in Nat
      BY <3>1, PageSizes
    <3>3. x < oldest
      BY <1>1, <1>6, <2>3, <3>1
    <3>4. Len(q) < Limit
      <4>1. /\ Len(b.queue) + Top(b) <= Len(chain) + 1 /\ Len(chain) <= MaxTx
            /\ Len(b.queue) \in Nat /\ Top(b) \in Nat /\ Len(chain) \in Nat
        BY ListingFacts
      <4>2. Len(q) <= Len(chain) + 1 - oldest
        BY <1>1, <1>3, <3>2, <4>1
      <4>3. oldest >= 2
        BY <1>1, <1>6, <3>3
      <4>4. QED
        BY <1>1, <1>3, <3>2, <4>1, <4>2, <4>3, ConstantsAssumption
    <3>5. ~IsLast(page, n, q)
      <4>1. Len(q) \in Nat
        BY <1>3, <3>2, ListingFacts
      <4>2. QED
        BY <3>1, <3>2, <3>4, <4>1, ConstantsAssumption DEF IsLast
    <3>6. x \in Listable(p, c)
      <4>1. x > b.until
        BY <2>3, ListingFacts
      <4>2. QED
        BY <1>2, <1>6, <3>3, <4>1 DEF Listable
    <3>7. QED
      BY <1>5, <3>5, <3>6
  <2>4. QED
    BY <1>4, <1>8, <2>1, <2>2, <2>3
<1>9. QED
  BY <1>7, <1>8 DEF c

LEMMA CoverListPage ==
  ASSUME Shape, Cover, SubscribesFirst, Limit >= MaxTx,
         NEW g \in Dials, NEW p \in Programs, ListPage(g, p)
  PROVE  Cover'
<1>1. /\ backfill[g][p].phase = "listing" /\ ~(reachable /\ link[g] = "opening")
      /\ UNCHANGED <<chainVars, cursor, linkVars, jobs, done>>
  BY DEF ListPage
<1>2. \E c : /\ backfill' = [backfill EXCEPT ![g][p] = c]
             /\ c.until = backfill[g][p].until
             /\ \A x \in Good(p) : x \in Left(p, c) <=> x \in Left(p, backfill[g][p])
  <2> DEFINE b == backfill[g][p]
  <2>1. b \in BackfillType /\ GoodBackfill(p, b) /\ b.phase = "listing"
    BY <1>1, BackfillFacts
  <2>2. PICK n, page, s, oldest :
          /\ n \in Nat \ {0} /\ PageOf(p, b, n, page, s, oldest)
          /\ backfill' = [backfill EXCEPT ![g][p] = AfterPage(b, n, page, s, oldest)]
    BY PageRead
  <2> HIDE DEF b
  <2>3. s \in Seq(Nat) /\ oldest \in Nat
    BY <2>2 DEF PageOf
  <2>4. AfterPage(b, n, page, s, oldest).until = b.until
    BY <2>1, <2>3, AfterPageFields
  <2>5. \A x \in Good(p) : x \in Left(p, AfterPage(b, n, page, s, oldest)) <=> x \in Left(p, b)
    BY <2>1, <2>2, PageLeft
  <2>6. QED
    BY <2>2, <2>4, <2>5 DEF b
<1>3. PICK c : /\ backfill' = [backfill EXCEPT ![g][p] = c]
               /\ c.until = backfill[g][p].until
               /\ \A x \in Good(p) : x \in Left(p, c) <=> x \in Left(p, backfill[g][p])
  BY <1>2
<1>4. OnlyChanged(g, p, c)
  BY <1>3 DEF OnlyChanged, Shape, Backfills
<1>5. QED
  BY <1>1, <1>3, <1>4, StepOfBackfill

------------------------------------------------------------------------------
(* The chain *)

\* A new transaction is only on the first page of a backfill, which lists
\* everything before it as well.
LEMMA CoverConfirm ==
  ASSUME Shape, Cover, NEW p \in Programs, Confirm(p) PROVE Cover'
<1>0. PICK n : n = Len(chain) + 1
  OBVIOUS
<1>1. /\ \A i \in DOMAIN chain : chain'[i] = chain[i]
      /\ \A r : Good(r)' = Good(r) \cup (IF r = p /\ chain'[n].ok THEN {n} ELSE {})
      /\ DOMAIN chain' = 1..n
  BY <1>0, ConfirmAdds
<1>2. Len(chain) \in Nat /\ DOMAIN chain = 1..Len(chain) /\ n = Len(chain) + 1
  BY <1>0, ChainFacts DEF Shape
<1>3. UNCHANGED <<followed, reachable, cursor, dials, link, next, backfill, jobs, done>>
  BY DEF Confirm, linkVars
<1>4. \A r \in Programs : \A x \in Good(r) : Accounted(r, x)' <=> Accounted(r, x)
  <2> SUFFICES ASSUME NEW r \in Programs, NEW x \in Good(r)
               PROVE  Accounted(r, x)' <=> Accounted(r, x)
    OBVIOUS
  <2>1. x \in DOMAIN chain /\ x \in DOMAIN chain' /\ chain'[x] = chain[x]
    BY <1>1, <1>2, GoodFacts DEF Shape
  <2>2. \A b : x \in Listable(r, b)' <=> x \in Listable(r, b)
    BY <2>1 DEF Listable
  <2>3. \A h \in Dials : x \in Left(r, backfill[h][r])' <=> x \in Left(r, backfill[h][r])
    BY <1>3, <2>2 DEF Left
  <2>4. QED
    BY <1>3, <2>3 DEF Accounted, InHand
<1>5. ASSUME Accounted(p, n)', NEW x \in Good(p) PROVE Accounted(p, x)
  <2>1. n \notin done /\ ~InHand(n)
    BY <1>2, JobFacts DEF Shape, History, InHand
  <2>2. PICK g \in Dials : n \in Left(p, backfill[g][p])'
    BY <1>3, <1>5, <2>1 DEF Accounted, InHand
  <2> DEFINE b == backfill[g][p]
  <2>3. GoodBackfill(p, b) /\ b.before \in Nat
    BY BackfillFacts
  <2> HIDE DEF b
  <2>4. \A i \in DOMAIN b.queue : b.queue[i] # n
    BY <1>2, <2>3, GoodFacts DEF GoodBackfill, Shape
  <2>5. b.phase = "listing" /\ n \in Listable(p, b)'
    BY <1>3, <2>2, <2>4 DEF Left, b
  <2>6. b.before = 0 \/ n < b.before
    BY <1>3, <2>5 DEF Listable, b
  <2>7. b.before <= Len(chain)
    BY <2>3, <2>5 DEF GoodBackfill, ListsDown
  <2>8. b.before = 0
    BY <1>2, <2>3, <2>6, <2>7
  <2>9. QED
    BY <2>5, <2>8, FirstPage DEF b
<1>6. Prefix'
  <2> SUFFICES ASSUME NEW r \in Programs, NEW x \in Good(r)', NEW y \in Good(r)', x < y,
                      Accounted(r, y)'
               PROVE  Accounted(r, x)'
    BY DEF Prefix
  <2>1. \A z \in Good(r) : z \in 1..Len(chain)
    BY <1>2, GoodFacts DEF Shape
  <2>2. x \in Good(r) /\ (y \in Good(r) \/ (y = n /\ r = p))
    BY <1>1, <1>2, <2>1
  <2>3. Accounted(r, x)
    BY <1>4, <1>5, <2>2 DEF Cover, Prefix
  <2>4. QED
    BY <1>4, <2>2, <2>3
<1>7. Heard'
  <2> SUFFICES ASSUME NEW g \in Dials, link[g] = "live", NEW r \in Programs, NEW x \in Good(r)',
                      x < next[g]
               PROVE  Accounted(r, x)'
    BY <1>3 DEF Heard
  <2>1. next[g] <= n /\ next[g] \in Nat
    BY <1>2 DEF Shape, Links
  <2>2. x \in Good(r)
    BY <1>1, <1>2, <2>1
  <2>3. QED
    BY <1>4, <2>2 DEF Cover, Heard
<1>8. QED
  BY <1>3, <1>6, <1>7 DEF Cover, CursorsDone, UntilDone, NotListed

------------------------------------------------------------------------------

LEMMA CoverStep ==
  ASSUME Shape, Calm => Cover, [Next]_vars
  PROVE  (Calm => Cover)'
<1> SUFFICES ASSUME Calm' PROVE Cover'
  OBVIOUS
<1>1. Calm /\ Cover /\ SubscribesFirst /\ Limit >= MaxTx
  BY CalmStep DEF Calm
<1>2. CASE UNCHANGED vars
  BY <1>1, <1>2, CoverStutter DEF vars
<1>3. CASE \E p \in Programs : Confirm(p)
  BY <1>1, <1>3, CoverConfirm
<1>4. CASE Subscribe
  BY <1>1, <1>4, CoverSubscribe
<1>5. ASSUME NEW g \in Dials, Activate(g) \/ Deliver(g) \/ Close(g) PROVE Cover'
  BY <1>1, <1>5, CoverActivate, CoverDeliver, CoverClose
<1>6. ASSUME NEW j \in jobs, RunJob(j) PROVE Cover'
  BY <1>1, <1>6, CoverRunQuery, CoverAdvance DEF RunJob
<1>7. ASSUME NEW g \in Dials, NEW p \in Programs, BackfillStep(g, p) PROVE Cover'
  BY <1>1, <1>7, CoverReadCursor, CoverListPage, CoverFetchTx, CoverFinish DEF BackfillStep
<1>8. QED
  BY <1>2, <1>3, <1>4, <1>5, <1>6, <1>7, CalmStep DEF Next

\* Live logs, overlapping backfills, reconnects and pages never make a cursor
\* pass a transaction that is not handled, in hand or on a backfill's list
\* (solana/listener.ts, solana/backfill.ts), under the premise of CursorCovers.
THEOREM SpecCursorCovers == Spec => []CursorCovers
<1>1. Init => (Calm => Cover)
  BY CoverInit
<1>2. Shape /\ (Calm => Cover) /\ [Next]_vars => (Calm => Cover)'
  BY CoverStep
<1>3. Spec => [](Calm => Cover)
  BY <1>1, <1>2, SpecShape, PTL DEF Spec
<1>4. QED
  BY <1>3, SpecShape, CoverCovers, PTL
==============================================================================
