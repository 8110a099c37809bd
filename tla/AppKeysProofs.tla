----------------------------- MODULE AppKeysProofs -----------------------------
(***************************************************************************)
(* Every answer of AppKeyCache is recent, for any number of keys and of    *)
(* overlapping calls, any TTLs and any RPC delay.                          *)
(*                                                                         *)
(* KeysFresh speaks of the last answer only.  It is inductive together     *)
(* with what the two maps and the calls under way know of the chain: an    *)
(* entry or a pending RPC answer may miss a revocation or a registration,  *)
(* but then it was read before it.                                         *)
(***************************************************************************)
EXTENDS AppKeys, TLAPS

\* What the clock bounds.
Past ==
    /\ now > 0 /\ outage <= now /\ answer.at <= now
    /\ \A k \in Keys : chain[k].registered <= now /\ chain[k].revoked <= now

\* A cached record agrees with the chain but for a revocation after it was read.
EntriesKnow ==
    \A k \in Keys : cache[k].at # 0 =>
        /\ cache[k].at <= now
        /\ chain[k].registered # 0 /\ cache[k].expires = chain[k].expires
        /\ cache[k].revoked => chain[k].revoked # 0
        /\ ~cache[k].revoked /\ chain[k].revoked # 0 => cache[k].at <= chain[k].revoked + RpcDelay

\* A cached miss was one when it was read, or comes from an RPC failure.
MissesKnow ==
    \A k \in Keys : negative[k] # 0 =>
        \/ chain[k].registered = 0 /\ negative[k] <= now
        \/ negative[k] <= chain[k].registered + RpcDelay
        \/ outage # 0 /\ negative[k] <= outage + RpcDelay

\* The same of an RPC answer on its way.
CallsKnow ==
    \A c \in Callers : calls[c].step = "read" =>
        LET k == calls[c].key IN
        /\ calls[c].read <= now /\ now <= calls[c].read + RpcDelay
        /\ calls[c].found =>
             /\ chain[k].registered # 0 /\ calls[c].expires = chain[k].expires
             /\ calls[c].revoked => chain[k].revoked # 0
             /\ ~calls[c].revoked /\ chain[k].revoked # 0 => calls[c].read <= chain[k].revoked
        /\ ~calls[c].found =>
             \/ chain[k].registered = 0
             \/ calls[c].read <= chain[k].registered
             \/ outage # 0 /\ calls[c].read <= outage

KeysInv == KeyTypeOK /\ Past /\ EntriesKnow /\ MissesKnow /\ CallsKnow /\ KeysFresh

----------------------------------------------------------------------------
LEMMA Constants ==
    /\ Ttl \in Nat /\ Ttl > 0 /\ NegTtl \in Nat /\ RpcDelay \in Nat
    /\ AnyKey \in Keys
BY KeysAssumption DEF AnyKey

LEMMA NoCallType ==
    NoCall \in [step : {"idle", "ask", "read"}, key : Keys, found : BOOLEAN,
                revoked : BOOLEAN, expires : Nat, read : Nat]
BY Constants DEF NoCall

LEMMA InitKeys == ClockInit /\ KeysInit => KeysInv
<1> SUFFICES ASSUME ClockInit, KeysInit PROVE KeysInv
    OBVIOUS
<1>1. PICK old \in SUBSET Keys :
          chain = [k \in Keys |-> [registered |-> IF k \in old THEN now ELSE 0,
                                   revoked |-> 0, expires |-> 0]]
      BY DEF KeysInit
<1>2. KeyTypeOK
      BY <1>1, Constants, NoCallType DEF KeysInit, ClockInit, KeyTypeOK, NoEntry
<1>3. Past
      BY <1>1 DEF KeysInit, ClockInit, Past
<1>4. EntriesKnow /\ MissesKnow /\ CallsKnow
      BY <1>1 DEF KeysInit, NoEntry, NoCall, EntriesKnow, MissesKnow, CallsKnow
<1>5. KeysFresh
      BY <1>1 DEF KeysInit, KeysFresh, YesIsRecent, NoIsRecent
<1>6. QED
      BY <1>2, <1>3, <1>4, <1>5 DEF KeysInv

----------------------------------------------------------------------------
\* A new key was in no map, and every miss is older than it.
LEMMA RegisterKeeps ==
    ASSUME KeysInv, NEW k \in Keys, NEW expires \in Nat, Register(k, expires)
    PROVE  KeysInv'
<1> USE Constants DEF KeysInv, Register, mapVars
<1>1. KeyTypeOK' /\ Past'
  <2> DEFINE made == [chain[k] EXCEPT !.registered = now, !.expires = expires]
  <2>1. chain' = [chain EXCEPT ![k] = made]
        BY DEF KeyTypeOK
  <2>2. made \in [registered : Nat, revoked : Nat, expires : Nat]
        BY DEF KeyTypeOK
  <2>4. made.registered = now /\ made.revoked = chain[k].revoked
        BY DEF KeyTypeOK
  <2> HIDE DEF made
  <2>5. chain'[k] = made /\ \A l \in Keys \ {k} : chain'[l] = chain[l]
        BY <2>1 DEF KeyTypeOK
  <2>6. chain' \in [Keys -> [registered : Nat, revoked : Nat, expires : Nat]]
        BY <2>1, <2>2 DEF KeyTypeOK
  <2>7. KeyTypeOK'
        BY <2>6 DEF KeyTypeOK
  <2>8. Past'
        BY <2>4, <2>5 DEF KeyTypeOK, Past
  <2>9. QED
        BY <2>7, <2>8
<1>2. EntriesKnow'
      BY DEF KeyTypeOK, Past, EntriesKnow
<1>3. MissesKnow'
      BY DEF KeyTypeOK, Past, MissesKnow
<1>4. CallsKnow'
      BY DEF KeyTypeOK, Past, CallsKnow
<1>5. KeysFresh'
      BY DEF KeyTypeOK, Past, KeysFresh, YesIsRecent, NoIsRecent, Lapsed
<1>6. QED
      BY <1>1, <1>2, <1>3, <1>4, <1>5

LEMMA RevokeKeeps ==
    ASSUME KeysInv, NEW k \in Keys, Revoke(k)
    PROVE  KeysInv'
<1> USE Constants DEF KeysInv, Revoke, mapVars
<1>1. KeyTypeOK' /\ Past'
      BY DEF KeyTypeOK, Past
<1>2. EntriesKnow'
      BY DEF KeyTypeOK, Past, EntriesKnow
<1>3. MissesKnow'
      BY DEF KeyTypeOK, Past, MissesKnow
<1>4. CallsKnow'
      BY DEF KeyTypeOK, Past, CallsKnow
<1>5. KeysFresh'
      BY DEF KeyTypeOK, Past, KeysFresh, YesIsRecent, NoIsRecent, Lapsed
<1>6. QED
      BY <1>1, <1>2, <1>3, <1>4, <1>5

\* A hit is younger than its TTL, and so is what it knows.
LEMMA AskKeeps ==
    ASSUME KeysInv, NEW c \in Callers, NEW k \in Keys, Ask(c, k)
    PROVE  KeysInv'
<1> USE Constants DEF KeysInv, Ask, AskBoth
<1> DEFINE hit == ~cache[k].revoked /\ ~Lapsed(cache[k].expires, now)
<1>1. CASE Fresh(k) /\ Answer(k, hit) /\ UNCHANGED calls
  <2>1. answer' = [key |-> k, yes |-> hit, at |-> now] /\ hit \in BOOLEAN
        BY <1>1 DEF Answer
  <2>2. hit => ~cache[k].revoked /\ ~Lapsed(cache[k].expires, now)
        OBVIOUS
  <2>3. ~hit => cache[k].revoked \/ Lapsed(cache[k].expires, now)
        OBVIOUS
  <2> HIDE DEF hit
  <2>4. KeyTypeOK' /\ Past' /\ CallsKnow' /\ EntriesKnow' /\ MissesKnow'
        BY <1>1, <2>1 DEF KeyTypeOK, Past, CallsKnow, EntriesKnow, MissesKnow
  <2>5. YesIsRecent'
        BY <1>1, <2>1, <2>2 DEF KeyTypeOK, Past, EntriesKnow, Fresh, YesIsRecent, Lapsed
  <2>6. NoIsRecent'
        BY <1>1, <2>1, <2>3 DEF KeyTypeOK, Past, EntriesKnow, Fresh, NoIsRecent, Lapsed
  <2>7. QED
        BY <2>4, <2>5, <2>6 DEF KeysFresh
<1>2. CASE NegFresh(k) /\ Answer(k, FALSE) /\ UNCHANGED calls
  <2>1. KeyTypeOK' /\ Past' /\ CallsKnow' /\ EntriesKnow' /\ MissesKnow'
        BY <1>2 DEF KeyTypeOK, Past, CallsKnow, EntriesKnow, MissesKnow, Answer
  <2>2. KeysFresh'
        BY <1>2 DEF KeyTypeOK, Past, MissesKnow, NegFresh, Answer, KeysFresh, YesIsRecent, NoIsRecent
  <2>3. QED
        BY <2>1, <2>2
<1>3. CASE calls' = [calls EXCEPT ![c].step = "ask", ![c].key = k] /\ UNCHANGED answer
  <2>1. calls' = [calls EXCEPT ![c] = [calls[c] EXCEPT !.step = "ask", !.key = k]]
        BY <1>3
  <2>2. [calls[c] EXCEPT !.step = "ask", !.key = k] \in
            [step : {"idle", "ask", "read"}, key : Keys, found : BOOLEAN,
             revoked : BOOLEAN, expires : Nat, read : Nat]
        BY DEF KeyTypeOK
  <2>3. calls'[c].step = "ask" /\ \A d \in Callers \ {c} : calls'[d] = calls[d]
        BY <2>1, <2>2 DEF KeyTypeOK
  <2>4. KeyTypeOK' /\ Past'
        BY <1>3, <2>1, <2>2 DEF KeyTypeOK, Past
  <2>5. CallsKnow' /\ EntriesKnow' /\ MissesKnow'
        BY <1>3, <2>3 DEF CallsKnow, EntriesKnow, MissesKnow
  <2>6. KeysFresh'
        BY <1>3 DEF KeysFresh, YesIsRecent, NoIsRecent
  <2>7. QED
        BY <2>4, <2>5, <2>6
<1>4. QED
      BY <1>1, <1>2, <1>3

\* What a call has read is what the chain holds now.
LEMMA ReadKeeps ==
    ASSUME KeysInv, NEW c \in Callers, Read(c)
    PROVE  KeysInv'
<1> USE Constants DEF KeysInv, Read, mapVars
<1> DEFINE k == calls[c].key
           got == [step |-> "read", key |-> k, read |-> now,
                   found |-> chain[k].registered # 0, revoked |-> chain[k].revoked # 0,
                   expires |-> chain[k].expires]
<1>1. calls' = [calls EXCEPT ![c] = got] /\ k \in Keys
      BY DEF KeyTypeOK
<1>2. (chain[k].registered # 0) \in BOOLEAN /\ (chain[k].revoked # 0) \in BOOLEAN
      OBVIOUS
<1>3. got \in [step : {"idle", "ask", "read"}, key : Keys, found : BOOLEAN,
                revoked : BOOLEAN, expires : Nat, read : Nat]
      BY <1>1, <1>2 DEF KeyTypeOK
<1>4. KeyTypeOK' /\ Past'
      BY <1>1, <1>3 DEF KeyTypeOK, Past
<1>5. EntriesKnow' /\ MissesKnow' /\ KeysFresh'
      BY DEF EntriesKnow, MissesKnow, KeysFresh, YesIsRecent, NoIsRecent
<1>6. CallsKnow'
  <2> SUFFICES ASSUME NEW d \in Callers, calls'[d].step = "read"
               PROVE  /\ calls'[d].read <= now /\ now <= calls'[d].read + RpcDelay
                      /\ calls'[d].found =>
                           /\ chain[calls'[d].key].registered # 0
                           /\ calls'[d].expires = chain[calls'[d].key].expires
                           /\ calls'[d].revoked => chain[calls'[d].key].revoked # 0
                           /\ ~calls'[d].revoked /\ chain[calls'[d].key].revoked # 0 =>
                                  calls'[d].read <= chain[calls'[d].key].revoked
                      /\ ~calls'[d].found =>
                           \/ chain[calls'[d].key].registered = 0
                           \/ calls'[d].read <= chain[calls'[d].key].registered
                           \/ outage # 0 /\ calls'[d].read <= outage
      BY DEF CallsKnow
  <2>1. CASE d = c
    <3>1. calls'[d] = got
          BY <1>1, <2>1 DEF KeyTypeOK
    <3>2. /\ got.found <=> chain[k].registered # 0
          /\ got.revoked <=> chain[k].revoked # 0
          OBVIOUS
    <3>3. got.key = k /\ got.read = now /\ got.expires = chain[k].expires
          OBVIOUS
    <3> HIDE DEF got
    <3>4. QED
          BY <3>1, <3>2, <3>3, <1>1 DEF KeyTypeOK
  <2>2. CASE d # c
        BY <1>1, <2>2 DEF KeyTypeOK, CallsKnow
  <2>3. QED
        BY <2>1, <2>2
<1>7. QED
      BY <1>4, <1>5, <1>6

LEMMA RpcFailsKeeps ==
    ASSUME KeysInv, NEW c \in Callers, RpcFails(c)
    PROVE  KeysInv'
<1> USE Constants DEF KeysInv, RpcFails, mapVars
<1> DEFINE got == [calls[c] EXCEPT !.step = "read", !.read = now, !.found = FALSE]
<1>1. calls' = [calls EXCEPT ![c] = got]
      BY DEF KeyTypeOK
<1>2. got \in [step : {"idle", "ask", "read"}, key : Keys, found : BOOLEAN,
                revoked : BOOLEAN, expires : Nat, read : Nat]
      BY DEF KeyTypeOK, Past
<1>3. calls'[c] = got /\ got.read = now /\ got.found = FALSE
      BY <1>1 DEF KeyTypeOK
<1>4. \A d \in Callers \ {c} : calls'[d] = calls[d]
      BY <1>1 DEF KeyTypeOK
<1>5. KeyTypeOK' /\ Past'
      BY <1>1, <1>2 DEF KeyTypeOK, Past
<1>6. EntriesKnow'
      BY DEF EntriesKnow
<1>7. MissesKnow' /\ KeysFresh'
      BY DEF KeyTypeOK, Past, MissesKnow, KeysFresh, YesIsRecent, NoIsRecent
<1> HIDE DEF got
<1>8. CallsKnow'
      BY <1>3, <1>4 DEF KeyTypeOK, Past, CallsKnow
<1>9. QED
      BY <1>5, <1>6, <1>7, <1>8

\* now is within RpcDelay of the reading, and so of whatever the reading missed.
LEMMA ReturnMissingKeeps ==
    ASSUME KeysInv, NEW c \in Callers, ReturnMissing(c)
    PROVE  KeysInv'
<1> USE Constants DEF KeysInv, ReturnMissing, Remember
<1> DEFINE k == calls[c].key
<1>1. k \in Keys /\ answer' = [key |-> k, yes |-> FALSE, at |-> now]
      BY DEF KeyTypeOK, Answer
<1>2. calls' = [calls EXCEPT ![c] = NoCall]
      OBVIOUS
<1>3. \A d \in Callers \ {c} : calls'[d] = calls[d]
      BY <1>2 DEF KeyTypeOK
<1>4. calls'[c].step = "idle"
      BY <1>2 DEF KeyTypeOK, NoCall
<1>5. \/ chain[k].registered = 0
      \/ now <= chain[k].registered + RpcDelay
      \/ outage # 0 /\ now <= outage + RpcDelay
      BY <1>1 DEF KeyTypeOK, CallsKnow
<1>6. /\ negative' \in [Keys -> Nat]
      /\ \A l \in Keys : negative'[l] \in {now, 0, negative[l]}
      /\ \A l \in Keys : negative'[l] = now => l = k \/ negative[l] = now
      BY <1>1 DEF KeyTypeOK, Past
<1>7. KeyTypeOK' /\ Past'
      BY <1>1, <1>2, <1>6, NoCallType DEF KeyTypeOK, Past
<1>8. EntriesKnow' /\ CallsKnow'
      BY <1>3, <1>4 DEF EntriesKnow, CallsKnow
<1>9. MissesKnow'
      BY <1>1, <1>5, <1>6 DEF KeyTypeOK, MissesKnow
<1>10. KeysFresh'
      BY <1>1, <1>5 DEF KeyTypeOK, KeysFresh, YesIsRecent, NoIsRecent
<1>11. QED
      BY <1>7, <1>8, <1>9, <1>10

LEMMA ReturnFoundKeeps ==
    ASSUME KeysInv, NEW c \in Callers, ReturnFound(c)
    PROVE  KeysInv'
<1> USE Constants DEF KeysInv, ReturnFound
<1> DEFINE k == calls[c].key
           record == [revoked |-> calls[c].revoked, expires |-> calls[c].expires, at |-> now]
           yes == ~record.revoked /\ ~Lapsed(record.expires, now)
<1>1. k \in Keys /\ answer' = [key |-> k, yes |-> yes, at |-> now]
      BY DEF KeyTypeOK, Answer
<1>2. calls' = [calls EXCEPT ![c] = NoCall]
      OBVIOUS
<1>3. \A d \in Callers \ {c} : calls'[d] = calls[d]
      BY <1>2 DEF KeyTypeOK
<1>4. calls'[c].step = "idle"
      BY <1>2 DEF KeyTypeOK, NoCall
<1>5. /\ now <= calls[c].read + RpcDelay
      /\ chain[k].registered # 0 /\ calls[c].expires = chain[k].expires
      /\ calls[c].revoked => chain[k].revoked # 0
      /\ ~calls[c].revoked /\ chain[k].revoked # 0 => calls[c].read <= chain[k].revoked
      BY DEF CallsKnow
<1>6. record \in [revoked : BOOLEAN, expires : Nat, at : Nat] /\ NoEntry.at = 0
      BY DEF KeyTypeOK, NoEntry
<1>7. /\ cache' \in [Keys -> [revoked : BOOLEAN, expires : Nat, at : Nat]]
      /\ cache'[k] = record
      /\ \A l \in Keys \ {k} : cache'[l] = NoEntry \/ cache'[l] = cache[l]
      BY <1>1, <1>6 DEF KeyTypeOK, NoEntry
<1>8. yes \in BOOLEAN /\ (yes <=> ~calls[c].revoked /\ ~Lapsed(calls[c].expires, now))
      OBVIOUS
<1>9. record.revoked = calls[c].revoked /\ record.expires = calls[c].expires /\ record.at = now
      OBVIOUS
<1> HIDE DEF record, yes
<1>10. KeyTypeOK' /\ Past'
      BY <1>1, <1>2, <1>7, <1>8, NoCallType DEF KeyTypeOK, Past
<1>11. EntriesKnow'
  <2> SUFFICES ASSUME NEW l \in Keys, cache'[l].at # 0
               PROVE  /\ cache'[l].at <= now
                      /\ chain[l].registered # 0 /\ cache'[l].expires = chain[l].expires
                      /\ cache'[l].revoked => chain[l].revoked # 0
                      /\ ~cache'[l].revoked /\ chain[l].revoked # 0 =>
                             cache'[l].at <= chain[l].revoked + RpcDelay
      BY DEF EntriesKnow
  <2>1. CASE l = k
        BY <2>1, <1>5, <1>7, <1>9 DEF KeyTypeOK
  <2>2. CASE l # k
        BY <2>2, <1>6, <1>7 DEF EntriesKnow
  <2>3. QED
        BY <2>1, <2>2
<1>12. MissesKnow' /\ CallsKnow'
      BY <1>1, <1>3, <1>4 DEF KeyTypeOK, MissesKnow, CallsKnow
<1>13. KeysFresh'
      BY <1>1, <1>5, <1>8 DEF KeyTypeOK, KeysFresh, YesIsRecent, NoIsRecent, Lapsed
<1>14. QED
      BY <1>10, <1>11, <1>12, <1>13

LEMMA TickKeeps == KeysInv /\ KeysTick => KeysInv'
<1> SUFFICES ASSUME KeysInv, KeysTick PROVE KeysInv'
    OBVIOUS
<1> USE Constants DEF KeysInv, KeysTick, Tick, keyVars
<1>1. KeyTypeOK' /\ Past'
      BY DEF KeyTypeOK, Past
<1>2. EntriesKnow' /\ MissesKnow'
      BY DEF KeyTypeOK, Past, EntriesKnow, MissesKnow
<1>3. CallsKnow'
      BY DEF KeyTypeOK, Past, CallsKnow
<1>4. KeysFresh'
      BY DEF KeysFresh, YesIsRecent, NoIsRecent
<1>5. QED
      BY <1>1, <1>2, <1>3, <1>4

\* A restart forgets; the chain and the last answer stay.
LEMMA LostKeeps == KeysInv /\ KeysLost /\ UNCHANGED now => KeysInv'
<1> SUFFICES ASSUME KeysInv, KeysLost, UNCHANGED now PROVE KeysInv'
    OBVIOUS
<1> USE Constants DEF KeysInv, KeysLost
<1>1. KeyTypeOK' /\ Past'
      BY NoCallType DEF KeyTypeOK, Past, NoEntry
<1>2. EntriesKnow' /\ MissesKnow' /\ CallsKnow'
      BY DEF EntriesKnow, MissesKnow, CallsKnow, NoEntry, NoCall
<1>3. KeysFresh'
      BY DEF KeysFresh, YesIsRecent, NoIsRecent
<1>4. QED
      BY <1>1, <1>2, <1>3

LEMMA StepKeeps == KeysInv /\ [KeysNext]_<<keyVars, now>> => KeysInv'
<1> SUFFICES ASSUME KeysInv, [KeysNext]_<<keyVars, now>> PROVE KeysInv'
    OBVIOUS
<1>1. CASE \E k \in Keys : Revoke(k) \/ (\E expires \in {0, now + 1} : Register(k, expires))
  <2>1. \A expires \in {0, now + 1} : expires \in Nat
        BY DEF KeysInv, KeyTypeOK
  <2>2. QED
        BY <1>1, <2>1, RevokeKeeps, RegisterKeeps
<1>2. CASE \E c \in Callers, k \in Keys : Ask(c, k)
      BY <1>2, AskKeeps
<1>3. CASE \E c \in Callers : Read(c) \/ RpcFails(c) \/ ReturnMissing(c) \/ ReturnFound(c)
      BY <1>3, ReadKeeps, RpcFailsKeeps, ReturnMissingKeeps, ReturnFoundKeeps
<1>4. CASE KeysTick
      BY <1>4, TickKeeps
<1>5. CASE KeysLost /\ UNCHANGED now
      BY <1>5, LostKeeps
<1>6. CASE UNCHANGED <<keyVars, now>>
      BY <1>6 DEF keyVars, KeysInv, KeyTypeOK, Past, EntriesKnow, MissesKnow, CallsKnow,
                  KeysFresh, YesIsRecent, NoIsRecent
<1>7. QED
      BY <1>1, <1>2, <1>3, <1>4, <1>5, <1>6 DEF KeysNext, KeyStep

----------------------------------------------------------------------------
\* app-key-cache.ts:46-88: whatever calls overlap, whatever fails and however
\* often the process restarts, a yes is given for a key that was valid within
\* the cache's TTL and an RPC delay, and a no to a valid key only within the
\* negative TTL and an RPC delay of its registration or of an outage.
THEOREM AnswersRecent == KeysSpec => [](KeyTypeOK /\ KeysFresh)
<1>1. ClockInit /\ KeysInit => KeysInv
      BY InitKeys
<1>2. KeysInv /\ [KeysNext]_<<keyVars, now>> => KeysInv'
      BY StepKeeps
<1>3. KeysInv => KeyTypeOK /\ KeysFresh
      BY DEF KeysInv
<1>4. QED
      BY <1>1, <1>2, <1>3, PTL DEF KeysSpec
=============================================================================
