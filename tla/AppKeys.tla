-------------------------------- MODULE AppKeys --------------------------------
(***************************************************************************)
(* AppKeyCache: which signer may speak for which TID, asked once per       *)
(* message.  isValid answer from the cache, from the negative cache, or   *)
(* after an RPC call during which other calls run; the cache is written    *)
(* after the await, over whatever another call wrote meanwhile.            *)
(*                                                                         *)
(* A key is a "tid:signer" pair.  The chain is external: an app key is     *)
(* registered once, may carry an expiry, and may be revoked for good.      *)
(***************************************************************************)
EXTENDS HubClock, Sequences

CONSTANTS
    Keys,      \* tid:signer pairs
    Callers,   \* concurrent calls of isValid
    Ttl,       \* APP_KEY_CACHE_TTL_MS
    NegTtl,    \* APP_KEY_NEGATIVE_CACHE_TTL_MS
    MaxCache,  \* MAX_CACHE_SIZE
    RpcDelay   \* no RPC answer is older than this when it is handled

ASSUME KeysAssumption ==
    /\ {Ttl, MaxCache} \subseteq Nat \ {0}
    /\ {NegTtl, RpcDelay} \subseteq Nat
    /\ Keys # {}

VARIABLES
    chain,     \* chain[k]: when k was registered and revoked (0: not), its expiry (0: none)
    cache,     \* cache[k]: a CachedAppKey, at is cachedAt (0: no entry)
    negative,  \* negative[k]: when a miss was cached (0: no entry)
    order,     \* the keys of the Map cache, oldest insertion first
    negOrder,  \* the keys of negativeCache
    calls,     \* calls[c]: a call of isValid
    answer,    \* the last answer of isValid: to which key, yes or no, when
    outage,    \* when an RPC call last failed
    asks       \* chain events, questions and RPC failures left

keyVars == <<chain, cache, negative, order, negOrder, calls, answer, outage, asks>>
mapVars == <<cache, negative, order, negOrder>>

NoEntry == [revoked |-> FALSE, expires |-> 0, at |-> 0]
AnyKey == CHOOSE k \in Keys : TRUE
NoCall == [step |-> "idle", key |-> AnyKey, found |-> FALSE, revoked |-> FALSE, expires |-> 0, read |-> 0]

KeyTypeOK ==
    /\ chain \in [Keys -> [registered : Nat, revoked : Nat, expires : Nat]]
    /\ cache \in [Keys -> [revoked : BOOLEAN, expires : Nat, at : Nat]]
    /\ negative \in [Keys -> Nat]
    /\ calls \in [Callers -> [step : {"idle", "ask", "read"}, key : Keys, found : BOOLEAN,
                              revoked : BOOLEAN, expires : Nat, read : Nat]]
    /\ answer \in [key : Keys, yes : BOOLEAN, at : Nat]
    /\ outage \in Nat /\ now \in Nat

KeysInit ==
    /\ \E old \in SUBSET Keys :
         chain = [k \in Keys |-> [registered |-> IF k \in old THEN now ELSE 0,
                                  revoked |-> 0, expires |-> 0]]
    /\ cache = [k \in Keys |-> NoEntry] /\ negative = [k \in Keys |-> 0]
    /\ order = <<>> /\ negOrder = <<>> /\ outage = 0 /\ asks \in Nat
    /\ calls = [c \in Callers |-> NoCall]
    /\ answer = [key |-> AnyKey, yes |-> FALSE, at |-> 0]

----------------------------------------------------------------------------
(* The chain *)

Spend == asks > 0 /\ asks' = asks - 1

Register(k, expires) ==
    /\ Spend /\ chain[k].registered = 0
    /\ chain' = [chain EXCEPT ![k].registered = now, ![k].expires = expires]
    /\ UNCHANGED <<mapVars, calls, answer, outage, now>>

Revoke(k) ==
    /\ Spend /\ chain[k].registered # 0 /\ chain[k].revoked = 0
    /\ chain' = [chain EXCEPT ![k].revoked = now]
    /\ UNCHANGED <<mapVars, calls, answer, outage, now>>

Lapsed(expires, t) == expires # 0 /\ expires <= t

----------------------------------------------------------------------------
(* isValid *)

Fresh(k) == cache[k].at # 0 /\ now - cache[k].at < Ttl
NegFresh(k) == NegTtl > 0 /\ negative[k] # 0 /\ now - negative[k] < NegTtl

Answer(k, yes) == answer' = [key |-> k, yes |-> yes, at |-> now]

AskBoth(c, k) ==
    /\ Spend /\ calls[c].step = "idle"
    /\ \/ /\ Fresh(k)
          /\ Answer(k, ~cache[k].revoked /\ ~Lapsed(cache[k].expires, now))
          /\ UNCHANGED calls
       \/ /\ ~Fresh(k) /\ NegFresh(k)
          /\ Answer(k, FALSE)
          /\ UNCHANGED calls
       \/ /\ ~Fresh(k) /\ ~NegFresh(k)
          /\ calls' = [calls EXCEPT ![c].step = "ask", ![c].key = k]
          /\ UNCHANGED answer
    /\ UNCHANGED <<chain, negative, order, negOrder, outage, now>>

\* Mutant: a hit renews the entry.
AskRenewing(c, k) ==
    AskBoth(c, k) /\ cache' = IF Fresh(k) THEN [cache EXCEPT ![k].at = now] ELSE cache

Ask(c, k) == AskBoth(c, k) /\ UNCHANGED cache

\* getAccountInfo reads the chain; the answer is on its way back.
Read(c) ==
    /\ calls[c].step = "ask"
    /\ LET k == calls[c].key IN
       calls' = [calls EXCEPT ![c] = [step |-> "read", key |-> k, read |-> now,
                    found |-> chain[k].registered # 0, revoked |-> chain[k].revoked # 0,
                    expires |-> chain[k].expires]]
    /\ UNCHANGED <<chain, mapVars, answer, outage, asks, now>>

\* The RPC call throws: fetchFromChain answer null, as for a missing key.
RpcFails(c) ==
    /\ Spend /\ calls[c].step = "ask"
    /\ calls' = [calls EXCEPT ![c].step = "read", ![c].read = now, ![c].found = FALSE]
    /\ outage' = now
    /\ UNCHANGED <<chain, mapVars, answer, now>>

\* A Map keeps its insertion order; a key set again keeps its place.
Inserted(keys, k) == IF \E i \in DOMAIN keys : keys[i] = k THEN keys ELSE Append(keys, k)
Without(keys, k) == SelectSeq(keys, LAMBDA other : other # k)

\* A full Map makes room by dropping its oldest key.
Gone(keys, k) == Len(keys) >= MaxCache /\ k = Head(keys)
Kept(keys) == IF Len(keys) >= MaxCache THEN Tail(keys) ELSE keys

\* With NegTtl = 0 the code skips this; nothing would read it.
Remember(k) ==
    /\ negative' = [l \in Keys |-> IF l = k THEN now ELSE IF Gone(negOrder, l) THEN 0 ELSE negative[l]]
    /\ negOrder' = Inserted(Kept(negOrder), k)

ReturnMissing(c) ==
    /\ calls[c].step = "read" /\ ~calls[c].found
    /\ Remember(calls[c].key)
    /\ Answer(calls[c].key, FALSE)
    /\ calls' = [calls EXCEPT ![c] = NoCall]
    /\ UNCHANGED <<chain, cache, order, outage, asks, now>>

ReturnFound(c) ==
    /\ calls[c].step = "read" /\ calls[c].found
    /\ LET k == calls[c].key
           record == [revoked |-> calls[c].revoked, expires |-> calls[c].expires, at |-> now]
       IN  /\ negative' = [negative EXCEPT ![k] = 0] /\ negOrder' = Without(negOrder, k)
           /\ cache' = [l \in Keys |-> IF l = k THEN record
                                       ELSE IF Gone(order, l) THEN NoEntry ELSE cache[l]]
           /\ order' = Inserted(Kept(order), k)
           /\ Answer(k, ~record.revoked /\ ~Lapsed(record.expires, now))
    /\ calls' = [calls EXCEPT ![c] = NoCall]
    /\ UNCHANGED <<chain, outage, asks, now>>

\* Date.now() moves on; no RPC answer gets older than RpcDelay.
KeysTick ==
    /\ Tick
    /\ \A c \in Callers : calls[c].step = "read" => now < calls[c].read + RpcDelay
    /\ UNCHANGED keyVars

\* A restart: both maps and all calls are gone.
KeysLost ==
    /\ cache' = [k \in Keys |-> NoEntry] /\ negative' = [k \in Keys |-> 0]
    /\ order' = <<>> /\ negOrder' = <<>>
    /\ calls' = [c \in Callers |-> NoCall]
    /\ UNCHANGED <<chain, answer, outage, asks>>

KeyStep ==
    \/ \E k \in Keys : Revoke(k) \/ (\E expires \in {0, now + 1} : Register(k, expires))
    \/ \E c \in Callers, k \in Keys : Ask(c, k)
    \/ \E c \in Callers : Read(c) \/ RpcFails(c) \/ ReturnMissing(c) \/ ReturnFound(c)

KeysNext == KeyStep \/ KeysTick \/ (KeysLost /\ UNCHANGED now)
KeysSpec == ClockInit /\ KeysInit /\ [][KeysNext]_<<keyVars, now>>

----------------------------------------------------------------------------
\* app-key-cache.ts:55-88, config's TTLs.  A yes is never given for a lapsed
\* key, nor for one revoked longer ago than the cache's TTL and the delay of
\* an RPC answer: overlapping calls may overwrite a revocation that is already
\* cached, but not for longer than that.
YesIsRecent ==
    LET key == chain[answer.key] IN
    answer.yes =>
        /\ key.registered # 0
        /\ ~Lapsed(key.expires, answer.at)
        /\ key.revoked # 0 => answer.at < key.revoked + Ttl + RpcDelay

\* A no is given to a valid key only while a miss or an outage is remembered.
NoIsRecent ==
    LET key == chain[answer.key]
        within(t) == answer.at <= t + NegTtl + RpcDelay
    IN  answer.at # 0 /\ ~answer.yes =>
          \/ key.registered = 0 \/ within(key.registered)
          \/ key.revoked # 0 \/ Lapsed(key.expires, answer.at)
          \/ outage # 0 /\ within(outage)

KeysFresh == YesIsRecent /\ NoIsRecent
=============================================================================
