----------------------------- MODULE RateLimit ------------------------------
(***************************************************************************)
(* The API's rate limits (server.go rateLimitMiddleware): a token bucket   *)
(* per source address and one per bearer token, created on first use and   *)
(* evicted by a sweeper once they have been idle.  A bucket counts in      *)
(* units, Unit of them to a request, and gains the configured rate per     *)
(* tick; a limit of 0 is disabled.  golang.org/x/time/rate is external.    *)
(***************************************************************************)
EXTENDS Naturals, Sequences, FiniteSets

CONSTANTS
    Addrs,       \* source addresses
    Bearers,     \* bearer tokens, the gateway's internal one among them
    InternalTok, \* internalToken
    NoBearer,    \* a request without a token
    Unit,        \* units a request costs
    RateRPS,     \* rateLimitRPS, in units per tick
    RateKeyRPS,  \* rateLimitKeyRPS, in units per tick
    IdleFor,     \* ticks after which the sweeper evicts a bucket
    MaxTicks     \* bound on the clock

(* The sweeper's 10 minutes refill any bucket: with a rate of one request   *)
(* in more than 10 minutes they do not, and the limit is not kept.          *)
(* Addresses and tokens have maps of their own.                             *)
ASSUME RateAssumption ==
    /\ {Unit, IdleFor} \subseteq Nat \ {0} /\ {RateRPS, RateKeyRPS, MaxTicks} \subseteq Nat
    /\ InternalTok \in Bearers /\ NoBearer \notin Bearers /\ Addrs \cap Bearers = {}
    /\ RateRPS > 0 => IdleFor * RateRPS >= Unit
    /\ RateKeyRPS > 0 => IdleFor * RateKeyRPS >= Unit

VARIABLES
    tick,      \* the clock
    buckets,   \* ipLimiters and keyLimiters: the buckets that exist
    passed   \* passed[k]: when the requests that k paid for were let through

rateVars == <<tick, buckets, passed>>

BucketKeys == Addrs \cup Bearers
RateOf(k) == IF k \in Addrs THEN RateRPS ELSE RateKeyRPS

(* burst = max(1, int(rps)), in units. *)
BurstOf(k) == IF RateOf(k) < Unit THEN Unit ELSE (RateOf(k) \div Unit) * Unit

RateInit ==
    /\ tick = 0
    /\ buckets = <<>>
    /\ passed = [k \in BucketKeys |-> <<>>]

-----------------------------------------------------------------------------
(* getOrCreateLimiter: the bucket of k, a full one if there is none.        *)
getOrCreateLimiter(k) ==
    IF k \in DOMAIN buckets THEN buckets[k] ELSE [units |-> BurstOf(k), last |-> tick]

(* rate.Limiter: what the bucket holds now. *)
Advance(k) ==
    LET b == getOrCreateLimiter(k)
        u == b.units + (tick - b.last) * RateOf(k)
    IN  IF u > BurstOf(k) THEN BurstOf(k) ELSE u

allowBucket(k) == Advance(k) >= Unit

(* The buckets after the limits of ks have been asked, each charged when it *)
(* has a request's worth; a bucket that refuses is stored too (its access   *)
(* time moves).                                                             *)
Charge(ks) ==
    [k \in DOMAIN buckets \cup ks |->
        IF k \in ks THEN [units |-> IF allowBucket(k) THEN Advance(k) - Unit ELSE Advance(k),
                          last |-> tick]
        ELSE buckets[k]]

(* The limits that apply to a request. *)
AddrLimit(addr) == IF RateRPS > 0 THEN {addr} ELSE {}
KeyLimit(tok) == IF RateKeyRPS > 0 /\ tok \notin {NoBearer, InternalTok} THEN {tok} ELSE {}

Note(ks) == [k \in BucketKeys |-> IF k \in ks THEN Append(passed[k], tick) ELSE passed[k]]

(* rateLimitMiddleware on a request that is not exempt: the address's limit *)
(* is asked, and charged, before the token's.                               *)
rateLimitMiddleware(addr, tok) ==
    /\ IF \E k \in AddrLimit(addr) : ~allowBucket(k)
       THEN /\ buckets' = Charge(AddrLimit(addr))
            /\ UNCHANGED passed
       ELSE /\ buckets' = Charge(AddrLimit(addr) \cup KeyLimit(tok))
            /\ passed' = IF \E k \in KeyLimit(tok) : ~allowBucket(k) THEN passed
                           ELSE Note(AddrLimit(addr) \cup KeyLimit(tok))
    /\ UNCHANGED tick

(* Mutant: the age that counts is half the timeout. *)
cleanupLimitersEarly ==
    /\ \E k \in DOMAIN buckets : buckets[k].last + 1 <= tick
    /\ buckets' = [k \in {b \in DOMAIN buckets : buckets[b].last + 1 > tick} |-> buckets[k]]
    /\ UNCHANGED <<tick, passed>>

(* cleanupLimiters: one sweep. *)
cleanupLimiters ==
    /\ \E k \in DOMAIN buckets : buckets[k].last + IdleFor < tick
    /\ buckets' = [k \in {b \in DOMAIN buckets : buckets[b].last + IdleFor >= tick} |-> buckets[k]]
    /\ UNCHANGED <<tick, passed>>

RateTick ==
    /\ tick < MaxTicks
    /\ tick' = tick + 1
    /\ UNCHANGED <<buckets, passed>>

RateNext ==
    \/ RateTick
    \/ cleanupLimiters
    \/ \E addr \in Addrs, tok \in Bearers \cup {NoBearer} : rateLimitMiddleware(addr, tok)

RateSpec == RateInit /\ [][RateNext]_rateVars

-----------------------------------------------------------------------------
(* Over every interval, an address or a token is let through at most its    *)
(* burst and what its rate adds in that time, whatever the sweeper evicts   *)
(* and however addresses and tokens are combined in between.                *)
LimitHolds ==
    \A k \in BucketKeys : \A i, j \in DOMAIN passed[k] : i <= j =>
        (j - i + 1) * Unit <= BurstOf(k) + RateOf(k) * (passed[k][j] - passed[k][i])
=============================================================================
