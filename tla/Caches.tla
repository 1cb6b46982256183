------------------------------- MODULE Caches -------------------------------
(***************************************************************************)
(* The two caches: BoundedCache of core/indexing/cache.py ("bounded", with *)
(* HitTrackingCache, whose counters are left out) and QueryCache of        *)
(* core/optimizer/cache.py ("query").  Each method runs under the lock of  *)
(* its cache and is one action; every call takes a moment.                 *)
(***************************************************************************)
EXTENDS Integers, Sequences, FiniteSets, SequencesExt

CONSTANTS
    Keys,
    Policies,   \* the caches to look at, of "bounded" and "query"
    Sizes,      \* max_size
    Ttls,       \* what set() may be given as ttl; NoTtl is None
    NoTtl, DefaultTtl,
    MaxClock    \* bound of the model on the number of calls

ASSUME CacheAssumption ==
    /\ Policies \subseteq {"bounded", "query"}
    /\ Sizes \subseteq Nat /\ MaxClock \in Nat
    /\ DefaultTtl \in Int /\ Ttls \subseteq Int

VARIABLES
    policy, max_size,
    cached,     \* the keys, in the order of the dictionary
    cached_at,  \* key -> when it was set
    ttl,        \* key -> how long it was to stay
    clock,
    used,       \* key -> when it was last set or found (kept by the model)
    evicted     \* the latest such time of any key that was evicted

cacheVars == <<policy, max_size, cached, cached_at, ttl, clock, used, evicted>>

InCache(k) == k \in Range(cached)
KeepKey(kept, k, gone) == IF k \in gone THEN kept ELSE Append(kept, k)
Without(keys, gone) == FoldLeft(LAMBDA kept, k : KeepKey(kept, k, gone), <<>>, keys)
Later(a, b) == IF a >= b THEN a ELSE b

CacheInit ==
    /\ policy \in Policies /\ max_size \in Sizes
    /\ cached = <<>>
    /\ cached_at = [k \in Keys |-> 0] /\ ttl = [k \in Keys |-> 0]
    /\ clock = 1 /\ used = [k \in Keys |-> 0] /\ evicted = 0

Takes(moments) == clock < MaxClock /\ clock' = clock + moments

\* Both caches: delete() or invalidate(), and clear().
Drop(gone) ==
    /\ Takes(1)
    /\ cached' = Without(cached, gone)
    /\ UNCHANGED <<policy, max_size, cached_at, ttl, used, evicted>>

-----------------------------------------------------------------------------
(* BoundedCache *)

\* A key that is found keeps its place.
BoundedGetInPlace(k) ==
    /\ policy = "bounded" /\ InCache(k)
    /\ Takes(1)
    /\ used' = [used EXCEPT ![k] = clock]
    /\ UNCHANGED <<policy, max_size, cached, cached_at, ttl, evicted>>

\* get() of a key that is there; of another one it changes nothing.
BoundedGet(k) ==
    /\ policy = "bounded" /\ InCache(k)
    /\ Takes(1)
    /\ cached' = Append(Without(cached, {k}), k)
    /\ used' = [used EXCEPT ![k] = clock]
    /\ UNCHANGED <<policy, max_size, cached_at, ttl, evicted>>

\* set(), or set_many() of several keys: they move to the end, in their order,
\* and whatever is too much goes from the front.
BoundedSet(keys) ==
    /\ policy = "bounded"
    /\ Takes(Len(keys))
    /\ LET all  == Without(cached, Range(keys)) \o keys
           over == Later(Len(all) - max_size, 0)
           use(k) == IF k \in Range(keys) THEN clock + (CHOOSE i \in DOMAIN keys : keys[i] = k) - 1
                     ELSE used[k]
       IN  /\ cached' = SubSeq(all, over + 1, Len(all))
           /\ used' = [k \in Keys |-> use(k)]
           /\ evicted' = Max({evicted} \cup {use(all[i]) : i \in 1..over})
    /\ UNCHANGED <<policy, max_size, cached_at, ttl>>

-----------------------------------------------------------------------------
(* QueryCache *)

Expired(k) == clock - cached_at[k] > ttl[k]

\* get(): an entry whose time is over is dropped.
QueryGet(k) ==
    /\ policy = "query" /\ InCache(k)
    /\ Takes(1)
    /\ IF Expired(k) THEN cached' = Without(cached, {k}) /\ UNCHANGED used
       ELSE used' = [used EXCEPT ![k] = clock] /\ UNCHANGED cached
    /\ UNCHANGED <<policy, max_size, cached_at, ttl, evicted>>

\* set(): a full cache first loses its oldest entry, which may be the one that
\* is set, and does so even where the key is there; a ttl of 0 is the default.
\* A cache of size 0 has no oldest entry and raises.
QuerySet(k, t) ==
    /\ policy = "query" /\ max_size > 0
    /\ Takes(1)
    /\ LET full   == Len(cached) >= max_size
           oldest == CHOOSE o \in Range(cached) :
                        \A x \in Range(cached) : cached_at[o] <= cached_at[x]
           rest   == IF full THEN Without(cached, {oldest}) ELSE cached
       IN  /\ cached' = IF k \in Range(rest) THEN rest ELSE Append(rest, k)
           /\ evicted' = IF full /\ oldest # k THEN Later(evicted, used[oldest]) ELSE evicted
    /\ cached_at' = [cached_at EXCEPT ![k] = clock]
    /\ ttl' = [ttl EXCEPT ![k] = IF t \in {0, NoTtl} THEN DefaultTtl ELSE t]
    /\ used' = [used EXCEPT ![k] = clock]
    /\ UNCHANGED <<policy, max_size>>

-----------------------------------------------------------------------------
CacheNext ==
    \/ \E k \in Keys : BoundedGet(k) \/ QueryGet(k) \/ Drop({k})
    \/ \E k \in Keys, t \in Ttls \cup {NoTtl} : QuerySet(k, t)
    \/ \E keys \in {<<k>> : k \in Keys} \cup (Keys \X Keys) :
        Cardinality(Range(keys)) = Len(keys) /\ BoundedSet(keys)
    \/ Drop(Keys)

CacheSpec == CacheInit /\ [][CacheNext]_cacheVars

-----------------------------------------------------------------------------
(* Properties *)

CacheTypeOK ==
    /\ Range(cached) \subseteq Keys
    /\ Cardinality(Range(cached)) = Len(cached)
    /\ used \in [Keys -> 0..clock] /\ evicted \in 0..clock

\* The bound holds after every call, also one that sets more keys than fit.
WithinBound == Len(cached) <= max_size

\* Whatever was evicted had been used before everything that is still there.
EvictsLeastRecent == \A k \in Range(cached) : used[k] > evicted

\* The cache of the index is a bounded LRU cache (README.md:243).
CachesRight == WithinBound /\ (policy = "bounded" => EvictsLeastRecent)

=============================================================================
