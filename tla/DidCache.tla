------------------------------ MODULE DidCache ------------------------------
(***************************************************************************)
(* The cache of DID documents in core/resolver.py: an ordered dictionary   *)
(* under a lock, least recently used entry first, with a time to live and  *)
(* a largest size.                                                         *)
(***************************************************************************)
EXTENDS Naturals, SequencesExt

CONSTANTS
  CacheTtl,    \* did_cache_ttl_seconds
  CacheSize    \* did_cache_max_size

ASSUME CacheAssumption == CacheTtl \in Nat /\ CacheSize \in Nat \ {0}

Entry(did, doc, time) == [did |-> did, doc |-> doc, at |-> time]

EntriesOf(cache, did) == {i \in DOMAIN cache : cache[i].did = did}

\* A document has one entry at most.
Without(cache, did) ==
  IF EntriesOf(cache, did) = {} THEN cache
  ELSE RemoveAt(cache, CHOOSE i \in EntriesOf(cache, did) : TRUE)

Alive(entry, time) == time - entry.at <= CacheTtl

Hits(cache, did, time) == {i \in EntriesOf(cache, did) : Alive(cache[i], time)}

\* _cache_get: a hit becomes the most recently used; an entry too old is dropped.
AfterGet(cache, did, time) ==
  Without(cache, did) \o
    (IF Hits(cache, did, time) = {} THEN <<>>
     ELSE <<cache[CHOOSE i \in Hits(cache, did, time) : TRUE]>>)

Found(cache, did, time) == cache[CHOOSE i \in Hits(cache, did, time) : TRUE]

\* _cache_set: the entry becomes the most recently used one, and the oldest go.
AfterSet(cache, did, doc, time) ==
  LET all == Append(Without(cache, did), Entry(did, doc, time)) IN
  IF Len(all) > CacheSize THEN Tail(all) ELSE all
=============================================================================
