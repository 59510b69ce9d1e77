------------------------------ MODULE AnswerCache ------------------------------
(***************************************************************************)
(* The answer cache of services/qna (src/cache/answer_cache.py,            *)
(* InMemoryTTLLRUCache): the OrderedDict as a sequence of entries, least   *)
(* recently used first.  An entry has a key, an expiry time and the        *)
(* request its answer was made for.                                        *)
(***************************************************************************)
EXTENDS Naturals, Sequences, SequencesExt

CONSTANTS
    MaxEntries,  \* QNA_CACHE_MAX_ENTRIES
    TTL          \* QNA_CACHE_TTL_SECONDS

ASSUME CacheSizesPos == {MaxEntries, TTL} \subseteq Nat \ {0}

Has(cache, key) == \E i \in DOMAIN cache : cache[i].key = key
EntryOf(cache, key) == CHOOSE i \in DOMAIN cache : cache[i].key = key

\* The entry of a key is taken out.
Others(cache, key) ==
    IF Has(cache, key) THEN RemoveAt(cache, EntryOf(cache, key)) ELSE cache

\* get finds an entry before its time.
Live(cache, key, now) == Has(cache, key) /\ now < cache[EntryOf(cache, key)].expiry

\* Faulty form: a hit leaves the entry where it is.
GetUntouched(cache, key, now) ==
    IF Live(cache, key, now) THEN cache ELSE Others(cache, key)

\* get drops an entry past its time and moves a live one to the recent end.
Get(cache, key, now) ==
    IF Live(cache, key, now) THEN Append(Others(cache, key), cache[EntryOf(cache, key)])
    ELSE Others(cache, key)

\* set replaces the entry of the key, as the most recent one; a new key past
\* MaxEntries evicts the least recent.
Set(cache, key, by, now) ==
    LET grown == Append(Others(cache, key), [key |-> key, expiry |-> now + TTL, by |-> by])
    IN  IF Len(grown) > MaxEntries THEN Tail(grown) ELSE grown

=============================================================================
