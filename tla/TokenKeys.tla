------------------------------ MODULE TokenKeys ------------------------------
(***************************************************************************)
(* Authentication of QnA requests: the middleware of core/auth.py, the     *)
(* signing-key cache of core/token_validator.py and the tenant binding of  *)
(* core/tenant_binding.py.  All of it runs on one event loop, so only the  *)
(* outbound key fetches interleave: every piece between two awaits is one  *)
(* action.  One tenant, as settings.AZURE_TENANT_ID names it.              *)
(***************************************************************************)
EXTENDS Integers, SequencesExt

CONSTANTS
    Calls,      \* requests to the service
    Kids,       \* signing keys, by their kid
    Cases,      \* key schedules, requests and settings to choose from
    Ttl,        \* _CACHE_TTL
    Interval,   \* _UNKNOWN_KID_REFRESH_INTERVAL
    NegTtl,     \* _NEGATIVE_KID_TTL
    NegCap,     \* _NEGATIVE_KID_MAX_ENTRIES
    Leeway,     \* clock skew tolerated by jwt.decode
    FetchMax,   \* bound: a key fetch takes at most this long
    MaxClock    \* bound: the clock stops here

ASSUME TimesNat ==
    /\ {Interval, NegTtl, NegCap, Leeway, FetchMax, MaxClock} \subseteq Nat
    /\ Ttl \in Nat \ {0}

\* A key is published for one stretch of time, and a token that can be read names
\* a key, published or not.
ASSUME CasesTyped ==
    \A c \in Cases : /\ c.life \in [Kids -> [from : Nat, to : Nat]]
                     /\ \A r \in Calls : c.toks[r].kid \in Kids

VARIABLES
    clock,      \* time.time()
    life,       \* when Azure AD publishes each key: [from, to]
    toks,       \* what every request carries
    cfg,        \* QNA_ENFORCE_TENANT_BINDING and QNA_TENANT_BOT_TAG_MAP
    cache,      \* _jwks_cache[tenant]: at most one [keys, at]
    negative,   \* _negative_kid_cache, oldest first
    calls,      \* what every request is doing
    heard       \* history: when a fetch last delivered the key

keyVars == <<clock, life, toks, cfg, cache, negative, calls, heard>>

Published(k, t) == life[k].from <= t /\ t < life[k].to
LastPublished(k) == IF clock < life[k].to THEN clock ELSE life[k].to - 1
NoReply == [ok |-> FALSE, keys |-> {}]

\* Falsy literals turn enforcement off; anything else, and nothing, leaves it on.
FalsyLiterals == {"false", "0", "no", "off"}

\* Faulty form: on only when the value says so.
EnforcedIfTruthy == cfg.flag \in {"1", "true", "yes", "on"}

Enforced == cfg.flag \notin FalsyLiterals

\* The allowlists: none at all when the map is unset or does not parse; an entry
\* that is not a list allows nothing.
Allowed(tid) == IF tid \in DOMAIN cfg.map THEN cfg.map[tid] ELSE {}

-----------------------------------------------------------------------------

Fresh == \E c \in cache : clock - c.at < Ttl

Denied(k) == \E i \in DOMAIN negative : negative[i].kid = k /\ clock - negative[i].at < NegTtl

\* The other kids: the entry of this one, of which there is at most one, is out.
Others(k) ==
    LET old == {i \in DOMAIN negative : negative[i].kid = k}
    IN  IF old = {} THEN negative ELSE RemoveAt(negative, CHOOSE i \in old : TRUE)

\* _record_unresolved_kid: the entry moves to the end, the oldest leave.
Recorded(k) ==
    LET all == Append(Others(k), [kid |-> k, at |-> clock])
    IN  IF Len(all) > NegCap THEN Tail(all) ELSE all

\* A known issuer, then jwt.decode: signature, audience and lifetime.
Decodes(t) == t.flaw \notin {"issuer", "signature", "audience"} /\ clock <= t.exp + Leeway

\* The middleware asks for an email claim besides.
Acceptable(t) == Decodes(t) /\ t.flaw # "email"

Becomes(r, s) == calls' = [calls EXCEPT ![r] = s]
In(r, s) == calls[r].pc = s
Goes(r, s) == Becomes(r, [pc |-> s, started |-> 0, reply |-> NoReply])
Refused(r) == Goes(r, "401")
World == <<clock, life, toks, cfg>>

-----------------------------------------------------------------------------
KeysInit ==
    /\ clock = 0
    /\ \E c \in Cases : life = c.life /\ toks = c.toks /\ cfg = c.cfg
    /\ cache = {} /\ negative = <<>>
    /\ calls = [r \in Calls |-> [pc |-> "new", started |-> 0, reply |-> NoReply]]
    /\ heard = [k \in Kids |-> 0 - Ttl - 1]

\* Time passes, but no fetch outlasts its timeout.
ClockTick ==
    /\ clock < MaxClock
    /\ \A r \in Calls : calls[r].pc \in {"load", "refresh", "loaded", "refreshed"}
                          => clock < calls[r].started + FetchMax
    /\ clock' = clock + 1
    /\ UNCHANGED <<life, toks, cfg, cache, negative, calls, heard>>

\* Public routes and preflights pass without a token.
Bypass(r) ==
    /\ In(r, "new") /\ toks[r].shape = "public"
    /\ Goes(r, "public")
    /\ UNCHANGED <<World, cache, negative, heard>>

\* No bearer token at all.
NoBearer(r) ==
    /\ In(r, "new") /\ toks[r].shape = "absent"
    /\ Refused(r)
    /\ UNCHANGED <<World, cache, negative, heard>>

\* A token whose header cannot be read or names no key.
Unreadable(r) ==
    /\ In(r, "new") /\ toks[r].shape = "unreadable"
    /\ Refused(r)
    /\ UNCHANGED <<World, cache, negative, heard>>

\* Faulty form: a kid refused from the negative cache is recorded again.
ResolveSticky(r, keys, c) ==
    LET k == toks[r].kid
        young == \E e \in c : clock - e.at < Interval
    IN  \/ /\ k \in keys
           /\ Goes(r, IF Acceptable(toks[r]) THEN "accepted" ELSE "401")
           /\ UNCHANGED negative
        \/ /\ k \notin keys /\ (Denied(k) \/ young)
           /\ Refused(r)
           /\ negative' = Recorded(k)
        \/ /\ k \notin keys /\ ~Denied(k) /\ ~young
           /\ Becomes(r, [pc |-> "refresh", started |-> clock, reply |-> NoReply])
           /\ UNCHANGED negative

\* What follows once the tenant's keys are at hand, without another await: the
\* token is decoded, or its kid is unknown and refused, or sent to a refresh.
\* "c" is the cache as this step leaves it.
Resolve(r, keys, c) ==
    LET k == toks[r].kid
        young == \E e \in c : clock - e.at < Interval
    IN  \/ /\ k \in keys
           /\ Goes(r, IF Acceptable(toks[r]) THEN "accepted" ELSE "401")
           /\ UNCHANGED negative
        \/ /\ k \notin keys /\ Denied(k)
           /\ Refused(r)
           /\ UNCHANGED negative
        \/ /\ k \notin keys /\ ~Denied(k) /\ ~young
           /\ Becomes(r, [pc |-> "refresh", started |-> clock, reply |-> NoReply])
           /\ UNCHANGED negative
        \/ /\ k \notin keys /\ ~Denied(k) /\ young
           /\ Refused(r)
           /\ negative' = Recorded(k)

\* Faulty form: an unknown kid evicts the entry, fetch or no fetch.
UseCachePopping(r) ==
    /\ In(r, "new") /\ toks[r].shape = "token"
    /\ Fresh
    /\ \E c \in cache :
          /\ Resolve(r, c.keys, cache)
          /\ cache' = IF calls'[r].pc = "refresh" THEN {} ELSE cache
    /\ UNCHANGED <<World, heard>>

\* _get_jwks with a fresh entry.
UseCache(r) ==
    /\ In(r, "new") /\ toks[r].shape = "token"
    /\ Fresh
    /\ \E c \in cache : Resolve(r, c.keys, cache)
    /\ UNCHANGED <<World, cache, heard>>

\* _get_jwks without one: the clock is read before the fetch.
StartLoad(r) ==
    /\ In(r, "new") /\ toks[r].shape = "token"
    /\ ~Fresh
    /\ Becomes(r, [pc |-> "load", started |-> clock, reply |-> NoReply])
    /\ UNCHANGED <<World, cache, negative, heard>>

\* The keys endpoint answers with what it publishes at that moment, or the call
\* fails; an empty key set counts as a failure.
Reply(r) ==
    /\ calls[r].pc \in {"load", "refresh"}
    /\ \E reply \in {NoReply, [ok |-> TRUE, keys |-> {k \in Kids : Published(k, clock)}]} :
          Becomes(r, [calls[r] EXCEPT
                         !.pc = IF @ = "load" THEN "loaded" ELSE "refreshed",
                         !.reply = [reply EXCEPT !.ok = @ /\ reply.keys # {}]])
    /\ UNCHANGED <<World, cache, negative, heard>>

\* The fetch of either kind raised: 503, and the cache is left as it is.
FetchFailed(r) ==
    /\ calls[r].pc \in {"loaded", "refreshed"} /\ ~calls[r].reply.ok
    /\ Goes(r, "503")
    /\ UNCHANGED <<World, cache, negative, heard>>

Heard(keys) == heard' = [k \in Kids |-> IF k \in keys THEN clock ELSE heard[k]]

\* _get_jwks stores the keys under the time the fetch began.
Loaded(r) ==
    LET keys == calls[r].reply.keys
    IN  /\ In(r, "loaded") /\ calls[r].reply.ok
        /\ cache' = {[keys |-> keys, at |-> calls[r].started]}
        /\ Resolve(r, keys, cache')
        /\ Heard(keys)
        /\ UNCHANGED World

\* _refresh_jwks_in_place stores them under the time it ended; a kid that is
\* still unknown is recorded and refused.
Refreshed(r) ==
    LET keys == calls[r].reply.keys
        k == toks[r].kid
    IN  /\ In(r, "refreshed") /\ calls[r].reply.ok
        /\ cache' = {[keys |-> keys, at |-> clock]}
        /\ Goes(r, IF k \in keys /\ Acceptable(toks[r]) THEN "accepted" ELSE "401")
        /\ negative' = IF k \in keys THEN negative ELSE Recorded(k)
        /\ Heard(keys)
        /\ UNCHANGED World

\* The binding guard of the endpoint: 403 unless the tag is on the tenant's list.
Bind(r) ==
    /\ In(r, "accepted")
    /\ Goes(r, IF ~Enforced \/ toks[r].tag \in Allowed(toks[r].tid) THEN "served" ELSE "403")
    /\ UNCHANGED <<World, cache, negative, heard>>

KeysNext ==
    \/ ClockTick
    \/ \E r \in Calls :
          \/ Bypass(r) \/ NoBearer(r) \/ Unreadable(r) \/ UseCache(r) \/ StartLoad(r)
          \/ Reply(r) \/ FetchFailed(r) \/ Loaded(r) \/ Refreshed(r)
          \/ Bind(r)

KeysSpec == KeysInit /\ [][KeysNext]_keyVars

-----------------------------------------------------------------------------
Pcs == {"new", "public", "load", "refresh", "loaded", "refreshed", "401", "403",
        "503", "accepted", "served"}

\* The negative cache holds a kid once, and never more kids than its cap.
KeysTyped ==
    /\ clock \in 0..MaxClock
    /\ \A d, e \in cache : d = e
    /\ \A c \in cache : c.keys \in SUBSET Kids /\ c.at \in 0..clock
    /\ \A r \in Calls : /\ calls[r].pc \in Pcs
                       /\ calls[r].started \in 0..clock
                       /\ calls[r].reply.keys \in SUBSET Kids
    /\ Len(negative) <= NegCap
    /\ \A i, j \in DOMAIN negative : negative[i].kid = negative[j].kid => i = j

\* A request is being turned away for its kid, not for what the token says.
KeyUnknownTo(r) ==
    calls'[r].pc = "401" /\ calls[r].pc # "401" /\ toks[r].shape = "token" /\ Acceptable(toks[r])

\* A key Azure AD has withdrawn is trusted for the cache's lifetime and one
\* fetch at most, in whatever order overlapping fetches store their answers.
WithdrawnKeysExpire ==
    [][\A r \in Calls : calls'[r].pc = "accepted" /\ calls[r].pc # "accepted" =>
          /\ Acceptable(toks[r])
          /\ clock - LastPublished(toks[r].kid) < Ttl + FetchMax]_keyVars

\* "Still picks up rotations quickly": a good token under a new key is refused
\* for its kid only while the throttle and the negative cache, one after the
\* other, may hold the refetch back; refused probes do not extend that.
RotationPickedUp ==
    [][\A r \in Calls : KeyUnknownTo(r) /\ Published(toks[r].kid, clock) =>
          clock - life[toks[r].kid].from < Interval + NegTtl + FetchMax]_keyVars

\* "Keep serving existing keys on fetch failure": a request whose key is still
\* published and was fetched within the lifetime of the entry needs no fetch,
\* whatever unknown kids or failing fetches came meanwhile.  A key so new that
\* an older fetch may still be out is excepted: its answer replaces the entry.
KnownKeySurvivesOutage ==
    [][\A r \in Calls :
          LET k == toks[r].kid
          IN  /\ In(r, "new") /\ toks[r].shape = "token"
              /\ Published(k, clock) /\ clock - heard[k] < Ttl - FetchMax
              /\ life[k].from + FetchMax <= heard[k]
              => calls'[r].pc \in {"new", "accepted"} \/ ~Acceptable(toks[r])]_keyVars

\* A request with a tag outside its tenant's allowlist is served only when the
\* operator opted out with one of the documented literals.
OnlyOptOutUnbinds ==
    \A r \in Calls : In(r, "served") /\ toks[r].tag \notin Allowed(toks[r].tid) =>
        cfg.flag \in FalsyLiterals

\* Only the opt-out lets a request out of its tenant, and the caches keep to
\* their sizes.
TenantsBound == KeysTyped /\ OnlyOptOutUnbinds

\* The key cache follows the issuer: what was withdrawn is forgotten in time, and
\* what is still published is not lost to a failing or needless fetch.
KeysTracked == WithdrawnKeysExpire /\ KnownKeySurvivesOutage

=============================================================================
