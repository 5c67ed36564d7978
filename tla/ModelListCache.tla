--------------------------- MODULE ModelListCache ---------------------------
(***************************************************************************)
(* The model lists of upstreams that the /models queries of all routers    *)
(* share (src/proxy/models.rs).  A query first collects the upstreams its  *)
(* router can reach, then holds one asynchronous lock while it goes        *)
(* through them, fetching what is due.  Every await can be the last one:   *)
(* a client that hangs up drops its query, and the lock with it.           *)
(*                                                                         *)
(* One unit of time is the whole time a fetch may take; what the code does *)
(* between two awaits takes none.                                          *)
(***************************************************************************)
EXTENDS Integers, Sequences, SequencesExt

CONSTANTS
    Queries,        \* requests, each reused after its answer
    Ids, Egress,    \* provider ids, and the protocols of their endpoints
    V1Family,       \* the protocols that have two layouts of /models
    ModelLists,     \* ModelLists[k]: the lists the endpoint of key k may answer
    None,
    Walks,          \* the target sequences walk_reachable_directs may return
    TTL,            \* MODEL_LIST_TTL
    Backoff,        \* MODEL_FETCH_BACKOFF
    FetchTimeout    \* MODEL_FETCH_TIMEOUT

Keys == Ids \X Egress           \* CacheKey
CommonUris == {"/v1", ""}
Entry == [models : (UNION {ModelLists[k] : k \in Keys}) \cup {None},
          fetched_at : 0..TTL \cup {None}, last_attempt : 0..Backoff,
          common_uri_hit : CommonUris \cup {None}]
Target == [key : Keys, stored : CommonUris \cup {None}]

ASSUME CacheAssumption ==
    /\ V1Family \subseteq Egress
    /\ Walks \subseteq Seq(Target)
    /\ \A w \in Walks : \A i, j \in DOMAIN w : w[i].key[1] = w[j].key[1] => i = j
    /\ {TTL, Backoff, FetchTimeout} \subseteq Nat \ {0}
    /\ Backoff <= TTL
    /\ None \notin Queries \cup CommonUris \cup Int \cup Entry
    /\ \A k \in Keys : None \notin ModelLists[k]

VARIABLES
    entries,    \* ModelListCache::inner: key -> entry or None
    holder,     \* the query that has the lock, or None
    queue,      \* the queries that wait for it, in the order they came
    query,      \* per query: see IdleQuery
    last        \* history: what fetches of a key have come to, and for
                \* which waiting queries they came

cache_vars == <<entries, holder, queue, query, last>>

(* A time is kept as the age it has now, up to the age that matters.       *)
Older(age, limit) == IF age = None \/ age = limit THEN age ELSE age + 1

Nothing == [candidates |-> <<>>, headers |-> FALSE, waited |-> 0]
Fresh(pc, targets) == [pc |-> pc, targets |-> targets, at |-> 1, fetch |-> Nothing,
                       out |-> [id \in Ids |-> None]]
IdleQuery == Fresh("idle", <<>>)

CacheInit ==
    /\ entries = [k \in Keys |-> None]
    /\ holder = None
    /\ queue = <<>>
    /\ query = [q \in Queries |-> IdleQuery]
    /\ last = [k \in Keys |-> [list |-> None, since_ok |-> TTL, since_failed |-> Backoff,
                              joined |-> {}]]

TargetOf(q) == query[q].targets[query[q].at]

-------------------------------------------------------------------------------
(* advertised_names up to the lock: the walk over the table, the endpoint  *)
(* of each upstream and its key are a copy from here on.                   *)
Arrive(q) ==
    /\ query[q].pc = "idle"
    /\ \E targets \in Walks :
         query' = [query EXCEPT ![q] = Fresh("waiting", targets)]
    /\ queue' = Append(queue, q)
    /\ UNCHANGED <<entries, holder, last>>

Lock(q) ==
    /\ holder = None /\ queue # <<>> /\ Head(queue) = q
    /\ holder' = q
    /\ queue' = Tail(queue)
    /\ query' = [query EXCEPT ![q].pc = "scan"]
    /\ UNCHANGED <<entries, last>>

Stale(e) == e.fetched_at \notin 0..(TTL - 1)

(* Faulty variant: a failed attempt does not count.                        *)
NeedsRefreshAtOnce(e) == e # None => Stale(e)

NeedsRefresh(e) == e # None => Stale(e) /\ e.last_attempt >= Backoff

(* common_uri_candidates: the preferred layout first, then the others in   *)
(* the order of V1_COMMON_URIS.                                            *)
Candidates(preferred) == IF preferred = "" THEN <<"", "/v1">> ELSE <<"/v1", "">>

(* What fetch_model_list will try: the stored layout is preferred to the   *)
(* one found last time.                                                    *)
Tries(target) ==
    IF target.key[2] \notin V1Family THEN <<None>>
    ELSE Candidates(IF target.stored # None \/ entries[target.key] = None
                    THEN target.stored ELSE entries[target.key].common_uri_hit)

(* Only an entry that was once fetched contributes.                        *)
Snapshot(e) == IF e = None \/ e.fetched_at = None THEN None ELSE e.models

(* The end of one round of the loop: the target's list goes to the answer. *)
Collect(q, es) ==
    /\ entries' = es
    /\ query' = [query EXCEPT ![q].pc = "scan", ![q].at = @ + 1, ![q].fetch = Nothing,
                   ![q].out[TargetOf(q).key[1]] = Snapshot(es[TargetOf(q).key])]

UseCached(q) ==
    /\ query[q].pc = "scan" /\ query[q].at <= Len(query[q].targets)
    /\ ~NeedsRefresh(entries[TargetOf(q).key])
    /\ Collect(q, entries)
    /\ UNCHANGED <<holder, queue, last>>

SendFetch(q) ==
    /\ query[q].pc = "scan" /\ query[q].at <= Len(query[q].targets)
    /\ NeedsRefresh(entries[TargetOf(q).key])
    /\ query' = [query EXCEPT ![q].pc = "fetch",
                   ![q].fetch = [Nothing EXCEPT !.candidates = Tries(TargetOf(q))]]
    /\ UNCHANGED <<entries, holder, queue, last>>

StoreList(k, list, cu) ==
    [entries EXCEPT ![k] = [models |-> list, fetched_at |-> 0, last_attempt |-> 0,
                            common_uri_hit |-> cu]]

(* Faulty variant: a failure leaves an empty entry behind.                 *)
StoreEmpty(k) ==
    [entries EXCEPT ![k] = [models |-> None, fetched_at |-> None, last_attempt |-> 0,
                            common_uri_hit |-> None]]

(* serve-stale-on-error: a failure only moves the start of the back-off.   *)
StoreFailure(k) ==
    [entries EXCEPT ![k] = IF @ # None THEN [@ EXCEPT !.last_attempt = 0]
                           ELSE [models |-> None, fetched_at |-> None, last_attempt |-> 0,
                                 common_uri_hit |-> None]]

FetchOk(q) ==
    /\ query[q].pc = "fetch"
    /\ LET k == TargetOf(q).key IN \E list \in ModelLists[k] :
         /\ Collect(q, StoreList(k, list, Head(query[q].fetch.candidates)))
         /\ last' = [last EXCEPT ![k].list = list, ![k].since_ok = 0,
                                   ![k].joined = @ \cup Range(queue)]
    /\ UNCHANGED <<holder, queue>>

FetchFails(q) ==
    /\ query[q].pc = "fetch"
    /\ LET k == TargetOf(q).key IN
         /\ Collect(q, StoreFailure(k))
         /\ last' = [last EXCEPT ![k].since_failed = 0,
                                   ![k].joined = @ \cup Range(queue)]
    /\ UNCHANGED <<holder, queue>>

(* 404 or 405: the next layout is tried, with a time-out of its own.       *)
FetchAbsent(q) ==
    /\ query[q].pc = "fetch" /\ Len(query[q].fetch.candidates) > 1
    /\ query' = [query EXCEPT ![q].fetch = [Nothing EXCEPT !.candidates =
                                              Tail(query[q].fetch.candidates)]]
    /\ UNCHANGED <<entries, holder, queue, last>>

(* The status line is in, the body is still coming.                        *)
Headers(q) ==
    /\ query[q].pc = "fetch" /\ ~query[q].fetch.headers
    /\ query' = [query EXCEPT ![q].fetch.headers = TRUE]
    /\ UNCHANGED <<entries, holder, queue, last>>

(* Faulty variant: the time-out covers the wait for the headers only.      *)
ExpiredBeforeHeaders(fetch) == fetch.waited = FetchTimeout /\ ~fetch.headers

(* send_bounded: one time-out over the request and its whole body.         *)
Expired(fetch) == fetch.waited = FetchTimeout

TimedOut(q) == Expired(query[q].fetch) /\ FetchFails(q)

Forget(q) == [k \in Keys |-> [last[k] EXCEPT !.joined = @ \ {q}]]

(* The reply to the client; the lock is released.                          *)
Answer(q) ==
    /\ query[q].pc = "scan" /\ query[q].at > Len(query[q].targets)
    /\ holder' = None
    /\ query' = [query EXCEPT ![q] = IdleQuery]
    /\ last' = Forget(q)
    /\ UNCHANGED <<entries, queue>>

(* The client hangs up: the query is dropped at the await it is in.        *)
Disconnect(q) ==
    /\ query[q].pc \in {"waiting", "fetch"}
    /\ query' = [query EXCEPT ![q] = IdleQuery]
    /\ queue' = SelectSeq(queue, LAMBDA x : x # q)
    /\ holder' = IF holder = q THEN None ELSE holder
    /\ last' = Forget(q)
    /\ UNCHANGED entries

OlderEntry(e) ==
    IF e = None THEN None
    ELSE [e EXCEPT !.fetched_at = Older(@, TTL), !.last_attempt = Older(@, Backoff)]
OlderHistory(l) ==
    [l EXCEPT !.since_ok = Older(@, TTL), !.since_failed = Older(@, Backoff)]

TimePasses ==
    /\ \A q \in Queries : query[q].pc # "scan" /\ ~Expired(query[q].fetch)
    /\ holder = None => queue = <<>>
    /\ entries' = [k \in Keys |-> OlderEntry(entries[k])]
    /\ query' = [q \in Queries |->
                   IF query[q].pc = "fetch"
                   THEN [query[q] EXCEPT !.fetch.waited = Older(@, FetchTimeout)]
                   ELSE query[q]]
    /\ last' = [k \in Keys |-> OlderHistory(last[k])]
    /\ UNCHANGED <<holder, queue>>

-------------------------------------------------------------------------------
CacheNext ==
    \/ \E q \in Queries :
         \/ Arrive(q) \/ Lock(q) \/ UseCached(q) \/ SendFetch(q) \/ Answer(q)
         \/ FetchAbsent(q) \/ Headers(q) \/ FetchOk(q) \/ FetchFails(q) \/ TimedOut(q)
         \/ Disconnect(q)
    \/ TimePasses

(* Code that can run runs, time passes and time-outs fire; upstreams owe   *)
(* nothing, and clients need not come or go.                               *)
CacheSpec ==
    /\ CacheInit /\ [][CacheNext]_cache_vars
    /\ \A q \in Queries : WF_cache_vars(Lock(q) \/ UseCached(q) \/ SendFetch(q) \/ Answer(q))
    /\ \A q \in Queries : WF_cache_vars(TimedOut(q))
    /\ WF_cache_vars(TimePasses)
-------------------------------------------------------------------------------
(* Properties.                                                             *)

(* Types, and whose turn it is: one query at most is past the lock.        *)
CacheTypeOK ==
    /\ entries \in [Keys -> Entry \cup {None}]
    /\ \A q \in Queries :
         /\ query[q].pc \in {"idle", "waiting", "scan", "fetch"}
         /\ query[q].targets \in Walks \cup {<<>>}
         /\ query[q].at \in 1..(Len(query[q].targets) + 1)
         /\ query[q].fetch \in [candidates : UNION {[1..n -> CommonUris \cup {None}] : n \in 0..2},
                                headers : BOOLEAN, waited : 0..FetchTimeout]
         /\ \A id \in Ids : query[q].out[id] \in (UNION {ModelLists[k] : k \in Keys}) \cup {None}
         /\ (query[q].pc \in {"scan", "fetch"}) = (holder = q)
         /\ (query[q].pc = "waiting") = (\E i \in DOMAIN queue : queue[i] = q)

Starts(q) == query[q].pc = "scan" /\ query'[q].pc = "fetch"
Uses(q) == query[q].pc = "scan" /\ query'[q].at # query[q].at /\ query'[q].pc = "scan"
Due(k) == last[k].since_ok >= TTL /\ last[k].since_failed >= Backoff

(* Upstreams are spared and lists are fresh: a query fetches a list        *)
(* exactly when the last fetch that came to an end is out of its window,   *)
(* whichever queries met, failed or hung up before (N4, M1, M2).           *)
RefreshesWhenDue ==
    [][\A q \in Queries :
         /\ Starts(q) => Due(TargetOf(q).key)
         /\ Uses(q) => ~Due(TargetOf(q).key)]_cache_vars

(* What a client is answered is, for every upstream its router reaches,    *)
(* the last list that upstream's own endpoint gave, and nothing only if it *)
(* never gave one: failures, other queries and other endpoints of the same *)
(* provider take nothing away (serve-stale-on-error, N3).                  *)
Answers(q) == query[q].pc = "scan" /\ query'[q].pc = "idle"
AnswersAreTheLatest ==
    [][\A q \in Queries : Answers(q) =>
         /\ \A i \in DOMAIN query[q].targets :
              LET k == query[q].targets[i].key IN query[q].out[k[1]] = last[k].list
         /\ \A id \in Ids : query[q].out[id] # None =>
              \E i \in DOMAIN query[q].targets : query[q].targets[i].key[1] = id]_cache_vars

(* However upstreams stall, every query is answered or given up by its     *)
(* client: nobody keeps the lock.                                          *)
QueriesEnd == \A q \in Queries : query[q].pc # "idle" ~> query[q].pc = "idle"

(* contracts.md, prop_router_models_single_flight: a query that waits while *)
(* another one fetches a list reads what that fetch brought; it does not   *)
(* fetch the list again.                                                   *)
JoinersDoNotFetch ==
    [][\A q \in Queries : Starts(q) => q \notin last[TargetOf(q).key].joined]_cache_vars
===============================================================================
