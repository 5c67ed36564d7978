----------------------------- MODULE ConfigTable -----------------------------
(***************************************************************************)
(* One provider id in the two-layer table (src/config/mod.rs) and the      *)
(* admin requests that edit it (src/web/api/crud.rs, providers.rs).        *)
(*                                                                         *)
(* The static layer is fixed when the process starts; the dynamic layer    *)
(* and the decision change under persist_lock.  A handler runs on a thread *)
(* of its own and reads the table several times before it writes, so each  *)
(* read and each write is a step.  The file behind a write is StateFile's  *)
(* subject: here a write succeeds or fails as a whole.                     *)
(***************************************************************************)
EXTENDS Naturals

CONSTANTS Admins,      \* requests in flight at once
          Statics,     \* what the static layer may hold for the id
          Payloads,    \* bodies the admins send
          AskedModes,  \* modes the admins ask for
          Lists,       \* values of routes / members
          ApiKeys,     \* values of api_key
          Cooldowns,   \* values of cooldown_secs
          NoKey,       \* the empty api_key
          EmptyList,   \* the empty list, the explicit "leave this construct"
          None         \* Rust's Option::None

DecisionModes == {"default", "prefer_static", "disabled"}
Sources == {"static", "dynamic", "dynamic_override", "static_preferred"}

Entry == [kind : {"direct"}, key : ApiKeys \cup {NoKey}, list : {None}, cooldown : {None}]
    \cup [kind : {"router"}, key : {None}, list : Lists, cooldown : {None}]
    \cup [kind : {"pool"}, key : {None}, list : Lists, cooldown : Cooldowns]

Payload == [members : Lists \cup {EmptyList, None}, routes : Lists \cup {EmptyList, None},
            endpoints : BOOLEAN, key : ApiKeys \cup {NoKey, None},
            cooldown : Cooldowns \cup {None}]

(* What the listing shows of an id.                                        *)
Shown == [entry : Entry, source : Sources]

ASSUME TableAssumption ==
    /\ Statics \subseteq Entry \cup {None}
    /\ Payloads \subseteq Payload
    /\ AskedModes \subseteq DecisionModes
    /\ None \notin Entry \cup Payload \cup Lists \cup ApiKeys \cup Cooldowns
                     \cup Admins \cup Sources \cup Shown \cup {EmptyList, NoKey}
    /\ EmptyList \notin Lists
    /\ NoKey \notin ApiKeys
    /\ \E c \in Cooldowns : TRUE

(* An admin may know every key but the one in the static configuration.    *)
ASSUME StaticKeyAssumption ==
    \A s \in Statics \ {None}, p \in Payloads : s.key \in ApiKeys => p.key # s.key

default_pool_cooldown_secs == CHOOSE c \in Cooldowns : TRUE

VARIABLES static_entry,  \* static_entries
          dyn,           \* dynamic_entries
          decision,      \* decisions.provider(id)
          persist_lock,  \* the admin that holds persist_lock across two steps, or None
          task           \* one per admin

table_vars == <<static_entry, dyn, decision, persist_lock, task>>

(* asked is the body as received, payload the one the handler fills in;    *)
(* was is the effective entry when the handler started, and seen what a    *)
(* listing has read of it.                                                 *)
IdleTask == [at |-> "idle", asked |-> None, payload |-> None, entry |-> None,
             was |-> None, seen |-> None]

-------------------------------------------------------------------------------
(* Merging the layers.                                                     *)

pick_effective(s, d, mode) ==
    CASE mode = "disabled"      -> None
      [] mode = "prefer_static" -> s
      [] mode = "default"       -> IF d # None THEN d ELSE s

inherit_from_static(p, s) ==
    IF p.kind = "direct" /\ s.kind = "direct" /\ p.key = NoKey
    THEN [p EXCEPT !.key = s.key] ELSE p

pick_with_inherit(s, d, mode) ==
    LET p == pick_effective(s, d, mode)
    IN  IF p # None /\ s # None /\ mode = "default" THEN inherit_from_static(p, s) ELSE p

classify_source(has_static, has_dynamic, mode) ==
    CASE mode = "disabled"                                        -> None
      [] mode # "disabled" /\ has_static /\ ~has_dynamic          -> "static"
      [] mode = "default" /\ has_static /\ has_dynamic            -> "dynamic_override"
      [] mode = "prefer_static" /\ has_static /\ has_dynamic      -> "static_preferred"
      [] mode = "default" /\ ~has_static /\ has_dynamic           -> "dynamic"
      [] OTHER                                                    -> None

(* The decision counts for static ids only.                                *)
Mode == IF static_entry # None THEN decision ELSE "default"

(* effective_triples drops an id whose source is None; effective_snapshot  *)
(* maps the rest, so None here is an id the listing does not show.         *)
effective_snapshot ==
    LET source == classify_source(static_entry # None, dyn # None, Mode)
    IN  IF source = None THEN None
        ELSE [entry |-> pick_with_inherit(static_entry, dyn, Mode), source |-> source]

get_effective == pick_with_inherit(static_entry, dyn, Mode)

disabled_statics == static_entry # None /\ decision = "disabled"

-------------------------------------------------------------------------------
(* From a body to an entry.                                                *)

Explicit(field) == field \notin {None, EmptyList}

backfill_routes(p, list, explicit_pool) ==
    IF p.routes = None /\ ~explicit_pool THEN [p EXCEPT !.routes = list] ELSE p

backfill_pool(p, pool, explicit_router) ==
    [p EXCEPT !.members = IF @ = None /\ ~explicit_router THEN pool.list ELSE @,
              !.cooldown = IF @ = None THEN pool.cooldown ELSE @]

(* The key an omitted one is replaced by comes from a Direct entry only.   *)
backfill_key(p, direct) == IF p.key = None THEN [p EXCEPT !.key = direct.key] ELSE p

BothConstructs(p) == Explicit(p.members) /\ Explicit(p.routes)

(* into_provider rejects two constructs at once, and none at all without   *)
(* endpoints.                                                              *)
Accepted(p) ==
    /\ ~BothConstructs(p)
    /\ Explicit(p.members) \/ Explicit(p.routes) \/ p.endpoints

into_provider(p) ==
    IF Explicit(p.members)
    THEN [kind |-> "pool", key |-> None, list |-> p.members,
          cooldown |-> IF p.cooldown = None THEN default_pool_cooldown_secs ELSE p.cooldown]
    ELSE IF Explicit(p.routes)
    THEN [kind |-> "router", key |-> None, list |-> p.routes, cooldown |-> None]
    ELSE [kind |-> "direct", key |-> IF p.key = None THEN NoKey ELSE p.key,
          list |-> None, cooldown |-> None]

-------------------------------------------------------------------------------
(* The handlers.  A refusal that changes nothing ends the request.         *)

Finish(a) == task' = [task EXCEPT ![a] = IdleTask]
IsIdle(a) == task[a].at = "idle"
At(a, step) == task[a].at = step

(* create_provider up to its upsert: build, then the conflict check        *)
(* against the effective view.                                             *)
Post(a, p) ==
    /\ IsIdle(a)
    /\ Accepted(p)
    /\ effective_snapshot = None
    /\ task' = [task EXCEPT ![a] = [IdleTask EXCEPT !.at = "insert", !.asked = p,
                                                    !.entry = into_provider(p)]]
    /\ UNCHANGED <<static_entry, dyn, decision, persist_lock>>

(* update_provider: 404 for an id the effective view does not show.        *)
Put(a, p) ==
    /\ IsIdle(a)
    /\ effective_snapshot # None
    /\ task' = [task EXCEPT ![a] = [IdleTask EXCEPT !.at = "backfill_dynamic", !.asked = p,
                                                    !.payload = p, !.was = get_effective]]
    /\ UNCHANGED <<static_entry, dyn, decision, persist_lock>>

FilledFrom(p, asked, old, with_key) ==
    CASE old = None                          -> p
      [] old # None /\ old.kind = "direct"   -> IF with_key THEN backfill_key(p, old) ELSE p
      [] old # None /\ old.kind = "router"   -> backfill_routes(p, old.list, Explicit(asked.members))
      [] old # None /\ old.kind = "pool"     -> backfill_pool(p, old, Explicit(asked.routes))

Fill(a, from, to, old, with_key) ==
    /\ At(a, from)
    /\ task' = [task EXCEPT ![a].at = to,
                            ![a].payload = FilledFrom(@, task[a].asked, old, with_key)]
    /\ UNCHANGED <<static_entry, dyn, decision, persist_lock>>

(* Faulty variant: the key is taken from the effective entry.              *)
BackfillFromEffective(a) == Fill(a, "backfill_dynamic", "backfill_effective", get_effective, TRUE)

(* get_dynamic: the only layer an api_key is taken from (#157).            *)
BackfillDynamic(a) == Fill(a, "backfill_dynamic", "backfill_effective", dyn, TRUE)

(* get_effective: whatever the first step filled in stays.                 *)
BackfillEffective(a) == Fill(a, "backfill_effective", "build", get_effective, FALSE)

Build(a) ==
    /\ At(a, "build")
    /\ IF Accepted(task[a].payload)
       THEN task' = [task EXCEPT ![a].at = "upsert",
                                 ![a].entry = into_provider(task[a].payload)]
       ELSE Finish(a)
    /\ UNCHANGED <<static_entry, dyn, decision, persist_lock>>

(* upsert_dynamic: a create that finds an entry there is answered 409, but *)
(* has replaced it by then; anything else reads its answer back.           *)
Store(a) ==
    /\ At(a, "insert") \/ At(a, "upsert")
    /\ persist_lock = None
    /\ dyn' = task[a].entry
    /\ IF At(a, "insert") /\ dyn # None
       THEN Finish(a)
       ELSE task' = [task EXCEPT ![a].at = "refetch"]
    /\ UNCHANGED <<static_entry, decision, persist_lock>>

(* validate_provider_upsert refuses, or the file cannot be written: 400 or *)
(* 500, and nothing has changed.                                           *)
StoreFails(a) ==
    /\ At(a, "insert") \/ At(a, "upsert")
    /\ persist_lock = None
    /\ Finish(a)
    /\ UNCHANGED <<static_entry, dyn, decision, persist_lock>>

(* refetch_effective answers with the entry or with 409.                   *)
Refetch(a) ==
    /\ At(a, "refetch")
    /\ Finish(a)
    /\ UNCHANGED <<static_entry, dyn, decision, persist_lock>>

(* delete_flow: never for a static id, whatever its decision.              *)
DeleteFlow(a) ==
    /\ IsIdle(a)
    /\ static_entry = None
    /\ persist_lock = None
    /\ dyn # None
    /\ dyn' = None
    /\ UNCHANGED <<static_entry, decision, persist_lock, task>>

(* Faulty variant: reset_dynamic publishes the decision first.             *)
ResetDecisionFirst(a) ==
    /\ IsIdle(a)
    /\ static_entry # None
    /\ persist_lock = None
    /\ persist_lock' = a
    /\ decision' = "default"
    /\ task' = [task EXCEPT ![a] = [IdleTask EXCEPT !.at = "reset", !.was = get_effective]]
    /\ UNCHANGED <<static_entry, dyn>>

(* reset_dynamic publishes the dynamic layer, then the decision; readers   *)
(* may come between, writers wait for the lock.                            *)
ResetDynamic(a) ==
    /\ IsIdle(a)
    /\ static_entry # None
    /\ persist_lock = None
    /\ persist_lock' = a
    /\ dyn' = None
    /\ task' = [task EXCEPT ![a] = [IdleTask EXCEPT !.at = "reset", !.was = get_effective]]
    /\ UNCHANGED <<static_entry, decision>>

ResetDecision(a) ==
    /\ At(a, "reset")
    /\ decision' = "default"
    /\ persist_lock' = None
    /\ Finish(a)
    /\ UNCHANGED <<static_entry, dyn>>

(* decision_flow: static ids only.                                         *)
Decide(a, mode) ==
    /\ IsIdle(a)
    /\ static_entry # None
    /\ persist_lock = None
    /\ decision # mode
    /\ decision' = mode
    /\ UNCHANGED <<static_entry, dyn, persist_lock, task>>

(* list_providers: the effective view first, the disabled statics after.   *)
List(a) ==
    /\ IsIdle(a)
    /\ task' = [task EXCEPT ![a] = [IdleTask EXCEPT !.at = "list", !.seen = effective_snapshot]]
    /\ UNCHANGED <<static_entry, dyn, decision, persist_lock>>

ListDisabled(a) ==
    /\ At(a, "list")
    /\ task' = [task EXCEPT ![a].at = "listed",
                            ![a].entry = IF disabled_statics THEN static_entry ELSE None]
    /\ UNCHANGED <<static_entry, dyn, decision, persist_lock>>

Listed(a) ==
    /\ At(a, "listed")
    /\ Finish(a)
    /\ UNCHANGED <<static_entry, dyn, decision, persist_lock>>

-------------------------------------------------------------------------------
TableInit ==
    /\ static_entry \in Statics
    /\ dyn = None
    /\ decision = "default"
    /\ persist_lock = None
    /\ task = [a \in Admins |-> IdleTask]

Edit(a) ==
    \/ \E p \in Payloads : Post(a, p) \/ Put(a, p)
    \/ BackfillDynamic(a)
    \/ BackfillEffective(a)
    \/ Build(a)
    \/ Store(a)
    \/ StoreFails(a)
    \/ Refetch(a)
    \/ DeleteFlow(a)
    \/ ResetDynamic(a)
    \/ ResetDecision(a)
    \/ \E mode \in AskedModes : Decide(a, mode)

Look(a) == List(a) \/ ListDisabled(a) \/ Listed(a)

TableNext == \E a \in Admins : Edit(a) \/ Look(a)

TableSpec == TableInit /\ [][TableNext]_table_vars

-------------------------------------------------------------------------------
(* Every variable keeps its type; the lock is held exactly while a reset   *)
(* is between its two publications.                                        *)
Task == [at : {"idle", "insert", "backfill_dynamic", "backfill_effective", "build",
               "upsert", "refetch", "reset", "list", "listed"},
         asked : Payload \cup {None}, payload : Payload \cup {None},
         entry : Entry \cup {None}, was : Entry \cup {None},
         seen : Shown \cup {None}]

TableTypeOK ==
    /\ static_entry \in Statics
    /\ dyn \in Entry \cup {None}
    /\ decision \in DecisionModes
    /\ persist_lock \in Admins \cup {None}
    /\ task \in [Admins -> Task]
    /\ \A a \in Admins : At(a, "reset") <=> persist_lock = a

(* CFG-1, CFG-2: what the listing shows of an id is what forwarding uses,  *)
(* the label says which layer it comes from, and an id is missing from one *)
(* exactly when it is missing from the other (so the expect in             *)
(* compute_effective_provider cannot fail).                                *)
ViewsAgree ==
    /\ effective_snapshot = None <=> get_effective = None
    /\ effective_snapshot # None =>
          LET shown == effective_snapshot
          IN  /\ shown.entry = get_effective
              /\ shown.source \in {"static", "static_preferred"} => shown.entry = static_entry
              /\ shown.source = "static_preferred" => dyn # None
              /\ shown.source = "dynamic" => static_entry = None /\ shown.entry = dyn
              /\ shown.source = "dynamic_override" =>
                    static_entry # None /\ [shown.entry EXCEPT !.key = dyn.key] = dyn

(* #157: the resolved key of the static layer is never copied into an      *)
(* override (from where it would be written to state.toml), however the    *)
(* edits of several admins interleave.                                     *)
StaticKeyStaysOut ==
    static_entry # None /\ static_entry.key \in ApiKeys =>
        /\ dyn # None => dyn.key # static_entry.key
        /\ \A a \in Admins :
              /\ task[a].payload # None => task[a].payload.key # static_entry.key
              /\ task[a].at \in {"insert", "upsert"} => task[a].entry.key # static_entry.key

(* #348: a request forwarded in the middle of a reset gets the provider of *)
(* before or the static one, never an override the decision was hiding.    *)
ResetShowsOldOrStatic ==
    \A a \in Admins : At(a, "reset") => get_effective \in {task[a].was, static_entry}

Upserts(a) == At(a, "upsert") /\ task'[a].at = "refetch"

(* PUT keeps what the body omits, field by field, as forwarding sees it:   *)
(* the key of a Direct provider, wherever it comes from; the construct and *)
(* its list; the cooldown of a pool even when its members are replaced.    *)
(* (For one admin at a time; the handler's doc allows for lost edits.)     *)
OmittedIsKept ==
    [][\A a \in Admins :
        Upserts(a) =>
            LET was == task[a].was
                now == get_effective'
                p   == task[a].asked
            IN  /\ p.members = None /\ p.routes = None =>
                      now.kind = was.kind /\ now.list = was.list
                /\ p.key = None /\ was.kind = "direct" /\ now.kind = "direct" =>
                      now.key = was.key
                /\ p.cooldown = None /\ was.kind = "pool" /\ now.kind = "pool" =>
                      now.cooldown = was.cooldown]_table_vars

(* providers.rs, doc of routes and members: omitted, they are filled from  *)
(* the dynamic entry first, and from the effective one only if there is    *)
(* none.                                                                   *)
OverrideIsKept ==
    [][\A a \in Admins :
        Upserts(a) /\ dyn # None /\ task[a].asked.members = None /\ task[a].asked.routes = None
            => dyn'.kind = dyn.kind /\ dyn'.list = dyn.list]_table_vars

(* providers.rs, doc of members: a request is refused for naming both      *)
(* constructs only when the caller really named both.                      *)
BothAreTheCallers ==
    \A a \in Admins :
        At(a, "build") /\ BothConstructs(task[a].payload) => BothConstructs(task[a].asked)

(* crud.rs: a create may not override a static entry of the same id        *)
(* (contract CFG-3: it is answered 409).                                   *)
CreateNeverOverridesStatic ==
    [][\A a \in Admins : At(a, "insert") /\ dyn' # dyn => static_entry = None]_table_vars

(* disabled_statics is the dual of effective_triples: a listing shows a    *)
(* static id in exactly one of its two parts.                              *)
ListingShowsStaticOnce ==
    \A a \in Admins :
        At(a, "listed") /\ static_entry # None => (task[a].seen = None) # (task[a].entry = None)

=============================================================================
