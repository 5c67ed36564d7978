--------------------------- MODULE RouteResolution ---------------------------
(***************************************************************************)
(* One request's walk from the provider its URL names to the upstream that *)
(* serves it (dispatch and DynamicTable::resolve_route), while admins edit *)
(* the provider table.  Each hop takes the table's lock once, for one      *)
(* effective read, so edits fall between the hops; the walk itself holds   *)
(* copies of the providers it has read.                                    *)
(***************************************************************************)
EXTENDS RouteGraph

CONSTANTS Catalogue,    \* Catalogue[id]: the providers an admin may store under id
          StaticEntries,  \* the static layer: id -> provider or None
          EmptyModel,   \* what a body without a top-level model yields
          Admins,       \* tasks that run the web handlers
          MaxEdits      \* bound on the number of edits

(* How a walk ends.                                                       *)
Outcomes == {"NotFound", "Disabled", "Missing", "NoMatch", "Cycle",
             "AllMembersExhausted", "Ok"}

OverrideModes == {"default", "prefer_static", "disabled"}

ASSUME ResolutionAssumption ==
    /\ \A id \in Ids : \A p \in Catalogue[id] : IsProvider(p) /\ p # None
    /\ \A id \in Ids : StaticEntries[id] = None \/ IsProvider(StaticEntries[id])
    /\ IdOrder \in Seq(Ids) /\ Range(IdOrder) = Ids /\ IsInjective(IdOrder)
    /\ EmptyModel \in Models
    /\ None \notin Ids \cup Models \cup Int \cup Outcomes
    /\ MaxEdits \in Nat

VARIABLES
    dynamic_entries,  \* the dynamic layer: id -> provider or None
    decisions,        \* id -> override mode, read for static ids only
    upserts,          \* per admin: the entry that passed the cycle check, or None
    edits,            \* edits made, at most MaxEdits
    walk              \* the request: see Idle

vars == <<dynamic_entries, decisions, upserts, edits, walk>>

IsStatic(id) == StaticEntries[id] # None

(* pick_effective on what the two layers hold of an id.  (What an entry    *)
(* inherits from a static one is a key, which no walk and no check reads.) *)
get_effective(id) ==
    CASE IsStatic(id) /\ decisions[id] = "disabled"      -> None
      [] IsStatic(id) /\ decisions[id] = "prefer_static" -> StaticEntries[id]
      [] OTHER -> IF dynamic_entries[id] # None THEN dynamic_entries[id]
                  ELSE StaticEntries[id]

(* The merged view: id -> provider or None.                                *)
table == [id \in Ids |-> get_effective(id)]

(* id, cur: the provider held, as it was read; active: pool candidates not *)
(* yet tried.  offered and chain are a history for the properties: the     *)
(* candidates this pool hop began with, and per hop made the provider      *)
(* read, the route or member index taken, what was offered and the model.  *)
Idle == [pc |-> "idle", id |-> None, cur |-> None, active |-> {}, offered |-> {},
         visited |-> {}, body_model |-> EmptyModel, in_flight_model |-> EmptyModel,
         model_rewrite |-> None, pool_hop |-> None, outcome |-> None, chain |-> <<>>]

-------------------------------------------------------------------------------
(* The request.                                                            *)

(* dispatch, steps 2 and 3: the entry is read, then the body is collected. *)
Lookup(id, model) ==
    /\ walk.pc = "idle"
    /\ walk' = IF table[id] = None
                 THEN [Idle EXCEPT !.pc = "done", !.outcome = "NotFound"]
               ELSE IF ~table[id].enabled
                 THEN [Idle EXCEPT !.pc = "done", !.outcome = "Disabled"]
               ELSE [Idle EXCEPT !.pc = "body", !.id = id, !.cur = table[id],
                                 !.body_model = model]
    /\ UNCHANGED <<dynamic_entries, decisions, upserts, edits>>

(* dispatch, step 3.5: the model is taken from the body only when the      *)
(* entry is a Router.                                                      *)
request_model(w) == IF w.cur.kind = "router" THEN w.body_model ELSE EmptyModel

StartWalk ==
    /\ walk.pc = "body"
    /\ walk' = [walk EXCEPT !.pc = "hop", !.visited = {walk.id},
                            !.in_flight_model = request_model(walk)]
    /\ UNCHANGED <<dynamic_entries, decisions, upserts, edits>>

Fail(w, why) ==
    [Idle EXCEPT !.pc = "done", !.outcome = why, !.body_model = w.body_model]

(* Faulty variant: the visited set is filled but not consulted.            *)
GoToAgain(w, id, taken) ==
    [w EXCEPT !.pc = "hop", !.id = id, !.cur = table[id],
              !.active = {}, !.offered = {},
              !.visited = @ \cup {id}, !.chain = Append(@, taken)]

(* A hop to an id just read from the table: a repeated id is a cycle.      *)
GoTo(w, id, taken) ==
    IF id \in w.visited THEN Fail(w, "Cycle")
    ELSE [w EXCEPT !.pc = "hop", !.id = id, !.cur = table[id],
                   !.active = {}, !.offered = {},
                   !.visited = @ \cup {id}, !.chain = Append(@, taken)]

Taken(what) == [id |-> walk.id, read |-> walk.cur, took |-> what,
                offered |-> walk.offered, model |-> walk.in_flight_model]

DirectHop ==
    /\ walk.pc = "hop" /\ walk.cur.kind = "direct"
    /\ walk' = [walk EXCEPT !.pc = "done", !.outcome = "Ok"]
    /\ UNCHANGED <<dynamic_entries, decisions, upserts, edits>>

Rewrite(w, route) ==
    IF route.upstream_model = None THEN w
    ELSE [w EXCEPT !.model_rewrite = route.upstream_model,
                   !.in_flight_model = route.upstream_model]

RouterHop ==
    /\ walk.pc = "hop" /\ walk.cur.kind = "router"
    /\ LET route == select_route(walk.cur.routes, walk.in_flight_model) IN
       walk' = IF route = None THEN Fail(walk, "NoMatch")
               ELSE IF table[route.target] = None THEN Fail(walk, "Missing")
               ELSE IF ~table[route.target].enabled THEN Fail(walk, "Disabled")
               ELSE GoTo(Rewrite(walk, route), route.target, Taken(route))
    /\ UNCHANGED <<dynamic_entries, decisions, upserts, edits>>

(* Faulty variant: all candidates count as visited once a pool is entered. *)
PoolHopVisitingAll ==
    /\ walk.pc = "hop" /\ walk.cur.kind = "pool"
    /\ \E active \in SUBSET DOMAIN walk.cur.members :
         walk' = IF active = {} THEN Fail(walk, "AllMembersExhausted")
                 ELSE [walk EXCEPT !.pc = "pool", !.active = active, !.offered = active,
                         !.visited = @ \cup {walk.cur.members[i] : i \in active}]
    /\ UNCHANGED <<dynamic_entries, decisions, upserts, edits>>

(* The pool's candidates: the members without an alarm, as its state       *)
(* machine (module PoolFailover) answers; here any subset.                 *)
PoolHop ==
    /\ walk.pc = "hop" /\ walk.cur.kind = "pool"
    /\ \E active \in SUBSET DOMAIN walk.cur.members :
         walk' = IF active = {} THEN Fail(walk, "AllMembersExhausted")
                 ELSE [walk EXCEPT !.pc = "pool", !.active = active, !.offered = active]
    /\ UNCHANGED <<dynamic_entries, decisions, upserts, edits>>

Usable(id) == table[id] # None /\ table[id].enabled

(* Faulty variant: the list is read from its end.                          *)
LastOf(S) == CHOOSE i \in S : \A j \in S : i >= j

FirstOf(S) == CHOOSE i \in S : \A j \in S : i <= j

(* Only the first pool on the way is answerable for exhaustion.            *)
ChargeFirstPool(w, idx) ==
    IF w.pool_hop # None THEN w
    ELSE [w EXCEPT !.pool_hop = [pool_id |-> w.id, member_idx |-> idx]]

(* Faulty variant: an unusable member is tried again.                      *)
TryMemberAgain ==
    /\ walk.pc = "pool"
    /\ LET idx == FirstOf(walk.active)
           member == walk.cur.members[idx]
       IN  walk' = IF Usable(member)
                     THEN GoTo(ChargeFirstPool(walk, idx), member, Taken(idx))
                   ELSE walk
    /\ UNCHANGED <<dynamic_entries, decisions, upserts, edits>>

(* find_map over the candidates in list order: one effective read each.    *)
TryMember ==
    /\ walk.pc = "pool"
    /\ LET idx == FirstOf(walk.active)
           member == walk.cur.members[idx]
       IN  walk' = IF Usable(member)
                     THEN GoTo(ChargeFirstPool(walk, idx), member, Taken(idx))
                   ELSE IF walk.active = {idx} THEN Fail(walk, "AllMembersExhausted")
                   ELSE [walk EXCEPT !.active = @ \ {idx}]
    /\ UNCHANGED <<dynamic_entries, decisions, upserts, edits>>

(* The response, or the 404/503, has been sent.                            *)
Answered ==
    /\ walk.pc = "done"
    /\ walk' = Idle
    /\ UNCHANGED <<dynamic_entries, decisions, upserts, edits>>

-------------------------------------------------------------------------------
(* The admins, each running one handler at a time.  An upsert is two steps: *)
(* the checks, then the store, which goes to the dynamic layer whatever the *)
(* decision shows.  read is a history for the properties: the merged view  *)
(* the check was made on.                                                  *)

(* Faulty variant: the check looks at the dynamic layer alone.             *)
CheckUpsertDynamic(a, id, entry) ==
    /\ upserts[a] = None /\ edits < MaxEdits
    /\ id \notin Range(enabled_targets_of(entry))
    /\ ~would_cycle(dynamic_entries, id, entry)
    /\ upserts' = [upserts EXCEPT ![a] = [id |-> id, entry |-> entry, read |-> table]]
    /\ edits' = edits + 1
    /\ UNCHANGED <<dynamic_entries, decisions, walk>>

CheckUpsert(a, id, entry) ==
    /\ upserts[a] = None /\ edits < MaxEdits
    /\ id \notin Range(enabled_targets_of(entry))
    /\ ~would_cycle(table, id, entry)
    /\ upserts' = [upserts EXCEPT ![a] = [id |-> id, entry |-> entry, read |-> table]]
    /\ edits' = edits + 1
    /\ UNCHANGED <<dynamic_entries, decisions, walk>>

StoreUpsert(a) ==
    /\ upserts[a] # None
    /\ dynamic_entries' = [dynamic_entries EXCEPT ![upserts[a].id] = upserts[a].entry]
    /\ upserts' = [upserts EXCEPT ![a] = None]
    /\ UNCHANGED <<decisions, edits, walk>>

(* The id exists by now (POST), or the file cannot be written.             *)
UpsertRefused(a) ==
    /\ upserts[a] # None
    /\ upserts' = [upserts EXCEPT ![a] = None]
    /\ UNCHANGED <<dynamic_entries, decisions, edits, walk>>

(* What the other handlers have in common: one edit, without a check.      *)
Edits(a) ==
    /\ upserts[a] = None /\ edits < MaxEdits
    /\ edits' = edits + 1
    /\ UNCHANGED <<upserts, walk>>

Delete(a, id) ==
    /\ Edits(a)
    /\ ~IsStatic(id) /\ dynamic_entries[id] # None
    /\ dynamic_entries' = [dynamic_entries EXCEPT ![id] = None]
    /\ UNCHANGED decisions

(* PATCH decision: what the id shows may become its static entry, its      *)
(* override or nothing.                                                    *)
Decide(a, id, mode) ==
    /\ Edits(a)
    /\ IsStatic(id) /\ decisions[id] # mode
    /\ decisions' = [decisions EXCEPT ![id] = mode]
    /\ UNCHANGED dynamic_entries

(* DELETE override: a static id shows its static entry again.  The two     *)
(* layers are published one after the other, and what an id shows changes  *)
(* with one of them only (ConfigTable has both steps).                     *)
Reset(a, id) ==
    /\ Edits(a)
    /\ IsStatic(id) /\ (dynamic_entries[id] # None \/ decisions[id] # "default")
    /\ dynamic_entries' = [dynamic_entries EXCEPT ![id] = None]
    /\ decisions' = [decisions EXCEPT ![id] = "default"]

-------------------------------------------------------------------------------
(* What a start may find in state.toml: any override, and decisions on     *)
(* static ids (prune_dangling_decisions).                                  *)
Stored == {d \in [Ids -> UNION {Catalogue[id] : id \in Ids} \cup {None}] :
             \A id \in Ids : d[id] \in Catalogue[id] \cup {None}}
Decided == {m \in [Ids -> OverrideModes] :
              \A id \in Ids : IsStatic(id) \/ m[id] = "default"}

Init ==
    /\ dynamic_entries \in Stored
    /\ decisions \in Decided
    /\ upserts = [a \in Admins |-> None]
    /\ edits = 0
    /\ walk = Idle

Hop == StartWalk \/ DirectHop \/ RouterHop \/ PoolHop \/ TryMember

Edit ==
    \/ \E a \in Admins, id \in Ids : \E entry \in Catalogue[id] : CheckUpsert(a, id, entry)
    \/ \E a \in Admins : StoreUpsert(a) \/ UpsertRefused(a)
    \/ \E a \in Admins, id \in Ids : Delete(a, id) \/ Reset(a, id)
    \/ \E a \in Admins, id \in Ids, mode \in OverrideModes : Decide(a, id, mode)

Next ==
    \/ \E id \in Ids, model \in Models : Lookup(id, model)
    \/ Hop
    \/ Answered
    \/ Edit

(* A walk is straight-line code once the body is in: it is scheduled.      *)
Spec == Init /\ [][Next]_vars /\ WF_vars(Hop)
-------------------------------------------------------------------------------
(* Properties.                                                             *)

(* Types: what the layers, the admins and the walk may hold.               *)
TypeOK ==
    /\ dynamic_entries \in Stored /\ decisions \in Decided
    /\ \A a \in Admins : upserts[a] = None \/ upserts[a].entry \in Catalogue[upserts[a].id]
    /\ edits \in 0..MaxEdits
    /\ walk.pc \in {"idle", "body", "hop", "pool", "done"}
    /\ walk.pc \in {"body", "hop", "pool"} => walk.id \in Ids /\ IsProvider(walk.cur)
    /\ walk.visited \subseteq Ids
    /\ {walk.body_model, walk.in_flight_model} \subseteq Models
    /\ walk.outcome \in Outcomes \cup {None}

(* However the table is edited under it, a walk reads no provider twice,   *)
(* so it makes at most as many hops as there are ids (the visited set of   *)
(* resolve_route).                                                         *)
ChainIsSimple ==
    LET ids == [i \in DOMAIN walk.chain |-> walk.chain[i].id] IN
    \A i \in DOMAIN ids : ids[i] # walk.id /\ \A j \in 1..(i - 1) : ids[i] # ids[j]

(* Every walk that has its body ends in an answer (no busy loop over a     *)
(* cycle or over a pool's members).                                        *)
WalksEnd == walk.pc \in {"hop", "pool"} ~> walk.pc = "done"

(* The model the upstream is sent is the last rewrite on the chain, and    *)
(* each router matched the last rewrite before it (the pipeline semantics  *)
(* of upstream_model).                                                     *)
RewritesUpTo(n) ==
    {i \in 1..n : walk.chain[i].read.kind = "router"
                  /\ walk.chain[i].took.upstream_model # None}
LastRewrite(n, default) ==
    IF RewritesUpTo(n) = {} THEN default
    ELSE walk.chain[CHOOSE i \in RewritesUpTo(n) :
                      \A j \in RewritesUpTo(n) : j <= i].took.upstream_model

RewritesFeedForward ==
    /\ walk.model_rewrite = LastRewrite(Len(walk.chain), None)
    /\ \A i \in DOMAIN walk.chain :
         walk.chain[i].model = LastRewrite(i - 1, walk.chain[1].model)

(* Exhaustion seen in the answer is charged to the outermost pool and to   *)
(* the member that pool was left through, however pools nest.              *)
OutermostPoolIsCharged ==
    LET pools == {i \in DOMAIN walk.chain : walk.chain[i].read.kind = "pool"} IN
    IF pools = {} THEN walk.pool_hop = None
    ELSE LET first == walk.chain[FirstOf(pools)] IN
         walk.pool_hop = [pool_id |-> first.id, member_idx |-> first.took]

(* While nobody edits, a pool is left through the first candidate of its   *)
(* list that exists and is enabled.                                        *)
FirstUsableMemberServes ==
    \A i \in DOMAIN walk.chain :
      LET hop == walk.chain[i] IN
      edits = 0 /\ hop.read.kind = "pool" =>
        /\ Usable(hop.read.members[hop.took])
        /\ \A j \in hop.offered : Usable(hop.read.members[j]) => j >= hop.took

(* While nobody edits, a 503 "route cycle" is answered only for a table    *)
(* that has one, however pools fall back and nest ("a repeated id is a     *)
(* cycle", resolve_route).                                                 *)
CyclesAreReal ==
    edits = 0 /\ walk.outcome = "Cycle" => Cyclic(route_graph(table))

(* The same whatever is edited: a "route cycle" is answered only if the    *)
(* table had a cycle at some time.                                         *)
CycleErrorsComeFromCycles ==
    [](~Cyclic(route_graph(table))) => [](walk.outcome # "Cycle")

(* A table without cycles gets one only by showing an entry that nobody    *)
(* has checked against it: one that a decision or a reset brings back      *)
(* (neither makes a check), or one that was checked against another table  *)
(* than it is stored in.  Either way the check of an upsert, made in that  *)
(* moment, would have refused it.  (A request only reads the table: it is  *)
(* enough to look while there is none.)                                    *)
CycleCloses ==
    /\ walk.pc = "idle" /\ table' # table
    /\ ~Cyclic(route_graph(table)) /\ Cyclic(route_graph(table)')
BroughtBack(id) ==
    \/ decisions'[id] # decisions[id]
    \/ dynamic_entries[id] # None /\ dynamic_entries'[id] = None
CheckedElsewhere(id) ==
    \E a \in Admins : /\ upserts[a] # None /\ upserts'[a] = None
                      /\ upserts[a].id = id /\ upserts[a].read # table
ClosesUnchecked ==
    \E id \in Ids : /\ table'[id] \notin {None, table[id]}
                    /\ would_cycle(table, id, table'[id])
                    /\ BroughtBack(id) \/ CheckedElsewhere(id)
CyclesEnterUnchecked ==
    [][CycleCloses => ClosesUnchecked]_<<dynamic_entries, decisions>>

(* The scan behind the check of an upsert and the warning at a start, on   *)
(* every table edits lead to: what it reports is a closed path through     *)
(* distinct ids from the least of them, no knot of cycles stays without a  *)
(* report although done ids are not entered again, and the answer for an   *)
(* entry is whether a cycle can be reached from it.                        *)
ReportsAreCycles(g, reports) ==
    /\ IsInjective(reports)
    /\ \A c \in Range(reports) :
         /\ Len(c) > 1 /\ c[1] = Last(c) /\ IsInjective(Front(c))
         /\ \A k \in 1..(Len(c) - 1) :
              c[k + 1] \in Range(Targets(g, c[k])) /\ Rank(c[1]) <= Rank(c[k])
KnotsAreReported(g, reports) ==
    \A id \in DOMAIN g : OnCycle(g, id) =>
        \E c \in Range(reports) : c[1] \in Reachable(g, id) /\ id \in Reachable(g, c[1])
ScansAreExact ==
    walk.pc = "idle" =>
        /\ ReportsAreCycles(route_graph(table), find_cycles(table))
        /\ KnotsAreReported(route_graph(table), find_cycles(table))
        /\ \A id \in Ids : \A entry \in Catalogue[id] :
             would_cycle(table, id, entry) <=> CyclicFrom(GraphWith(table, id, entry), id)

(* From a table without cycles, legal edits one after another lead to no   *)
(* cycle; server.rs names hand-edited files and concurrent upserts as the  *)
(* only ways one can get in.                                               *)
EditedTablesStayAcyclic ==
    ~Cyclic(route_graph(table)) => [](~Cyclic(route_graph(table)))

(* Until a route rewrites it, the model a router matches is the one in the *)
(* request's body.                                                         *)
RoutersSeeTheRequestModel ==
    walk.pc = "hop" /\ walk.cur.kind = "router" /\ walk.model_rewrite = None
      => walk.in_flight_model = walk.body_model
===============================================================================
