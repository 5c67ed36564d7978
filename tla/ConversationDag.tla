--------------------------- MODULE ConversationDag ---------------------------
(***************************************************************************)
(* The conversation DAG of secret-guard (src/dag) and the requests that    *)
(* write it (src/proxy/recorder.rs, src/proxy/fan_out.rs).                 *)
(*                                                                         *)
(* Every forwarded request becomes one node: it shares the messages it has *)
(* in common with an earlier request and holds only its own delta.  Nodes  *)
(* that extend the leaf of a session continue it, the others open a new    *)
(* session, and whole sessions are evicted, least recently active first.   *)
(*                                                                         *)
(* Every action is one critical section of DagInner's lock, except that    *)
(* each turn of the eviction loop of push_messages is an action of its     *)
(* own: while a request is "evicting" it holds the write lock, and no      *)
(* action that needs the lock is enabled.                                  *)
(*                                                                         *)
(* A node keeps its chain of parents as the sequence "path", root first    *)
(* and the node itself last; an ancestor that is no longer in nodes is an  *)
(* absent parent.  A message stands for its (role, blocks): what hash and  *)
(* comparison see.  Block hashes are taken as injective (intern asserts    *)
(* it), prefix hashes are not.                                             *)
(***************************************************************************)
EXTENDS Naturals, Sequences, FiniteSets, FiniteSetsExt, SequencesExt

CONSTANTS
    Requests,       \* each names its node, and the session it may open
    Messages,
    Bodies,         \* message sequences a request may carry
    Systems,        \* system prompts: sequences of at most one message
    Replies,        \* messages the upstream may answer
    Blocks,
    Content,        \* message -> its blocks
    Hashes,
    Combine,        \* combine_hash: <<prefix hash, message>> -> prefix hash
    Modes,          \* audit_capture settings in use
    Ticks,          \* by how much the clock may advance between two requests
    MaxNodes, MaxSessions, MinSessions

ASSUME MessagesAssumption ==
    /\ Bodies \subseteq Seq(Messages)
    /\ Systems \subseteq Seq(Messages)
    /\ Replies \subseteq Messages
    /\ Content \in [Messages -> Seq(Blocks)]
ASSUME HashAssumption == 0 \in Hashes /\ Combine \in [Hashes \X Messages -> Hashes]
ASSUME ModesAssumption == Modes \subseteq {"off", "latest", "full"} /\ Modes # {}
ASSUME TicksAssumption == Ticks \subseteq Nat
ASSUME CapacityAssumption == {MaxNodes, MaxSessions, MinSessions} \subseteq Nat \ {0}

VARIABLES
    nodes,          \* node id -> Node
    sessions,       \* session id -> Session
    index,          \* prefix hash -> node ids, in push order
    refs,           \* block -> its refcount in the pool
    mode,           \* the audit_capture setting
    clock,          \* the wall clock, as far as requests tell it apart
    req             \* per request: where it is, and what it carries

dag == <<nodes, sessions, index, refs>>
vars == <<nodes, sessions, index, refs, mode, clock, req>>

NoReply == <<>>
NoResponse == [state |-> "none", reply |-> NoReply]
Placeholder == [state |-> "partial", reply |-> NoReply]
Final(state, reply) == [state |-> state, reply |-> reply]
NoParent == <<>>

Fresh == [pc |-> "new", body |-> <<>>, sys |-> <<>>, created |-> 0,
          mode |-> "off", reply |-> NoReply]
-----------------------------------------------------------------------------
(* BlockPool *)

\* How often the block b occurs in a sequence of messages.
Uses(ms, b) ==
    Cardinality({p \in UNION {{i} \X DOMAIN Content[ms[i]] : i \in DOMAIN ms} :
                   Content[ms[p[1]]][p[2]] = b})

Intern(rc, ms) == [b \in Blocks |-> rc[b] + Uses(ms, b)]

Less(a, b) == IF a > b THEN a - b ELSE 0

Release(rc, ms) == [b \in Blocks |-> Less(rc[b], Uses(ms, b))]

\* The messages whose blocks a node keeps in the pool.
Held(node) == node.delta \o node.sys \o node.resp.reply
-----------------------------------------------------------------------------
(* Queries on the DAG *)

\* accumulate_hash: the prefix hash after a sequence of messages.
Accumulate(init, ms) ==
    LET h[i \in 0 .. Len(ms)] == IF i = 0 THEN init ELSE Combine[h[i - 1], ms[i]]
    IN  h[Len(ms)]

\* The messages along the chain of node n, root first.
Chain(n) ==
    FlattenSeq([i \in DOMAIN nodes[n].path |-> nodes[nodes[n].path[i]].delta])

\* Variant: the hit is trusted, as before the content check existed.
PrefixTrusted(n, prefix) == n \in DOMAIN nodes /\ Len(Chain(n)) = Len(prefix)

\* prefix_chain_matches
PrefixChainMatches(n, prefix) ==
    /\ n \in DOMAIN nodes
    /\ \A i \in DOMAIN nodes[n].path : nodes[n].path[i] \in DOMAIN nodes
    /\ Chain(n) = prefix

Prefix(body, k) == SubSeq(body, 1, k)

\* The hits of find_parent that pass the content check: <<split_at, position
\* in the bucket>>.
Hits(body) ==
    {p \in UNION {{k} \X DOMAIN index[Accumulate(0, Prefix(body, k))] : k \in 1 .. Len(body)} :
       PrefixChainMatches(index[Accumulate(0, Prefix(body, p[1]))][p[2]], Prefix(body, p[1]))}

\* Variant: the first hit wins.
FindParentShallow(body) ==
    IF Hits(body) = {} THEN [parent |-> NoParent, split |-> 0]
    ELSE LET hit == CHOOSE p \in Hits(body) : \A q \in Hits(body) : p[1] <= q[1]
         IN  [parent |-> <<index[Accumulate(0, Prefix(body, hit[1]))][hit[2]]>>,
              split  |-> hit[1]]

\* find_parent: the deepest hit, among equals the one pushed last.
FindParent(body) ==
    IF Hits(body) = {} THEN [parent |-> NoParent, split |-> 0]
    ELSE LET hit == CHOOSE p \in Hits(body) :
                      \A q \in Hits(body) : p[1] > q[1] \/ (p[1] = q[1] /\ p[2] >= q[2])
         IN  [parent |-> <<index[Accumulate(0, Prefix(body, hit[1]))][hit[2]]>>,
              split  |-> hit[1]]

IsSessionHead(n) ==
    nodes[n].sid \in DOMAIN sessions /\ sessions[nodes[n].sid].leaf = n

IsInflight(resp) == resp.state \in {"none", "partial"}

\* Variant: the node just inserted is not counted.
MustEvictLate(ns, ss) ==
    /\ Cardinality(DOMAIN ns) > MaxNodes + 1 \/ Cardinality(DOMAIN ss) > MaxSessions
    /\ Cardinality(DOMAIN ss) > MinSessions

MustEvict(ns, ss) ==
    /\ Cardinality(DOMAIN ns) > MaxNodes \/ Cardinality(DOMAIN ss) > MaxSessions
    /\ Cardinality(DOMAIN ss) > MinSessions

\* gc_cascade: the leaf, and every ancestor all of whose children are gone.
Doomed(leaf) ==
    IF leaf \notin DOMAIN nodes THEN {}
    ELSE LET p == nodes[leaf].path IN
         {p[i] : i \in {i \in DOMAIN p :
                          \A j \in i .. Len(p) - 1 :
                            p[j] \in DOMAIN nodes /\ nodes[p[j]].children <= 1}}

Unlocked == \A q \in Requests : req[q].pc # "evicting"
-----------------------------------------------------------------------------
Init ==
    /\ nodes = <<>>
    /\ sessions = <<>>
    /\ index = [h \in Hashes |-> <<>>]
    /\ refs = [b \in Blocks |-> 0]
    /\ mode \in Modes
    /\ clock = 0
    /\ req = [r \in Requests |-> Fresh]

\* PUT /api/settings changes the capture mode of the requests built later.
SetMode ==
    /\ mode' \in Modes \ {mode}
    /\ UNCHANGED <<dag, clock, req>>

(***************************************************************************)
(* build_call_event: created_at is the time at which the request is built, *)
(* not the time at which it is pushed; the mode is a snapshot.             *)
(***************************************************************************)
Build(r) ==
    /\ req[r].pc = "new"
    /\ \E body \in Bodies, sys \in Systems, tick \in Ticks :
         /\ clock' = clock + tick
         /\ req' = [req EXCEPT ![r] = [pc |-> "built", body |-> body, sys |-> sys,
                                       created |-> clock + tick, mode |-> mode,
                                       reply |-> NoReply]]
    /\ UNCHANGED <<dag, mode>>

\* Variant: a fork stays in the session of its parent.
SessionOfParent(r, parent) == IF parent # NoParent THEN nodes[parent[1]].sid ELSE r

SessionOf(r, parent) ==
    IF parent # NoParent /\ IsSessionHead(parent[1]) THEN nodes[parent[1]].sid ELSE r

KindOf(body, split) ==
    IF split < Len(body) THEN "normal" ELSE IF body = <<>> THEN "no_messages" ELSE "retry"

NewNode(r, found) ==
    LET q == req[r]
        delta == SubSeq(q.body, found.split + 1, Len(q.body))
        up == found.parent
    IN  [path     |-> IF up = NoParent THEN <<r>> ELSE Append(nodes[up[1]].path, r),
         sid      |-> SessionOf(r, up),
         children |-> 0,
         delta    |-> delta,
         sys      |-> IF up = NoParent THEN q.sys ELSE <<>>,
         hash     |-> Accumulate(IF up = NoParent THEN 0 ELSE nodes[up[1]].hash, delta),
         kind     |-> KindOf(q.body, found.split),
         created  |-> q.created,
         mode     |-> q.mode,
         raw      |-> q.mode # "off",
         resp     |-> NoResponse]

\* The session of the new node: its leaf moves forward, or it opens.
Advanced(r, node, parent) ==
    IF node.sid \in DOMAIN sessions
      THEN [leaf   |-> r,
            root   |-> sessions[node.sid].root,
            count  |-> sessions[node.sid].count + 1,
            latest |-> Max({node.created, sessions[node.sid].latest})]
      ELSE [leaf   |-> r,
            root   |-> IF parent = NoParent THEN r ELSE parent[1],
            count  |-> 1,
            latest |-> node.created]

WithChild(parent) ==
    [n \in DOMAIN nodes |->
       IF parent = <<n>> THEN [nodes[n] EXCEPT !.children = @ + 1] ELSE nodes[n]]

With(f, x, v) == [y \in DOMAIN f \cup {x} |-> IF y = x THEN v ELSE f[y]]

Without(f, S) == [y \in DOMAIN f \ S |-> f[y]]

\* push_messages, up to the eviction loop, whose condition it evaluates.
Push(r) ==
    LET found == FindParent(req[r].body)
        node  == NewNode(r, found)
        kept  == Release(Intern(refs, req[r].body), Prefix(req[r].body, found.split))
    IN  /\ req[r].pc = "built" /\ Unlocked
        /\ nodes' = With(WithChild(found.parent), r, node)
        /\ sessions' = With(sessions, node.sid, Advanced(r, node, found.parent))
        /\ index' = [index EXCEPT ![node.hash] = Append(@, r)]
        /\ refs' = Intern(kept, node.sys)
        /\ req' = [req EXCEPT ![r].pc = IF MustEvict(nodes', sessions')
                                           THEN "evicting" ELSE "inflight"]
        /\ UNCHANGED <<mode, clock>>

(***************************************************************************)
(* One turn of evict_if_needed.  The victim is a session with the oldest   *)
(* latest_at: min_by_key over a HashMap breaks ties arbitrarily.           *)
(***************************************************************************)
Oldest == {s \in DOMAIN sessions :
             \A t \in DOMAIN sessions : sessions[s].latest <= sessions[t].latest}

\* Variant: gc forgets the response of the node it removes.
ReleaseAllButReplies(gone) ==
    [b \in Blocks |-> Less(refs[b], MapThenSumSet(
                         LAMBDA n : Uses(nodes[n].delta \o nodes[n].sys, b), gone))]

ReleaseAll(gone) ==
    [b \in Blocks |-> Less(refs[b], MapThenSumSet(LAMBDA n : Uses(Held(nodes[n]), b), gone))]

\* The parents outside "gone" of the nodes in it lose a child.
Bereaved(gone) ==
    [n \in DOMAIN nodes \ gone |->
       [nodes[n] EXCEPT !.children =
          Less(@, Cardinality({m \in gone :
                     LET p == nodes[m].path IN Len(p) > 1 /\ p[Len(p) - 1] = n}))]]

\* A sequence without the elements of a set, in the same order.
Filtered(seq, S) ==
    FlattenSeq([i \in DOMAIN seq |-> IF seq[i] \in S THEN <<>> ELSE <<seq[i]>>])

Unindexed(gone) == [h \in Hashes |-> Filtered(index[h], gone)]

Evict(r) ==
    /\ req[r].pc = "evicting"
    /\ \E victim \in Oldest :
         LET gone == Doomed(sessions[victim].leaf) IN
         /\ sessions' = Without(sessions, {victim})
         /\ nodes' = Bereaved(gone)
         /\ index' = Unindexed(gone)
         /\ refs' = ReleaseAll(gone)
    /\ req' = [req EXCEPT ![r].pc = IF MustEvict(nodes', sessions')
                                       THEN "evicting" ELSE "inflight"]
    /\ UNCHANGED <<mode, clock>>

(***************************************************************************)
(* update_parsed_response: the throttled partial view of a stream.         *)
(***************************************************************************)
SyncParsed(r) ==
    /\ req[r].pc \in {"inflight", "streaming"} /\ Unlocked
    /\ nodes' = IF r \in DOMAIN nodes /\ nodes[r].resp = NoResponse
                  THEN [nodes EXCEPT ![r].resp = Placeholder] ELSE nodes
    /\ req' = [req EXCEPT ![r].pc = "streaming"]
    /\ UNCHANGED <<sessions, index, refs, mode, clock>>

\* attach_finality interns the reply before, and apart from, attach_response.
InternReply(r) ==
    /\ req[r].pc \in {"inflight", "streaming"} /\ Unlocked
    /\ \E m \in Replies :
         /\ refs' = Intern(refs, <<m>>)
         /\ req' = [req EXCEPT ![r].pc = "interned", ![r].reply = <<m>>]
    /\ UNCHANGED <<nodes, sessions, index, mode, clock>>

Retain(m, isHead) == m = "full" \/ (m = "latest" /\ isHead)

Ancestors(n) == {nodes[n].path[i] : i \in 1 .. Len(nodes[n].path) - 1}

\* Variant: the walk ends at the first request in flight.
RecyclableUpToInflight(n) ==
    LET p == nodes[n].path IN
    {p[i] : i \in {i \in 1 .. Len(p) - 1 :
                     \A j \in i .. Len(p) - 1 :
                       p[j] \in DOMAIN nodes /\ ~IsInflight(nodes[p[j]].resp)}}

\* recycle_superseded_raws: the walk from the parent, up to an absent node.
Recyclable(n) ==
    LET p == nodes[n].path IN
    {p[i] : i \in {i \in 1 .. Len(p) - 1 : \A j \in i .. Len(p) - 1 : p[j] \in DOMAIN nodes}}

\* Phase 2 of attach_response on a node that is still there.
Settled(r, resp) ==
    LET self == nodes[r]
        kept == self.raw \/ resp.state = "answered"
    IN  [n \in DOMAIN nodes |->
           IF n = r
             THEN [self EXCEPT !.resp = resp,
                               !.raw = kept /\ Retain(self.mode, IsSessionHead(r))]
           ELSE IF /\ self.mode = "latest" /\ n \in Recyclable(r)
                   /\ ~IsInflight(nodes[n].resp)
             THEN [nodes[n] EXCEPT !.raw = FALSE]
           ELSE nodes[n]]

AttachResponse(r, resp) ==
    /\ Unlocked
    /\ IF r \in DOMAIN nodes
         THEN /\ refs' = Release(refs, nodes[r].resp.reply)
              /\ nodes' = Settled(r, resp)
         ELSE /\ refs' = Release(refs, resp.reply)
              /\ UNCHANGED nodes
    /\ UNCHANGED <<sessions, index, mode, clock>>

\* attach_finality, then disarm: with the reply, or without one when the
\* response could not be parsed.
Attach(r) ==
    /\ req[r].pc \in {"inflight", "streaming", "interned"}
    /\ AttachResponse(r, Final("answered", req[r].reply))
    /\ req' = [req EXCEPT ![r].pc = "done", ![r].reply = NoReply]

\* send_upstream_or_fail: 502 or 504 before any response byte.
Fail(r) ==
    /\ req[r].pc = "inflight"
    /\ AttachResponse(r, Final("failed", NoReply))
    /\ req' = [req EXCEPT ![r].pc = "failed"]

\* Variant: the guard does not look before it attaches.
GuardBlind(r) ==
    /\ req[r].pc \in {"inflight", "streaming", "failed"} /\ Unlocked
    /\ req' = [req EXCEPT ![r].pc = "aborting"]
    /\ UNCHANGED <<dag, mode, clock>>

(***************************************************************************)
(* InflightGuard::drop, armed: after a 502 or 504, a panic, or when the    *)
(* client goes away.  It reads the node in one critical section and        *)
(* attaches in another.                                                    *)
(***************************************************************************)
GuardCheck(r) ==
    /\ req[r].pc \in {"inflight", "streaming", "failed"} /\ Unlocked
    /\ req' = [req EXCEPT ![r].pc =
                 IF r \in DOMAIN nodes /\ ~IsInflight(nodes[r].resp) THEN "done" ELSE "aborting"]
    /\ UNCHANGED <<dag, mode, clock>>

\* Variant: the guard gives up.
GuardGivesUp(r) ==
    /\ req[r].pc = "aborting"
    /\ req' = [req EXCEPT ![r].pc = "done"]
    /\ UNCHANGED <<dag, mode, clock>>

GuardAttach(r) ==
    /\ req[r].pc = "aborting"
    /\ AttachResponse(r, Final("aborted", NoReply))
    /\ req' = [req EXCEPT ![r].pc = "done"]

Step(r) == Build(r) \/ Push(r) \/ Evict(r) \/ SyncParsed(r) \/ InternReply(r)
             \/ Attach(r) \/ Fail(r) \/ GuardCheck(r) \/ GuardAttach(r)

Next == SetMode \/ \E r \in Requests : Step(r)

Spec == Init /\ [][Next]_vars
-----------------------------------------------------------------------------
(* Properties *)

Node == [path : Seq(Requests), sid : Requests, children : Nat, delta : Seq(Messages),
         sys : Systems \cup {<<>>}, hash : Hashes,
         kind : {"normal", "retry", "no_messages"}, created : Nat, mode : Modes,
         raw : BOOLEAN,
         resp : [state : {"none", "partial", "answered", "failed", "aborted"},
                 reply : {NoReply} \cup {<<m>> : m \in Replies}]]

Session == [leaf : Requests, root : Requests, count : Nat, latest : Nat]

Request == [pc : {"new", "built", "evicting", "inflight", "streaming", "interned",
                  "failed", "aborting", "done"},
            body : Bodies \cup {<<>>}, sys : Systems \cup {<<>>}, created : Nat,
            mode : Modes \cup {"off"}, reply : {NoReply} \cup {<<m>> : m \in Replies}]

\* Types of the store and of the requests.
TypeOK ==
    /\ DOMAIN nodes \subseteq Requests /\ \A n \in DOMAIN nodes : nodes[n] \in Node
    /\ DOMAIN sessions \subseteq Requests
    /\ \A s \in DOMAIN sessions : sessions[s] \in Session
    /\ index \in [Hashes -> Seq(Requests)]
    /\ refs \in [Blocks -> Nat]
    /\ mode \in Modes
    /\ clock \in Nat
    /\ req \in [Requests -> Request]

(***************************************************************************)
(* CDAG-3: a block's refcount is the number of its uses by the nodes that  *)
(* are left and by replies interned and not yet attached.  No leak, and    *)
(* no block freed under a reader, whatever was shared, forked, evicted or  *)
(* attached too late.                                                      *)
(***************************************************************************)
RefcountsExact ==
    \A b \in Blocks :
      refs[b] = MapThenSumSet(LAMBDA n : Uses(Held(nodes[n]), b), DOMAIN nodes)
                  + MapThenSumSet(LAMBDA r : Uses(req[r].reply, b), Requests)

ParentOf(n) ==
    LET p == nodes[n].path IN IF Len(p) = 1 THEN NoParent ELSE <<p[Len(p) - 1]>>

(***************************************************************************)
(* The two structures the others trust: child_count, by which gc_cascade   *)
(* deletes (CDAG-11), is the number of children that are left, and no node *)
(* outlives its parent; prefix_index, from which parents are taken, lists  *)
(* every node, once, under the hash of its whole chain, and nothing else.  *)
(***************************************************************************)
LinksExact ==
    /\ \A n \in DOMAIN nodes :
         /\ nodes[n].children = Cardinality({m \in DOMAIN nodes : ParentOf(m) = <<n>>})
         /\ ParentOf(n) # NoParent => ParentOf(n)[1] \in DOMAIN nodes
         /\ nodes[n].hash = Accumulate(0, Chain(n))
    /\ \A h \in Hashes :
         /\ IsInjective(index[h])
         /\ ToSet(index[h]) = {n \in DOMAIN nodes : nodes[n].hash = h}

(***************************************************************************)
(* Every session points at a tip of the DAG and every tip is the leaf of   *)
(* its session, so no node is out of reach of eviction; the session's root *)
(* is on the leaf's chain; and its count and its last activity are those   *)
(* of the nodes that carry its id.                                         *)
(***************************************************************************)
SessionsAreTips ==
    /\ \A n \in DOMAIN nodes : nodes[n].children = 0 <=> IsSessionHead(n)
    /\ \A s \in DOMAIN sessions :
         LET own == {n \in DOMAIN nodes : nodes[n].sid = s}
             t   == sessions[s]
         IN  /\ t.leaf \in own
             /\ t.root \in DOMAIN nodes /\ t.root \in ToSet(nodes[t.leaf].path)
             /\ t.count = Cardinality(own)
             /\ t.latest = Max({nodes[n].created : n \in own})

(***************************************************************************)
(* What push and gc_cascade maintain step by step (counts, index, sessions)*)
(* is what could be computed from the nodes alone.                         *)
(***************************************************************************)
DerivedStateIsExact == LinksExact /\ SessionsAreTips

(***************************************************************************)
(* CDAG-10: whatever prefix hashes collide, the messages along a node's    *)
(* chain are the body of its request.                                      *)
(***************************************************************************)
ConversationIsExact == \A n \in DOMAIN nodes : Chain(n) = req[n].body

\* Outside a push the store is within its limits, or down to MinSessions.
WithinCapacity ==
    Unlocked => \/ /\ Cardinality(DOMAIN nodes) <= MaxNodes
                   /\ Cardinality(DOMAIN sessions) <= MaxSessions
                \/ Cardinality(DOMAIN sessions) <= MinSessions

(***************************************************************************)
(* Capture mode "latest": a settled request that a later settled one has   *)
(* superseded, here or in a fork, keeps no audit body, and the settled     *)
(* head of a session keeps its own.                                        *)
(***************************************************************************)
AuditFollowsHeads ==
    \A n \in DOMAIN nodes :
      nodes[n].mode = "latest" /\ ~IsInflight(nodes[n].resp) =>
        /\ nodes[n].raw =>
             \A m \in DOMAIN nodes : n \in Ancestors(m) /\ nodes[m].mode = "latest"
                                       => IsInflight(nodes[m].resp)
        /\ IsSessionHead(n) => nodes[n].raw

(***************************************************************************)
(* A push hangs the request under the deepest node whose conversation is a *)
(* prefix of its body; in particular a body the store already has is a     *)
(* retry of a node that has it, and nothing else is.                       *)
(***************************************************************************)
DeepestParentFound ==
    [][\A r \in DOMAIN nodes' \ DOMAIN nodes :
         LET body  == req[r].body
             depth == Max({0} \cup {Len(Chain(n)) : n \in {n \in DOMAIN nodes :
                                                            IsPrefix(Chain(n), body)}})
         IN  /\ Len(nodes'[r].delta) = Len(body) - depth
             /\ nodes'[r].kind = "retry" <=> body # <<>> /\ depth = Len(body)]_vars

(***************************************************************************)
(* The doc of round_kind_of: the session of a node just pushed is the most *)
(* recent of all, so the push never evicts the node it pushed.             *)
(***************************************************************************)
JustPushedSurvives ==
    [][\A r \in Requests :
         req[r].pc \in {"built", "evicting"} /\ req'[r].pc = "inflight"
           => r \in DOMAIN nodes']_vars

(***************************************************************************)
(* The records that readers of the store see.                              *)
(***************************************************************************)
Lifecycle ==
    INSTANCE RecordLifecycle WITH
      Outcomes <- {"answered", "failed", "aborted"},
      record <- [r \in Requests |->
                   IF r \in DOMAIN nodes
                     THEN IF IsInflight(nodes[r].resp) THEN "pending" ELSE nodes[r].resp.state
                   ELSE IF req[r].pc \in {"new", "built"} THEN "absent" ELSE "forgotten"],
      over <- {r \in Requests : req[r].pc = "done"}

RecordsSettleOnce == Lifecycle!Spec

(***************************************************************************)
(* The timeouts of send_upstream_or_fail and next_chunk, and the guard,    *)
(* keep a forwarded request from waiting for ever.                         *)
(***************************************************************************)
Ending(r) == InternReply(r) \/ Attach(r) \/ Fail(r) \/ GuardCheck(r) \/ GuardAttach(r)

FairSpec == Spec /\ \A r \in Requests : WF_vars(Evict(r)) /\ WF_vars(Ending(r))

\* A pending record settles or is evicted.
EveryRecordSettles ==
    \A r \in Requests :
      r \in DOMAIN nodes ~> (r \in DOMAIN nodes => ~IsInflight(nodes[r].resp))
=============================================================================
