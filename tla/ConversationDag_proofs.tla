----------------------- MODULE ConversationDag_proofs -----------------------
(***************************************************************************)
(* Proofs about ConversationDag for every set of requests, messages and    *)
(* bodies, every hash and every limit.                                     *)
(*                                                                         *)
(* Four invariants carry them.  RecordInv: where a request is and what     *)
(* its node records go together.  CapacityInv: outside a push there is     *)
(* nothing to evict.  StructInv: the paths of the nodes are closed and     *)
(* simple, and child counts, hashes, the index and the sessions are what   *)
(* the nodes say; AuditInv adds what of the bodies is kept.  RefInv: a     *)
(* refcount is the sum of what nodes and requests hold.                    *)
(***************************************************************************)
EXTENDS ConversationDag, DataLemmas

Response == [state : {"none", "partial", "answered", "failed", "aborted"},
             reply : {NoReply} \cup {<<m>> : m \in Replies}]

\* What a step reads of the requests and of the clock.
RequestsOK == mode \in Modes /\ clock \in Nat /\ req \in [Requests -> Request]

(***************************************************************************)
(* A node is there only from the push of its request on, is in flight      *)
(* until the request settles it, and has the fields that steps update.     *)
(***************************************************************************)
NodeFields == {"path", "sid", "children", "delta", "sys", "hash", "kind", "created",
               "mode", "raw", "resp"}

RecordInv ==
    /\ DOMAIN nodes \subseteq Requests
    /\ \A n \in DOMAIN nodes :
         /\ NodeFields \subseteq DOMAIN nodes[n]
         /\ nodes[n].resp \in Response
         /\ req[n].pc \notin {"new", "built"}
         /\ req[n].pc \in {"evicting", "inflight", "streaming", "interned", "aborting"}
              => IsInflight(nodes[n].resp)

\* The limits, and the finiteness of what they limit.
CapacityInv ==
    /\ IsFiniteSet(DOMAIN nodes) /\ IsFiniteSet(DOMAIN sessions)
    /\ Unlocked => ~ MustEvict(nodes, sessions)
-----------------------------------------------------------------------------
\* The requests start in their type.
LEMMA InitRequestsOK == Init => RequestsOK
  BY DEF Init, RequestsOK, Request, Fresh, NoReply

PCs == {"new", "built", "evicting", "inflight", "streaming", "interned", "failed",
        "aborting", "done"}

ReplyOf == {NoReply} \cup {<<m>> : m \in Replies}

\* What an action does to the program counters: it moves that of its own request.
Moves(r, from, to) ==
    /\ req[r].pc \in from /\ req'[r].pc \in to
    /\ \A q \in Requests \ {r} : req'[q] = req[q]

\* A request keeps its type when its program counter changes ...
LEMMA PcUpdate ==
    ASSUME RequestsOK, NEW r \in Requests, NEW pc \in PCs, req' = [req EXCEPT ![r].pc = pc],
           mode' \in Modes, clock' \in Nat
    PROVE  /\ RequestsOK' /\ req'[r].pc = pc
           /\ \A q \in Requests \ {r} : req'[q] = req[q]
<1>1. req[r] \in Request
  BY DEF RequestsOK
<1>2. [req[r] EXCEPT !.pc = pc] \in Request /\ [req[r] EXCEPT !.pc = pc].pc = pc
  BY <1>1 DEF Request, PCs
<1> QED
  BY <1>2 DEF RequestsOK

\* ... and when its reply changes with it.
LEMMA ReplyUpdate ==
    ASSUME RequestsOK, NEW r \in Requests, NEW pc \in PCs, NEW reply \in ReplyOf,
           req' = [req EXCEPT ![r].pc = pc, ![r].reply = reply],
           mode' \in Modes, clock' \in Nat
    PROVE  /\ RequestsOK' /\ req'[r].pc = pc
           /\ \A q \in Requests \ {r} : req'[q] = req[q]
<1>1. req[r] \in Request
  BY DEF RequestsOK
<1>2. /\ [req[r] EXCEPT !.pc = pc, !.reply = reply] \in Request
      /\ [req[r] EXCEPT !.pc = pc, !.reply = reply].pc = pc
  BY <1>1 DEF Request, PCs, ReplyOf
<1>3. req' = [req EXCEPT ![r] = [req[r] EXCEPT !.pc = pc, !.reply = reply]]
  BY DEF RequestsOK
<1> QED
  BY <1>2, <1>3 DEF RequestsOK

\* Every action of a request moves its own program counter, as the handler does.
LEMMA StepMoves ==
    ASSUME RequestsOK, NEW r \in Requests, Step(r)
    PROVE  /\ RequestsOK'
           /\ Build(r) => Moves(r, {"new"}, {"built"})
           /\ Push(r) => Moves(r, {"built"}, {"evicting", "inflight"})
           /\ Evict(r) => Moves(r, {"evicting"}, {"evicting", "inflight"})
           /\ SyncParsed(r) => Moves(r, {"inflight", "streaming"}, {"streaming"})
           /\ InternReply(r) => Moves(r, {"inflight", "streaming"}, {"interned"})
           /\ Attach(r) => Moves(r, {"inflight", "streaming", "interned"}, {"done"})
           /\ Fail(r) => Moves(r, {"inflight"}, {"failed"})
           /\ GuardCheck(r) =>
                Moves(r, {"inflight", "streaming", "failed"}, {"done", "aborting"})
           /\ GuardAttach(r) => Moves(r, {"aborting"}, {"done"})
<1> USE DEF Moves
<1>1. ASSUME Build(r) PROVE RequestsOK' /\ Moves(r, {"new"}, {"built"})
  <2>1. PICK body \in Bodies, sys \in Systems, tick \in Ticks :
          /\ clock' = clock + tick
          /\ req' = [req EXCEPT ![r] = [pc |-> "built", body |-> body, sys |-> sys,
                                        created |-> clock + tick, mode |-> mode,
                                        reply |-> NoReply]]
    BY <1>1 DEF Build
  <2>2. clock + tick \in Nat /\ mode' = mode /\ req[r].pc = "new"
    BY <1>1, TicksAssumption DEF RequestsOK, Build
  <2>3. [pc |-> "built", body |-> body, sys |-> sys, created |-> clock + tick,
         mode |-> mode, reply |-> NoReply] \in Request
    BY <2>2 DEF RequestsOK, Request
  <2> QED
    BY <2>1, <2>2, <2>3 DEF RequestsOK
<1>2. ASSUME Push(r)
      PROVE  RequestsOK' /\ Moves(r, {"built"}, {"evicting", "inflight"})
  <2> DEFINE pc == IF MustEvict(nodes', sessions') THEN "evicting" ELSE "inflight"
  <2>1. pc \in {"evicting", "inflight"} /\ pc \in PCs
    BY DEF PCs
  <2>2. req' = [req EXCEPT ![r].pc = pc]
    BY <1>2 DEF Push
  <2>3. req[r].pc \in {"built"} /\ mode' \in Modes /\ clock' \in Nat
    BY <1>2 DEF Push, RequestsOK
  <2> HIDE DEF pc
  <2> QED
    BY <2>1, <2>2, <2>3, PcUpdate
<1>3. ASSUME Evict(r)
      PROVE  RequestsOK' /\ Moves(r, {"evicting"}, {"evicting", "inflight"})
  <2> DEFINE pc == IF MustEvict(nodes', sessions') THEN "evicting" ELSE "inflight"
  <2>1. pc \in {"evicting", "inflight"} /\ pc \in PCs
    BY DEF PCs
  <2>2. req' = [req EXCEPT ![r].pc = pc]
    BY <1>3 DEF Evict
  <2>3. req[r].pc \in {"evicting"} /\ mode' \in Modes /\ clock' \in Nat
    BY <1>3 DEF Evict, RequestsOK
  <2> HIDE DEF pc
  <2> QED
    BY <2>1, <2>2, <2>3, PcUpdate
<1>4. ASSUME SyncParsed(r) PROVE RequestsOK' /\ Moves(r, {"inflight", "streaming"}, {"streaming"})
  BY <1>4, PcUpdate DEF SyncParsed, RequestsOK, PCs
<1>5. ASSUME InternReply(r)
      PROVE  RequestsOK' /\ Moves(r, {"inflight", "streaming"}, {"interned"})
  <2>1. PICK m \in Replies : req' = [req EXCEPT ![r].pc = "interned", ![r].reply = <<m>>]
    BY <1>5 DEF InternReply
  <2>2. <<m>> \in ReplyOf
    BY DEF ReplyOf
  <2>3. req[r].pc \in {"inflight", "streaming"} /\ mode' \in Modes /\ clock' \in Nat
    BY <1>5 DEF InternReply, RequestsOK
  <2> QED
    BY <2>1, <2>2, <2>3, ReplyUpdate DEF PCs
<1>6. ASSUME Attach(r)
      PROVE  RequestsOK' /\ Moves(r, {"inflight", "streaming", "interned"}, {"done"})
  <2>1. NoReply \in ReplyOf
    BY DEF ReplyOf
  <2>2. req' = [req EXCEPT ![r].pc = "done", ![r].reply = NoReply]
    BY <1>6 DEF Attach
  <2>3. /\ req[r].pc \in {"inflight", "streaming", "interned"}
        /\ mode' \in Modes /\ clock' \in Nat
    BY <1>6 DEF Attach, AttachResponse, RequestsOK
  <2> QED
    BY <2>1, <2>2, <2>3, ReplyUpdate DEF PCs
<1>7. ASSUME Fail(r) PROVE RequestsOK' /\ Moves(r, {"inflight"}, {"failed"})
  BY <1>7, PcUpdate DEF Fail, RequestsOK, PCs, AttachResponse
<1>8. ASSUME GuardCheck(r)
      PROVE  RequestsOK' /\ Moves(r, {"inflight", "streaming", "failed"}, {"done", "aborting"})
  <2> DEFINE pc == IF r \in DOMAIN nodes /\ ~IsInflight(nodes[r].resp) THEN "done" ELSE "aborting"
  <2>1. pc \in {"done", "aborting"} /\ pc \in PCs
    BY DEF PCs
  <2>2. req' = [req EXCEPT ![r].pc = pc]
    BY <1>8 DEF GuardCheck
  <2>3. req[r].pc \in {"inflight", "streaming", "failed"} /\ mode' \in Modes /\ clock' \in Nat
    BY <1>8 DEF GuardCheck, RequestsOK
  <2> HIDE DEF pc
  <2> QED
    BY <2>1, <2>2, <2>3, PcUpdate
<1>9. ASSUME GuardAttach(r) PROVE RequestsOK' /\ Moves(r, {"aborting"}, {"done"})
  BY <1>9, PcUpdate DEF GuardAttach, RequestsOK, PCs, AttachResponse
<1> HIDE DEF Moves
<1> QED
  BY <1>1, <1>2, <1>3, <1>4, <1>5, <1>6, <1>7, <1>8, <1>9 DEF Step

\* Outside Push and Evict no node comes, goes or moves: what changes is the
\* response of the node of the request, and who keeps a raw body.
SameNodes(touched) ==
    /\ DOMAIN nodes' = DOMAIN nodes
    /\ \A n \in DOMAIN nodes :
         /\ DOMAIN nodes'[n] = DOMAIN nodes[n]
         /\ \A field \in NodeFields \ {"raw", "resp"} : nodes'[n][field] = nodes[n][field]
         /\ n \notin touched => nodes'[n].resp = nodes[n].resp

\* Settling a record changes raw and resp of its node only.
LEMMA SettledNodes ==
    ASSUME RecordInv, NEW r, NEW resp, nodes' = Settled(r, resp)
    PROVE  SameNodes({r}) /\ (r \in DOMAIN nodes => nodes'[r].resp = resp)
<1> SUFFICES ASSUME NEW n \in DOMAIN nodes
             PROVE  /\ DOMAIN nodes'[n] = DOMAIN nodes[n]
                    /\ \A field \in NodeFields \ {"raw", "resp"} : nodes'[n][field] = nodes[n][field]
                    /\ nodes'[n].resp = IF n = r THEN resp ELSE nodes[n].resp
  <2>1. DOMAIN nodes' = DOMAIN nodes
    BY DEF Settled
  <2> QED
    BY <2>1 DEF SameNodes
<1>1. NodeFields \subseteq DOMAIN nodes[n]
  BY DEF RecordInv
<1>2. \/ nodes'[n] = nodes[n] /\ n # r
      \/ nodes'[n] = [nodes[n] EXCEPT !.raw = FALSE] /\ n # r
      \/ /\ n = r
         /\ \E raw : nodes'[n] = [nodes[n] EXCEPT !.resp = resp, !.raw = raw]
  BY DEF Settled
<1> QED
  BY <1>1, <1>2 DEF NodeFields

\* So does attaching a response, whether the node is still there or not.
LEMMA AttachNodes ==
    ASSUME RecordInv, NEW r, NEW resp, AttachResponse(r, resp)
    PROVE  SameNodes({r}) /\ (r \in DOMAIN nodes => nodes'[r].resp = resp)
<1>1. CASE r \in DOMAIN nodes
  BY <1>1, SettledNodes DEF AttachResponse
<1>2. CASE r \notin DOMAIN nodes
  BY <1>2 DEF AttachResponse, SameNodes
<1> QED
  BY <1>1, <1>2

\* The node that a push adds, beside the ones that are there.
LEMMA PushNodes ==
    ASSUME RecordInv, NEW r \in Requests, Push(r)
    PROVE  /\ r \notin DOMAIN nodes /\ DOMAIN nodes' = DOMAIN nodes \cup {r}
           /\ nodes'[r] = NewNode(r, FindParent(req[r].body))
           /\ nodes'[r].resp = NoResponse
           /\ \A n \in DOMAIN nodes :
                /\ DOMAIN nodes'[n] = DOMAIN nodes[n]
                /\ \A field \in NodeFields \ {"children"} : nodes'[n][field] = nodes[n][field]
<1> DEFINE found == FindParent(req[r].body)
           node  == NewNode(r, found)
<1>1. nodes' = With(WithChild(found.parent), r, node) /\ r \notin DOMAIN nodes
  BY DEF Push, RecordInv
<1>2. node.resp = NoResponse
  BY DEF NewNode
<1> HIDE DEF found, node
<1>3. DOMAIN WithChild(found.parent) = DOMAIN nodes
  BY DEF WithChild
<1>4. /\ DOMAIN nodes' = DOMAIN nodes \cup {r} /\ nodes'[r] = node
      /\ \A n \in DOMAIN nodes : nodes'[n] = WithChild(found.parent)[n]
  BY <1>1, <1>3 DEF With
<1>5. ASSUME NEW n \in DOMAIN nodes
      PROVE  /\ DOMAIN nodes'[n] = DOMAIN nodes[n]
             /\ \A field \in NodeFields \ {"children"} : nodes'[n][field] = nodes[n][field]
  <2>1. NodeFields \subseteq DOMAIN nodes[n]
    BY DEF RecordInv
  <2>2. nodes'[n] \in {nodes[n], [nodes[n] EXCEPT !.children = @ + 1]}
    BY <1>4 DEF WithChild
  <2> QED
    BY <2>1, <2>2 DEF NodeFields
<1> QED
  BY <1>1, <1>2, <1>4, <1>5 DEF node, found

\* What an eviction leaves: the nodes outside "gone", which lose children only.
LEMMA EvictNodes ==
    ASSUME RecordInv, NEW r \in Requests, Evict(r)
    PROVE  \E victim \in Oldest :
             LET gone == Doomed(sessions[victim].leaf) IN
             /\ nodes' = Bereaved(gone) /\ sessions' = Without(sessions, {victim})
             /\ DOMAIN nodes' = DOMAIN nodes \ gone
             /\ \A n \in DOMAIN nodes \ gone :
                  /\ DOMAIN nodes'[n] = DOMAIN nodes[n]
                  /\ \A field \in NodeFields \ {"children"} : nodes'[n][field] = nodes[n][field]
<1>1. PICK victim \in Oldest : /\ nodes' = Bereaved(Doomed(sessions[victim].leaf))
                              /\ sessions' = Without(sessions, {victim})
  BY DEF Evict
<1> DEFINE gone == Doomed(sessions[victim].leaf)
<1>2. nodes' = Bereaved(gone)
  BY <1>1
<1> HIDE DEF gone
<1>3. DOMAIN nodes' = DOMAIN nodes \ gone
  BY <1>2 DEF Bereaved
<1>4. ASSUME NEW n \in DOMAIN nodes \ gone
      PROVE  /\ DOMAIN nodes'[n] = DOMAIN nodes[n]
             /\ \A field \in NodeFields \ {"children"} : nodes'[n][field] = nodes[n][field]
  <2>1. NodeFields \subseteq DOMAIN nodes[n]
    BY DEF RecordInv
  <2>2. PICK children : nodes'[n] = [nodes[n] EXCEPT !.children = children]
    BY <1>2 DEF Bereaved
  <2> QED
    BY <2>1, <2>2 DEF NodeFields
<1> QED
  BY <1>1, <1>2, <1>3, <1>4 DEF gone
-----------------------------------------------------------------------------
\* The records' invariant holds of the empty store.
LEMMA InitRecordInv == Init => RecordInv
  BY DEF Init, RecordInv

\* The steps of a request keep the records' invariant.
LEMMA StepRecordInv ==
    ASSUME RequestsOK, RecordInv, NEW r \in Requests, Step(r)
    PROVE  RecordInv'
<1> USE DEF Moves
<1>1. CASE Build(r)
  BY <1>1, StepMoves DEF Build, dag, RecordInv
<1>2. CASE Push(r)
  <2>1. NodeFields \subseteq DOMAIN nodes'[r] /\ NoResponse \in Response
    BY <1>2, PushNodes DEF NewNode, NodeFields, NoResponse, Response
  <2>2. IsInflight(NoResponse)
    BY DEF IsInflight, NoResponse
  <2>3. /\ DOMAIN nodes' = DOMAIN nodes \cup {r} /\ r \notin DOMAIN nodes
        /\ nodes'[r].resp = NoResponse
        /\ \A n \in DOMAIN nodes : /\ DOMAIN nodes'[n] = DOMAIN nodes[n]
                                  /\ nodes'[n].resp = nodes[n].resp
    BY <1>2, PushNodes DEF NodeFields
  <2>4. Moves(r, {"built"}, {"evicting", "inflight"})
    BY <1>2, StepMoves
  <2> QED
    BY <2>1, <2>2, <2>3, <2>4 DEF RecordInv
<1>3. CASE Evict(r)
  <2>1. PICK gone : /\ DOMAIN nodes' = DOMAIN nodes \ gone
                    /\ \A n \in DOMAIN nodes \ gone :
                         /\ DOMAIN nodes'[n] = DOMAIN nodes[n]
                         /\ nodes'[n].resp = nodes[n].resp
    BY <1>3, EvictNodes DEF NodeFields
  <2> QED
    BY <1>3, <2>1, StepMoves DEF RecordInv
<1>4. CASE SyncParsed(r)
  <2>1. PICK resp \in {NoResponse, Placeholder} :
          nodes' = nodes \/ (r \in DOMAIN nodes /\ nodes' = [nodes EXCEPT ![r].resp = resp])
    BY <1>4 DEF SyncParsed
  <2>2. resp \in Response /\ IsInflight(resp)
    BY <2>1 DEF NoResponse, Placeholder, Response, IsInflight
  <2>3. CASE nodes' = nodes
    BY <1>4, <2>3, StepMoves DEF RecordInv
  <2>4. CASE r \in DOMAIN nodes /\ nodes' = [nodes EXCEPT ![r].resp = resp]
    <3>1. /\ DOMAIN nodes' = DOMAIN nodes
          /\ \A n \in DOMAIN nodes : DOMAIN nodes'[n] = DOMAIN nodes[n]
          /\ nodes'[r].resp = resp
          /\ \A n \in DOMAIN nodes \ {r} : nodes'[n] = nodes[n]
      BY <2>4 DEF RecordInv, NodeFields
    <3> QED
      BY <1>4, <2>2, <3>1, StepMoves DEF RecordInv
  <2> QED
    BY <2>1, <2>3, <2>4
<1>5. CASE InternReply(r)
  BY <1>5, StepMoves DEF InternReply, RecordInv
<1>6. ASSUME NEW state \in {"answered", "failed", "aborted"}, NEW reply \in ReplyOf,
             AttachResponse(r, Final(state, reply)),
             Moves(r, {"inflight", "streaming", "interned", "aborting"}, {"done", "failed"})
      PROVE  RecordInv'
  <2>1. Final(state, reply) \in Response
    BY DEF Final, Response, ReplyOf
  <2> QED
    BY <1>6, <2>1, AttachNodes DEF RecordInv, SameNodes
<1>7. CASE Attach(r)
  BY <1>7, <1>6, StepMoves DEF Attach, RequestsOK, Request, ReplyOf
<1>8. CASE Fail(r)
  BY <1>8, <1>6, StepMoves DEF Fail, ReplyOf
<1>9. CASE GuardCheck(r)
  <2>1. nodes' = nodes
    BY <1>9 DEF GuardCheck, dag
  <2>2. req'[r].pc = "aborting" /\ r \in DOMAIN nodes => IsInflight(nodes[r].resp)
    BY <1>9 DEF GuardCheck, RequestsOK, Request
  <2> QED
    BY <1>9, <2>1, <2>2, StepMoves DEF RecordInv
<1>10. CASE GuardAttach(r)
  BY <1>10, <1>6, StepMoves DEF GuardAttach, ReplyOf
<1> QED
  BY <1>1, <1>2, <1>3, <1>4, <1>5, <1>7, <1>8, <1>9, <1>10 DEF Step

\* Every step keeps the records' invariant.
LEMMA NextRecordInv ==
    RequestsOK /\ RecordInv /\ [Next]_vars => RequestsOK' /\ RecordInv'
<1> SUFFICES ASSUME RequestsOK, RecordInv, [Next]_vars PROVE RequestsOK' /\ RecordInv'
  OBVIOUS
<1>1. CASE SetMode
  BY <1>1 DEF SetMode, dag, RequestsOK, RecordInv
<1>2. ASSUME NEW r \in Requests, Step(r) PROVE RequestsOK' /\ RecordInv'
  BY <1>2, StepMoves, StepRecordInv
<1>3. CASE UNCHANGED vars
  BY <1>3 DEF vars, RequestsOK, RecordInv
<1> QED
  BY <1>1, <1>2, <1>3 DEF Next
-----------------------------------------------------------------------------
(* The limits *)

\* The empty store is within its limits.
LEMMA InitCapacityInv == Init => CapacityInv
<1> SUFFICES ASSUME Init PROVE CapacityInv
  OBVIOUS
<1>1. DOMAIN nodes = {} /\ DOMAIN sessions = {}
  BY DEF Init
<1> QED
  BY <1>1, FS_EmptySet, CapacityAssumption DEF CapacityInv, MustEvict

\* The steps of a request keep the limits: a push holds the lock until nothing is over.
LEMMA StepCapacityInv ==
    ASSUME RequestsOK, RecordInv, CapacityInv, NEW r \in Requests, Step(r)
    PROVE  CapacityInv'
<1> USE DEF Moves
<1>1. ASSUME DOMAIN nodes' = DOMAIN nodes, sessions' = sessions, Unlocked' => Unlocked
      PROVE  CapacityInv'
  BY <1>1 DEF CapacityInv, MustEvict
<1>2. ASSUME Moves(r, PCs \ {"evicting"}, PCs) PROVE Unlocked' => Unlocked
  BY <1>2 DEF Unlocked
<1>3. ASSUME IsFiniteSet(DOMAIN nodes'), IsFiniteSet(DOMAIN sessions'),
             req' = [req EXCEPT ![r].pc = IF MustEvict(nodes', sessions')
                                            THEN "evicting" ELSE "inflight"],
             req'[r].pc \in {"evicting", "inflight"}
      PROVE  CapacityInv'
  <2>1. req[r] \in Request /\ DOMAIN req = Requests
    BY DEF RequestsOK
  <2>2. MustEvict(nodes', sessions') => req'[r].pc = "evicting"
    BY <1>3, <2>1 DEF Request
  <2> QED
    BY <1>3, <2>2 DEF CapacityInv, Unlocked
<1>4. CASE Build(r)
  BY <1>1, <1>2, <1>4, StepMoves DEF Build, dag, PCs
<1>5. CASE Push(r)
  <2>1. DOMAIN nodes' = DOMAIN nodes \cup {r}
    BY <1>5, PushNodes
  <2>4. IsFiniteSet(DOMAIN nodes')
    BY <2>1, FS_AddElement DEF CapacityInv
  <2>2. \E sid : DOMAIN sessions' = DOMAIN sessions \cup {sid}
    BY <1>5 DEF Push, With
  <2>3. IsFiniteSet(DOMAIN sessions')
    BY <2>2, FS_AddElement DEF CapacityInv
  <2> QED
    BY <1>3, <1>5, <2>3, <2>4, StepMoves DEF Push
<1>6. CASE Evict(r)
  <2>1. \E gone, victim : /\ DOMAIN nodes' = DOMAIN nodes \ gone
                          /\ sessions' = Without(sessions, {victim})
    BY <1>6, EvictNodes
  <2>2. DOMAIN nodes' \in SUBSET DOMAIN nodes /\ DOMAIN sessions' \in SUBSET DOMAIN sessions
    BY <2>1 DEF Without
  <2> QED
    BY <1>3, <1>6, <2>2, FS_Subset, StepMoves DEF Evict, CapacityInv
<1>7. CASE SyncParsed(r)
  BY <1>1, <1>2, <1>7, StepMoves DEF SyncParsed, PCs
<1>8. CASE InternReply(r)
  BY <1>1, <1>2, <1>8, StepMoves DEF InternReply, PCs
<1>9. CASE Attach(r)
  BY <1>1, <1>2, <1>9, StepMoves, AttachNodes DEF Attach, AttachResponse, PCs, SameNodes
<1>10. CASE Fail(r)
  BY <1>1, <1>2, <1>10, StepMoves, AttachNodes DEF Fail, AttachResponse, PCs, SameNodes
<1>11. CASE GuardCheck(r)
  BY <1>1, <1>2, <1>11, StepMoves DEF GuardCheck, dag, PCs
<1>12. CASE GuardAttach(r)
  BY <1>1, <1>2, <1>12, StepMoves, AttachNodes DEF GuardAttach, AttachResponse, PCs, SameNodes
<1> QED
  BY <1>4, <1>5, <1>6, <1>7, <1>8, <1>9, <1>10, <1>11, <1>12 DEF Step

\* Outside a push the store is within its limits, or down to MinSessions: no order of
\* pushes, evictions and late answers leaves it over them.
THEOREM LimitsHold == Spec => []WithinCapacity
<1>1. Init => RequestsOK /\ RecordInv /\ CapacityInv
  BY InitRequestsOK, InitRecordInv, InitCapacityInv
<1>2. RequestsOK /\ RecordInv /\ CapacityInv /\ [Next]_vars
        => RequestsOK' /\ RecordInv' /\ CapacityInv'
  <2>1. ASSUME CapacityInv, SetMode \/ UNCHANGED vars PROVE CapacityInv'
    BY <2>1 DEF SetMode, vars, dag, CapacityInv, Unlocked
  <2> QED
    BY <2>1, NextRecordInv, StepCapacityInv DEF Next
<1>3. CapacityInv => WithinCapacity
  BY FS_CardinalityType, CapacityAssumption DEF CapacityInv, WithinCapacity, MustEvict
<1> QED
  BY <1>1, <1>2, <1>3, PTL DEF Spec
-----------------------------------------------------------------------------
(* The records that readers see *)

\* The refinement mapping of Lifecycle, by name.
record == [r \in Requests |->
             IF r \in DOMAIN nodes
               THEN IF IsInflight(nodes[r].resp) THEN "pending" ELSE nodes[r].resp.state
             ELSE IF req[r].pc \in {"new", "built"} THEN "absent" ELSE "forgotten"]

over == {r \in Requests : req[r].pc = "done"}

Outcomes == {"answered", "failed", "aborted"}

\* A step that leaves every record and program counter where readers see them.
LEMMA Stutters ==
    ASSUME NEW r \in Requests,
           \/ Moves(r, {"new"}, {"built"})
           \/ Moves(r, {"inflight", "streaming", "failed"}, {"streaming", "interned", "aborting"}),
           DOMAIN nodes' = DOMAIN nodes,
           \A n \in DOMAIN nodes :
             \/ nodes'[n].resp = nodes[n].resp
             \/ {nodes'[n].resp.state, nodes[n].resp.state} \subseteq {"none", "partial"}
    PROVE  record' = record /\ over' = over
<1>1. ASSUME NEW q \in Requests PROVE record'[q] = record[q]
  BY <1>1 DEF record, Moves, IsInflight
<1>2. record' = record
  BY <1>1 DEF record
<1>3. over' = over
  BY DEF over, Moves
<1> QED
  BY <1>2, <1>3

\* Attaching a final response settles the record, or finds it forgotten.
LEMMA AttachSettles ==
    ASSUME RequestsOK, RecordInv, NEW r \in Requests, NEW outcome \in Outcomes, NEW reply,
           AttachResponse(r, Final(outcome, reply)),
           NEW pc \in {"done", "failed"},
           Moves(r, {"inflight", "streaming", "interned", "aborting"}, {pc})
    PROVE  /\ record' = IF r \in DOMAIN nodes THEN [record EXCEPT ![r] = outcome] ELSE record
           /\ record[r] = IF r \in DOMAIN nodes THEN "pending" ELSE "forgotten"
           /\ over' = IF pc = "done" THEN over \cup {r} ELSE over
<1>1. /\ DOMAIN nodes' = DOMAIN nodes
      /\ \A n \in DOMAIN nodes \ {r} : nodes'[n].resp = nodes[n].resp
      /\ r \in DOMAIN nodes => nodes'[r].resp = Final(outcome, reply)
  BY AttachNodes DEF SameNodes
<1>2. Final(outcome, reply).state = outcome /\ ~ IsInflight(Final(outcome, reply))
  BY DEF Final, IsInflight, Outcomes
<1>3. record[r] = IF r \in DOMAIN nodes THEN "pending" ELSE "forgotten"
  BY DEF record, Moves, RecordInv
<1>4. ASSUME NEW q \in Requests \ {r} PROVE record'[q] = record[q]
  BY <1>1, <1>4 DEF record, Moves
<1>5. record'[r] = IF r \in DOMAIN nodes THEN outcome ELSE "forgotten"
  BY <1>1, <1>2 DEF record, Moves
<1>6. record' = IF r \in DOMAIN nodes THEN [record EXCEPT ![r] = outcome] ELSE record
  BY <1>3, <1>4, <1>5 DEF record
<1>7. over' = IF pc = "done" THEN over \cup {r} ELSE over
  BY DEF over, Moves
<1> QED
  BY <1>3, <1>6, <1>7

\* Every step of a request is one of its record in RecordLifecycle, or none.
LEMMA StepRefines ==
    ASSUME RequestsOK, RecordInv, NEW r \in Requests, Step(r)
    PROVE  Lifecycle!Next \/ UNCHANGED Lifecycle!record_vars
<1> DEFINE Refined == Lifecycle!Next \/ UNCHANGED Lifecycle!record_vars
<1> SUFFICES Refined
  OBVIOUS
<1>1. ASSUME record' = record, over' = over PROVE Refined
  BY <1>1 DEF Lifecycle!record_vars, record, over
<1>2. ASSUME record[r] = "absent", record' = [record EXCEPT ![r] = "pending"], over' = over
      PROVE  Refined
  BY <1>2 DEF Lifecycle!Next, Lifecycle!Open, record, over
<1>3. ASSUME NEW outcome \in Outcomes, record[r] = "pending",
             record' = [record EXCEPT ![r] = outcome], over' \in {over, over \cup {r}}
      PROVE  Refined
  BY <1>3 DEF Lifecycle!Next, Lifecycle!Settle, record, over, Outcomes
<1>4. ASSUME NEW S \in SUBSET {q \in Requests : record[q] # "absent"}, over' = over,
             record' = [q \in Requests |-> IF q \in S THEN "forgotten" ELSE record[q]]
      PROVE  Refined
  BY <1>4 DEF Lifecycle!Next, Lifecycle!Forget, record, over
<1>5. ASSUME record[r] \in Outcomes \cup {"forgotten"}, record' = record,
             over' = over \cup {r}
      PROVE  Refined
  BY <1>5 DEF Lifecycle!Next, Lifecycle!Finish, record, over, Outcomes
<1> HIDE DEF Refined
<1>6. CASE Build(r)
  <2>1. Moves(r, {"new"}, {"built"}) /\ nodes' = nodes
    BY <1>6, StepMoves DEF Build, dag
  <2>2. record' = record /\ over' = over
    BY <2>1, Stutters
  <2> QED
    BY <1>1, <2>2
<1>7. CASE Push(r)
  <2>1. Moves(r, {"built"}, {"evicting", "inflight"})
    BY <1>7, StepMoves
  <2>2. /\ DOMAIN nodes' = DOMAIN nodes \cup {r} /\ r \notin DOMAIN nodes
        /\ nodes'[r].resp = NoResponse
        /\ \A n \in DOMAIN nodes : nodes'[n].resp = nodes[n].resp
    BY <1>7, PushNodes DEF NodeFields
  <2>3. record[r] = "absent" /\ record'[r] = "pending"
    BY <2>1, <2>2 DEF record, Moves, IsInflight, NoResponse
  <2>4. ASSUME NEW q \in Requests \ {r} PROVE record'[q] = record[q]
    BY <2>1, <2>2, <2>4 DEF record, Moves
  <2>5. record' = [record EXCEPT ![r] = "pending"]
    BY <2>3, <2>4 DEF record
  <2>6. over' = over
    BY <2>1 DEF over, Moves
  <2> QED
    BY <1>2, <2>3, <2>5, <2>6
<1>8. CASE Evict(r)
  <2>1. PICK gone : /\ DOMAIN nodes' = DOMAIN nodes \ gone
                    /\ \A n \in DOMAIN nodes \ gone : nodes'[n].resp = nodes[n].resp
    BY <1>8, EvictNodes DEF NodeFields
  <2>2. Moves(r, {"evicting"}, {"evicting", "inflight"})
    BY <1>8, StepMoves
  <2> DEFINE S == gone \cap DOMAIN nodes
  <2>3. S \in SUBSET {q \in Requests : record[q] # "absent"}
    BY DEF RecordInv, record, Response
  <2>4. ASSUME NEW q \in Requests
        PROVE  record'[q] = IF q \in S THEN "forgotten" ELSE record[q]
    BY <2>1, <2>2, <2>4 DEF record, Moves, RecordInv
  <2>5. record' = [q \in Requests |-> IF q \in S THEN "forgotten" ELSE record[q]]
    BY <2>4 DEF record
  <2>6. over' = over
    BY <2>2 DEF over, Moves
  <2> QED
    BY <1>4, <2>3, <2>5, <2>6
<1>9. CASE SyncParsed(r)
  <2>1. Moves(r, {"inflight", "streaming", "failed"}, {"streaming", "interned", "aborting"})
    BY <1>9, StepMoves DEF Moves
  <2>2. PICK resp \in {NoResponse, Placeholder} :
          nodes' = nodes \/ (/\ r \in DOMAIN nodes /\ nodes[r].resp = NoResponse
                             /\ nodes' = [nodes EXCEPT ![r].resp = resp])
    BY <1>9 DEF SyncParsed
  <2>3. resp.state \in {"none", "partial"} /\ NoResponse.state \in {"none", "partial"}
    BY <2>2 DEF NoResponse, Placeholder
  <2>4. DOMAIN nodes' = DOMAIN nodes
    BY <2>2
  <2>5. ASSUME NEW n \in DOMAIN nodes
        PROVE  \/ nodes'[n].resp = nodes[n].resp
               \/ {nodes'[n].resp.state, nodes[n].resp.state} \subseteq {"none", "partial"}
    BY <2>2, <2>3 DEF RecordInv, NodeFields
  <2>6. record' = record /\ over' = over
    BY <2>1, <2>4, <2>5, Stutters
  <2> QED
    BY <1>1, <2>6
<1>10. CASE InternReply(r)
  <2>1. nodes' = nodes
    BY <1>10 DEF InternReply
  <2>2. Moves(r, {"inflight", "streaming", "failed"}, {"streaming", "interned", "aborting"})
    BY <1>10, StepMoves DEF Moves
  <2> QED
    BY <1>1, <2>1, <2>2, Stutters
<1>11. CASE Attach(r)
  <2>1. Moves(r, {"inflight", "streaming", "interned", "aborting"}, {"done"})
    BY <1>11, StepMoves DEF Moves
  <2>2. AttachResponse(r, Final("answered", req[r].reply))
    BY <1>11 DEF Attach
  <2> QED
    BY <1>3, <1>5, <2>1, <2>2, AttachSettles DEF Outcomes
<1>12. CASE Fail(r)
  <2>1. Moves(r, {"inflight", "streaming", "interned", "aborting"}, {"failed"})
    BY <1>12, StepMoves DEF Moves
  <2>2. AttachResponse(r, Final("failed", NoReply))
    BY <1>12 DEF Fail
  <2> QED
    BY <1>1, <1>3, <2>1, <2>2, AttachSettles DEF Outcomes
<1>13. CASE GuardCheck(r)
  <2>1. nodes' = nodes
    BY <1>13 DEF GuardCheck, dag
  <2>2. Moves(r, {"inflight", "streaming", "failed"}, {"done", "aborting"})
    BY <1>13, StepMoves
  <2>3. CASE req'[r].pc = "aborting"
    <3>1. Moves(r, {"inflight", "streaming", "failed"}, {"streaming", "interned", "aborting"})
      BY <2>2, <2>3 DEF Moves
    <3> QED
      BY <1>1, <2>1, <3>1, Stutters
  <2>4. CASE req'[r].pc = "done"
    <3>1. r \in DOMAIN nodes /\ ~ IsInflight(nodes[r].resp)
      BY <1>13, <2>4 DEF GuardCheck, RequestsOK, Request
    <3>2. record[r] \in Outcomes
      BY <3>1 DEF record, RecordInv, Response, IsInflight, Outcomes
    <3>3. \A q \in Requests : record'[q] = record[q]
      BY <2>1, <2>2, <3>1 DEF record, Moves
    <3>4. record' = record /\ over' = over \cup {r}
      BY <2>2, <2>4, <3>3 DEF record, over, Moves
    <3> QED
      BY <1>5, <3>2, <3>4
  <2> QED
    BY <2>2, <2>3, <2>4 DEF Moves
<1>14. CASE GuardAttach(r)
  <2>1. Moves(r, {"inflight", "streaming", "interned", "aborting"}, {"done"})
    BY <1>14, StepMoves DEF Moves
  <2>2. AttachResponse(r, Final("aborted", NoReply))
    BY <1>14 DEF GuardAttach
  <2> QED
    BY <1>3, <1>5, <2>1, <2>2, AttachSettles DEF Outcomes
<1> QED
  BY <1>6, <1>7, <1>8, <1>9, <1>10, <1>11, <1>12, <1>13, <1>14 DEF Step

\* Whatever the store shares, forks and evicts, and however late an answer comes, the
\* record of a request appears once and pending, settles once and keeps what it settled
\* on, and a request is over only when its record has settled or is forgotten (CDAG-9).
THEOREM RecordsKeepTheirPromise == Spec => RecordsSettleOnce
<1>1. Init => Lifecycle!Init
  BY DEF Init, Lifecycle!Init, Fresh
<1>2. Init => RequestsOK /\ RecordInv
  BY InitRequestsOK, InitRecordInv
<1>3. RequestsOK /\ RecordInv /\ [Next]_vars => RequestsOK' /\ RecordInv'
  BY NextRecordInv
<1>4. RequestsOK /\ RecordInv /\ [Next]_vars => [Lifecycle!Next]_(Lifecycle!record_vars)
  <2>1. ASSUME RequestsOK, RecordInv, SetMode \/ UNCHANGED vars
        PROVE  UNCHANGED Lifecycle!record_vars
    BY <2>1 DEF SetMode, vars, dag, Lifecycle!record_vars
  <2> QED
    BY <2>1, StepRefines DEF Next
<1> QED
  BY <1>1, <1>2, <1>3, <1>4, PTL DEF Spec, RecordsSettleOnce, Lifecycle!Spec

-----------------------------------------------------------------------------
(* accumulate_hash *)

Mixing(ms) == [i \in 1 .. Len(ms) |-> [x \in Hashes |-> Combine[x, ms[i]]]]

\* The steps of accumulate_hash map hashes to hashes.
LEMMA MixingType ==
    ASSUME NEW ms \in Seq(Messages)
    PROVE  Mixing(ms) \in [1 .. Len(ms) -> [Hashes -> Hashes]]
<1>1. ASSUME NEW i \in 1 .. Len(ms) PROVE [x \in Hashes |-> Combine[x, ms[i]]] \in [Hashes -> Hashes]
  <2>1. ms[i] \in Messages
    OBVIOUS
  <2>2. ASSUME NEW x \in Hashes PROVE Combine[x, ms[i]] \in Hashes
    <3>1. <<x, ms[i]>> \in Hashes \X Messages
      BY <2>1
    <3> QED
      BY <3>1, HashAssumption
  <2> QED
    BY <2>2
<1> QED
  BY <1>1 DEF Mixing

\* Accumulate combines the messages one after the other.
LEMMA AccumulateSteps ==
    ASSUME NEW init \in Hashes, NEW ms \in Seq(Messages), NEW h \in [0 .. Len(ms) -> Hashes],
           Steps(h, Len(ms), init, Mixing(ms))
    PROVE  Accumulate(init, ms) = h[Len(ms)]
<1> DEFINE n == Len(ms)
           Is(f) == f = [i \in 0 .. n |-> IF i = 0 THEN init ELSE Combine[f[i - 1], ms[i]]]
<1>0. n \in Nat
  OBVIOUS
<1>1. ASSUME NEW i \in 1 .. n PROVE h[i] = Combine[h[i - 1], ms[i]]
  <2>1. n \in Nat /\ i - 1 \in 0 .. n
    OBVIOUS
  <2>2. h[i - 1] \in Hashes
    BY <2>1
  <2>3. Mixing(ms)[i][h[i - 1]] = Combine[h[i - 1], ms[i]]
    BY <2>2 DEF Mixing
  <2> QED
    BY <2>3 DEF Steps
<1>2. h[0] = init
  BY DEF Steps
<1>3. Is(h)
  <2>1. ASSUME NEW i \in 0 .. n PROVE h[i] = IF i = 0 THEN init ELSE Combine[h[i - 1], ms[i]]
    <3>1. CASE i = 0
      BY <1>2, <3>1
    <3>2. CASE i # 0
      <4>1. i \in 1 .. n
        BY <3>2
      <4> QED
        BY <1>1, <3>2, <4>1
    <3> QED
      BY <3>1, <3>2
  <2> QED
    BY <2>1
<1>4. PICK f : f = CHOOSE x : Is(x)
  OBVIOUS
<1>5. Is(f)
  BY <1>3, <1>4
<1>6. Accumulate(init, ms) = f[n]
  BY <1>4 DEF Accumulate
<1>7. ASSUME NEW i \in 0 .. n PROVE f[i] = IF i = 0 THEN init ELSE Combine[f[i - 1], ms[i]]
  BY <1>5
<1> DEFINE T == {k \in Nat : k <= n => f[k] = h[k]}
<1> HIDE DEF Is, n
<1>8. 0 \in T
  <2>1. f[0] = init
    <3>1. 0 \in 0 .. n
      BY <1>0
    <3> QED
      BY <1>7, <3>1
  <2> QED
    BY <1>2, <2>1
<1>9. ASSUME NEW k \in Nat, k \in T PROVE k + 1 \in T
  <2> SUFFICES ASSUME k + 1 <= n PROVE f[k + 1] = h[k + 1]
    OBVIOUS
  <2>1. f[k] = h[k]
    BY <1>0, <1>9
  <2>2. k + 1 \in 1 .. n /\ k + 1 \in 0 .. n /\ k + 1 # 0 /\ (k + 1) - 1 = k
    BY <1>0
  <2> QED
    BY <1>1, <1>7, <2>1, <2>2
<1>10. Nat \subseteq T
  <2> HIDE DEF T
  <2> QED
    BY <1>8, <1>9, NatSetInduction
<1>11. f[n] = h[n]
  BY <1>0, <1>10
<1> QED
  BY <1>6, <1>11 DEF n

\* No message leaves the hash alone.
LEMMA AccumulateEmpty == ASSUME NEW init \in Hashes PROVE Accumulate(init, << >>) = init
<1> DEFINE h == [i \in 0 .. 0 |-> init]
<1>1. h \in [0 .. Len(<< >>) -> Hashes] /\ << >> \in Seq(Messages)
  OBVIOUS
<1>2. Steps(h, Len(<< >>), init, Mixing(<< >>))
  BY DEF Steps
<1>3. Accumulate(init, << >>) = h[Len(<< >>)]
  <2> HIDE DEF h
  <2> QED
    BY <1>1, <1>2, AccumulateSteps
<1> QED
  BY <1>3

\* One more message is mixed in last.
LEMMA AccumulateAppend ==
    ASSUME NEW init \in Hashes, NEW ms \in Seq(Messages), NEW m \in Messages
    PROVE  /\ Accumulate(init, ms) \in Hashes
           /\ Accumulate(init, Append(ms, m)) = Combine[Accumulate(init, ms), m]
<1> DEFINE n == Len(ms)
           mt == Append(ms, m)
<1>1. /\ n \in Nat /\ mt \in Seq(Messages) /\ Len(mt) = n + 1
      /\ \A i \in 1 .. n : mt[i] = ms[i]
      /\ mt[n + 1] = m
  OBVIOUS
<1> HIDE DEF n, mt
<1>2. PICK h \in [0 .. n + 1 -> Hashes] : Steps(h, n + 1, init, Mixing(mt))
  <2> DEFINE k == n + 1
             F == Mixing(mt)
  <2>1. k \in Nat /\ F \in [1 .. k -> [Hashes -> Hashes]]
    <3>1. Mixing(mt) \in [1 .. Len(mt) -> [Hashes -> Hashes]]
      BY <1>1, MixingType
    <3> QED
      BY <1>1, <3>1
  <2> HIDE DEF k, F
  <2>2. \E h \in [0 .. k -> Hashes] : Steps(h, k, init, F)
    BY <2>1, StepsExist
  <2> QED
    BY <2>2 DEF k, F
<1>3. Accumulate(init, mt) = h[n + 1]
  BY <1>1, <1>2, AccumulateSteps
<1>4. h[n] \in Hashes /\ h[n + 1] = Combine[h[n], m]
  <2>1. n + 1 \in 1 .. n + 1 /\ (n + 1) - 1 = n /\ n \in 0 .. n + 1
    BY <1>1
  <2>2. h[n + 1] = Mixing(mt)[n + 1][h[n]] /\ h[n] \in Hashes
    BY <1>2, <2>1 DEF Steps
  <2>3. Mixing(mt)[n + 1] = [x \in Hashes |-> Combine[x, m]]
    BY <1>1, <2>1 DEF Mixing
  <2> QED
    BY <2>2, <2>3
<1> DEFINE g == [i \in 0 .. n |-> h[i]]
<1>5. g \in [0 .. n -> Hashes]
  BY <1>1
<1>6. Steps(g, n, init, Mixing(ms))
  <2>1. ASSUME NEW i \in 1 .. n PROVE g[i] = Mixing(ms)[i][g[i - 1]]
    <3>1. i \in 1 .. n + 1 /\ i - 1 \in 0 .. n /\ i - 1 \in 0 .. n + 1 /\ i \in 0 .. n
      BY <1>1
    <3>2. g[i] = h[i] /\ g[i - 1] = h[i - 1] /\ h[i - 1] \in Hashes
      BY <3>1
    <3>3. h[i] = Mixing(mt)[i][h[i - 1]]
      BY <1>2, <3>1 DEF Steps
    <3>4. Mixing(mt)[i] = Mixing(ms)[i]
      BY <1>1, <3>1 DEF Mixing, n
    <3> QED
      BY <3>2, <3>3, <3>4
  <2>2. g[0] = init
    BY <1>1, <1>2 DEF Steps
  <2> HIDE DEF g
  <2> QED
    BY <2>1, <2>2 DEF Steps
<1>7. Accumulate(init, ms) = g[n]
  BY <1>5, <1>6, AccumulateSteps DEF n
<1>8. n \in 0 .. n /\ g[n] = h[n]
  BY <1>1
<1> HIDE DEF g
<1> QED
  BY <1>3, <1>4, <1>7, <1>8 DEF mt

\* The hash of a sequence is the hash of its end, from that of its beginning.
LEMMA AccumulateConcat ==
    ASSUME NEW init \in Hashes, NEW a \in Seq(Messages), NEW b \in Seq(Messages)
    PROVE  /\ Accumulate(init, a) \in Hashes
           /\ Accumulate(Accumulate(init, a), b) = Accumulate(init, a \o b)
<1> DEFINE T == {s \in Seq(Messages) :
                   Accumulate(Accumulate(init, a), s) = Accumulate(init, a \o s)}
<1>1. Accumulate(init, a) \in Hashes
  <2>1. CASE a = << >>
    BY <2>1, AccumulateEmpty
  <2>2. CASE a # << >>
    <3>1. PICK s \in Seq(Messages), m \in Messages : a = Append(s, m)
      BY <2>2, SequenceEmptyOrAppend
    <3>2. <<Accumulate(init, s), m>> \in Hashes \X Messages
      BY <3>1, AccumulateAppend
    <3> QED
      BY <3>1, <3>2, AccumulateAppend, HashAssumption
  <2> QED
    BY <2>1, <2>2
<1>2. << >> \in T
  <2>1. a \o << >> = a
    OBVIOUS
  <2> QED
    BY <1>1, <2>1, AccumulateEmpty
<1>3. ASSUME NEW s \in Seq(Messages), NEW m \in Messages, s \in T PROVE Append(s, m) \in T
  <2> DEFINE q == a \o s
             x == Accumulate(init, a)
  <2>1. a \o Append(s, m) = Append(q, m) /\ q \in Seq(Messages)
    OBVIOUS
  <2>2. x \in Hashes
    BY <1>1
  <2>3. Accumulate(x, s) = Accumulate(init, q)
    BY <1>3
  <2> HIDE DEF q, x
  <2>4. Accumulate(init, Append(q, m)) = Combine[Accumulate(init, q), m]
    BY <2>1, AccumulateAppend
  <2>5. Accumulate(x, Append(s, m)) = Combine[Accumulate(x, s), m]
    BY <2>2, AccumulateAppend
  <2>6. Accumulate(x, Append(s, m)) = Accumulate(init, a \o Append(s, m))
    BY <2>1, <2>3, <2>4, <2>5
  <2>7. Append(s, m) \in Seq(Messages)
    OBVIOUS
  <2> QED
    BY <2>6, <2>7 DEF x
<1>4. Seq(Messages) \subseteq T
  <2> HIDE DEF T
  <2> QED
    BY <1>2, <1>3, SeqSetInduction
<1> QED
  BY <1>1, <1>4
-----------------------------------------------------------------------------
(* What Filtered keeps *)

Shown(seq, G) == [i \in DOMAIN seq |-> IF seq[i] \in G THEN << >> ELSE <<seq[i]>>]

\* Filtered of the empty sequence is empty.
LEMMA FilteredEmpty == ASSUME NEW G PROVE Filtered(<< >>, G) = << >>
<1>1. [i \in DOMAIN << >> |-> IF << >>[i] \in G THEN << >> ELSE << << >>[i] >>] = << >>
  OBVIOUS
<1> QED
  BY <1>1, FlattenEmpty DEF Filtered

\* Filtered takes one more element exactly if it is not among the gone.
LEMMA FilteredAppend ==
    ASSUME NEW S, NEW s \in Seq(S), NEW e \in S, NEW G
    PROVE  Filtered(Append(s, e), G) = IF e \in G THEN Filtered(s, G)
                                                  ELSE Append(Filtered(s, G), e)
<1> DEFINE last == IF e \in G THEN << >> ELSE <<e>>
<1>1. last \in Seq(S)
  OBVIOUS
<1>2. Shown(s, G) \in Seq(Seq(S))
  <2>1. ASSUME NEW i \in 1 .. Len(s)
        PROVE  (IF s[i] \in G THEN << >> ELSE <<s[i]>>) \in Seq(S)
    <3>1. s[i] \in S
      OBVIOUS
    <3> QED
      BY <3>1
  <2> DEFINE E == Seq(S)
  <2>2. Shown(s, G) \in [1 .. Len(s) -> E]
    BY <2>1 DEF Shown
  <2> HIDE DEF E
  <2>3. Len(s) \in Nat
    OBVIOUS
  <2>4. Shown(s, G) \in Seq(E)
    BY <2>2, <2>3, SeqDef
  <2> QED
    BY <2>4 DEF E
<1>3. Shown(Append(s, e), G) = Append(Shown(s, G), last)
  <2> DEFINE E == Seq(S)
             a == Append(Shown(s, G), last)
             n == Len(s)
  <2>1. /\ n \in Nat /\ DOMAIN s = 1 .. n /\ DOMAIN Append(s, e) = 1 .. n + 1
        /\ \A i \in 1 .. n : Append(s, e)[i] = s[i]
        /\ Append(s, e)[n + 1] = e
    OBVIOUS
  <2>2. Shown(s, G) \in Seq(E) /\ last \in E
    BY <1>1, <1>2
  <2> HIDE DEF E, n, last
  <2>3. DOMAIN Shown(s, G) = 1 .. n
    BY <2>1 DEF Shown
  <2>4. Len(Shown(s, G)) = n
    BY <2>1, <2>2, <2>3
  <2>5. DOMAIN a = 1 .. n + 1 /\ (\A i \in 1 .. n : a[i] = Shown(s, G)[i]) /\ a[n + 1] = last
    BY <2>1, <2>2, <2>4, AppendProperties
  <2> HIDE DEF a
  <2>6. Shown(Append(s, e), G) = [i \in 1 .. n + 1 |-> a[i]]
    <3>1. ASSUME NEW i \in 1 .. n + 1
          PROVE  Shown(Append(s, e), G)[i] = a[i]
      <4>1. CASE i \in 1 .. n
        BY <2>1, <2>5, <4>1 DEF Shown
      <4>2. CASE i = n + 1
        BY <2>1, <2>5, <4>2 DEF Shown, last
      <4> QED
        BY <2>1, <4>1, <4>2
    <3>2. DOMAIN Shown(Append(s, e), G) = 1 .. n + 1
      BY <2>1 DEF Shown
    <3> QED
      BY <3>1, <3>2 DEF Shown
  <2>7. a = [i \in 1 .. n + 1 |-> a[i]]
    <3>1. a \in Seq(E)
      BY <2>2, AppendProperties DEF a
    <3> QED
      BY <2>5, <3>1
  <2> QED
    BY <2>6, <2>7 DEF a
<1>4. Filtered(Append(s, e), G) = Filtered(s, G) \o last /\ Filtered(s, G) \in Seq(S)
  <2> HIDE DEF last
  <2>1. /\ Filtered(s, G) = FlattenSeq(Shown(s, G))
        /\ Filtered(Append(s, e), G) = FlattenSeq(Shown(Append(s, e), G))
    BY DEF Filtered, Shown
  <2> QED
    BY <1>1, <1>2, <1>3, <2>1, FlattenAppend
<1> QED
  BY <1>4

\* Filtered keeps the elements outside G, once each if they were there once.
LEMMA FilteredElements ==
    ASSUME NEW S, NEW s \in Seq(S), NEW G
    PROVE  /\ Filtered(s, G) \in Seq(S)
           /\ ToSet(Filtered(s, G)) = ToSet(s) \ G
           /\ IsInjective(s) => IsInjective(Filtered(s, G))
<1> DEFINE T == {q \in Seq(S) : /\ Filtered(q, G) \in Seq(S)
                                /\ ToSet(Filtered(q, G)) = ToSet(q) \ G
                                /\ IsInjective(q) => IsInjective(Filtered(q, G))}
<1>1. << >> \in T
  <2>1. ToSet(<< >>) = {} /\ << >> \in Seq(S)
    BY DEF ToSet
  <2> QED
    BY <2>1, FilteredEmpty
<1>2. ASSUME NEW q \in Seq(S), NEW e \in S, q \in T PROVE Append(q, e) \in T
  <2> DEFINE f == Filtered(q, G)
             fa == Filtered(Append(q, e), G)
  <2>1. /\ f \in Seq(S) /\ ToSet(f) = ToSet(q) \ G
        /\ IsInjective(q) => IsInjective(f)
    BY <1>2
  <2>2. fa = IF e \in G THEN f ELSE Append(f, e)
    BY FilteredAppend
  <2> HIDE DEF f, fa
  <2>3. /\ ToSet(Append(q, e)) = ToSet(q) \cup {e}
        /\ IsInjective(Append(q, e)) <=> IsInjective(q) /\ e \notin ToSet(q)
    BY AppendElements
  <2>4. /\ ToSet(Append(f, e)) = ToSet(f) \cup {e}
        /\ IsInjective(Append(f, e)) <=> IsInjective(f) /\ e \notin ToSet(f)
        /\ Append(f, e) \in Seq(S)
    BY <2>1, AppendElements
  <2>5. fa \in Seq(S) /\ ToSet(fa) = ToSet(Append(q, e)) \ G
    BY <2>1, <2>2, <2>3, <2>4
  <2>6. IsInjective(Append(q, e)) => IsInjective(fa)
    BY <2>1, <2>2, <2>3, <2>4
  <2>7. Append(q, e) \in Seq(S)
    OBVIOUS
  <2> QED
    BY <2>5, <2>6, <2>7 DEF fa
<1>3. Seq(S) \subseteq T
  <2> HIDE DEF T
  <2> QED
    BY <1>1, <1>2, SeqSetInduction
<1> QED
  BY <1>3

-----------------------------------------------------------------------------
(* The structure of the store *)

Children(n) == {m \in DOMAIN nodes : ParentOf(m) = <<n>>}

Own(s) == {n \in DOMAIN nodes : nodes[n].sid = s}

\* Types, as far as the structure needs them.
DataInv ==
    /\ IsFiniteSet(DOMAIN nodes)
    /\ index \in [Hashes -> Seq(Requests)]
    /\ \A n \in DOMAIN nodes : /\ nodes[n].delta \in Seq(Messages) /\ nodes[n].hash \in Hashes
                               /\ nodes[n].children \in Nat /\ nodes[n].created \in Nat

\* The ancestors of a node are there, and each has its part of the path for its own.
PathInv ==
    \A n \in DOMAIN nodes :
      /\ nodes[n].path \in Seq(Requests) /\ nodes[n].path # << >>
      /\ nodes[n].path[Len(nodes[n].path)] = n
      /\ \A i \in 1 .. Len(nodes[n].path) :
           /\ nodes[n].path[i] \in DOMAIN nodes
           /\ nodes[nodes[n].path[i]].path = SubSeq(nodes[n].path, 1, i)

ChildInv == \A n \in DOMAIN nodes : nodes[n].children = Cardinality(Children(n))

HashInv == \A n \in DOMAIN nodes : nodes[n].hash = Accumulate(0, Chain(n))

IndexInv ==
    \A h \in Hashes : /\ IsInjective(index[h])
                      /\ ToSet(index[h]) = {n \in DOMAIN nodes : nodes[n].hash = h}

\* A session id is that of a request already pushed; the nodes of a session that is
\* still there are on the path of its leaf.
TipInv ==
    /\ \A n \in DOMAIN nodes :
         /\ nodes[n].sid \in Requests /\ req[nodes[n].sid].pc \notin {"new", "built"}
         /\ nodes[n].children = 0 <=> IsSessionHead(n)
         /\ nodes[n].sid \in DOMAIN sessions
              => n \in ToSet(nodes[sessions[nodes[n].sid].leaf].path)
    /\ \A s \in DOMAIN sessions :
         /\ sessions[s].leaf \in DOMAIN nodes /\ nodes[sessions[s].leaf].sid = s
         /\ sessions[s].root \in ToSet(nodes[sessions[s].leaf].path)

\* What a session counts.
CountInv ==
    \A s \in DOMAIN sessions :
      /\ sessions[s].count = Cardinality(Own(s))
      /\ sessions[s].latest \in {nodes[n].created : n \in Own(s)}
      /\ \A n \in Own(s) : nodes[n].created <= sessions[s].latest

StructInv == DataInv /\ PathInv /\ ChildInv /\ HashInv /\ IndexInv /\ TipInv /\ CountInv
               /\ ConversationIsExact

\* What the steps of a request leave of the others, and of itself once built.
LEMMA StepBodies ==
    ASSUME RequestsOK, NEW r \in Requests, Step(r), NEW q \in Requests, req[q].pc # "new"
    PROVE  /\ req'[q].body = req[q].body
           /\ req[q].pc # "built" => req'[q].pc \notin {"new", "built"}
<1>1. ~ Build(r) \/ q # r
  BY DEF Build
<1>2. req[r] \in Request /\ DOMAIN req = Requests
  BY DEF RequestsOK
<1>3. q = r => req'[r].body = req[r].body
  <2>1. \E pc, reply : \/ req' = [req EXCEPT ![r].pc = pc]
                       \/ req' = [req EXCEPT ![r].pc = pc, ![r].reply = reply]
                       \/ q # r
    BY <1>1 DEF Step, Push, Evict, SyncParsed, InternReply, Attach, Fail, GuardCheck, GuardAttach
  <2> QED
    BY <1>2, <2>1 DEF Request
<1>4. q # r => req'[q] = req[q]
  BY StepMoves DEF Step, Moves
<1>5. q = r /\ req[q].pc # "built" => req'[q].pc \notin {"new", "built"}
  BY <1>1, StepMoves DEF Step, Moves
<1> QED
  BY <1>3, <1>4, <1>5

\* What the structure depends on.
LEMMA StructFrame ==
    ASSUME RecordInv, StructInv, NEW touched, SameNodes(touched),
           sessions' = sessions, index' = index,
           \A q \in Requests : req[q].pc \notin {"new", "built"} =>
             req'[q].body = req[q].body /\ req'[q].pc \notin {"new", "built"}
    PROVE  StructInv'
<1>1. /\ DOMAIN nodes' = DOMAIN nodes
      /\ \A n \in DOMAIN nodes :
           /\ nodes'[n].path = nodes[n].path /\ nodes'[n].sid = nodes[n].sid
           /\ nodes'[n].children = nodes[n].children /\ nodes'[n].delta = nodes[n].delta
           /\ nodes'[n].hash = nodes[n].hash /\ nodes'[n].created = nodes[n].created
  BY DEF SameNodes, NodeFields
<1>2. DataInv'
  BY <1>1 DEF StructInv, DataInv
<1>3. PathInv'
  BY <1>1 DEF StructInv, PathInv
<1>4. ASSUME NEW n PROVE Children(n)' = Children(n)
  BY <1>1 DEF Children, ParentOf
<1>5. ChildInv'
  BY <1>1, <1>4 DEF StructInv, ChildInv
<1>6. ASSUME NEW n \in DOMAIN nodes PROVE Chain(n)' = Chain(n)
  <2>1. \A i \in DOMAIN nodes[n].path : nodes[n].path[i] \in DOMAIN nodes
    <3>1. /\ nodes[n].path \in Seq(Requests)
          /\ \A i \in 1 .. Len(nodes[n].path) : nodes[n].path[i] \in DOMAIN nodes
      BY DEF StructInv, PathInv
    <3>2. DOMAIN nodes[n].path = 1 .. Len(nodes[n].path)
      BY <3>1
    <3> QED
      BY <3>1, <3>2
  <2>2. [i \in DOMAIN nodes'[n].path |-> nodes'[nodes'[n].path[i]].delta]
          = [i \in DOMAIN nodes[n].path |-> nodes[nodes[n].path[i]].delta]
    <3>1. nodes'[n].path = nodes[n].path
      BY <1>1
    <3>2. ASSUME NEW i \in DOMAIN nodes[n].path
          PROVE  nodes'[nodes[n].path[i]].delta = nodes[nodes[n].path[i]].delta
      BY <1>1, <2>1
    <3> QED
      BY <3>1, <3>2
  <2> QED
    BY <2>2 DEF Chain
<1>7. HashInv'
  BY <1>1, <1>6 DEF StructInv, HashInv
<1>8. IndexInv'
  <2>1. ASSUME NEW h \in Hashes
        PROVE  {n \in DOMAIN nodes : nodes[n].hash = h}' = {n \in DOMAIN nodes : nodes[n].hash = h}
    BY <1>1
  <2> QED
    BY <2>1 DEF StructInv, IndexInv
<1>9. ASSUME NEW n \in DOMAIN nodes PROVE IsSessionHead(n)' <=> IsSessionHead(n)
  BY <1>1 DEF IsSessionHead
<1>10. TipInv'
  BY <1>1, <1>9 DEF StructInv, TipInv
<1>11. ASSUME NEW s PROVE Own(s)' = Own(s)
  BY <1>1 DEF Own
<1>12. CountInv'
  <2>1. ASSUME NEW s \in DOMAIN sessions
        PROVE  {nodes'[n].created : n \in Own(s)} = {nodes[n].created : n \in Own(s)}
    BY <1>1 DEF Own
  <2>2. ASSUME NEW s \in DOMAIN sessions, NEW n \in Own(s)
        PROVE  nodes'[n].created = nodes[n].created
    BY <1>1, <2>2 DEF Own
  <2> QED
    BY <1>11, <2>1, <2>2 DEF StructInv, CountInv
<1>13. ConversationIsExact'
  BY <1>1, <1>6 DEF StructInv, ConversationIsExact, RecordInv
<1> QED
  BY <1>2, <1>3, <1>5, <1>7, <1>8, <1>10, <1>12, <1>13 DEF StructInv
-----------------------------------------------------------------------------
(* find_parent reads the index and checks the chains *)

Bucket(body, k) == index[Accumulate(0, Prefix(body, k))]

\* The bucket find_parent opens for a prefix is a sequence of nodes.
LEMMA BucketIs ==
    ASSUME DataInv, NEW body \in Seq(Messages), NEW k \in 1 .. Len(body)
    PROVE  /\ Prefix(body, k) \in Seq(Messages) /\ Len(Prefix(body, k)) = k
           /\ Accumulate(0, Prefix(body, k)) \in Hashes
           /\ Bucket(body, k) \in Seq(Requests)
<1>1. Prefix(body, k) \in Seq(Messages) /\ Len(Prefix(body, k)) = k
  BY DEF Prefix
<1>2. Accumulate(0, Prefix(body, k)) \in Hashes
  <2>1. 0 \in Hashes /\ << >> \in Seq(Messages)
    BY HashAssumption
  <2> QED
    BY <1>1, <2>1, AccumulateConcat
<1> QED
  BY <1>1, <1>2 DEF DataInv, Bucket

\* What a hit is.
LEMMA HitIs ==
    ASSUME DataInv, NEW body \in Seq(Messages), NEW p
    PROVE  p \in Hits(body) <=>
             \E k \in 1 .. Len(body) : \E j \in 1 .. Len(Bucket(body, k)) :
               p = <<k, j>> /\ PrefixChainMatches(Bucket(body, k)[j], Prefix(body, k))
<1>1. ASSUME NEW k \in 1 .. Len(body) PROVE DOMAIN Bucket(body, k) = 1 .. Len(Bucket(body, k))
  BY BucketIs
<1>2. Hits(body) = {q \in UNION {{k} \X DOMAIN Bucket(body, k) : k \in 1 .. Len(body)} :
                      PrefixChainMatches(Bucket(body, q[1])[q[2]], Prefix(body, q[1]))}
  BY DEF Hits, Bucket
<1>3. p \in UNION {{k} \X DOMAIN Bucket(body, k) : k \in 1 .. Len(body)} <=>
        \E k \in 1 .. Len(body) : \E j \in 1 .. Len(Bucket(body, k)) : p = <<k, j>>
  BY <1>1
<1> QED
  BY <1>2, <1>3

\* find_parent returns a hit at the greatest split there is.
LEMMA FindParentIs ==
    ASSUME DataInv, NEW body \in Seq(Messages)
    PROVE  \/ Hits(body) = {} /\ FindParent(body) = [parent |-> NoParent, split |-> 0]
           \/ \E k \in 1 .. Len(body) : \E n :
                /\ FindParent(body) = [parent |-> <<n>>, split |-> k]
                /\ PrefixChainMatches(n, Prefix(body, k))
                /\ \A p \in Hits(body) : p[1] <= k
<1>1. CASE Hits(body) = {}
  BY <1>1 DEF FindParent
<1>2. CASE Hits(body) # {}
  <2> DEFINE Best(p) == \A q \in Hits(body) : p[1] > q[1] \/ (p[1] = q[1] /\ p[2] >= q[2])
             K == {k \in 1 .. Len(body) : \E j : <<k, j>> \in Hits(body)}
  <2>1. K # {} /\ K \subseteq Nat /\ Len(body) \in Nat /\ \A k \in K : k <= Len(body)
    <3>1. PICK p : p \in Hits(body)
      BY <1>2
    <3>2. PICK k \in 1 .. Len(body) : \E j \in 1 .. Len(Bucket(body, k)) : p = <<k, j>>
      BY <3>1, HitIs
    <3>3. k \in K
      BY <3>1, <3>2
    <3>4. Len(body) \in Nat /\ \A i \in K : i \in 1 .. Len(body)
      OBVIOUS
    <3>5. K # {}
      BY <3>3
    <3> HIDE DEF K
    <3>6. K \subseteq Nat /\ \A i \in K : i <= Len(body)
      BY <3>4
    <3> QED
      BY <3>4, <3>5, <3>6
  <2>2. PICK k \in K : \A x \in K : x <= k
    <3> HIDE DEF K
    <3> QED
      BY <2>1, GreatestNatural
  <2> DEFINE J == {j \in 1 .. Len(Bucket(body, k)) : <<k, j>> \in Hits(body)}
  <2>3. J # {} /\ J \subseteq Nat /\ Len(Bucket(body, k)) \in Nat
        /\ \A j \in J : j <= Len(Bucket(body, k))
    <3>1. k \in 1 .. Len(body)
      OBVIOUS
    <3>2. Bucket(body, k) \in Seq(Requests)
      BY <3>1, BucketIs
    <3>3. Len(Bucket(body, k)) \in Nat
      BY <3>2
    <3>4. PICK i : <<k, i>> \in Hits(body)
      OBVIOUS
    <3>5. \E a \in 1 .. Len(body) : \E b \in 1 .. Len(Bucket(body, a)) : <<k, i>> = <<a, b>>
      BY <3>4, HitIs
    <3>6. i \in 1 .. Len(Bucket(body, k))
      BY <3>5
    <3>7. i \in J
      BY <3>4, <3>6
    <3>8. \A j \in J : j \in 1 .. Len(Bucket(body, k))
      OBVIOUS
    <3>9. J \subseteq Nat /\ \A j \in J : j <= Len(Bucket(body, k))
      <4> HIDE DEF J
      <4> QED
        BY <3>3, <3>8
    <3> QED
      BY <3>3, <3>7, <3>9
  <2>4. PICK j \in J : \A x \in J : x <= j
    <3> HIDE DEF J
    <3> QED
      BY <2>3, GreatestNatural
  <2>5. <<k, j>> \in Hits(body) /\ Best(<<k, j>>)
    <3>1. ASSUME NEW q \in Hits(body)
          PROVE  k > q[1] \/ (k = q[1] /\ j >= q[2])
      <4>1. PICK a \in 1 .. Len(body) : \E b \in 1 .. Len(Bucket(body, a)) : q = <<a, b>>
        BY HitIs
      <4>2. PICK b \in 1 .. Len(Bucket(body, a)) : q = <<a, b>>
        BY <4>1
      <4>3. a \in K /\ a <= k
        BY <2>2, <4>2
      <4>4. a = k => b \in J /\ b <= j
        BY <2>4, <4>2
      <4> QED
        BY <2>1, <2>3, <4>2, <4>3, <4>4
    <3> QED
      BY <3>1
  <2>6. PICK hit : hit = CHOOSE p \in Hits(body) : Best(p)
    OBVIOUS
  <2>7. hit \in Hits(body) /\ Best(hit)
    <3> HIDE DEF Best
    <3> QED
      BY <2>5, <2>6
  <2>8. FindParent(body) = [parent |-> <<Bucket(body, hit[1])[hit[2]]>>, split |-> hit[1]]
    BY <1>2, <2>6 DEF FindParent, Bucket
  <2>9. PICK a \in 1 .. Len(body) : \E b \in 1 .. Len(Bucket(body, a)) :
          hit = <<a, b>> /\ PrefixChainMatches(Bucket(body, a)[b], Prefix(body, a))
    BY <2>7, HitIs
  <2>10. \A p \in Hits(body) : p[1] <= hit[1]
    <3>1. ASSUME NEW p \in Hits(body) PROVE p[1] \in Nat
      BY HitIs
    <3> QED
      BY <2>7, <3>1
  <2>11. PICK b \in 1 .. Len(Bucket(body, a)) :
           hit = <<a, b>> /\ PrefixChainMatches(Bucket(body, a)[b], Prefix(body, a))
    BY <2>9
  <2>12. hit[1] = a /\ hit[2] = b
    BY <2>11
  <2>13. FindParent(body) = [parent |-> <<Bucket(body, a)[b]>>, split |-> a]
    BY <2>8, <2>12
  <2> QED
    BY <2>10, <2>11, <2>12, <2>13
<1> QED
  BY <1>1, <1>2
-----------------------------------------------------------------------------
(* Paths and children *)

\* The nodes on a path, and where each hangs.
LEMMA OnPath ==
    ASSUME PathInv, NEW n \in DOMAIN nodes, NEW i \in 1 .. Len(nodes[n].path)
    PROVE  /\ nodes[n].path[i] \in DOMAIN nodes
           /\ Len(nodes[nodes[n].path[i]].path) = i
           /\ i = 1 => ParentOf(nodes[n].path[i]) = NoParent
           /\ i # 1 => ParentOf(nodes[n].path[i]) = <<nodes[n].path[i - 1]>>
<1> DEFINE p == nodes[n].path
           s == SubSeq(p, 1, i)
<1>1. p \in Seq(Requests) /\ p[i] \in DOMAIN nodes /\ nodes[p[i]].path = s
  BY DEF PathInv
<1>2. i \in 1 .. Len(p) /\ Len(p) \in Nat
  BY <1>1
<1> HIDE DEF p
<1>3. Len(s) = i /\ \A j \in 1 .. i : s[j] = p[j]
  BY <1>1, <1>2
<1>4. ParentOf(p[i]) = IF Len(s) = 1 THEN NoParent ELSE <<s[Len(s) - 1]>>
  BY <1>1 DEF ParentOf
<1> HIDE DEF s
<1>5. i = 1 => ParentOf(p[i]) = NoParent
  BY <1>3, <1>4
<1>6. ASSUME i # 1 PROVE ParentOf(p[i]) = <<p[i - 1]>>
  <2>1. i - 1 \in 1 .. i
    BY <1>2, <1>6
  <2> QED
    BY <1>3, <1>4, <1>6, <2>1
<1> QED
  BY <1>1, <1>3, <1>5, <1>6 DEF p

\* A path visits a node once, and ends in the node it belongs to.
LEMMA PathIsSimple ==
    ASSUME PathInv, NEW n \in DOMAIN nodes
    PROVE  /\ nodes[n].path \in Seq(Requests) /\ Len(nodes[n].path) \in Nat \ {0}
           /\ DOMAIN nodes[n].path = 1 .. Len(nodes[n].path)
           /\ nodes[n].path[Len(nodes[n].path)] = n
           /\ \A i \in 1 .. Len(nodes[n].path) : \A j \in 1 .. Len(nodes[n].path) :
                nodes[n].path[i] = nodes[n].path[j] => i = j
<1>1. nodes[n].path \in Seq(Requests) /\ nodes[n].path # << >>
      /\ nodes[n].path[Len(nodes[n].path)] = n
  BY DEF PathInv
<1>2. \A i \in 1 .. Len(nodes[n].path) : Len(nodes[nodes[n].path[i]].path) = i
  BY OnPath
<1> QED
  BY <1>1, <1>2

\* The parent of a node is there, next to last on its path.
LEMMA ParentIs ==
    ASSUME PathInv, NEW n \in DOMAIN nodes, NEW m, ParentOf(n) = <<m>>
    PROVE  /\ m \in DOMAIN nodes
           /\ Len(nodes[n].path) - 1 \in 1 .. Len(nodes[n].path)
           /\ m = nodes[n].path[Len(nodes[n].path) - 1]
<1> DEFINE p == nodes[n].path
<1>1. p \in Seq(Requests) /\ Len(p) \in Nat \ {0}
      /\ \A i \in 1 .. Len(p) : p[i] \in DOMAIN nodes
  BY PathIsSimple, OnPath
<1>2. ParentOf(n) = IF Len(p) = 1 THEN NoParent ELSE <<p[Len(p) - 1]>>
  BY DEF ParentOf
<1> HIDE DEF p
<1>3. Len(p) # 1 /\ m = p[Len(p) - 1]
  <2> DEFINE q == p[Len(p) - 1]
  <2> HIDE DEF q
  <2>1. <<m>> # NoParent
    BY DEF NoParent
  <2>2. Len(p) # 1 /\ <<m>> = <<q>>
    BY <1>2, <2>1, Zenon DEF q
  <2>3. m = q
    BY <2>2
  <2> QED
    BY <2>2, <2>3 DEF q
<1>4. Len(p) - 1 \in 1 .. Len(p)
  BY <1>1, <1>3
<1> QED
  BY <1>1, <1>3, <1>4 DEF p

\* A set that has the children of its nodes has all that comes after them on a path.
LEMMA ClosedDownwards ==
    ASSUME PathInv, NEW gone,
           \A x \in gone : \A m \in DOMAIN nodes : ParentOf(m) = <<x>> => m \in gone,
           NEW n \in DOMAIN nodes, NEW i \in 1 .. Len(nodes[n].path), nodes[n].path[i] \in gone
    PROVE  \A j \in i .. Len(nodes[n].path) : nodes[n].path[j] \in gone
<1> DEFINE p == nodes[n].path
           T == {d \in Nat : i + d <= Len(p) => p[i + d] \in gone}
<1>1. Len(p) \in Nat /\ i \in 1 .. Len(p)
  BY PathIsSimple
<1>2. 0 \in T
  BY <1>1
<1>3. ASSUME NEW d \in Nat, d \in T, i + d + 1 <= Len(p)
      PROVE  p[i + d + 1] \in gone
  <2> DEFINE k == i + d + 1
  <2>1. k \in 1 .. Len(p) /\ k # 1 /\ k - 1 = i + d
    BY <1>1, <1>3
  <2>2. p[k - 1] \in gone
    BY <1>1, <1>3, <2>1
  <2>3. p[k] \in DOMAIN nodes /\ ParentOf(p[k]) = <<p[k - 1]>>
    <3> HIDE DEF k
    <3> QED
      BY <2>1, OnPath
  <2> QED
    BY <2>2, <2>3
<1>4. \A d \in Nat : d \in T => d + 1 \in T
  <2>1. ASSUME NEW d \in Nat, d \in T PROVE d + 1 \in T
    <3>1. d + 1 \in Nat /\ i + (d + 1) = i + d + 1
      BY <1>1
    <3> QED
      BY <1>3, <2>1, <3>1
  <2> QED
    BY <2>1
<1>5. Nat \subseteq T
  <2> HIDE DEF T
  <2> QED
    BY <1>2, <1>4, NatSetInduction
<1>6. ASSUME NEW j \in i .. Len(p) PROVE p[j] \in gone
  <2>1. j - i \in Nat /\ i + (j - i) = j /\ j <= Len(p)
    BY <1>1
  <2>2. j - i \in T
    BY <1>5, <2>1
  <2> QED
    BY <2>1, <2>2
<1> QED
  BY <1>6

\* The children of a node are few, and have it on their path.
LEMMA ChildrenAreFinite ==
    ASSUME DataInv, NEW n PROVE IsFiniteSet(Children(n))
  BY FS_Subset DEF DataInv, Children
-----------------------------------------------------------------------------
(* Eviction removes a branch that nothing outside hangs from *)

\* gc_cascade walks up the path of the leaf.
Doom(p, i) == \A j \in i .. Len(p) - 1 : p[j] \in DOMAIN nodes /\ nodes[p[j]].children <= 1

\* What gc_cascade removes: the nodes on the path from where all below are only children.
LEMMA DoomedIs ==
    ASSUME PathInv, NEW leaf \in DOMAIN nodes, NEW x
    PROVE  x \in Doomed(leaf) <=>
             \E i \in 1 .. Len(nodes[leaf].path) :
               x = nodes[leaf].path[i] /\ Doom(nodes[leaf].path, i)
<1>1. DOMAIN nodes[leaf].path = 1 .. Len(nodes[leaf].path)
  BY PathIsSimple
<1> QED
  BY <1>1 DEF Doomed, Doom

\* The next node on a path is a child.
LEMMA NextOnPath ==
    ASSUME PathInv, NEW n \in DOMAIN nodes, NEW i \in 1 .. Len(nodes[n].path),
           i # Len(nodes[n].path)
    PROVE  /\ i + 1 \in 1 .. Len(nodes[n].path)
           /\ nodes[n].path[i + 1] \in Children(nodes[n].path[i])
<1> DEFINE k == i + 1
<1>1. k \in 1 .. Len(nodes[n].path) /\ k # 1 /\ k - 1 = i
  BY PathIsSimple
<1> HIDE DEF k
<1>2. nodes[n].path[k] \in Children(nodes[n].path[i])
  BY <1>1, OnPath DEF Children
<1> QED
  BY <1>1, <1>2 DEF k

\* What an eviction takes: whole branches, from the leaf of its session up to a fork.
LEMMA DoomedBranch ==
    ASSUME DataInv, PathInv, ChildInv, TipInv, NEW victim \in DOMAIN sessions,
           NEW gone, gone = Doomed(sessions[victim].leaf)
    PROVE  /\ sessions[victim].leaf \in gone /\ gone \subseteq DOMAIN nodes
           /\ \A x \in gone : \A m \in DOMAIN nodes : ParentOf(m) = <<x>> => m \in gone
           /\ \A n \in DOMAIN nodes \ gone : Children(n) \subseteq gone => Children(n) = {}
           /\ \A s \in DOMAIN sessions : s # victim => sessions[s].leaf \notin gone
<1> DEFINE leaf == sessions[victim].leaf
           p == nodes[leaf].path
<1>1. leaf \in DOMAIN nodes /\ nodes[leaf].sid = victim
  BY DEF TipInv
<1>2. /\ p \in Seq(Requests) /\ Len(p) \in Nat \ {0} /\ p[Len(p)] = leaf
      /\ \A i \in 1 .. Len(p) : \A j \in 1 .. Len(p) : p[i] = p[j] => i = j
  BY <1>1, PathIsSimple
<1>3. \A x : x \in gone <=> \E i \in 1 .. Len(p) : x = p[i] /\ Doom(p, i)
  <2> HIDE DEF leaf
  <2> QED
    BY <1>1, DoomedIs DEF leaf
<1>4. leaf \in gone /\ gone \subseteq DOMAIN nodes
  <2>1. Len(p) \in 1 .. Len(p) /\ Doom(p, Len(p))
    BY <1>2 DEF Doom
  <2>2. \A i \in 1 .. Len(p) : p[i] \in DOMAIN nodes
    BY <1>1, OnPath
  <2> QED
    BY <1>2, <1>3, <2>1, <2>2
<1>5. ASSUME NEW s \in DOMAIN sessions
      PROVE  /\ sessions[s].leaf \in DOMAIN nodes /\ nodes[sessions[s].leaf].sid = s
             /\ Children(sessions[s].leaf) = {}
  <2>1. /\ sessions[s].leaf \in DOMAIN nodes /\ nodes[sessions[s].leaf].sid = s
        /\ nodes[sessions[s].leaf].children = 0
    BY DEF TipInv, IsSessionHead
  <2>2. Cardinality(Children(sessions[s].leaf)) = 0
    BY <2>1 DEF ChildInv
  <2> QED
    BY <2>1, <2>2, ChildrenAreFinite, FS_EmptySet
<1>6. ASSUME NEW i \in 1 .. Len(p), i # Len(p)
      PROVE  i + 1 \in 1 .. Len(p) /\ p[i + 1] \in Children(p[i])
  <2> HIDE DEF leaf
  <2> QED
    BY <1>1, <1>6, NextOnPath
<1>7. ASSUME NEW x \in gone, NEW m \in DOMAIN nodes, ParentOf(m) = <<x>>
      PROVE  m \in gone
  <2>1. PICK i \in 1 .. Len(p) : x = p[i] /\ Doom(p, i)
    BY <1>3
  <2>2. m \in Children(x)
    BY <1>7 DEF Children
  <2>3. i # Len(p)
    BY <1>1, <1>2, <1>5, <2>1, <2>2
  <2>4. i + 1 \in 1 .. Len(p) /\ p[i + 1] \in Children(x)
    BY <1>6, <2>1, <2>3
  <2>5. i \in i .. Len(p) - 1
    BY <1>2, <2>3
  <2>6. x \in DOMAIN nodes /\ nodes[x].children <= 1
    BY <2>1, <2>5 DEF Doom
  <2>7. Cardinality(Children(x)) <= 1 /\ IsFiniteSet(Children(x))
    BY <2>6, ChildrenAreFinite DEF ChildInv
  <2>8. m = p[i + 1]
    BY <2>2, <2>4, <2>7, AtMostOne
  <2>9. Doom(p, i + 1)
    <3>1. \A j \in i + 1 .. Len(p) - 1 : j \in i .. Len(p) - 1
      BY <1>2
    <3> QED
      BY <2>1, <3>1 DEF Doom
  <2> QED
    BY <1>3, <2>4, <2>8, <2>9
<1>8. ASSUME NEW n \in DOMAIN nodes \ gone, Children(n) \subseteq gone
      PROVE  Children(n) = {}
  <2> SUFFICES ASSUME NEW m \in Children(n) PROVE FALSE
    OBVIOUS
  <2>1. ASSUME NEW c \in Children(n)
        PROVE  \E k \in 1 .. Len(p) : /\ c = p[k] /\ Doom(p, k)
                                      /\ k - 1 \in 1 .. Len(p) /\ n = p[k - 1]
    <3>1. PICK k \in 1 .. Len(p) : c = p[k] /\ Doom(p, k)
      BY <1>3, <1>8
    <3>2. ParentOf(c) = <<n>>
      BY DEF Children
    <3>3. k # 1 /\ <<p[k - 1]>> = <<n>>
      <4>1. k = 1 => ParentOf(p[k]) = NoParent
        BY <1>1, OnPath
      <4>2. k # 1 => ParentOf(p[k]) = <<p[k - 1]>>
        BY <1>1, OnPath
      <4> QED
        BY <3>1, <3>2, <4>1, <4>2 DEF NoParent
    <3>4. k - 1 \in 1 .. Len(p)
      BY <1>2, <3>3
    <3> QED
      BY <3>1, <3>3, <3>4
  <2>2. PICK k \in 1 .. Len(p) : m = p[k] /\ Doom(p, k) /\ k - 1 \in 1 .. Len(p) /\ n = p[k - 1]
    BY <2>1
  <2>3. ASSUME NEW c \in Children(n) PROVE c = m
    <3>1. PICK i \in 1 .. Len(p) : c = p[i] /\ i - 1 \in 1 .. Len(p) /\ n = p[i - 1]
      BY <2>1
    <3>2. i - 1 = k - 1
      BY <1>2, <2>2, <3>1
    <3>3. i = k
      BY <1>2, <3>2
    <3> QED
      BY <2>2, <3>1, <3>3
  <2>4. Children(n) = {m}
    BY <2>3
  <2>5. nodes[n].children <= 1
    <3>1. Cardinality({m}) = 1
      BY FS_Singleton
    <3>2. nodes[n].children = Cardinality({m})
      BY <2>4 DEF ChildInv
    <3> QED
      BY <3>1, <3>2
  <2>6. Doom(p, k - 1)
    <3>1. ASSUME NEW j \in k - 1 .. Len(p) - 1
          PROVE  p[j] \in DOMAIN nodes /\ nodes[p[j]].children <= 1
      <4>1. j = k - 1 \/ j \in k .. Len(p) - 1
        BY <1>2
      <4> QED
        BY <2>2, <2>5, <4>1 DEF Doom
    <3> QED
      BY <3>1 DEF Doom
  <2> QED
    BY <1>3, <2>2, <2>6
<1>9. ASSUME NEW s \in DOMAIN sessions, s # victim, sessions[s].leaf \in gone PROVE FALSE
  <2>1. PICK i \in 1 .. Len(p) : sessions[s].leaf = p[i]
    BY <1>3, <1>9
  <2>2. i = Len(p)
    BY <1>5, <1>6, <2>1
  <2>3. sessions[s].leaf = leaf
    BY <1>2, <2>1, <2>2
  <2>4. nodes[sessions[s].leaf].sid = s
    BY <1>5
  <2> HIDE DEF leaf
  <2> QED
    BY <1>1, <1>9, <2>3, <2>4
<1> QED
  BY <1>4, <1>7, <1>8, <1>9

\* An eviction, with what its gone nodes are to those that stay.
LEMMA EvictBranch ==
    ASSUME RecordInv, StructInv, NEW r \in Requests, Evict(r)
    PROVE  \E victim \in DOMAIN sessions, gone \in SUBSET DOMAIN nodes :
             /\ DOMAIN sessions' = DOMAIN sessions \ {victim}
             /\ \A s \in DOMAIN sessions' : sessions'[s] = sessions[s]
             /\ index' = Unindexed(gone)
             /\ DOMAIN nodes' = DOMAIN nodes \ gone
             /\ \A n \in DOMAIN nodes \ gone :
                  /\ nodes'[n].path = nodes[n].path /\ nodes'[n].sid = nodes[n].sid
                  /\ nodes'[n].delta = nodes[n].delta /\ nodes'[n].hash = nodes[n].hash
                  /\ nodes'[n].created = nodes[n].created
                  /\ nodes'[n].children = Less(nodes[n].children, Cardinality(Children(n) \cap gone))
                  /\ Children(n) \subseteq gone => Children(n) = {}
                  /\ \A i \in 1 .. Len(nodes[n].path) : nodes[n].path[i] \in DOMAIN nodes \ gone
             /\ sessions[victim].leaf \in gone
             /\ \A s \in DOMAIN sessions' : sessions[s].leaf \in DOMAIN nodes \ gone
<1>1. PICK victim \in Oldest :
        /\ sessions' = Without(sessions, {victim})
        /\ nodes' = Bereaved(Doomed(sessions[victim].leaf))
        /\ index' = Unindexed(Doomed(sessions[victim].leaf))
  BY DEF Evict
<1> DEFINE gone == Doomed(sessions[victim].leaf)
<1>2. victim \in DOMAIN sessions
  BY DEF Oldest
<1>3. /\ sessions[victim].leaf \in gone /\ gone \subseteq DOMAIN nodes
      /\ \A x \in gone : \A m \in DOMAIN nodes : ParentOf(m) = <<x>> => m \in gone
      /\ \A n \in DOMAIN nodes \ gone : Children(n) \subseteq gone => Children(n) = {}
      /\ \A s \in DOMAIN sessions : s # victim => sessions[s].leaf \notin gone
  BY <1>2, DoomedBranch DEF StructInv
<1>4. nodes' = Bereaved(gone) /\ index' = Unindexed(gone)
  BY <1>1
<1> HIDE DEF gone
<1>5. DOMAIN nodes' = DOMAIN nodes \ gone
  BY <1>4 DEF Bereaved
<1>6. /\ DOMAIN sessions' = DOMAIN sessions \ {victim}
      /\ \A s \in DOMAIN sessions' : sessions'[s] = sessions[s]
  BY <1>1 DEF Without
<1>7. ASSUME NEW n \in DOMAIN nodes \ gone
      PROVE  /\ nodes'[n].path = nodes[n].path /\ nodes'[n].sid = nodes[n].sid
             /\ nodes'[n].delta = nodes[n].delta /\ nodes'[n].hash = nodes[n].hash
             /\ nodes'[n].created = nodes[n].created
             /\ nodes'[n].children = Less(nodes[n].children, Cardinality(Children(n) \cap gone))
  <2>1. NodeFields \subseteq DOMAIN nodes[n]
    BY DEF RecordInv
  <2>2. {m \in gone : LET p == nodes[m].path IN Len(p) > 1 /\ p[Len(p) - 1] = n}
          = Children(n) \cap gone
    <3>1. ASSUME NEW m \in gone
          PROVE  (Len(nodes[m].path) > 1 /\ nodes[m].path[Len(nodes[m].path) - 1] = n)
                   <=> m \in Children(n)
      <4>1. m \in DOMAIN nodes /\ Len(nodes[m].path) \in Nat \ {0}
        BY <1>3, PathIsSimple DEF StructInv
      <4>2. (Len(nodes[m].path) > 1) <=> (Len(nodes[m].path) # 1)
        <5>1. ASSUME NEW l \in Nat \ {0} PROVE l > 1 <=> l # 1
          OBVIOUS
        <5> QED
          BY <4>1, <5>1
      <4>3. ParentOf(m) = <<n>> <=>
              Len(nodes[m].path) # 1 /\ nodes[m].path[Len(nodes[m].path) - 1] = n
        BY DEF ParentOf, NoParent
      <4> QED
        BY <4>1, <4>2, <4>3 DEF Children
    <3> QED
      BY <3>1
  <2>3. nodes'[n] = [nodes[n] EXCEPT !.children = Less(@, Cardinality(Children(n) \cap gone))]
    BY <1>4, <2>2 DEF Bereaved
  <2> QED
    BY <2>1, <2>3 DEF NodeFields
<1>8. ASSUME NEW n \in DOMAIN nodes \ gone, NEW i \in 1 .. Len(nodes[n].path)
      PROVE  nodes[n].path[i] \in DOMAIN nodes \ gone
  <2>1. PathInv /\ nodes[n].path[i] \in DOMAIN nodes
    BY OnPath DEF StructInv
  <2>2. Len(nodes[n].path) \in i .. Len(nodes[n].path) /\ nodes[n].path[Len(nodes[n].path)] = n
    BY <2>1, PathIsSimple
  <2>3. nodes[n].path[i] \notin gone
    BY <1>3, <2>1, <2>2, ClosedDownwards
  <2> QED
    BY <2>1, <2>3
<1>9. \A s \in DOMAIN sessions' : sessions[s].leaf \in DOMAIN nodes \ gone
  BY <1>3, <1>6 DEF StructInv, TipInv
<1> QED
  BY <1>2, <1>3, <1>4, <1>5, <1>6, <1>7, <1>8, <1>9

\* An eviction leaves the structure of what stays.
LEMMA EvictStruct ==
    ASSUME RequestsOK, RecordInv, StructInv, NEW r \in Requests, Evict(r)
    PROVE  StructInv'
<1>1. PICK victim \in DOMAIN sessions, gone \in SUBSET DOMAIN nodes :
        /\ DOMAIN sessions' = DOMAIN sessions \ {victim}
        /\ \A s \in DOMAIN sessions' : sessions'[s] = sessions[s]
        /\ index' = Unindexed(gone)
        /\ DOMAIN nodes' = DOMAIN nodes \ gone
        /\ \A n \in DOMAIN nodes \ gone :
             /\ nodes'[n].path = nodes[n].path /\ nodes'[n].sid = nodes[n].sid
             /\ nodes'[n].delta = nodes[n].delta /\ nodes'[n].hash = nodes[n].hash
             /\ nodes'[n].created = nodes[n].created
             /\ nodes'[n].children = Less(nodes[n].children, Cardinality(Children(n) \cap gone))
             /\ Children(n) \subseteq gone => Children(n) = {}
             /\ \A i \in 1 .. Len(nodes[n].path) : nodes[n].path[i] \in DOMAIN nodes \ gone
        /\ sessions[victim].leaf \in gone
        /\ \A s \in DOMAIN sessions' : sessions[s].leaf \in DOMAIN nodes \ gone
  BY EvictBranch
<1>2. \A n \in DOMAIN nodes : req[n].pc # "new" /\ req'[n].body = req[n].body
  <2>1. Step(r)
    BY DEF Step
  <2>2. \A n \in DOMAIN nodes : n \in Requests /\ req[n].pc # "new"
    BY DEF RecordInv
  <2>3. ASSUME NEW n \in DOMAIN nodes PROVE req'[n].body = req[n].body
    BY <2>1, <2>2, StepBodies
  <2> QED
    BY <2>2, <2>3
<1>3. DOMAIN nodes' = DOMAIN nodes \ gone
  BY <1>1
<1>4. ASSUME NEW n \in DOMAIN nodes \ gone
       PROVE  /\ nodes'[n].path = nodes[n].path /\ nodes'[n].sid = nodes[n].sid
              /\ nodes'[n].delta = nodes[n].delta /\ nodes'[n].hash = nodes[n].hash
              /\ nodes'[n].created = nodes[n].created
              /\ \A i \in 1 .. Len(nodes[n].path) : nodes[n].path[i] \in DOMAIN nodes \ gone
  BY <1>1
<1>5. ASSUME NEW s \in DOMAIN sessions'
       PROVE  /\ s \in DOMAIN sessions \ {victim} /\ sessions'[s] = sessions[s]
              /\ sessions[s].leaf \in DOMAIN nodes \ gone
  BY <1>1
<1>6. ASSUME NEW n PROVE Children(n)' = Children(n) \ gone
  <2>1. ASSUME NEW m \in DOMAIN nodes \ gone PROVE ParentOf(m)' = ParentOf(m)
    BY <1>4 DEF ParentOf
  <2>2. Children(n)' = {m \in DOMAIN nodes \ gone : ParentOf(m)' = <<n>>}
    BY <1>3 DEF Children
  <2>3. Children(n) \ gone = {m \in DOMAIN nodes \ gone : ParentOf(m) = <<n>>}
    BY DEF Children
  <2> QED
    BY <2>1, <2>2, <2>3
<1>7. ASSUME NEW n \in DOMAIN nodes \ gone
      PROVE  /\ nodes'[n].children = Cardinality(Children(n) \ gone)
             /\ nodes'[n].children \in Nat
             /\ nodes'[n].children = 0 <=> nodes[n].children = 0
  <2>1. IsFiniteSet(Children(n)) /\ nodes[n].children = Cardinality(Children(n))
    BY ChildrenAreFinite DEF StructInv, ChildInv
  <2>2. /\ IsFiniteSet(Children(n) \ gone) /\ IsFiniteSet(Children(n) \cap gone)
        /\ Cardinality(Children(n) \ gone)
             = Cardinality(Children(n)) - Cardinality(Children(n) \cap gone)
    BY <2>1, FS_Difference, FS_Subset
  <2>3. /\ Cardinality(Children(n)) \in Nat /\ Cardinality(Children(n) \ gone) \in Nat
        /\ Cardinality(Children(n) \cap gone) \in Nat
    BY <2>1, <2>2, FS_CardinalityType
  <2>4. nodes'[n].children = Less(Cardinality(Children(n)), Cardinality(Children(n) \cap gone))
    BY <1>1, <2>1
  <2>5. nodes'[n].children = Cardinality(Children(n) \ gone)
    BY <2>2, <2>3, <2>4 DEF Less
  <2>6. (Cardinality(Children(n) \ gone) = 0) <=> (Cardinality(Children(n)) = 0)
    BY <1>1, <2>1, <2>2, FS_EmptySet
  <2> QED
    BY <2>1, <2>3, <2>5, <2>6
<1>8. DataInv'
  <2>1. index' \in [Hashes -> Seq(Requests)]
    BY <1>1, FilteredElements DEF StructInv, DataInv, Unindexed
  <2>2. IsFiniteSet(DOMAIN nodes')
    BY <1>1, FS_Subset DEF StructInv, DataInv
  <2> QED
    BY <1>1, <1>7, <2>1, <2>2 DEF StructInv, DataInv
<1>9. PathInv'
  <2>1. ASSUME NEW n \in DOMAIN nodes \ gone, NEW i \in 1 .. Len(nodes[n].path)
        PROVE  nodes'[nodes[n].path[i]].path = SubSeq(nodes[n].path, 1, i)
    <3>1. nodes[nodes[n].path[i]].path = SubSeq(nodes[n].path, 1, i)
      BY DEF StructInv, PathInv
    <3>2. nodes[n].path[i] \in DOMAIN nodes \ gone
      BY <1>4
    <3> QED
      BY <1>4, <3>1, <3>2
  <2>2. \A n \in DOMAIN nodes \ gone :
          /\ nodes[n].path \in Seq(Requests) /\ nodes[n].path # << >>
          /\ nodes[n].path[Len(nodes[n].path)] = n
    BY DEF StructInv, PathInv
  <2> QED
    BY <1>3, <1>4, <2>1, <2>2 DEF PathInv
<1>10. ChildInv'
  <2>1. DOMAIN nodes' = DOMAIN nodes \ gone
    BY <1>1
  <2>2. ASSUME NEW n \in DOMAIN nodes \ gone
        PROVE  nodes'[n].children = Cardinality(Children(n)')
    BY <1>6, <1>7
  <2> QED
    BY <2>1, <2>2 DEF ChildInv
<1>11. ASSUME NEW n \in DOMAIN nodes \ gone PROVE Chain(n)' = Chain(n)
  <2>1. DOMAIN nodes[n].path = 1 .. Len(nodes[n].path)
    BY PathIsSimple DEF StructInv
  <2>2. [i \in DOMAIN nodes'[n].path |-> nodes'[nodes'[n].path[i]].delta]
          = [i \in DOMAIN nodes[n].path |-> nodes[nodes[n].path[i]].delta]
    <3>1. nodes'[n].path = nodes[n].path
      BY <1>1
    <3>2. ASSUME NEW i \in DOMAIN nodes[n].path
          PROVE  nodes'[nodes[n].path[i]].delta = nodes[nodes[n].path[i]].delta
      BY <1>1, <2>1
    <3> QED
      BY <3>1, <3>2
  <2> QED
    BY <2>2 DEF Chain
<1>12. HashInv'
  <2>1. DOMAIN nodes' = DOMAIN nodes \ gone
    BY <1>1
  <2>2. ASSUME NEW n \in DOMAIN nodes \ gone
        PROVE  nodes'[n].hash = Accumulate(0, Chain(n)')
    <3>1. nodes[n].hash = Accumulate(0, Chain(n))
      BY DEF StructInv, HashInv
    <3> QED
      BY <1>11, <1>4, <3>1
  <2> QED
    BY <2>1, <2>2 DEF HashInv
<1>13. IndexInv'
  <2>1. ASSUME NEW h \in Hashes
        PROVE  IsInjective(index'[h]) /\ ToSet(index'[h]) = ToSet(index[h]) \ gone
    <3>1. index[h] \in Seq(Requests) /\ IsInjective(index[h])
      BY DEF StructInv, DataInv, IndexInv
    <3>2. index'[h] = Filtered(index[h], gone)
      BY <1>1 DEF Unindexed
    <3> QED
      BY <3>1, <3>2, FilteredElements
  <2>2. ASSUME NEW h \in Hashes
        PROVE  {n \in DOMAIN nodes : nodes[n].hash = h}' = {n \in DOMAIN nodes : nodes[n].hash = h} \ gone
    BY <1>1
  <2> QED
    BY <2>1, <2>2 DEF StructInv, IndexInv
<1>14. TipInv'
  <2>1. ASSUME NEW n \in DOMAIN nodes \ gone PROVE IsSessionHead(n)' <=> IsSessionHead(n)
    BY <1>1, <1>4, <1>5 DEF IsSessionHead
  <2>2. ASSUME NEW n \in DOMAIN nodes \ gone
        PROVE  nodes'[n].sid \in Requests /\ req'[nodes'[n].sid].pc \notin {"new", "built"}
    <3>1. Step(r)
      BY DEF Step
    <3>2. nodes[n].sid \in Requests /\ req[nodes[n].sid].pc \notin {"new", "built"}
      BY DEF StructInv, TipInv
    <3>3. req[nodes[n].sid].pc # "new" /\ req[nodes[n].sid].pc # "built"
      BY <3>2
    <3>4. req'[nodes[n].sid].pc \notin {"new", "built"}
      BY <3>1, <3>2, <3>3, StepBodies
    <3> QED
      BY <1>1, <3>2, <3>4
  <2>3. ASSUME NEW n \in DOMAIN nodes \ gone, nodes'[n].sid \in DOMAIN sessions'
        PROVE  n \in ToSet(nodes'[sessions'[nodes'[n].sid].leaf].path)
    <3>1. nodes'[n].sid = nodes[n].sid /\ nodes[n].sid \in DOMAIN sessions
      BY <1>1, <2>3
    <3>2. n \in ToSet(nodes[sessions[nodes[n].sid].leaf].path)
      BY <3>1 DEF StructInv, TipInv
    <3>3. /\ sessions'[nodes[n].sid].leaf = sessions[nodes[n].sid].leaf
          /\ sessions[nodes[n].sid].leaf \in DOMAIN nodes \ gone
      BY <1>1, <2>3, <3>1
    <3>4. nodes'[sessions[nodes[n].sid].leaf].path = nodes[sessions[nodes[n].sid].leaf].path
      BY <1>4, <3>3
    <3> QED
      BY <3>1, <3>2, <3>3, <3>4
  <2>4. ASSUME NEW s \in DOMAIN sessions'
        PROVE  /\ sessions'[s].leaf \in DOMAIN nodes' /\ nodes'[sessions'[s].leaf].sid = s
               /\ sessions'[s].root \in ToSet(nodes'[sessions'[s].leaf].path)
    <3>1. /\ nodes[sessions[s].leaf].sid = s
          /\ sessions[s].root \in ToSet(nodes[sessions[s].leaf].path)
      BY <1>5 DEF StructInv, TipInv
    <3> QED
      BY <1>3, <1>4, <1>5, <3>1
  <2>5. \A n \in DOMAIN nodes \ gone : nodes[n].children = 0 <=> IsSessionHead(n)
    BY DEF StructInv, TipInv
  <2> QED
    <3>1. ASSUME NEW n \in DOMAIN nodes \ gone
          PROVE  nodes'[n].children = 0 <=> IsSessionHead(n)'
      BY <1>7, <2>1, <2>5
    <3> QED
      BY <1>3, <2>2, <2>3, <2>4, <3>1 DEF TipInv
<1>15. ASSUME NEW s \in DOMAIN sessions'
       PROVE  /\ Own(s)' = Own(s)
              /\ \A n \in Own(s) : nodes'[n].created = nodes[n].created
  <2>1. ASSUME NEW n \in Own(s) PROVE n \in DOMAIN nodes \ gone
    <3>1. n \in ToSet(nodes[sessions[s].leaf].path)
      BY <1>5 DEF Own, StructInv, TipInv
    <3>2. sessions[s].leaf \in DOMAIN nodes \ gone
      BY <1>5
    <3>3. DOMAIN nodes[sessions[s].leaf].path = 1 .. Len(nodes[sessions[s].leaf].path)
      BY <3>2, PathIsSimple DEF StructInv
    <3> QED
      BY <1>4, <3>1, <3>2, <3>3 DEF ToSet
  <2> QED
    <3>1. Own(s)' = {n \in DOMAIN nodes \ gone : nodes[n].sid = s}
      BY <1>3, <1>4 DEF Own
    <3>2. {n \in DOMAIN nodes \ gone : nodes[n].sid = s} = Own(s)
      BY <2>1 DEF Own
    <3>3. \A n \in Own(s) : nodes'[n].created = nodes[n].created
      BY <1>4, <2>1
    <3> QED
      BY <3>1, <3>2, <3>3
<1>16. CountInv'
  <2>1. ASSUME NEW s \in DOMAIN sessions'
        PROVE  {nodes'[n].created : n \in Own(s)} = {nodes[n].created : n \in Own(s)}
    BY <1>15
  <2>2. ASSUME NEW s \in DOMAIN sessions'
        PROVE  /\ sessions'[s].count = Cardinality(Own(s)')
               /\ sessions'[s].latest \in {nodes'[n].created : n \in Own(s)'}
               /\ \A n \in Own(s)' : nodes'[n].created <= sessions'[s].latest
    <3>1. /\ sessions[s].count = Cardinality(Own(s))
          /\ sessions[s].latest \in {nodes[n].created : n \in Own(s)}
          /\ \A n \in Own(s) : nodes[n].created <= sessions[s].latest
      BY <1>5 DEF StructInv, CountInv
    <3> QED
      BY <1>15, <1>5, <2>1, <3>1
  <2> QED
    BY <2>2 DEF CountInv
<1>17. ConversationIsExact'
  <2>1. ASSUME NEW n \in DOMAIN nodes \ gone PROVE Chain(n)' = req'[n].body
    BY <1>2, <1>11 DEF StructInv, ConversationIsExact
  <2> QED
    BY <1>3, <2>1 DEF ConversationIsExact
<1> QED
  BY <1>8, <1>9, <1>10, <1>12, <1>13, <1>14, <1>16, <1>17 DEF StructInv
-----------------------------------------------------------------------------
(* A push appends one node to one path *)

\* The deltas along a chain.
Deltas(n) == [i \in DOMAIN nodes[n].path |-> nodes[nodes[n].path[i]].delta]

\* A chain is the concatenation of the deltas along the path.
LEMMA ChainIs ==
    ASSUME DataInv, PathInv, NEW n \in DOMAIN nodes
    PROVE  /\ Deltas(n) \in Seq(Seq(Messages)) /\ Len(Deltas(n)) = Len(nodes[n].path)
           /\ Chain(n) = FlattenSeq(Deltas(n)) /\ Chain(n) \in Seq(Messages)
<1>1. DOMAIN nodes[n].path = 1 .. Len(nodes[n].path) /\ Len(nodes[n].path) \in Nat
  BY PathIsSimple
<1>2. ASSUME NEW i \in 1 .. Len(nodes[n].path)
      PROVE  nodes[nodes[n].path[i]].delta \in Seq(Messages)
  BY OnPath DEF DataInv
<1>3. Deltas(n) \in Seq(Seq(Messages)) /\ Len(Deltas(n)) = Len(nodes[n].path)
  BY <1>1, <1>2 DEF Deltas
<1>4. Chain(n) = FlattenSeq(Deltas(n))
  BY DEF Chain, Deltas
<1>5. << >> \in Seq(Messages)
  OBVIOUS
<1>6. Chain(n) \in Seq(Messages)
  BY <1>3, <1>4, <1>5, FlattenAppend
<1> QED
  BY <1>3, <1>4, <1>6

\* What a push adds: up is the parent, if it finds one.
Added(r, up) ==
    /\ up # NoParent => \E n \in DOMAIN nodes : up = <<n>>
    /\ r \notin DOMAIN nodes /\ DOMAIN nodes' = DOMAIN nodes \cup {r}
    /\ \A n \in DOMAIN nodes :
         /\ nodes'[n].path = nodes[n].path /\ nodes'[n].sid = nodes[n].sid
         /\ nodes'[n].delta = nodes[n].delta /\ nodes'[n].hash = nodes[n].hash
         /\ nodes'[n].created = nodes[n].created
         /\ nodes'[n].children = IF up = <<n>> THEN nodes[n].children + 1 ELSE nodes[n].children

\* The fields of the node that a push adds.
NodeAdded(r, up) ==
    /\ nodes'[r].children = 0 /\ nodes'[r].created \in Nat
    /\ nodes'[r].sid = SessionOf(r, up)
    /\ nodes'[r].path = IF up = NoParent THEN <<r>> ELSE Append(nodes[up[1]].path, r)
    /\ nodes'[r].delta \in Seq(Messages)
    /\ nodes'[r].hash = Accumulate(IF up = NoParent THEN 0 ELSE nodes[up[1]].hash, nodes'[r].delta)
    /\ req[r].body = (IF up = NoParent THEN << >> ELSE Chain(up[1])) \o nodes'[r].delta

\* A push adds one node, below the parent that find_parent returned.
LEMMA PushAdds ==
    ASSUME RequestsOK, RecordInv, StructInv, NEW r \in Requests, Push(r)
    PROVE  LET up == FindParent(req[r].body).parent IN Added(r, up) /\ NodeAdded(r, up)
<1> DEFINE body == req[r].body
           found == FindParent(body)
           up == found.parent
           k == found.split
<1>1. req[r] \in Request /\ body \in Seq(Messages)
  <2>1. req[r] \in Request
    BY DEF RequestsOK
  <2>2. body \in Bodies \cup {<< >>}
    BY <2>1 DEF Request
  <2> QED
    <3>1. << >> \in Seq(Messages)
      OBVIOUS
    <3> QED
      BY <2>1, <2>2, <3>1, MessagesAssumption
<1>2. /\ up # NoParent => \E n \in DOMAIN nodes : up = <<n>> /\ Chain(n) = Prefix(body, k)
      /\ up = NoParent => k = 0
      /\ k \in 0 .. Len(body)
  <2>1. DataInv /\ Len(body) \in Nat
    BY <1>1 DEF StructInv
  <2> HIDE DEF body
  <2>2. \/ FindParent(body) = [parent |-> NoParent, split |-> 0]
        \/ \E i \in 1 .. Len(body) : \E n :
             /\ FindParent(body) = [parent |-> <<n>>, split |-> i]
             /\ PrefixChainMatches(n, Prefix(body, i))
    BY <1>1, <2>1, FindParentIs
  <2>3. CASE FindParent(body) = [parent |-> NoParent, split |-> 0]
    BY <2>1, <2>3
  <2>4. CASE \E i \in 1 .. Len(body) : \E n :
               /\ FindParent(body) = [parent |-> <<n>>, split |-> i]
               /\ PrefixChainMatches(n, Prefix(body, i))
    BY <2>1, <2>4 DEF PrefixChainMatches, NoParent
  <2> QED
    BY <2>2, <2>3, <2>4
<1>3. /\ r \notin DOMAIN nodes /\ DOMAIN nodes' = DOMAIN nodes \cup {r}
      /\ nodes'[r] = NewNode(r, found)
      /\ \A n \in DOMAIN nodes :
           /\ DOMAIN nodes'[n] = DOMAIN nodes[n]
           /\ \A field \in NodeFields \ {"children"} : nodes'[n][field] = nodes[n][field]
  BY PushNodes
<1>4. nodes' = With(WithChild(up), r, NewNode(r, found))
  BY DEF Push
<1> HIDE DEF found
<1>5. ASSUME NEW n \in DOMAIN nodes
      PROVE  nodes'[n].children = IF up = <<n>> THEN nodes[n].children + 1 ELSE nodes[n].children
  <2>1. NodeFields \subseteq DOMAIN nodes[n]
    BY DEF RecordInv
  <2>2. nodes'[n] = IF up = <<n>> THEN [nodes[n] EXCEPT !.children = @ + 1] ELSE nodes[n]
    BY <1>3, <1>4 DEF With, WithChild
  <2> QED
    BY <2>1, <2>2 DEF NodeFields
<1>6. Added(r, up)
  <2>1. \A n \in DOMAIN nodes :
         /\ nodes'[n].path = nodes[n].path /\ nodes'[n].sid = nodes[n].sid
         /\ nodes'[n].delta = nodes[n].delta /\ nodes'[n].hash = nodes[n].hash
         /\ nodes'[n].created = nodes[n].created
    BY <1>3 DEF NodeFields
  <2> QED
    BY <1>2, <1>3, <1>5, <2>1 DEF Added
<1>7. nodes'[r].delta = SubSeq(body, k + 1, Len(body))
  <2>1. NewNode(r, found).delta = SubSeq(req[r].body, found.split + 1, Len(req[r].body))
    BY DEF NewNode
  <2> QED
    BY <1>3, <2>1
<1>8. /\ nodes'[r].delta \in Seq(Messages)
      /\ Prefix(body, k) \o nodes'[r].delta = body
  <2>1. k \in 0 .. Len(body) /\ body \in Seq(Messages)
    BY <1>1, <1>2
  <2> HIDE DEF body, k
  <2>2. /\ SubSeq(body, k + 1, Len(body)) \in Seq(Messages)
        /\ SubSeq(body, 1, k) \o SubSeq(body, k + 1, Len(body)) = body
    BY <2>1, CutInTwo
  <2> QED
    BY <1>7, <2>2 DEF Prefix
<1>9. body = (IF up = NoParent THEN << >> ELSE Chain(up[1])) \o nodes'[r].delta
  <2>1. CASE up = NoParent
    <3>1. body = nodes'[r].delta
      BY <1>1, <1>2, <1>7, <2>1
    <3> QED
      BY <1>8, <2>1, <3>1
  <2>2. CASE up # NoParent
    <3>1. PICK n \in DOMAIN nodes : up = <<n>> /\ Chain(n) = Prefix(body, k)
      BY <1>2, <2>2
    <3>2. up[1] = n
      BY <3>1
    <3> HIDE DEF up, body, k
    <3> QED
      BY <1>8, <2>2, <3>1, <3>2
  <2> QED
    BY <2>1, <2>2
<1>10. NodeAdded(r, up)
  <2>1. /\ nodes'[r].children = 0 /\ nodes'[r].created = req[r].created
        /\ nodes'[r].sid = SessionOf(r, up)
        /\ nodes'[r].path = IF up = NoParent THEN <<r>> ELSE Append(nodes[up[1]].path, r)
        /\ nodes'[r].hash = Accumulate(IF up = NoParent THEN 0 ELSE nodes[up[1]].hash,
                                       SubSeq(body, k + 1, Len(body)))
    BY <1>3 DEF NewNode
  <2>2. req[r].created \in Nat
    BY <1>1 DEF Request
  <2> QED
    BY <1>7, <1>8, <1>9, <2>1, <2>2 DEF NodeAdded
<1> QED
  BY <1>6, <1>10 DEF found

\* The paths after a push.
LEMMA PushPaths ==
    ASSUME PathInv, NEW r \in Requests, NEW up, Added(r, up), NodeAdded(r, up)
    PROVE  PathInv'
<1> DEFINE q == nodes'[r].path
<1>1. /\ DOMAIN nodes' = DOMAIN nodes \cup {r} /\ r \notin DOMAIN nodes
      /\ \A n \in DOMAIN nodes : nodes'[n].path = nodes[n].path
  BY DEF Added
<1>2. ASSUME NEW n \in DOMAIN nodes
      PROVE  /\ nodes'[n].path \in Seq(Requests) /\ nodes'[n].path # << >>
             /\ nodes'[n].path[Len(nodes'[n].path)] = n
             /\ \A i \in 1 .. Len(nodes'[n].path) :
                  /\ nodes'[n].path[i] \in DOMAIN nodes
                  /\ nodes'[nodes'[n].path[i]].path = SubSeq(nodes'[n].path, 1, i)
  <2>1. nodes'[n].path = nodes[n].path
    BY <1>1
  <2>2. /\ nodes[n].path \in Seq(Requests) /\ nodes[n].path # << >>
        /\ nodes[n].path[Len(nodes[n].path)] = n
        /\ \A i \in 1 .. Len(nodes[n].path) :
             /\ nodes[n].path[i] \in DOMAIN nodes
             /\ nodes[nodes[n].path[i]].path = SubSeq(nodes[n].path, 1, i)
    BY DEF PathInv
  <2>3. \A i \in 1 .. Len(nodes[n].path) :
          nodes'[nodes[n].path[i]].path = SubSeq(nodes[n].path, 1, i)
    BY <1>1, <2>2
  <2> QED
    BY <2>1, <2>2, <2>3
<1>3. /\ q \in Seq(Requests) /\ q # << >> /\ q[Len(q)] = r
      /\ \A i \in 1 .. Len(q) : q[i] \in DOMAIN nodes' /\ nodes'[q[i]].path = SubSeq(q, 1, i)
  <2>1. CASE up = NoParent
    <3>1. q = <<r>>
      BY <2>1 DEF NodeAdded
    <3>2. /\ <<r>> \in Seq(Requests) /\ Len(<<r>>) = 1 /\ <<r>>[1] = r /\ <<r>> # << >>
          /\ SubSeq(<<r>>, 1, 1) = <<r>>
      <4>1. /\ << >> \in Seq(Requests) /\ Append(<< >>, r) = <<r>> /\ Len(<< >>) = 0
            /\ Len(<<r>>) = 1 /\ <<r>>[1] = r /\ <<r>> # << >> /\ <<r>> \in Seq(Requests)
        OBVIOUS
      <4>2. SubSeq(Append(<< >>, r), 1, Len(<< >>) + 1) = Append(<< >>, r)
        BY <4>1, AppendPrefixes
      <4> QED
        BY <4>1, <4>2
    <3>3. q[1] \in DOMAIN nodes' /\ nodes'[q[1]].path = SubSeq(q, 1, 1)
      BY <1>1, <3>1, <3>2
    <3>4. \A i \in 1 .. Len(q) : i = 1
      BY <3>1, <3>2
    <3> QED
      BY <3>1, <3>2, <3>3, <3>4
  <2>2. CASE up # NoParent
    <3>1. PICK n \in DOMAIN nodes : up = <<n>>
      BY <2>2 DEF Added
    <3> DEFINE p == nodes[n].path
    <3>2. q = Append(p, r)
      BY <2>2, <3>1 DEF NodeAdded
    <3>3. p \in Seq(Requests) /\ Len(p) \in Nat
      BY PathIsSimple
    <3>4. \A i \in 1 .. Len(p) : p[i] \in DOMAIN nodes /\ nodes'[p[i]].path = SubSeq(p, 1, i)
      BY <1>1 DEF PathInv
    <3>5. nodes'[r].path = q
      OBVIOUS
    <3> HIDE DEF p, q
    <3>6. /\ q \in Seq(Requests) /\ Len(q) = Len(p) + 1 /\ q[Len(p) + 1] = r
          /\ \A i \in 1 .. Len(p) : q[i] = p[i] /\ SubSeq(q, 1, i) = SubSeq(p, 1, i)
          /\ SubSeq(q, 1, Len(p) + 1) = q
      BY <3>2, <3>3, AppendPrefixes
    <3>7. ASSUME NEW i \in 1 .. Len(q)
          PROVE  q[i] \in DOMAIN nodes' /\ nodes'[q[i]].path = SubSeq(q, 1, i)
      <4>1. CASE i = Len(p) + 1
        BY <1>1, <3>5, <3>6, <4>1
      <4>2. CASE i # Len(p) + 1
        <5>1. i \in 1 .. Len(p)
          BY <3>3, <3>6, <4>2
        <5> QED
          BY <1>1, <3>4, <3>6, <5>1
      <4> QED
        BY <4>1, <4>2
    <3>8. q # << >>
      BY <3>3, <3>6
    <3> QED
      BY <3>6, <3>7, <3>8
  <2> QED
    BY <2>1, <2>2
<1> QED
  BY <1>1, <1>2, <1>3 DEF PathInv

\* The conversations after a push: that of the new node is the body of its request.
LEMMA PushChains ==
    ASSUME DataInv, PathInv, NEW r \in Requests, NEW up, Added(r, up), NodeAdded(r, up)
    PROVE  /\ \A n \in DOMAIN nodes : Chain(n)' = Chain(n)
           /\ Chain(r)' = req[r].body
<1>1. ASSUME NEW n \in DOMAIN nodes PROVE Deltas(n)' = Deltas(n)
  <2>1. DOMAIN nodes[n].path = 1 .. Len(nodes[n].path)
    BY PathIsSimple
  <2>2. \A i \in DOMAIN nodes[n].path : nodes[n].path[i] \in DOMAIN nodes
    BY <2>1, OnPath
  <2> QED
    BY <2>2 DEF Deltas, Added
<1>2. ASSUME NEW n PROVE Chain(n)' = FlattenSeq(Deltas(n)') /\ Chain(n) = FlattenSeq(Deltas(n))
  BY DEF Chain, Deltas
<1>3. ASSUME NEW n \in DOMAIN nodes PROVE Chain(n)' = Chain(n)
  BY <1>1, <1>2
<1>4. nodes'[r].delta \in Seq(Messages)
  BY DEF NodeAdded
<1>5. Chain(r)' = (IF up = NoParent THEN << >> ELSE Chain(up[1])) \o nodes'[r].delta
  <2>1. CASE up = NoParent
    <3>1. nodes'[r].path = <<r>>
      BY <2>1 DEF NodeAdded
    <3>2. Deltas(r)' = <<nodes'[r].delta>>
      BY <3>1 DEF Deltas
    <3>3. <<nodes'[r].delta>> = Append(<< >>, nodes'[r].delta) /\ << >> \in Seq(Seq(Messages))
      OBVIOUS
    <3>4. FlattenSeq(Append(<< >>, nodes'[r].delta)) = FlattenSeq(<< >>) \o nodes'[r].delta
      BY <1>4, <3>3, FlattenAppend
    <3> QED
      BY <1>2, <2>1, <3>2, <3>3, <3>4, FlattenEmpty
  <2>2. CASE up # NoParent
    <3>1. PICK n \in DOMAIN nodes : up = <<n>>
      BY <2>2 DEF Added
    <3> DEFINE p == nodes[n].path
               d == nodes'[r].delta
    <3>2. nodes'[r].path = Append(p, r)
      BY <2>2, <3>1 DEF NodeAdded
    <3>3. p \in Seq(Requests) /\ Len(p) \in Nat /\ \A i \in 1 .. Len(p) : p[i] \in DOMAIN nodes
      BY PathIsSimple, OnPath
    <3>4. Deltas(n) \in Seq(Seq(Messages)) /\ Len(Deltas(n)) = Len(p)
          /\ \A i \in 1 .. Len(p) : Deltas(n)[i] = nodes[p[i]].delta
      <4>1. Deltas(n) \in Seq(Seq(Messages)) /\ Len(Deltas(n)) = Len(p)
        BY ChainIs
      <4>2. DOMAIN p = 1 .. Len(p)
        BY <3>3
      <4> QED
        BY <4>1, <4>2 DEF Deltas
    <3>5. Deltas(r)' = Append(Deltas(n), d)
      <4> DEFINE a == Deltas(r)'
                 b == Append(Deltas(n), d)
      <4>1. \A m \in DOMAIN nodes : nodes'[m].delta = nodes[m].delta
        BY DEF Added
      <4>2. DOMAIN Append(p, r) = 1 .. Len(p) + 1 /\ Append(p, r)[Len(p) + 1] = r
            /\ \A i \in 1 .. Len(p) : Append(p, r)[i] = p[i]
        BY <3>3
      <4>3. a = [i \in DOMAIN Append(p, r) |-> nodes'[Append(p, r)[i]].delta]
        BY <3>2 DEF Deltas
      <4>4. a = [i \in 1 .. Len(p) + 1 |-> IF i = Len(p) + 1 THEN d ELSE Deltas(n)[i]]
        <5>1. ASSUME NEW i \in 1 .. Len(p) + 1
              PROVE  nodes'[Append(p, r)[i]].delta = IF i = Len(p) + 1 THEN d ELSE Deltas(n)[i]
          <6>1. CASE i = Len(p) + 1
            BY <4>2, <6>1
          <6>2. CASE i # Len(p) + 1
            <7>1. i \in 1 .. Len(p)
              BY <3>3, <6>2
            <7>2. Append(p, r)[i] = p[i] /\ p[i] \in DOMAIN nodes
              BY <3>3, <4>2, <7>1
            <7>3. nodes'[p[i]].delta = Deltas(n)[i]
              BY <3>4, <4>1, <7>1, <7>2
            <7> QED
              BY <6>2, <7>2, <7>3
          <6> QED
            BY <6>1, <6>2
        <5> QED
          BY <4>2, <4>3, <5>1
      <4>5. b = [i \in 1 .. Len(p) + 1 |-> IF i = Len(p) + 1 THEN d ELSE Deltas(n)[i]]
        <5> HIDE DEF p, d
        <5>1. DOMAIN b = 1 .. Len(p) + 1 /\ b[Len(p) + 1] = d
              /\ \A i \in 1 .. Len(p) : b[i] = Deltas(n)[i]
          BY <3>3, <3>4
        <5>2. b \in Seq(Seq(Messages))
          BY <1>4, <3>4 DEF d
        <5> HIDE DEF b
        <5>3. \A i \in 1 .. Len(p) + 1 : i # Len(p) + 1 => i \in 1 .. Len(p)
          BY <3>3
        <5>4. b = [i \in DOMAIN b |-> b[i]]
          BY <5>2
        <5> QED
          BY <5>1, <5>3, <5>4
      <4> HIDE DEF a, b
      <4>6. a = b
        BY <4>4, <4>5
      <4> QED
        BY <4>6 DEF a, b
    <3>6. FlattenSeq(Append(Deltas(n), d)) = FlattenSeq(Deltas(n)) \o d
      BY <1>4, <3>4, FlattenAppend
    <3>7. Chain(r)' = Chain(n) \o d
      BY <1>2, <3>5, <3>6
    <3> QED
      BY <2>2, <3>1, <3>7
  <2> QED
    BY <2>1, <2>2
<1> QED
  BY <1>3, <1>5 DEF NodeAdded

\* The parents and children after a push.
LEMMA PushChildren ==
    ASSUME PathInv, NEW r \in Requests, NEW up, Added(r, up), NodeAdded(r, up)
    PROVE  /\ \A n \in DOMAIN nodes :
                Children(n)' = IF up = <<n>> THEN Children(n) \cup {r} ELSE Children(n)
           /\ Children(r)' = {}
<1>1. DOMAIN nodes' = DOMAIN nodes \cup {r} /\ r \notin DOMAIN nodes
  BY DEF Added
<1>2. ASSUME NEW m \in DOMAIN nodes PROVE ParentOf(m)' = ParentOf(m)
  BY DEF Added, ParentOf
<1>3. ASSUME NEW m \in DOMAIN nodes PROVE ParentOf(m) # <<r>>
  BY <1>1, ParentIs
<1>4. ParentOf(r)' = up
  <2>1. CASE up = NoParent
    <3>1. nodes'[r].path = <<r>>
      BY <2>1 DEF NodeAdded
    <3>2. Len(<<r>>) = 1
      OBVIOUS
    <3> QED
      BY <2>1, <3>1, <3>2 DEF ParentOf
  <2>2. CASE up # NoParent
    <3>1. PICK n \in DOMAIN nodes : up = <<n>>
      BY <2>2 DEF Added
    <3> DEFINE p == nodes[n].path
               q == Append(p, r)
    <3>2. nodes'[r].path = q
      BY <2>2, <3>1 DEF NodeAdded
    <3>3. p \in Seq(Requests) /\ Len(p) \in Nat \ {0} /\ p[Len(p)] = n
      BY PathIsSimple
    <3>4. ParentOf(r)' = IF Len(q) = 1 THEN NoParent ELSE <<q[Len(q) - 1]>>
      BY <3>2 DEF ParentOf
    <3> HIDE DEF p
    <3>5. Len(q) = Len(p) + 1 /\ q[Len(p)] = p[Len(p)]
      BY <3>3
    <3> HIDE DEF q
    <3> QED
      BY <3>1, <3>3, <3>4, <3>5
  <2> QED
    BY <2>1, <2>2
<1>5. ASSUME NEW n
      PROVE  Children(n)' = {m \in DOMAIN nodes : ParentOf(m) = <<n>>} \cup {m \in {r} : up = <<n>>}
  <2>1. Children(n)' = {m \in DOMAIN nodes \cup {r} : ParentOf(m)' = <<n>>}
    BY <1>1 DEF Children
  <2> QED
    BY <1>1, <1>2, <1>4, <2>1
<1>6. ASSUME NEW n \in DOMAIN nodes
      PROVE Children(n)' = IF up = <<n>> THEN Children(n) \cup {r} ELSE Children(n)
  BY <1>5 DEF Children
<1>7. up # <<r>>
  BY <1>1 DEF Added, NoParent
<1>8. Children(r)' = {}
  BY <1>3, <1>5, <1>7
<1> QED
  BY <1>6, <1>8

\* The session of a push: that of the parent, whose leaf the parent is, or a new one.
Continues(r, up, sid) ==
    /\ sid \in DOMAIN sessions
    /\ \E n \in DOMAIN nodes : up = <<n>> /\ nodes[n].sid = sid /\ sessions[sid].leaf = n

Opens(r, up, sid) ==
    /\ sid = r /\ r \notin DOMAIN sessions
    /\ \A n \in DOMAIN nodes : nodes[n].sid # r /\ (up = <<n>> => ~ IsSessionHead(n))

\* The new node continues the session whose head is its parent, or opens its own.
LEMMA PushSession ==
    ASSUME TipInv, NEW r \in Requests, req[r].pc = "built", NEW up, Added(r, up), NodeAdded(r, up)
    PROVE  Continues(r, up, nodes'[r].sid) \/ Opens(r, up, nodes'[r].sid)
<1>1. \A n \in DOMAIN nodes : nodes[n].sid # r
  BY DEF TipInv
<1>2. r \notin DOMAIN sessions
  BY <1>1 DEF TipInv
<1>3. nodes'[r].sid = SessionOf(r, up)
  BY DEF NodeAdded
<1>4. CASE up = NoParent
  <2>1. nodes'[r].sid = r
    BY <1>3, <1>4 DEF SessionOf
  <2>2. \A n : up # <<n>>
    BY <1>4 DEF NoParent
  <2> QED
    BY <1>1, <1>2, <2>1, <2>2 DEF Opens
<1>5. CASE up # NoParent
  <2>1. PICK n \in DOMAIN nodes : up = <<n>>
    BY <1>5 DEF Added
  <2>2. up[1] = n /\ \A m : up = <<m>> => m = n
    BY <2>1
  <2>3. CASE IsSessionHead(n)
    <3>1. nodes'[r].sid = nodes[n].sid
      BY <1>3, <1>5, <2>2, <2>3 DEF SessionOf
    <3> QED
      BY <2>1, <2>3, <3>1 DEF Continues, IsSessionHead
  <2>4. CASE ~ IsSessionHead(n)
    <3>1. nodes'[r].sid = r
      BY <1>3, <2>2, <2>4 DEF SessionOf
    <3> QED
      BY <1>1, <1>2, <2>2, <2>4, <3>1 DEF Opens
  <2> QED
    BY <2>3, <2>4
<1> QED
  BY <1>4, <1>5

\* The sessions after a push.
LEMMA PushSessions ==
    ASSUME RecordInv, NEW r \in Requests, Push(r)
    PROVE  LET up == FindParent(req[r].body).parent
               sid == nodes'[r].sid
           IN  /\ DOMAIN sessions' = DOMAIN sessions \cup {sid}
               /\ \A s \in DOMAIN sessions : s # sid => sessions'[s] = sessions[s]
               /\ sessions'[sid] = Advanced(r, nodes'[r], up)
               /\ index' = [index EXCEPT ![nodes'[r].hash] = Append(@, r)]
<1> DEFINE found == FindParent(req[r].body)
           node == NewNode(r, found)
<1>1. nodes'[r] = node
  BY PushNodes
<1>2. /\ sessions' = With(sessions, node.sid, Advanced(r, node, found.parent))
      /\ index' = [index EXCEPT ![node.hash] = Append(@, r)]
  BY DEF Push
<1> HIDE DEF node, found
<1>3. /\ DOMAIN sessions' = DOMAIN sessions \cup {node.sid}
      /\ \A s \in DOMAIN sessions : s # node.sid => sessions'[s] = sessions[s]
      /\ sessions'[node.sid] = Advanced(r, node, found.parent)
  BY <1>2 DEF With
<1> QED
  BY <1>1, <1>2, <1>3 DEF found

\* What a push does to the sessions, and to the index.
SessionsAdded(r, up) ==
    /\ DOMAIN sessions' = DOMAIN sessions \cup {nodes'[r].sid}
    /\ \A s \in DOMAIN sessions : s # nodes'[r].sid => sessions'[s] = sessions[s]
    /\ sessions'[nodes'[r].sid] = Advanced(r, nodes'[r], up)

\* A push keeps that sessions point at their deepest node.
LEMMA PushTips ==
    ASSUME DataInv, PathInv, TipInv, NEW r \in Requests, req[r].pc = "built",
           req'[r].pc \notin {"new", "built"},
           \A q \in Requests : req[q].pc \notin {"new", "built"} => req'[q].pc \notin {"new", "built"},
           NEW up, Added(r, up), NodeAdded(r, up), SessionsAdded(r, up)
    PROVE  TipInv'
<1> DEFINE sid == nodes'[r].sid
<1>1. Continues(r, up, sid) \/ Opens(r, up, sid)
  BY PushSession
<1>2. DOMAIN nodes' = DOMAIN nodes \cup {r} /\ r \notin DOMAIN nodes
  BY DEF Added
<1>3. ASSUME NEW n \in DOMAIN nodes
      PROVE  /\ nodes'[n].path = nodes[n].path /\ nodes'[n].sid = nodes[n].sid
             /\ nodes'[n].children = IF up = <<n>> THEN nodes[n].children + 1 ELSE nodes[n].children
             /\ nodes[n].children \in Nat
  BY DEF Added, DataInv
<1>4. nodes'[r].children = 0
  BY DEF NodeAdded
<1>5. /\ DOMAIN sessions' = DOMAIN sessions \cup {sid}
      /\ \A s \in DOMAIN sessions : s # sid => sessions'[s] = sessions[s]
      /\ sessions'[sid].leaf = r
      /\ sessions'[sid].root = IF sid \in DOMAIN sessions THEN sessions[sid].root
                               ELSE IF up = NoParent THEN r ELSE up[1]
  BY DEF SessionsAdded, Advanced
<1>6. sid \in Requests /\ req'[sid].pc \notin {"new", "built"}
  <2>1. CASE sid = r
    BY <2>1
  <2>2. CASE sid # r
    <3>1. PICK n \in DOMAIN nodes : nodes[n].sid = sid
      BY <1>1, <2>2 DEF Continues, Opens
    <3>2. sid \in Requests /\ req[sid].pc \notin {"new", "built"}
      BY <3>1 DEF TipInv
    <3> QED
      BY <3>2
  <2> QED
    BY <2>1, <2>2
<1>7. /\ r \in ToSet(nodes'[r].path)
      /\ \A n \in DOMAIN nodes : up = <<n>> => ToSet(nodes[n].path) \subseteq ToSet(nodes'[r].path)
      /\ \A n \in DOMAIN nodes : n \in ToSet(nodes[n].path)
  <2>1. ASSUME NEW n \in DOMAIN nodes
        PROVE  nodes[n].path \in Seq(Requests) /\ n \in ToSet(nodes[n].path)
    <3>1. /\ nodes[n].path \in Seq(Requests) /\ Len(nodes[n].path) \in DOMAIN nodes[n].path
          /\ nodes[n].path[Len(nodes[n].path)] = n
      BY PathIsSimple
    <3> QED
      BY <3>1 DEF ToSet
  <2>2. CASE up = NoParent
    <3>1. nodes'[r].path = <<r>>
      BY <2>2 DEF NodeAdded
    <3>2. r \in ToSet(<<r>>)
      BY DEF ToSet
    <3> QED
      BY <2>1, <2>2, <3>1, <3>2 DEF NoParent
  <2>3. CASE up # NoParent
    <3>1. PICK m \in DOMAIN nodes : up = <<m>>
      BY <2>3 DEF Added
    <3>2. up[1] = m /\ \A n : up = <<n>> => n = m
      BY <3>1
    <3>3. nodes'[r].path = Append(nodes[m].path, r)
      BY <2>3, <3>2 DEF NodeAdded
    <3>4. ToSet(Append(nodes[m].path, r)) = ToSet(nodes[m].path) \cup {r}
      BY <2>1, AppendElements
    <3> QED
      BY <2>1, <3>2, <3>3, <3>4
  <2> QED
    BY <2>2, <2>3
<1>8. ASSUME NEW n \in DOMAIN nodes
      PROVE  /\ nodes'[n].sid \in Requests /\ req'[nodes'[n].sid].pc \notin {"new", "built"}
             /\ nodes'[n].children = 0 <=> IsSessionHead(n)'
             /\ nodes'[n].sid \in DOMAIN sessions'
                  => n \in ToSet(nodes'[sessions'[nodes'[n].sid].leaf].path)
  <2>1. /\ nodes[n].sid \in Requests /\ req[nodes[n].sid].pc \notin {"new", "built"}
        /\ nodes[n].children = 0 <=> IsSessionHead(n)
        /\ nodes[n].sid \in DOMAIN sessions
             => n \in ToSet(nodes[sessions[nodes[n].sid].leaf].path)
    BY DEF TipInv
  <2>2. IsSessionHead(n)' <=> nodes[n].sid \in DOMAIN sessions' /\ sessions'[nodes[n].sid].leaf = n
    BY <1>3 DEF IsSessionHead
  <2>3. IsSessionHead(n) <=> nodes[n].sid \in DOMAIN sessions /\ sessions[nodes[n].sid].leaf = n
    BY DEF IsSessionHead
  <2>4. CASE nodes[n].sid = sid
    <3>1. PICK m \in DOMAIN nodes : up = <<m>> /\ nodes[m].sid = sid /\ sessions[sid].leaf = m
                                    /\ sid \in DOMAIN sessions
      BY <1>1, <2>4 DEF Continues, Opens
    <3>2. ~ IsSessionHead(n)'
      BY <1>2, <1>5, <2>2, <2>4
    <3>3. nodes'[n].children # 0
      <4>1. CASE n = m
        BY <1>3, <3>1, <4>1
      <4>2. CASE n # m
        <5>1. ~ IsSessionHead(n)
          BY <2>3, <2>4, <3>1, <4>2
        <5>2. up # <<n>>
          BY <3>1, <4>2
        <5> QED
          BY <1>3, <2>1, <5>1, <5>2
      <4> QED
        BY <4>1, <4>2
    <3>4. n \in ToSet(nodes'[r].path)
      BY <1>7, <2>1, <2>4, <3>1
    <3> QED
      BY <1>3, <1>5, <2>1, <2>4, <3>2, <3>3, <3>4
  <2>5. CASE nodes[n].sid # sid
    <3>1. IsSessionHead(n)' <=> IsSessionHead(n)
      BY <1>5, <2>2, <2>3, <2>5
    <3>2. nodes'[n].children = 0 <=> nodes[n].children = 0
      <4>1. CASE up = <<n>>
        <5>1. ~ IsSessionHead(n)
          <6>1. CASE Continues(r, up, sid)
            BY <2>5, <4>1, <6>1 DEF Continues
          <6>2. CASE Opens(r, up, sid)
            BY <4>1, <6>2 DEF Opens
          <6> QED
            BY <1>1, <6>1, <6>2
        <5> QED
          BY <1>3, <2>1, <4>1, <5>1
      <4>2. CASE up # <<n>>
        BY <1>3, <4>2
      <4> QED
        BY <4>1, <4>2
    <3>3. ASSUME nodes[n].sid \in DOMAIN sessions'
          PROVE  n \in ToSet(nodes'[sessions'[nodes[n].sid].leaf].path)
      <4>1. nodes[n].sid \in DOMAIN sessions /\ sessions'[nodes[n].sid] = sessions[nodes[n].sid]
        BY <1>5, <2>5, <3>3
      <4>2. sessions[nodes[n].sid].leaf \in DOMAIN nodes
        BY <4>1 DEF TipInv
      <4>3. nodes'[sessions[nodes[n].sid].leaf].path = nodes[sessions[nodes[n].sid].leaf].path
        BY <1>3, <4>2
      <4> QED
        BY <2>1, <4>1, <4>3
    <3>4. nodes'[n].children = 0 <=> IsSessionHead(n)'
      BY <2>1, <3>1, <3>2
    <3> QED
      BY <1>3, <2>1, <3>3, <3>4
  <2> QED
    BY <2>4, <2>5
<1>9. IsSessionHead(r)'
  BY <1>5 DEF IsSessionHead
<1>10. ASSUME NEW s \in DOMAIN sessions'
       PROVE  /\ sessions'[s].leaf \in DOMAIN nodes' /\ nodes'[sessions'[s].leaf].sid = s
              /\ sessions'[s].root \in ToSet(nodes'[sessions'[s].leaf].path)
  <2>1. CASE s # sid
    <3>1. s \in DOMAIN sessions /\ sessions'[s] = sessions[s]
      BY <1>5, <2>1
    <3>2. /\ sessions[s].leaf \in DOMAIN nodes /\ nodes[sessions[s].leaf].sid = s
          /\ sessions[s].root \in ToSet(nodes[sessions[s].leaf].path)
      BY <3>1 DEF TipInv
    <3>3. /\ nodes'[sessions[s].leaf].sid = nodes[sessions[s].leaf].sid
          /\ nodes'[sessions[s].leaf].path = nodes[sessions[s].leaf].path
      BY <1>3, <3>2
    <3> QED
      BY <1>2, <3>1, <3>2, <3>3
  <2>2. CASE s = sid
    <3>1. sessions'[sid].root \in ToSet(nodes'[r].path)
      <4>1. CASE Continues(r, up, sid)
        <5>1. PICK m \in DOMAIN nodes : up = <<m>> /\ sessions[sid].leaf = m /\ sid \in DOMAIN sessions
          BY <4>1 DEF Continues
        <5>2. sessions[sid].root \in ToSet(nodes[m].path)
          BY <5>1 DEF TipInv
        <5> QED
          BY <1>5, <1>7, <5>1, <5>2
      <4>2. CASE Opens(r, up, sid)
        <5>1. sid \notin DOMAIN sessions
          BY <4>2 DEF Opens
        <5>2. CASE up = NoParent
          BY <1>5, <1>7, <5>1, <5>2
        <5>3. CASE up # NoParent
          <6>1. PICK m \in DOMAIN nodes : up = <<m>>
            BY <5>3 DEF Added
          <6>2. up[1] = m
            BY <6>1
          <6> QED
            BY <1>5, <1>7, <5>1, <5>3, <6>1, <6>2
        <5> QED
          BY <5>2, <5>3
      <4> QED
        BY <1>1, <4>1, <4>2
    <3> QED
      BY <1>2, <1>5, <2>2, <3>1
  <2> QED
    BY <2>1, <2>2
<1>11. nodes'[r].sid \in DOMAIN sessions' /\ sessions'[nodes'[r].sid].leaf = r
  BY <1>5
<1> QED
  BY <1>2, <1>4, <1>6, <1>7, <1>8, <1>9, <1>10, <1>11 DEF TipInv

\* A push keeps the session counters what the nodes say.
LEMMA PushCounts ==
    ASSUME DataInv, CountInv, NEW r \in Requests, NEW up,
           Added(r, up), NodeAdded(r, up), SessionsAdded(r, up),
           Continues(r, up, nodes'[r].sid) \/ Opens(r, up, nodes'[r].sid)
    PROVE  CountInv'
<1> DEFINE sid == nodes'[r].sid
           node == nodes'[r]
<1>1. /\ DOMAIN nodes' = DOMAIN nodes \cup {r} /\ r \notin DOMAIN nodes
      /\ \A n \in DOMAIN nodes : nodes'[n].sid = nodes[n].sid /\ nodes'[n].created = nodes[n].created
      /\ \A n \in DOMAIN nodes : nodes[n].created \in Nat
      /\ node.created \in Nat
  BY DEF Added, NodeAdded, DataInv
<1>2. /\ DOMAIN sessions' = DOMAIN sessions \cup {sid}
      /\ \A s \in DOMAIN sessions : s # sid => sessions'[s] = sessions[s]
      /\ sid \in DOMAIN sessions =>
           /\ sessions'[sid].count = sessions[sid].count + 1
           /\ sessions'[sid].latest = Max({node.created, sessions[sid].latest})
      /\ sid \notin DOMAIN sessions =>
           sessions'[sid].count = 1 /\ sessions'[sid].latest = node.created
  BY DEF SessionsAdded, Advanced
<1>3. ASSUME NEW s PROVE Own(s)' = IF s = sid THEN Own(s) \cup {r} ELSE Own(s)
  <2>1. Own(s)' = {n \in DOMAIN nodes \cup {r} : nodes'[n].sid = s}
    BY <1>1 DEF Own
  <2> QED
    BY <1>1, <2>1 DEF Own
<1>4. ASSUME NEW s PROVE IsFiniteSet(Own(s)) /\ r \notin Own(s)
  BY <1>1, FS_Subset DEF Own, DataInv
<1>5. ASSUME NEW s, NEW n \in Own(s)
      PROVE  nodes'[n].created = nodes[n].created /\ nodes[n].created \in Nat
  BY <1>1 DEF Own
<1>6. ASSUME NEW s \in DOMAIN sessions
      PROVE  /\ sessions[s].count = Cardinality(Own(s))
             /\ \E n \in Own(s) : sessions[s].latest = nodes[n].created
             /\ \A n \in Own(s) : nodes[n].created <= sessions[s].latest
             /\ sessions[s].latest \in Nat
  <2>1. /\ sessions[s].count = Cardinality(Own(s))
        /\ \E n \in Own(s) : sessions[s].latest = nodes[n].created
        /\ \A n \in Own(s) : nodes[n].created <= sessions[s].latest
    BY DEF CountInv
  <2> QED
    BY <1>5, <2>1
<1>7. ASSUME NEW s \in DOMAIN sessions'
      PROVE  /\ sessions'[s].count = Cardinality(Own(s)')
             /\ \E n \in Own(s)' : sessions'[s].latest = nodes'[n].created
             /\ \A n \in Own(s)' : nodes'[n].created <= sessions'[s].latest
  <2>1. CASE s # sid
    <3>1. s \in DOMAIN sessions /\ sessions'[s] = sessions[s] /\ Own(s)' = Own(s)
      BY <1>2, <1>3, <2>1
    <3> QED
      BY <1>5, <1>6, <3>1
  <2>2. CASE s = sid /\ sid \in DOMAIN sessions
    <3> DEFINE latest == sessions[sid].latest
               new == Max({node.created, latest})
    <3>1. Own(s)' = Own(sid) \cup {r} /\ sessions'[s].latest = new
          /\ sessions'[s].count = Cardinality(Own(sid)) + 1
      BY <1>2, <1>3, <1>6, <2>2
    <3>2. Cardinality(Own(sid) \cup {r}) = Cardinality(Own(sid)) + 1
      BY <1>4, FS_AddElement
    <3>3. latest \in Nat /\ new \in {node.created, latest} /\ new \in Nat
          /\ node.created <= new /\ latest <= new
      BY <1>1, <1>6, <2>2, MaxOfTwo
    <3>4. \E n \in Own(sid) : latest = nodes'[n].created
      BY <1>5, <1>6, <2>2
    <3>5. ASSUME NEW n \in Own(sid) PROVE nodes'[n].created <= new
      <4>1. nodes[n].created <= latest /\ nodes[n].created \in Nat
            /\ nodes'[n].created = nodes[n].created
        BY <1>5, <1>6, <2>2
      <4> HIDE DEF new, latest
      <4> QED
        BY <3>3, <4>1
    <3> HIDE DEF new, latest
    <3> QED
      BY <3>1, <3>2, <3>3, <3>4, <3>5
  <2>3. CASE s = sid /\ sid \notin DOMAIN sessions
    <3>1. sid = r /\ \A n \in DOMAIN nodes : nodes[n].sid # r
      BY <2>3 DEF Continues, Opens
    <3>2. Own(sid) = {}
      BY <3>1 DEF Own
    <3>3. Own(s)' = {r}
      BY <1>3, <2>3, <3>2
    <3>4. sessions'[s].count = 1 /\ sessions'[s].latest = node.created
      BY <1>2, <2>3
    <3>5. Cardinality({r}) = 1
      BY FS_Singleton
    <3> QED
      BY <1>1, <3>3, <3>4, <3>5
  <2> QED
    BY <2>1, <2>2, <2>3
<1>8. ASSUME NEW s \in DOMAIN sessions'
      PROVE  sessions'[s].latest \in {nodes'[n].created : n \in Own(s)'}
  BY <1>7
<1> QED
  BY <1>7, <1>8 DEF CountInv

\* A push adds the new node to its bucket of the index and to no other.
LEMMA PushIndex ==
    ASSUME DataInv, IndexInv, NEW r \in Requests, NEW up, Added(r, up),
           nodes'[r].hash \in Hashes,
           index' = [index EXCEPT ![nodes'[r].hash] = Append(@, r)]
    PROVE  IndexInv' /\ index' \in [Hashes -> Seq(Requests)]
<1> DEFINE hash == nodes'[r].hash
           At(h) == {n \in DOMAIN nodes : nodes[n].hash = h}
<1>1. /\ DOMAIN nodes' = DOMAIN nodes \cup {r} /\ r \notin DOMAIN nodes
      /\ \A n \in DOMAIN nodes : nodes'[n].hash = nodes[n].hash
  BY DEF Added
<1>2. ASSUME NEW h \in Hashes
      PROVE  /\ index[h] \in Seq(Requests) /\ IsInjective(index[h]) /\ ToSet(index[h]) = At(h)
             /\ index'[h] = IF h = hash THEN Append(index[h], r) ELSE index[h]
  BY DEF DataInv, IndexInv
<1>3. ASSUME NEW h \in Hashes
      PROVE  {n \in DOMAIN nodes' : nodes'[n].hash = h} = IF h = hash THEN At(h) \cup {r} ELSE At(h)
  BY <1>1
<1>4. ASSUME NEW h \in Hashes
      PROVE  /\ IsInjective(index'[h])
             /\ ToSet(index'[h]) = {n \in DOMAIN nodes' : nodes'[n].hash = h}
             /\ index'[h] \in Seq(Requests)
  <2>1. CASE h = hash
    <3>1. r \notin ToSet(index[h])
      BY <1>1, <1>2
    <3>2. /\ ToSet(Append(index[h], r)) = ToSet(index[h]) \cup {r}
          /\ IsInjective(Append(index[h], r)) <=> IsInjective(index[h]) /\ r \notin ToSet(index[h])
      BY <1>2, AppendElements
    <3>3. Append(index[h], r) \in Seq(Requests)
      BY <1>2
    <3> QED
      BY <1>2, <1>3, <2>1, <3>1, <3>2, <3>3
  <2>2. CASE h # hash
    BY <1>2, <1>3, <2>2
  <2> QED
    BY <2>1, <2>2
<1>5. index' \in [Hashes -> Seq(Requests)]
  BY <1>4 DEF DataInv
<1> QED
  BY <1>4, <1>5 DEF IndexInv

\* A push keeps the structure.
LEMMA PushStruct ==
    ASSUME RequestsOK, RecordInv, StructInv, NEW r \in Requests, Push(r)
    PROVE  StructInv'
<1> DEFINE up == FindParent(req[r].body).parent
           above == IF up = NoParent THEN << >> ELSE Chain(up[1])
           delta == nodes'[r].delta
<1>1. Added(r, up) /\ NodeAdded(r, up)
  BY PushAdds
<1>2. SessionsAdded(r, up) /\ index' = [index EXCEPT ![nodes'[r].hash] = Append(@, r)]
  BY PushSessions DEF SessionsAdded
<1>3. req[r].pc = "built" /\ req'[r].pc \notin {"new", "built"}
  BY StepMoves DEF Step, Moves, Push
<1>4. Step(r)
  BY DEF Step
<1>5. \A q \in Requests : req[q].pc \notin {"new", "built"} => req'[q].pc \notin {"new", "built"}
  <2>1. ASSUME NEW q \in Requests, req[q].pc \notin {"new", "built"}
        PROVE  req'[q].pc \notin {"new", "built"}
    <3>1. req[q].pc # "new" /\ req[q].pc # "built"
      BY <2>1
    <3> QED
      BY <1>4, <3>1, StepBodies
  <2> QED
    BY <2>1
<1>6. ASSUME NEW q \in Requests, req[q].pc # "new" PROVE req'[q].body = req[q].body
  BY <1>4, <1>6, StepBodies
<1>7. DataInv /\ PathInv /\ ChildInv /\ HashInv /\ IndexInv /\ TipInv /\ CountInv
      /\ ConversationIsExact
  BY DEF StructInv
<1> HIDE DEF up
<1>8. PathInv'
  BY <1>1, <1>7, PushPaths
<1>9. /\ DOMAIN nodes' = DOMAIN nodes \cup {r} /\ r \notin DOMAIN nodes
      /\ \A n \in DOMAIN nodes :
           /\ nodes'[n].delta = nodes[n].delta /\ nodes'[n].hash = nodes[n].hash
           /\ nodes'[n].created = nodes[n].created
           /\ nodes'[n].children = IF up = <<n>> THEN nodes[n].children + 1 ELSE nodes[n].children
  BY <1>1 DEF Added
<1>10. /\ nodes'[r].children = 0 /\ nodes'[r].created \in Nat
       /\ delta \in Seq(Messages) /\ req[r].body = above \o delta
  BY <1>1 DEF NodeAdded
<1>11. (\A n \in DOMAIN nodes : Chain(n)' = Chain(n)) /\ Chain(r)' = req[r].body
  BY <1>1, <1>7, PushChains
<1>12. above \in Seq(Messages)
       /\ (IF up = NoParent THEN 0 ELSE nodes[up[1]].hash) = Accumulate(0, above)
  <2>1. CASE up = NoParent
    <3>1. 0 \in Hashes /\ << >> \in Seq(Messages)
      BY HashAssumption
    <3> QED
      BY <2>1, <3>1, AccumulateEmpty
  <2>2. CASE up # NoParent
    <3>1. PICK n \in DOMAIN nodes : up = <<n>>
      BY <1>1, <2>2 DEF Added
    <3>2. Chain(n) \in Seq(Messages) /\ nodes[n].hash = Accumulate(0, Chain(n))
      BY <1>7, ChainIs DEF HashInv
    <3> QED
      BY <2>2, <3>1, <3>2
  <2> QED
    BY <2>1, <2>2
<1>13. nodes'[r].hash \in Hashes /\ nodes'[r].hash = Accumulate(0, req[r].body)
  <2>1. nodes'[r].hash = Accumulate(Accumulate(0, above), delta)
    BY <1>1, <1>12 DEF NodeAdded
  <2>2. 0 \in Hashes /\ above \in Seq(Messages) /\ delta \in Seq(Messages)
    BY <1>10, <1>12, HashAssumption
  <2> HIDE DEF above, delta
  <2>3. /\ Accumulate(0, above) \in Hashes
        /\ Accumulate(Accumulate(0, above), delta) = Accumulate(0, above \o delta)
    BY <2>2, AccumulateConcat
  <2>4. Accumulate(Accumulate(0, above), delta) \in Hashes
    <3>1. above \o delta \in Seq(Messages)
      BY <2>2
    <3>2. Accumulate(0, above \o delta) \in Hashes
      BY <2>2, <3>1, AccumulateConcat
    <3> QED
      BY <2>3, <3>2
  <2> QED
    BY <1>10, <2>1, <2>3, <2>4
<1>14. IndexInv' /\ index' \in [Hashes -> Seq(Requests)]
  BY <1>1, <1>2, <1>7, <1>13, PushIndex
<1>15. DataInv'
  <2>1. IsFiniteSet(DOMAIN nodes')
    BY <1>7, <1>9, FS_AddElement DEF DataInv
  <2>2. ASSUME NEW n \in DOMAIN nodes
        PROVE  /\ nodes'[n].delta \in Seq(Messages) /\ nodes'[n].hash \in Hashes
               /\ nodes'[n].children \in Nat /\ nodes'[n].created \in Nat
    BY <1>7, <1>9 DEF DataInv
  <2> QED
    BY <1>9, <1>10, <1>13, <1>14, <2>1, <2>2 DEF DataInv
<1>16. ChildInv'
  <2>1. /\ \A n \in DOMAIN nodes :
              Children(n)' = IF up = <<n>> THEN Children(n) \cup {r} ELSE Children(n)
        /\ Children(r)' = {}
    BY <1>1, <1>7, PushChildren
  <2>2. ASSUME NEW n \in DOMAIN nodes PROVE nodes'[n].children = Cardinality(Children(n)')
    <3>1. r \notin Children(n) /\ IsFiniteSet(Children(n))
      BY <1>7, <1>9, ChildrenAreFinite DEF Children
    <3>2. Cardinality(Children(n) \cup {r}) = Cardinality(Children(n)) + 1
      BY <3>1, FS_AddElement
    <3>3. nodes[n].children = Cardinality(Children(n))
      BY <1>7 DEF ChildInv
    <3> QED
      BY <1>9, <2>1, <3>2, <3>3
  <2>3. nodes'[r].children = Cardinality(Children(r)')
    BY <1>10, <2>1, FS_EmptySet
  <2> QED
    BY <1>9, <2>2, <2>3 DEF ChildInv
<1>17. HashInv'
  <2>1. ASSUME NEW n \in DOMAIN nodes PROVE nodes'[n].hash = Accumulate(0, Chain(n)')
    <3>1. nodes[n].hash = Accumulate(0, Chain(n))
      BY <1>7 DEF HashInv
    <3> QED
      BY <1>9, <1>11, <3>1
  <2>2. nodes'[r].hash = Accumulate(0, Chain(r)')
    BY <1>11, <1>13
  <2> QED
    BY <1>9, <2>1, <2>2 DEF HashInv
<1>18. TipInv'
  BY <1>1, <1>2, <1>3, <1>5, <1>7, PushTips
<1>19. CountInv'
  <2>1. Continues(r, up, nodes'[r].sid) \/ Opens(r, up, nodes'[r].sid)
    BY <1>1, <1>3, <1>7, PushSession
  <2> QED
    BY <1>1, <1>2, <1>7, <2>1, PushCounts
<1>20. ConversationIsExact'
  <2>1. ASSUME NEW n \in DOMAIN nodes PROVE Chain(n)' = req'[n].body
    <3>1. n \in Requests /\ req[n].pc # "new"
      BY DEF RecordInv
    <3>2. Chain(n) = req[n].body
      BY <1>7 DEF ConversationIsExact
    <3> QED
      BY <1>6, <1>11, <3>1, <3>2
  <2>2. Chain(r)' = req'[r].body
    BY <1>3, <1>6, <1>11
  <2> QED
    BY <1>9, <2>1, <2>2 DEF ConversationIsExact
<1> QED
  BY <1>8, <1>14, <1>15, <1>16, <1>17, <1>18, <1>19, <1>20 DEF StructInv
-----------------------------------------------------------------------------
(* The invariant and what follows from it *)

\* The empty store has the structure.
LEMMA InitStruct == Init => StructInv
<1> SUFFICES ASSUME Init PROVE StructInv
  OBVIOUS
<1>1. DOMAIN nodes = {} /\ DOMAIN sessions = {} /\ index = [h \in Hashes |-> << >>]
  BY DEF Init
<1>2. IsInjective(<< >>) /\ ToSet(<< >>) = {}
  BY DEF IsInjective, ToSet
<1>3. DataInv
  BY <1>1, FS_EmptySet DEF DataInv
<1>4. IndexInv
  BY <1>1, <1>2 DEF IndexInv
<1> QED
  BY <1>1, <1>3, <1>4
     DEF StructInv, PathInv, ChildInv, HashInv, TipInv, CountInv, ConversationIsExact

\* Every step leaves the structure of the store.
LEMMA NextStruct ==
    ASSUME RequestsOK, RecordInv, StructInv, [Next]_vars
    PROVE  StructInv'
<1>1. ASSUME nodes' = nodes PROVE \A S : SameNodes(S)
  BY <1>1 DEF SameNodes
<1>2. CASE SetMode \/ UNCHANGED vars
  <2>1. sessions' = sessions /\ index' = index /\ req' = req /\ nodes' = nodes
    BY <1>2 DEF SetMode, dag, vars
  <2>2. SameNodes({})
    BY <1>1, <2>1
  <2> QED
    BY <2>1, <2>2, StructFrame
<1>3. ASSUME NEW r \in Requests, Step(r) PROVE StructInv'
  <2>1. ASSUME NEW q \in Requests, req[q].pc \notin {"new", "built"}
        PROVE  req'[q].body = req[q].body /\ req'[q].pc \notin {"new", "built"}
    <3>1. req[q].pc # "new" /\ req[q].pc # "built"
      BY <2>1
    <3> QED
      BY <1>3, <3>1, StepBodies
  <2>2. ASSUME NEW S, SameNodes(S), sessions' = sessions, index' = index PROVE StructInv'
    BY <2>1, <2>2, StructFrame
  <2>3. CASE Push(r)
    BY <2>3, PushStruct
  <2>4. CASE Evict(r)
    BY <2>4, EvictStruct
  <2>5. CASE Build(r) \/ InternReply(r) \/ GuardCheck(r)
    BY <1>1, <2>2, <2>5 DEF Build, InternReply, GuardCheck, dag
  <2>6. CASE SyncParsed(r)
    <3>1. nodes' = nodes \/ (r \in DOMAIN nodes /\ nodes' = [nodes EXCEPT ![r].resp = Placeholder])
      BY <2>6 DEF SyncParsed
    <3>2. SameNodes({r})
      <4>1. CASE nodes' = nodes
        BY <1>1, <4>1
      <4>2. CASE r \in DOMAIN nodes /\ nodes' = [nodes EXCEPT ![r].resp = Placeholder]
        <5>1. NodeFields \subseteq DOMAIN nodes[r] /\ DOMAIN nodes' = DOMAIN nodes
          BY <4>2 DEF RecordInv
        <5>2. \A n \in DOMAIN nodes : n # r => nodes'[n] = nodes[n]
          BY <4>2
        <5>3. nodes'[r] = [nodes[r] EXCEPT !.resp = Placeholder]
          BY <4>2
        <5>4. /\ DOMAIN nodes'[r] = DOMAIN nodes[r]
              /\ \A field \in NodeFields \ {"raw", "resp"} : nodes'[r][field] = nodes[r][field]
          BY <5>1, <5>3 DEF NodeFields
        <5> QED
          BY <5>1, <5>2, <5>4 DEF SameNodes
      <4> QED
        BY <3>1, <4>1, <4>2
    <3> QED
      BY <2>2, <2>6, <3>2 DEF SyncParsed
  <2>7. CASE Attach(r)
    BY <2>2, <2>7, AttachNodes DEF Attach, AttachResponse
  <2>8. CASE Fail(r)
    BY <2>2, <2>8, AttachNodes DEF Fail, AttachResponse
  <2>9. CASE GuardAttach(r)
    BY <2>2, <2>9, AttachNodes DEF GuardAttach, AttachResponse
  <2> QED
    BY <1>3, <2>3, <2>4, <2>5, <2>6, <2>7, <2>8, <2>9 DEF Step
<1> QED
  BY <1>2, <1>3 DEF Next

\* The structure follows from the nodes in every state that a run of the store reaches.
LEMMA StructIsKept == Spec => [](RequestsOK /\ RecordInv /\ StructInv)
<1>1. Init => RequestsOK /\ RecordInv /\ StructInv
  BY InitRequestsOK, InitRecordInv, InitStruct
<1>2. RequestsOK /\ RecordInv /\ StructInv /\ [Next]_vars
        => RequestsOK' /\ RecordInv' /\ StructInv'
  BY NextRecordInv, NextStruct
<1> QED
  BY <1>1, <1>2, PTL DEF Spec

\* Whatever prefix hashes collide, the messages along a node's chain are the body of its
\* request (CDAG-10).
THEOREM ConversationsAreExact == Spec => []ConversationIsExact
<1>1. StructInv => ConversationIsExact
  BY DEF StructInv
<1> QED
  BY <1>1, StructIsKept, PTL

\* What push_messages and gc_cascade maintain step by step is what the nodes say: child
\* counts, hashes, the index, the tips, the counts and last activities of the sessions.
THEOREM DerivedStateFollows == Spec => []DerivedStateIsExact
<1>1. ASSUME StructInv PROVE DerivedStateIsExact
  <2>1. ASSUME NEW n \in DOMAIN nodes
        PROVE  /\ nodes[n].children = Cardinality({m \in DOMAIN nodes : ParentOf(m) = <<n>>})
               /\ ParentOf(n) # NoParent => ParentOf(n)[1] \in DOMAIN nodes
               /\ nodes[n].hash = Accumulate(0, Chain(n))
    <3>1. /\ nodes[n].children = Cardinality({m \in DOMAIN nodes : ParentOf(m) = <<n>>})
          /\ nodes[n].hash = Accumulate(0, Chain(n))
      BY <1>1 DEF StructInv, ChildInv, HashInv, Children
    <3>2. ASSUME ParentOf(n) # NoParent PROVE ParentOf(n)[1] \in DOMAIN nodes
      <4>1. PICK m : ParentOf(n) = <<m>>
        BY <3>2 DEF ParentOf
      <4>2. m \in DOMAIN nodes
        BY <1>1, <4>1, ParentIs DEF StructInv
      <4> QED
        BY <4>1, <4>2
    <3> QED
      BY <3>1, <3>2
  <2>2. \A h \in Hashes : /\ IsInjective(index[h])
                          /\ ToSet(index[h]) = {n \in DOMAIN nodes : nodes[n].hash = h}
    BY <1>1 DEF StructInv, IndexInv
  <2>3. ASSUME NEW s \in DOMAIN sessions
        PROVE  LET own == {n \in DOMAIN nodes : nodes[n].sid = s}
                   t   == sessions[s]
               IN  /\ t.leaf \in own
                   /\ t.root \in DOMAIN nodes /\ t.root \in ToSet(nodes[t.leaf].path)
                   /\ t.count = Cardinality(own)
                   /\ t.latest = Max({nodes[n].created : n \in own})
    <3> DEFINE leaf == sessions[s].leaf
               created == {nodes[n].created : n \in Own(s)}
    <3>1. Own(s) = {n \in DOMAIN nodes : nodes[n].sid = s}
      BY DEF Own
    <3>2. leaf \in DOMAIN nodes /\ nodes[leaf].sid = s /\ sessions[s].root \in ToSet(nodes[leaf].path)
      BY <1>1 DEF StructInv, TipInv
    <3>3. sessions[s].root \in DOMAIN nodes
      <4>1. DOMAIN nodes[leaf].path = 1 .. Len(nodes[leaf].path)
            /\ \A i \in 1 .. Len(nodes[leaf].path) : nodes[leaf].path[i] \in DOMAIN nodes
        BY <1>1, <3>2, PathIsSimple, OnPath DEF StructInv
      <4> QED
        BY <3>2, <4>1 DEF ToSet
    <3>4. sessions[s].count = Cardinality(Own(s))
      BY <1>1 DEF StructInv, CountInv
    <3>5. /\ sessions[s].latest \in created
          /\ \A x \in created : x \in Nat /\ x <= sessions[s].latest
      BY <1>1 DEF StructInv, CountInv, DataInv, Own
    <3>6. sessions[s].latest = Max(created)
      <4>1. \A x \in created : sessions[s].latest >= x /\ x \in Nat
        BY <3>5
      <4> HIDE DEF created
      <4> QED
        BY <3>5, <4>1, MaxIs
    <3> QED
      BY <3>1, <3>2, <3>3, <3>4, <3>6
  <2>4. \A n \in DOMAIN nodes : nodes[n].children = 0 <=> IsSessionHead(n)
    BY <1>1 DEF StructInv, TipInv
  <2>5. LinksExact
    BY <2>1, <2>2 DEF LinksExact
  <2>6. SessionsAreTips
    BY <2>3, <2>4 DEF SessionsAreTips
  <2> QED
    BY <2>5, <2>6 DEF DerivedStateIsExact
<1> QED
  BY <1>1, StructIsKept, PTL
-----------------------------------------------------------------------------
(* The search for a parent *)

\* Every node whose conversation is a prefix of a body is a hit at its length.
LEMMA PrefixIsHit ==
    ASSUME StructInv, NEW body \in Seq(Messages), NEW n \in DOMAIN nodes,
           IsPrefix(Chain(n), body), Len(Chain(n)) # 0
    PROVE  /\ Len(Chain(n)) \in 1 .. Len(body)
           /\ \E j : <<Len(Chain(n)), j>> \in Hits(body)
<1> DEFINE k == Len(Chain(n))
<1>1. /\ Chain(n) \in Seq(Messages) /\ nodes[n].hash = Accumulate(0, Chain(n))
      /\ nodes[n].hash \in Hashes /\ DataInv /\ PathInv
  BY ChainIs DEF StructInv, HashInv, DataInv
<1>2. k \in 1 .. Len(body)
  BY <1>1 DEF IsPrefix
<1>3. Chain(n) = Prefix(body, k)
  <2>1. SubSeq(Chain(n), 1, Len(Chain(n))) = Chain(n)
    <3> DEFINE c == Chain(n)
               a == SubSeq(c, 1, Len(c))
    <3>1. c \in Seq(Messages)
      BY <1>1
    <3> HIDE DEF c
    <3>2. a \in Seq(Messages) /\ Len(a) = Len(c) /\ \A i \in 1 .. Len(a) : a[i] = c[i]
      BY <3>1
    <3> HIDE DEF a
    <3>3. a = c
      BY <3>1, <3>2, SeqEqual
    <3> QED
      BY <3>3 DEF a, c
  <2> QED
    BY <2>1 DEF IsPrefix, Prefix
<1>4. n \in ToSet(Bucket(body, k))
  <2>1. Bucket(body, k) = index[nodes[n].hash]
    BY <1>1, <1>3 DEF Bucket
  <2>2. ToSet(index[nodes[n].hash]) = {m \in DOMAIN nodes : nodes[m].hash = nodes[n].hash}
    BY <1>1 DEF StructInv, IndexInv
  <2> QED
    BY <2>1, <2>2
<1>5. PrefixChainMatches(n, Prefix(body, k))
  <2>1. \A i \in DOMAIN nodes[n].path : nodes[n].path[i] \in DOMAIN nodes
    <3>1. DOMAIN nodes[n].path = 1 .. Len(nodes[n].path)
      BY <1>1, PathIsSimple
    <3> QED
      BY <1>1, <3>1, OnPath
  <2> QED
    BY <1>3, <2>1 DEF PrefixChainMatches
<1> HIDE DEF k
<1>6. PICK j \in 1 .. Len(Bucket(body, k)) : Bucket(body, k)[j] = n
  <2>1. Bucket(body, k) \in Seq(Requests)
    BY <1>1, <1>2, BucketIs
  <2>2. DOMAIN Bucket(body, k) = 1 .. Len(Bucket(body, k))
    BY <2>1
  <2> QED
    BY <1>4, <2>2 DEF ToSet
<1>7. <<k, j>> \in Hits(body)
  BY <1>1, <1>2, <1>5, <1>6, HitIs
<1> QED
  BY <1>2, <1>7 DEF k

\* find_parent splits the body where the longest conversation that is a prefix of it ends.
LEMMA SplitIsDepth ==
    ASSUME StructInv, NEW body \in Seq(Messages)
    PROVE  /\ FindParent(body).split \in 0 .. Len(body)
           /\ FindParent(body).split
                = Max({0} \cup {Len(Chain(n)) : n \in {n \in DOMAIN nodes : IsPrefix(Chain(n), body)}})
<1> DEFINE lengths == {Len(Chain(n)) : n \in {n \in DOMAIN nodes : IsPrefix(Chain(n), body)}}
           S == {0} \cup lengths
           split == FindParent(body).split
<1>1. DataInv /\ PathInv
  BY DEF StructInv
<1>2. \/ Hits(body) = {} /\ FindParent(body) = [parent |-> NoParent, split |-> 0]
      \/ \E k \in 1 .. Len(body) : \E n :
           /\ FindParent(body) = [parent |-> <<n>>, split |-> k]
           /\ PrefixChainMatches(n, Prefix(body, k))
           /\ \A p \in Hits(body) : p[1] <= k
  BY <1>1, FindParentIs
<1>3. split \in 0 .. Len(body)
  BY <1>2
<1>4. split \in S
  <2>1. CASE split = 0
    BY <2>1
  <2>2. CASE split # 0
    <3>1. PICK n : PrefixChainMatches(n, Prefix(body, split)) /\ split \in 1 .. Len(body)
      BY <1>2, <2>2
    <3>2. n \in DOMAIN nodes /\ Chain(n) = Prefix(body, split)
      BY <3>1 DEF PrefixChainMatches
    <3>3. Prefix(body, split) \in Seq(Messages) /\ Len(Prefix(body, split)) = split
      BY <1>1, <3>1, BucketIs
    <3>4. IsPrefix(Chain(n), body)
      <4> DEFINE c == Prefix(body, split)
                 a == SubSeq(c, 1, split)
      <4>1. c \in Seq(Messages) /\ Len(c) = split
        BY <3>3
      <4>2. SubSeq(body, 1, split) = c
        BY DEF Prefix
      <4> HIDE DEF c, split
      <4>3. a \in Seq(Messages) /\ Len(a) = split /\ \A i \in 1 .. Len(a) : a[i] = c[i]
        BY <3>1, <4>1
      <4> HIDE DEF a
      <4>4. a = c
        BY <4>1, <4>3, SeqEqual
      <4>5. SubSeq(c, 1, Len(c)) = SubSeq(body, 1, Len(c)) /\ Len(c) <= Len(body)
        BY <3>1, <4>1, <4>2, <4>4 DEF a
      <4>6. Chain(n) = c
        BY <3>2 DEF c
      <4> QED
        BY <4>5, <4>6 DEF IsPrefix
    <3>5. Len(Chain(n)) \in lengths
      BY <3>2, <3>4
    <3> QED
      BY <3>2, <3>3, <3>5
  <2> QED
    BY <2>1, <2>2
<1>5. ASSUME NEW x \in S PROVE x \in Nat /\ split >= x
  <2>1. CASE x = 0
    BY <1>3, <2>1
  <2>2. CASE x # 0
    <3>1. PICK n \in DOMAIN nodes : IsPrefix(Chain(n), body) /\ x = Len(Chain(n))
      BY <2>2
    <3>2. x \in 1 .. Len(body) /\ \E j : <<x, j>> \in Hits(body)
      BY <2>2, <3>1, PrefixIsHit
    <3>3. PICK j : <<x, j>> \in Hits(body)
      BY <3>2
    <3>4. PICK k \in 1 .. Len(body) : split = k /\ \A p \in Hits(body) : p[1] <= k
      BY <1>2, <3>3
    <3>5. <<x, j>>[1] <= k
      BY <3>3, <3>4
    <3> QED
      BY <3>2, <3>4, <3>5
  <2> QED
    BY <2>1, <2>2
<1>6. split = Max(S)
  <2> HIDE DEF split, S
  <2> QED
    BY <1>4, <1>5, MaxIs
<1> QED
  BY <1>3, <1>6

\* Nodes come with pushes only.
LEMMA OnlyPushesAdd ==
    ASSUME RecordInv, [Next]_vars, NEW r \in DOMAIN nodes' \ DOMAIN nodes
    PROVE  r \in Requests /\ Push(r)
<1>1. CASE SetMode \/ UNCHANGED vars
  BY <1>1 DEF SetMode, dag, vars
<1>2. ASSUME NEW q \in Requests, Step(q) PROVE r \in Requests /\ Push(r)
  <2>1. CASE Push(q)
    BY <2>1, PushNodes
  <2>2. CASE Evict(q)
    BY <2>2, EvictNodes
  <2>3. CASE Build(q) \/ InternReply(q) \/ GuardCheck(q)
    BY <2>3 DEF Build, InternReply, GuardCheck, dag
  <2>4. CASE SyncParsed(q)
    <3>1. DOMAIN nodes' = DOMAIN nodes
      BY <2>4 DEF SyncParsed
    <3> QED
      BY <3>1
  <2>5. CASE Attach(q)
    BY <2>5, AttachNodes DEF Attach, SameNodes
  <2>6. CASE Fail(q)
    BY <2>6, AttachNodes DEF Fail, SameNodes
  <2>7. CASE GuardAttach(q)
    BY <2>7, AttachNodes DEF GuardAttach, SameNodes
  <2> QED
    BY <1>2, <2>1, <2>2, <2>3, <2>4, <2>5, <2>6, <2>7 DEF Step
<1> QED
  BY <1>1, <1>2 DEF Next

\* A push hangs its request under the deepest node whose conversation is a prefix of its
\* body, and calls it a retry just when the store has the whole body.
THEOREM DeepestIsFound == Spec => DeepestParentFound
<1> DEFINE Depth(r) == Max({0} \cup {Len(Chain(n)) : n \in {n \in DOMAIN nodes :
                                                              IsPrefix(Chain(n), req[r].body)}})
           Found(r) == /\ Len(nodes'[r].delta) = Len(req[r].body) - Depth(r)
                       /\ nodes'[r].kind = "retry" <=>
                            req[r].body # <<>> /\ Depth(r) = Len(req[r].body)
<1>1. ASSUME RequestsOK, RecordInv, StructInv, [Next]_vars, NEW r \in DOMAIN nodes' \ DOMAIN nodes
      PROVE  Found(r)
  <2> DEFINE body == req[r].body
             split == FindParent(body).split
  <2>1. r \in Requests /\ Push(r)
    BY <1>1, OnlyPushesAdd
  <2>2. body \in Seq(Messages)
    <3>1. req[r] \in Request
      BY <1>1, <2>1 DEF RequestsOK
    <3>2. body \in Bodies \cup {<< >>} /\ << >> \in Seq(Messages)
      BY <3>1 DEF Request
    <3> QED
      BY <3>2, MessagesAssumption
  <2>3. split \in 0 .. Len(body) /\ split = Depth(r)
    <3> HIDE DEF body
    <3>1. /\ FindParent(body).split \in 0 .. Len(body)
          /\ FindParent(body).split
               = Max({0} \cup {Len(Chain(n)) : n \in {n \in DOMAIN nodes : IsPrefix(Chain(n), body)}})
      BY <1>1, <2>2, SplitIsDepth
    <3> QED
      BY <3>1 DEF body
  <2>4. nodes'[r] = NewNode(r, FindParent(body))
    BY <1>1, <2>1, PushNodes
  <2>5. /\ nodes'[r].delta = SubSeq(body, split + 1, Len(body))
        /\ nodes'[r].kind = KindOf(body, split)
    <3> DEFINE found == FindParent(body)
    <3>1. /\ NewNode(r, found).delta = SubSeq(req[r].body, found.split + 1, Len(req[r].body))
          /\ NewNode(r, found).kind = KindOf(req[r].body, found.split)
      BY DEF NewNode
    <3> QED
      BY <2>4, <3>1
  <2> HIDE DEF split, body, Depth
  <2>6. Len(SubSeq(body, split + 1, Len(body))) = Len(body) - split
    BY <2>2, <2>3
  <2>7. KindOf(body, split) = "retry" <=> body # <<>> /\ split = Len(body)
    <3>1. Len(body) \in Nat /\ split \in Nat /\ split <= Len(body)
      BY <2>2, <2>3
    <3>2. CASE split < Len(body)
      <4>1. KindOf(body, split) = "normal" /\ split # Len(body)
        BY <3>1, <3>2 DEF KindOf
      <4> QED
        BY <4>1
    <3>3. CASE ~ (split < Len(body))
      <4>1. KindOf(body, split) = (IF body = << >> THEN "no_messages" ELSE "retry")
        BY <3>3 DEF KindOf
      <4>2. split = Len(body)
        BY <3>1, <3>3
      <4> QED
        BY <4>1, <4>2
    <3> QED
      BY <3>2, <3>3
  <2>8. Len(nodes'[r].delta) = Len(body) - Depth(r)
    BY <2>3, <2>5, <2>6
  <2>9. nodes'[r].kind = "retry" <=> body # <<>> /\ Depth(r) = Len(body)
    BY <2>3, <2>5, <2>7
  <2> QED
    BY <2>8, <2>9 DEF body
<1>2. RequestsOK /\ RecordInv /\ StructInv /\ [Next]_vars =>
        [\A r \in DOMAIN nodes' \ DOMAIN nodes :
         LET body  == req[r].body
             depth == Max({0} \cup {Len(Chain(n)) : n \in {n \in DOMAIN nodes :
                                                            IsPrefix(Chain(n), body)}})
         IN  /\ Len(nodes'[r].delta) = Len(body) - depth
             /\ nodes'[r].kind = "retry" <=> body # <<>> /\ depth = Len(body)]_vars
  BY <1>1
<1> QED
  BY <1>2, StructIsKept, PTL DEF Spec, DeepestParentFound
-----------------------------------------------------------------------------
(* Audit bodies *)

\* A request in flight whose mode captures has its body; a settled one keeps what the
\* later settled ones of its line leave it.
AuditInv ==
    /\ \A n \in DOMAIN nodes :
         IsInflight(nodes[n].resp) /\ nodes[n].mode # "off" => nodes[n].raw
    /\ AuditFollowsHeads

\* Whether the record of a node is in flight.
Pending(n) == IsInflight(nodes[n].resp)

\* Steps that keep what the audit reads, make no heads, and give no node ancestors.
LEMMA AuditFrame ==
    ASSUME AuditInv, DOMAIN nodes' \subseteq DOMAIN nodes,
           \A n \in DOMAIN nodes' : /\ nodes'[n].mode = nodes[n].mode
                                    /\ nodes'[n].raw = nodes[n].raw
                                    /\ Pending(n)' <=> Pending(n)
                                    /\ nodes'[n].path = nodes[n].path
                                    /\ IsSessionHead(n)' => IsSessionHead(n)
    PROVE  AuditInv'
<1>1. ASSUME NEW n \in DOMAIN nodes' PROVE Ancestors(n)' = Ancestors(n)
  BY DEF Ancestors
<1>2. ASSUME NEW n \in DOMAIN nodes', Pending(n)', nodes'[n].mode # "off" PROVE nodes'[n].raw
  BY <1>2 DEF AuditInv, Pending
<1>3. ASSUME NEW n \in DOMAIN nodes', nodes'[n].mode = "latest", ~ Pending(n)'
      PROVE  /\ nodes'[n].raw => \A m \in DOMAIN nodes' :
                  n \in Ancestors(m)' /\ nodes'[m].mode = "latest" => Pending(m)'
             /\ IsSessionHead(n)' => nodes'[n].raw
  BY <1>1, <1>3 DEF AuditInv, AuditFollowsHeads, Pending
<1> QED
  BY <1>2, <1>3 DEF AuditInv, AuditFollowsHeads, Pending

\* A push adds a request in flight, and makes no head of the nodes that were there.
LEMMA PushAudit ==
    ASSUME RequestsOK, RecordInv, StructInv, AuditInv, NEW r \in Requests, Push(r), StructInv'
    PROVE  AuditInv'
<1> DEFINE up == FindParent(req[r].body).parent
<1>1. Added(r, up)
  BY PushAdds
<1> HIDE DEF up
<1>2. /\ DOMAIN nodes' = DOMAIN nodes \cup {r} /\ r \notin DOMAIN nodes
      /\ nodes'[r] = NewNode(r, FindParent(req[r].body))
      /\ nodes'[r].resp = NoResponse
      /\ \A n \in DOMAIN nodes :
           /\ nodes'[n].mode = nodes[n].mode /\ nodes'[n].raw = nodes[n].raw
           /\ nodes'[n].resp = nodes[n].resp /\ nodes'[n].path = nodes[n].path
  BY PushNodes DEF NodeFields
<1>3. Pending(r)' /\ nodes'[r].raw = (nodes'[r].mode # "off")
  <2>1. Pending(r)'
    BY <1>2 DEF Pending, IsInflight, NoResponse
  <2>2. /\ NewNode(r, FindParent(req[r].body)).raw = (req[r].mode # "off")
        /\ NewNode(r, FindParent(req[r].body)).mode = req[r].mode
    BY DEF NewNode
  <2> QED
    BY <1>2, <2>1, <2>2
<1>4. ASSUME NEW n \in DOMAIN nodes
      PROVE  /\ Pending(n)' <=> Pending(n)
             /\ Ancestors(n)' = Ancestors(n)
  BY <1>2 DEF Pending, Ancestors
<1>5. ASSUME NEW n \in DOMAIN nodes, IsSessionHead(n)' PROVE IsSessionHead(n)
  <2>1. nodes'[n].children = 0
    BY <1>2, <1>5 DEF StructInv, TipInv
  <2>2. /\ nodes'[n].children = IF up = <<n>> THEN nodes[n].children + 1 ELSE nodes[n].children
        /\ nodes[n].children \in Nat
    BY <1>1 DEF Added, StructInv, DataInv
  <2>3. nodes[n].children = 0
    BY <2>1, <2>2
  <2> QED
    BY <2>3 DEF StructInv, TipInv
<1>6. ASSUME NEW n \in DOMAIN nodes', Pending(n)', nodes'[n].mode # "off" PROVE nodes'[n].raw
  BY <1>2, <1>3, <1>4, <1>6 DEF AuditInv, Pending
<1>7. ASSUME NEW n \in DOMAIN nodes', nodes'[n].mode = "latest", ~ Pending(n)'
      PROVE  /\ nodes'[n].raw => \A m \in DOMAIN nodes' :
                  n \in Ancestors(m)' /\ nodes'[m].mode = "latest" => Pending(m)'
             /\ IsSessionHead(n)' => nodes'[n].raw
  <2>1. n \in DOMAIN nodes /\ nodes[n].mode = "latest" /\ ~ Pending(n) /\ nodes'[n].raw = nodes[n].raw
    BY <1>2, <1>3, <1>4, <1>7
  <2>2. /\ nodes[n].raw => \A m \in DOMAIN nodes :
             n \in Ancestors(m) /\ nodes[m].mode = "latest" => Pending(m)
        /\ IsSessionHead(n) => nodes[n].raw
    BY <2>1 DEF AuditInv, AuditFollowsHeads, Pending
  <2> QED
    BY <1>2, <1>3, <1>4, <1>5, <2>1, <2>2
<1> QED
  BY <1>6, <1>7 DEF AuditInv, AuditFollowsHeads, Pending

\* An eviction takes whole branches: what stays is headed as before.
LEMMA EvictAudit ==
    ASSUME RecordInv, StructInv, AuditInv, NEW r \in Requests, Evict(r)
    PROVE  AuditInv'
<1>1. PICK victim \in Oldest :
        LET gone == Doomed(sessions[victim].leaf) IN
        /\ sessions' = Without(sessions, {victim})
        /\ DOMAIN nodes' = DOMAIN nodes \ gone
        /\ \A n \in DOMAIN nodes \ gone :
             \A field \in NodeFields \ {"children"} : nodes'[n][field] = nodes[n][field]
  BY EvictNodes
<1>2. /\ DOMAIN nodes' \subseteq DOMAIN nodes
      /\ \A n \in DOMAIN nodes' :
           /\ nodes'[n].mode = nodes[n].mode /\ nodes'[n].raw = nodes[n].raw
           /\ nodes'[n].resp = nodes[n].resp /\ nodes'[n].path = nodes[n].path
           /\ nodes'[n].sid = nodes[n].sid
  BY <1>1 DEF NodeFields
<1>3. ASSUME NEW n \in DOMAIN nodes'
      PROVE  (Pending(n)' <=> Pending(n)) /\ (IsSessionHead(n)' => IsSessionHead(n))
  <2>1. Pending(n)' <=> Pending(n)
    BY <1>2 DEF Pending
  <2>2. IsSessionHead(n)' => IsSessionHead(n)
    BY <1>1, <1>2 DEF IsSessionHead, Without
  <2> QED
    BY <2>1, <2>2
<1> QED
  BY <1>2, <1>3, AuditFrame

\* Settling keeps the body of a head, and takes those of the settled requests above it.
LEMMA SettledAudit ==
    ASSUME RecordInv, StructInv, AuditInv, NEW r \in DOMAIN nodes, Pending(r),
           NEW state \in {"answered", "failed", "aborted"}, NEW reply,
           nodes' = Settled(r, Final(state, reply)), sessions' = sessions
    PROVE  AuditInv'
<1> DEFINE resp == Final(state, reply)
           self == nodes[r]
           kept == self.raw \/ resp.state = "answered"
<1>1. /\ DOMAIN nodes' = DOMAIN nodes
      /\ \A n \in DOMAIN nodes :
           /\ nodes'[n].mode = nodes[n].mode /\ nodes'[n].path = nodes[n].path
           /\ nodes'[n].sid = nodes[n].sid
           /\ n # r => nodes'[n].resp = nodes[n].resp
      /\ nodes'[r].resp = resp
  BY SettledNodes DEF SameNodes, NodeFields
<1>2. ~ Pending(r)'
  BY <1>1 DEF Pending, IsInflight, Final
<1>3. ASSUME NEW n \in DOMAIN nodes
      PROVE  /\ n # r => (Pending(n)' <=> Pending(n))
             /\ Ancestors(n)' = Ancestors(n)
             /\ IsSessionHead(n)' <=> IsSessionHead(n)
  BY <1>1 DEF Pending, Ancestors, IsSessionHead
<1>4. nodes'[r].raw <=> (kept /\ Retain(self.mode, IsSessionHead(r)))
  <2>1. NodeFields \subseteq DOMAIN nodes[r]
    BY DEF RecordInv
  <2>2. nodes'[r] = [self EXCEPT !.resp = resp, !.raw = kept /\ Retain(self.mode, IsSessionHead(r))]
    BY DEF Settled
  <2> QED
    BY <2>1, <2>2 DEF NodeFields
<1>5. ASSUME NEW n \in DOMAIN nodes, n # r
      PROVE  nodes'[n].raw = IF self.mode = "latest" /\ n \in Recyclable(r) /\ ~ Pending(n)
                               THEN FALSE ELSE nodes[n].raw
  <2>1. NodeFields \subseteq DOMAIN nodes[n]
    BY DEF RecordInv
  <2>2. nodes'[n] = IF self.mode = "latest" /\ n \in Recyclable(r) /\ ~ Pending(n)
                      THEN [nodes[n] EXCEPT !.raw = FALSE] ELSE nodes[n]
    BY <1>5 DEF Settled, Pending
  <2> QED
    BY <2>1, <2>2 DEF NodeFields
<1>6. Recyclable(r) = Ancestors(r)
  <2>1. \A i \in 1 .. Len(nodes[r].path) : nodes[r].path[i] \in DOMAIN nodes
    BY OnPath DEF StructInv
  <2>2. Len(nodes[r].path) \in Nat
    BY PathIsSimple DEF StructInv
  <2>3. \A i \in 1 .. Len(nodes[r].path) - 1 : \A j \in i .. Len(nodes[r].path) - 1 :
          nodes[r].path[j] \in DOMAIN nodes
    <3>1. \A i \in 1 .. Len(nodes[r].path) - 1 : \A j \in i .. Len(nodes[r].path) - 1 :
            j \in 1 .. Len(nodes[r].path)
      BY <2>2
    <3> QED
      BY <2>1, <3>1
  <2> QED
    BY <2>3 DEF Recyclable, Ancestors
\* An ancestor has a child, so it is no head.
<1>7. ASSUME NEW m \in DOMAIN nodes, NEW n \in Ancestors(m)
      PROVE  n \in DOMAIN nodes /\ ~ IsSessionHead(n)
  <2>1. PICK i \in 1 .. Len(nodes[m].path) - 1 : n = nodes[m].path[i]
    BY DEF Ancestors
  <2>2. i \in 1 .. Len(nodes[m].path) /\ i # Len(nodes[m].path)
    BY PathIsSimple DEF StructInv
  <2>3. n \in DOMAIN nodes /\ Children(n) # {}
    BY <2>1, <2>2, OnPath, NextOnPath DEF StructInv
  <2>4. nodes[n].children # 0
    BY <2>3, ChildrenAreFinite, FS_EmptySet DEF StructInv, ChildInv
  <2> QED
    BY <2>3, <2>4 DEF StructInv, TipInv
<1>8. self.mode = "latest" => (nodes'[r].raw <=> IsSessionHead(r))
  <2>1. self.mode = "latest" => self.raw
    BY DEF AuditInv, Pending
  <2>2. Retain("latest", IsSessionHead(r)) <=> IsSessionHead(r)
    BY DEF Retain
  <2> QED
    BY <1>4, <2>1, <2>2
<1>9. ASSUME NEW n \in DOMAIN nodes', Pending(n)', nodes'[n].mode # "off" PROVE nodes'[n].raw
  BY <1>1, <1>2, <1>3, <1>5, <1>9 DEF AuditInv, Pending
<1>10. ASSUME NEW n \in DOMAIN nodes', nodes'[n].mode = "latest", ~ Pending(n)'
       PROVE  /\ nodes'[n].raw => \A m \in DOMAIN nodes' :
                   n \in Ancestors(m)' /\ nodes'[m].mode = "latest" => Pending(m)'
              /\ IsSessionHead(n)' => nodes'[n].raw
  <2>1. CASE n = r
    <3>1. nodes'[r].raw <=> IsSessionHead(r)
      BY <1>1, <1>8, <1>10, <2>1
    <3>2. IsSessionHead(r) => \A m \in DOMAIN nodes : r \notin Ancestors(m)
      BY <1>7
    <3> QED
      BY <1>1, <1>3, <2>1, <3>1, <3>2
  <2>2. CASE n # r
    <3>1. n \in DOMAIN nodes /\ nodes[n].mode = "latest" /\ ~ Pending(n)
      BY <1>1, <1>3, <1>10, <2>2
    <3>2. /\ nodes[n].raw => \A m \in DOMAIN nodes :
               n \in Ancestors(m) /\ nodes[m].mode = "latest" => Pending(m)
          /\ IsSessionHead(n) => nodes[n].raw
      BY <3>1 DEF AuditInv, AuditFollowsHeads, Pending
    <3>3. nodes'[n].raw = IF self.mode = "latest" /\ n \in Ancestors(r) THEN FALSE ELSE nodes[n].raw
      BY <1>5, <1>6, <2>2, <3>1
    <3>4. IsSessionHead(n) => n \notin Ancestors(r)
      BY <1>7
    <3>5. ASSUME nodes'[n].raw, NEW m \in DOMAIN nodes, n \in Ancestors(m), nodes[m].mode = "latest"
          PROVE  Pending(m)'
      <4>1. m # r
        BY <3>3, <3>5
      <4>2. Pending(m)
        BY <3>2, <3>3, <3>5
      <4> QED
        BY <1>3, <4>1, <4>2
    <3> QED
      BY <1>1, <1>3, <3>2, <3>3, <3>4, <3>5
  <2> QED
    BY <2>1, <2>2
<1> QED
  BY <1>9, <1>10 DEF AuditInv, AuditFollowsHeads, Pending

\* Every step keeps what AuditInv says of bodies.
LEMMA NextAudit ==
    ASSUME RequestsOK, RecordInv, StructInv, AuditInv, [Next]_vars, StructInv'
    PROVE  AuditInv'
<1>1. ASSUME nodes' = nodes, sessions' = sessions PROVE AuditInv'
  <2>1. \A n \in DOMAIN nodes : (Pending(n)' <=> Pending(n)) /\ (IsSessionHead(n)' => IsSessionHead(n))
    BY <1>1 DEF Pending, IsSessionHead
  <2> QED
    BY <1>1, <2>1, AuditFrame
<1>2. CASE SetMode \/ UNCHANGED vars
  BY <1>1, <1>2 DEF SetMode, dag, vars
<1>3. ASSUME NEW r \in Requests, Step(r) PROVE AuditInv'
  <2>1. CASE Push(r)
    BY <2>1, PushAudit
  <2>2. CASE Evict(r)
    BY <2>2, EvictAudit
  <2>3. CASE Build(r) \/ InternReply(r) \/ GuardCheck(r)
    BY <1>1, <2>3 DEF Build, InternReply, GuardCheck, dag
  <2>4. CASE SyncParsed(r)
    <3>1. sessions' = sessions
      BY <2>4 DEF SyncParsed
    <3>2. CASE nodes' = nodes
      BY <1>1, <3>1, <3>2
    <3>3. CASE nodes' # nodes
      <4>1. /\ r \in DOMAIN nodes /\ nodes[r].resp = NoResponse
            /\ nodes' = [nodes EXCEPT ![r].resp = Placeholder]
        BY <2>4, <3>3 DEF SyncParsed
      <4>2. NodeFields \subseteq DOMAIN nodes[r]
        BY <4>1 DEF RecordInv
      <4>3. /\ DOMAIN nodes' = DOMAIN nodes
            /\ \A n \in DOMAIN nodes : n # r => nodes'[n] = nodes[n]
            /\ nodes'[r] = [nodes[r] EXCEPT !.resp = Placeholder]
        BY <4>1
      <4>4. /\ nodes'[r].resp = Placeholder /\ nodes'[r].mode = nodes[r].mode
            /\ nodes'[r].raw = nodes[r].raw /\ nodes'[r].path = nodes[r].path
            /\ nodes'[r].sid = nodes[r].sid
        BY <4>2, <4>3 DEF NodeFields
      <4>5. Pending(r) /\ Pending(r)'
        BY <4>1, <4>4 DEF Pending, IsInflight, NoResponse, Placeholder
      <4>6. ASSUME NEW n \in DOMAIN nodes'
            PROVE  /\ nodes'[n].mode = nodes[n].mode /\ nodes'[n].raw = nodes[n].raw
                   /\ Pending(n)' <=> Pending(n)
                   /\ nodes'[n].path = nodes[n].path
                   /\ IsSessionHead(n)' => IsSessionHead(n)
        <5>1. CASE n = r
          BY <3>1, <4>4, <4>5, <5>1 DEF IsSessionHead
        <5>2. CASE n # r
          BY <3>1, <4>3, <5>2 DEF IsSessionHead, Pending
        <5> QED
          BY <5>1, <5>2
      <4> QED
        BY <4>3, <4>6, AuditFrame
    <3> QED
      BY <3>2, <3>3
  <2>5. ASSUME NEW state \in {"answered", "failed", "aborted"}, NEW reply,
               AttachResponse(r, Final(state, reply)),
               req[r].pc \in {"inflight", "streaming", "interned", "aborting"}
        PROVE  AuditInv'
    <3>1. sessions' = sessions
      BY <2>5 DEF AttachResponse
    <3>2. CASE r \in DOMAIN nodes
      <4>1. Pending(r)
        BY <2>5, <3>2 DEF RecordInv, Pending
      <4>2. nodes' = Settled(r, Final(state, reply))
        BY <2>5, <3>2 DEF AttachResponse
      <4> QED
        BY <3>1, <3>2, <4>1, <4>2, SettledAudit
    <3>3. CASE r \notin DOMAIN nodes
      BY <1>1, <2>5, <3>1, <3>3 DEF AttachResponse
    <3> QED
      BY <3>2, <3>3
  <2>6. CASE Attach(r)
    BY <2>5, <2>6 DEF Attach
  <2>7. CASE Fail(r)
    BY <2>5, <2>7 DEF Fail
  <2>8. CASE GuardAttach(r)
    BY <2>5, <2>8 DEF GuardAttach
  <2> QED
    BY <1>3, <2>1, <2>2, <2>3, <2>4, <2>6, <2>7, <2>8 DEF Step
<1> QED
  BY <1>2, <1>3 DEF Next

\* In capture mode "latest", a settled request that a later settled one has superseded
\* keeps no audit body, and the settled head of a session keeps its own.
THEOREM AuditIsKept == Spec => []AuditFollowsHeads
<1>1. Init => AuditInv
  BY DEF Init, AuditInv, AuditFollowsHeads
<1>2. RequestsOK /\ RecordInv /\ StructInv /\ AuditInv /\ [Next]_vars /\ StructInv' => AuditInv'
  BY NextAudit
<1>3. AuditInv => AuditFollowsHeads
  BY DEF AuditInv
<1> QED
  BY <1>1, <1>2, <1>3, StructIsKept, PTL DEF Spec

-----------------------------------------------------------------------------
(* Refcounts *)

\* Where the block b occurs in a sequence of messages: <<message, position>>.
Spots(ms, b) ==
    {p \in UNION {{i} \X DOMAIN Content[ms[i]] : i \in DOMAIN ms} : Content[ms[p[1]]][p[2]] = b}

\* A spot is a message of the sequence and a place in it that holds b.
LEMMA SpotIs ==
    ASSUME NEW ms \in Seq(Messages), NEW b, NEW p
    PROVE  p \in Spots(ms, b) <=>
             \E i \in 1 .. Len(ms) : \E j \in DOMAIN Content[ms[i]] :
               p = <<i, j>> /\ Content[ms[i]][j] = b
<1>1. p \in UNION {{i} \X DOMAIN Content[ms[i]] : i \in DOMAIN ms} <=>
        \E i \in 1 .. Len(ms) : \E j \in DOMAIN Content[ms[i]] : p = <<i, j>>
  <2>1. DOMAIN ms = 1 .. Len(ms)
    OBVIOUS
  <2> QED
    BY <2>1
<1> QED
  BY <1>1 DEF Spots

\* The uses of a block are its spots, and there are finitely many.
LEMMA SpotsAreFinite ==
    ASSUME NEW ms \in Seq(Messages), NEW b
    PROVE  IsFiniteSet(Spots(ms, b)) /\ Uses(ms, b) = Cardinality(Spots(ms, b)) /\ Uses(ms, b) \in Nat
<1> DEFINE f == [i \in 1 .. Len(ms) |-> Len(Content[ms[i]])]
<1>1. ASSUME NEW i \in 1 .. Len(ms)
      PROVE  f[i] \in Nat /\ DOMAIN Content[ms[i]] = 1 .. f[i]
  <2>1. Content[ms[i]] \in Seq(Blocks)
    BY MessagesAssumption
  <2> QED
    BY <2>1
<1>2. ASSUME NEW p \in Spots(ms, b) PROVE p \in Points(f, 1 .. Len(ms))
  <2>1. PICK i \in 1 .. Len(ms) : \E j \in DOMAIN Content[ms[i]] : p = <<i, j>>
    BY <1>2, SpotIs
  <2>2. PICK j \in 1 .. f[i] : p = <<i, j>>
    BY <1>1, <2>1
  <2> HIDE DEF f
  <2> QED
    BY <2>2 DEF Points
<1>3. IsFiniteSet(1 .. Len(ms))
  <2>1. 1 \in Int /\ Len(ms) \in Int
    OBVIOUS
  <2> QED
    BY <2>1, FS_Interval
<1> HIDE DEF f
<1>4. IsFiniteSet(Points(f, 1 .. Len(ms)))
  BY <1>1, <1>3, PointsAreFinite
<1>5. IsFiniteSet(Spots(ms, b))
  <2>1. Spots(ms, b) \subseteq Points(f, 1 .. Len(ms))
    BY <1>2
  <2> QED
    BY <1>4, <2>1, FS_Subset
<1>6. Uses(ms, b) = Cardinality(Spots(ms, b))
  BY Zenon DEF Uses, Spots
<1> QED
  BY <1>5, <1>6, FS_CardinalityType

\* No messages use no block.
LEMMA UsesNothing == ASSUME NEW b PROVE Uses(<< >>, b) = 0
<1>1. << >> \in Seq(Messages) /\ Len(<< >>) = 0
  OBVIOUS
<1>2. ASSUME NEW p \in Spots(<< >>, b) PROVE FALSE
  <2> DEFINE none == << >>
  <2>1. none \in Seq(Messages) /\ 1 .. Len(none) = {}
    BY <1>1
  <2> HIDE DEF none
  <2>2. p \in Spots(none, b)
    BY <1>2 DEF none
  <2> QED
    BY <2>1, <2>2, SpotIs
<1> QED
  BY <1>1, <1>2, SpotsAreFinite, FS_EmptySet

\* Two sequences in a row use a block as often as both together.
LEMMA UsesConcat ==
    ASSUME NEW ms \in Seq(Messages), NEW ns \in Seq(Messages), NEW b
    PROVE  Uses(ms \o ns, b) = Uses(ms, b) + Uses(ns, b)
<1> DEFINE all == ms \o ns
           k == Len(ms)
           Moved(p) == <<p[1] + k, p[2]>>
           rest == {Moved(p) : p \in Spots(ns, b)}
<1>1. /\ all \in Seq(Messages) /\ k \in Nat /\ Len(ns) \in Nat /\ Len(all) = k + Len(ns)
      /\ \A i \in 1 .. k : all[i] = ms[i]
      /\ \A i \in 1 .. Len(ns) : all[k + i] = ns[i]
  <2>1. /\ all \in Seq(Messages) /\ k \in Nat /\ Len(ns) \in Nat /\ Len(all) = k + Len(ns)
        /\ \A i \in 1 .. k : all[i] = ms[i]
    OBVIOUS
  <2>2. ASSUME NEW i \in 1 .. Len(ns) PROVE all[k + i] = ns[i]
    <3>1. k + i \in 1 .. Len(ms) + Len(ns) /\ ~ (k + i <= Len(ms)) /\ (k + i) - Len(ms) = i
      BY <2>1
    <3> QED
      BY <3>1
  <2> QED
    BY <2>1, <2>2
<1> HIDE DEF all, k
<1>2. ASSUME NEW p PROVE p \in Spots(all, b) <=> p \in Spots(ms, b) \/ p \in rest
  <2>1. ASSUME NEW i \in 1 .. Len(all), NEW j \in DOMAIN Content[all[i]],
               p = <<i, j>>, Content[all[i]][j] = b
        PROVE  p \in Spots(ms, b) \/ p \in rest
    <3>1. CASE i <= k
      <4>1. i \in 1 .. k
        BY <1>1, <3>1
      <4> QED
        BY <1>1, <2>1, <4>1, SpotIs DEF k
    <3>2. CASE i > k
      <4>1. PICK m \in 1 .. Len(ns) : i = k + m
        <5>1. i - k \in 1 .. Len(ns) /\ i = k + (i - k)
          BY <1>1, <3>2
        <5> QED
          BY <5>1
      <4>2. <<m, j>> \in Spots(ns, b)
        BY <1>1, <2>1, <4>1, SpotIs
      <4>3. p = Moved(<<m, j>>)
        BY <1>1, <2>1, <4>1
      <4> QED
        BY <4>2, <4>3
    <3> QED
      BY <1>1, <3>1, <3>2
  <2>2. ASSUME p \in Spots(ms, b) PROVE p \in Spots(all, b)
    <3>1. PICK i \in 1 .. k : \E j \in DOMAIN Content[ms[i]] : p = <<i, j>> /\ Content[ms[i]][j] = b
      BY <2>2, SpotIs DEF k
    <3>2. i \in 1 .. Len(all) /\ all[i] = ms[i]
      BY <1>1
    <3> QED
      BY <1>1, <3>1, <3>2, SpotIs
  <2>3. ASSUME p \in rest PROVE p \in Spots(all, b)
    <3>1. PICK q \in Spots(ns, b) : p = Moved(q)
      BY <2>3
    <3>2. PICK i \in 1 .. Len(ns) : \E j \in DOMAIN Content[ns[i]] : q = <<i, j>> /\ Content[ns[i]][j] = b
      BY SpotIs
    <3>3. k + i \in 1 .. Len(all) /\ all[k + i] = ns[i] /\ i + k = k + i
      BY <1>1
    <3> QED
      BY <1>1, <3>1, <3>2, <3>3, SpotIs
  <2> QED
    BY <1>1, <2>1, <2>2, <2>3, SpotIs
<1>3. Spots(ms, b) \cap rest = {}
  <2>1. ASSUME NEW q \in Spots(ns, b), Moved(q) \in Spots(ms, b) PROVE FALSE
    <3>1. PICK i \in 1 .. Len(ns) : \E j \in DOMAIN Content[ns[i]] : q = <<i, j>>
      BY SpotIs
    <3>2. PICK m \in 1 .. k : \E j \in DOMAIN Content[ms[m]] : Moved(q) = <<m, j>>
      BY <2>1, SpotIs DEF k
    <3> QED
      BY <1>1, <3>1, <3>2
  <2> QED
    BY <2>1
<1>4. IsFiniteSet(rest) /\ Cardinality(rest) = Cardinality(Spots(ns, b))
  <2> DEFINE g == [p \in Spots(ns, b) |-> Moved(p)]
  <2>1. ASSUME NEW p \in Spots(ns, b), NEW q \in Spots(ns, b), Moved(p) = Moved(q) PROVE p = q
    <3>1. PICK i \in 1 .. Len(ns) : \E j \in DOMAIN Content[ns[i]] : p = <<i, j>>
      BY SpotIs
    <3>2. PICK m \in 1 .. Len(ns) : \E j \in DOMAIN Content[ns[m]] : q = <<m, j>>
      BY SpotIs
    <3> QED
      BY <1>1, <2>1, <3>1, <3>2
  <2> HIDE DEF Moved
  <2>2. g \in Bijection(Spots(ns, b), rest)
    BY <2>1 DEF Bijection, Injection, Surjection, IsInjective
  <2>3. IsFiniteSet(Spots(ns, b)) /\ ExistsBijection(Spots(ns, b), rest)
    BY <2>2, SpotsAreFinite DEF ExistsBijection
  <2> QED
    BY <2>3, FS_Bijection
<1> HIDE DEF rest
<1>5. Spots(all, b) = Spots(ms, b) \cup rest
  BY <1>2
<1>6. Cardinality(Spots(ms, b) \cup rest)
        = Cardinality(Spots(ms, b)) + Cardinality(rest) - Cardinality({})
  BY <1>3, <1>4, SpotsAreFinite, FS_Union
<1>7. Cardinality({}) = 0
  BY FS_EmptySet
<1>8. Uses(all, b) = Cardinality(Spots(ms, b) \cup rest)
  BY <1>1, <1>5, SpotsAreFinite
<1> QED
  BY <1>4, <1>6, <1>7, <1>8, SpotsAreFinite DEF all

\* How often each node, and the reply of each request, uses the block b.
HeldUses(N, b) == [n \in DOMAIN N |-> Uses(Held(N[n]), b)]

ReplyUses(Q, b) == [r \in Requests |-> Uses(Q[r].reply, b)]

\* The fold that the property sums the nodes with is the sum of what they use.
LEMMA HeldSum ==
    ASSUME NEW N, NEW S, IsFiniteSet(S), S \subseteq DOMAIN N, NEW b,
           \A n \in S : Uses(Held(N[n]), b) \in Nat
    PROVE  MapThenSumSet(LAMBDA n : Uses(Held(N[n]), b), S) = Total(HeldUses(N, b), S)
<1> DEFINE f == HeldUses(N, b)
           Sums(it) == it = [s \in SUBSET S |->
                                IF s = {} THEN 0
                                ELSE LET x == CHOOSE x \in s : TRUE
                                     IN  Uses(Held(N[x]), b) + it[s \ {x}]]
           sum == CHOOSE it : Sums(it)
<1>1. \A n \in S : f[n] = Uses(Held(N[n]), b)
  BY DEF HeldUses
<1>2. ASSUME NEW fold PROVE Sums(fold) <=> Adds(fold, f, S)
  <2> DEFINE pick(s) == CHOOSE x \in s : TRUE
  <2>1. \A s \in SUBSET S : s # {} => f[pick(s)] = Uses(Held(N[pick(s)]), b)
    <3>1. \A s \in SUBSET S : s # {} => pick(s) \in s
      OBVIOUS
    <3> QED
      BY <1>1, <3>1
  <2> HIDE DEF f
  <2> QED
    BY <2>1 DEF Adds
<1>3. Adds([s \in SUBSET S |-> Total(f, s)], f, S)
  BY <1>1, TotalAdds
<1> HIDE DEF f, Sums
<1>4. Sums([s \in SUBSET S |-> Total(f, s)])
  BY <1>2, <1>3
<1>5. Sums(sum)
  BY <1>4
<1> HIDE DEF sum
<1>6. Adds(sum, f, S) /\ \A n \in S : f[n] \in Nat
  BY <1>1, <1>2, <1>5
<1>7. sum[S] = Total(f, S)
  BY <1>6, AddsTotal
<1>8. MapThenSumSet(LAMBDA n : Uses(Held(N[n]), b), S) = sum[S]
  BY DEF MapThenSumSet, MapThenFoldSet, sum, Sums
<1> QED
  BY <1>7, <1>8 DEF f

\* The fold that the property sums the requests with is the sum of what they use.
LEMMA ReplySum ==
    ASSUME NEW Q, IsFiniteSet(Requests), NEW b, \A r \in Requests : Uses(Q[r].reply, b) \in Nat
    PROVE  MapThenSumSet(LAMBDA r : Uses(Q[r].reply, b), Requests) = Total(ReplyUses(Q, b), Requests)
<1> DEFINE f == ReplyUses(Q, b)
           Sums(it) == it = [s \in SUBSET Requests |->
                                IF s = {} THEN 0
                                ELSE LET x == CHOOSE x \in s : TRUE
                                     IN  Uses(Q[x].reply, b) + it[s \ {x}]]
           sum == CHOOSE it : Sums(it)
<1>1. \A r \in Requests : f[r] = Uses(Q[r].reply, b)
  BY DEF ReplyUses
<1>2. ASSUME NEW fold PROVE Sums(fold) <=> Adds(fold, f, Requests)
  <2> DEFINE pick(s) == CHOOSE x \in s : TRUE
  <2>1. \A s \in SUBSET Requests : s # {} => f[pick(s)] = Uses(Q[pick(s)].reply, b)
    <3>1. \A s \in SUBSET Requests : s # {} => pick(s) \in s
      OBVIOUS
    <3> QED
      BY <1>1, <3>1
  <2> HIDE DEF f
  <2> QED
    BY <2>1 DEF Adds
<1>3. Adds([s \in SUBSET Requests |-> Total(f, s)], f, Requests)
  BY <1>1, TotalAdds
<1> HIDE DEF f, Sums
<1>4. Sums([s \in SUBSET Requests |-> Total(f, s)])
  BY <1>2, <1>3
<1>5. Sums(sum)
  BY <1>4
<1> HIDE DEF sum
<1>6. Adds(sum, f, Requests) /\ \A r \in Requests : f[r] \in Nat
  BY <1>1, <1>2, <1>5
<1>7. sum[Requests] = Total(f, Requests)
  BY <1>6, AddsTotal
<1>8. MapThenSumSet(LAMBDA r : Uses(Q[r].reply, b), Requests) = sum[Requests]
  BY DEF MapThenSumSet, MapThenFoldSet, sum, Sums
<1> QED
  BY <1>7, <1>8 DEF f

\* A node in flight holds no reply, and a request holds one only between interning and
\* attaching it.
ReplyInv ==
    /\ refs \in [Blocks -> Nat]
    /\ \A n \in DOMAIN nodes : /\ nodes[n].sys \in Seq(Messages)
                               /\ IsInflight(nodes[n].resp) => nodes[n].resp.reply = NoReply
    /\ \A r \in Requests : req[r].pc # "interned" => req[r].reply = NoReply

\* RefcountsExact, with sums that lemmas can be stated about.
RefInv ==
    /\ ReplyInv
    /\ \A b \in Blocks :
         refs[b] = Total(HeldUses(nodes, b), DOMAIN nodes) + Total(ReplyUses(req, b), Requests)

\* A reply, or none, is a sequence of messages.
LEMMA ReplyType ==
    ASSUME NEW reply, reply = NoReply \/ \E m \in Replies : reply = <<m>>
    PROVE  reply \in Seq(Messages)
<1>1. << >> \in Seq(Messages)
  OBVIOUS
<1>2. ASSUME NEW m \in Replies PROVE <<m>> \in Seq(Messages)
  <2>1. m \in Messages
    BY MessagesAssumption
  <2> QED
    BY <2>1
<1> QED
  BY <1>1, <1>2 DEF NoReply

\* What nodes hold are messages.
LEMMA HeldTypes ==
    ASSUME RecordInv, DataInv, ReplyInv, NEW n \in DOMAIN nodes
    PROVE  /\ nodes[n].delta \in Seq(Messages) /\ nodes[n].sys \in Seq(Messages)
           /\ nodes[n].resp.reply \in Seq(Messages)
<1>1. nodes[n].resp \in Response
  BY DEF RecordInv
<1>2. nodes[n].resp.reply = NoReply \/ \E m \in Replies : nodes[n].resp.reply = <<m>>
  BY <1>1 DEF Response
<1>3. nodes[n].resp.reply \in Seq(Messages)
  BY <1>2, ReplyType
<1> QED
  BY <1>3 DEF DataInv, ReplyInv

\* A node uses a block as often as its delta, its system prompt and its reply do.
LEMMA HeldIs ==
    ASSUME NEW N, NEW n \in DOMAIN N, N[n].delta \in Seq(Messages), N[n].sys \in Seq(Messages),
           N[n].resp.reply \in Seq(Messages), NEW b
    PROVE  /\ HeldUses(N, b)[n] \in Nat
           /\ HeldUses(N, b)[n] = Uses(N[n].delta, b) + Uses(N[n].sys, b) + Uses(N[n].resp.reply, b)
<1> DEFINE ds == N[n].delta \o N[n].sys
<1>1. HeldUses(N, b)[n] = Uses(Held(N[n]), b)
  BY DEF HeldUses
<1>2. ds \in Seq(Messages) /\ Uses(ds, b) = Uses(N[n].delta, b) + Uses(N[n].sys, b)
  BY UsesConcat
<1>3. Held(N[n]) = ds \o N[n].resp.reply
  BY DEF Held
<1> HIDE DEF ds
<1>4. Uses(Held(N[n]), b) = Uses(ds, b) + Uses(N[n].resp.reply, b)
  BY <1>2, <1>3, UsesConcat
<1>5. Uses(N[n].delta, b) \in Nat /\ Uses(N[n].sys, b) \in Nat /\ Uses(N[n].resp.reply, b) \in Nat
  BY SpotsAreFinite
<1> QED
  BY <1>1, <1>2, <1>4, <1>5

\* What requests hold are messages.
LEMMA ReplyTypes ==
    ASSUME RequestsOK, NEW r \in Requests
    PROVE  req[r].reply \in Seq(Messages)
<1>1. req[r].reply = NoReply \/ \E m \in Replies : req[r].reply = <<m>>
  BY DEF RequestsOK, Request
<1> QED
  BY <1>1, ReplyType

\* A request uses a block as often as the reply it holds does.
LEMMA ReplyIs ==
    ASSUME NEW Q, NEW r \in Requests, Q[r].reply \in Seq(Messages), NEW b
    PROVE  ReplyUses(Q, b)[r] = Uses(Q[r].reply, b) /\ ReplyUses(Q, b)[r] \in Nat
  BY SpotsAreFinite DEF ReplyUses

\* The two readings of the refcounts agree.
LEMMA RefcountsAre ==
    ASSUME IsFiniteSet(Requests), RequestsOK, RecordInv, DataInv, RefInv
    PROVE  RefcountsExact
<1> SUFFICES ASSUME NEW b \in Blocks
             PROVE  refs[b] = MapThenSumSet(LAMBDA n : Uses(Held(nodes[n]), b), DOMAIN nodes)
                                + MapThenSumSet(LAMBDA r : Uses(req[r].reply, b), Requests)
  BY DEF RefcountsExact
<1>1. \A n \in DOMAIN nodes : Uses(Held(nodes[n]), b) \in Nat
  BY HeldTypes, HeldIs DEF RefInv, HeldUses
<1>2. MapThenSumSet(LAMBDA n : Uses(Held(nodes[n]), b), DOMAIN nodes)
        = Total(HeldUses(nodes, b), DOMAIN nodes)
  BY <1>1, HeldSum DEF DataInv
<1>3. \A r \in Requests : Uses(req[r].reply, b) \in Nat
  BY ReplyTypes, SpotsAreFinite
<1>4. MapThenSumSet(LAMBDA r : Uses(req[r].reply, b), Requests) = Total(ReplyUses(req, b), Requests)
  BY <1>3, ReplySum
<1> QED
  BY <1>2, <1>4 DEF RefInv

\* What steps leave of the replies that requests hold.
LEMMA RepliesStay ==
    ASSUME RequestsOK, ReplyInv, NEW r \in Requests, Step(r)
    PROVE  /\ \A q \in Requests \ {r} : req'[q] = req[q]
           /\ Build(r) \/ Push(r) \/ Evict(r) \/ SyncParsed(r) \/ GuardCheck(r)
                => req'[r].reply = req[r].reply
           /\ Attach(r) => req'[r].reply = NoReply
           /\ req'[r].pc # "interned" => req'[r].reply = NoReply
<1>1. req[r] \in Request /\ DOMAIN req = Requests
  BY DEF RequestsOK
<1>2. \A q \in Requests \ {r} : req'[q] = req[q]
  BY StepMoves DEF Step, Moves
<1>3. ASSUME Build(r) PROVE req'[r].reply = req[r].reply /\ req'[r].reply = NoReply
  <2>1. req[r].pc # "interned" /\ req'[r].reply = NoReply
    BY <1>1, <1>3 DEF Build
  <2> QED
    BY <2>1 DEF ReplyInv
<1>4. ASSUME NEW pc, req' = [req EXCEPT ![r].pc = pc] PROVE req'[r].reply = req[r].reply
  BY <1>1, <1>4 DEF Request
<1>5. Push(r) \/ Evict(r) \/ SyncParsed(r) \/ Fail(r) \/ GuardCheck(r) \/ GuardAttach(r)
        => req'[r].reply = req[r].reply /\ req[r].pc # "interned"
  BY <1>4 DEF Push, Evict, SyncParsed, Fail, GuardCheck, GuardAttach
<1>6. Attach(r) => req'[r].reply = NoReply
  BY <1>1 DEF Attach, Request
<1>7. InternReply(r) => req'[r].pc = "interned"
  BY StepMoves DEF Step, Moves
<1> QED
  BY <1>2, <1>3, <1>5, <1>6, <1>7 DEF Step, ReplyInv

\* The sum over the requests is what it was, unless one interns or attaches.
LEMMA RepliesSame ==
    ASSUME \A q \in Requests : req'[q].reply = req[q].reply, NEW b
    PROVE  Total(ReplyUses(req', b), Requests) = Total(ReplyUses(req, b), Requests)
<1>1. \A q \in Requests : ReplyUses(req', b)[q] = ReplyUses(req, b)[q]
  BY DEF ReplyUses
<1> QED
  BY <1>1, TotalSame

\* Steps that change none of what nodes and requests hold.
LEMMA RefFrame ==
    ASSUME RefInv, refs' = refs, DOMAIN nodes' = DOMAIN nodes,
           \A n \in DOMAIN nodes : /\ nodes'[n].delta = nodes[n].delta
                                   /\ nodes'[n].sys = nodes[n].sys
                                   /\ nodes'[n].resp.reply = nodes[n].resp.reply,
           \A q \in Requests : req'[q].reply = req[q].reply,
           ReplyInv'
    PROVE  RefInv'
<1>1. ASSUME NEW b \in Blocks
      PROVE  Total(HeldUses(nodes', b), DOMAIN nodes') = Total(HeldUses(nodes, b), DOMAIN nodes)
  <2>1. \A n \in DOMAIN nodes : HeldUses(nodes', b)[n] = HeldUses(nodes, b)[n]
    BY DEF HeldUses, Held
  <2> QED
    BY <2>1, TotalSame
<1>2. ASSUME NEW b \in Blocks
      PROVE  refs'[b] = Total(HeldUses(nodes', b), DOMAIN nodes')
                          + Total(ReplyUses(req', b), Requests)
  BY <1>1, RepliesSame DEF RefInv
<1> QED
  BY <1>2 DEF RefInv

\* A push interns the body and gives back the prefix that the parent's chain holds.
LEMMA PushRefs ==
    ASSUME IsFiniteSet(Requests), RequestsOK, RecordInv, StructInv, RefInv,
           NEW r \in Requests, Push(r), RequestsOK', RecordInv', StructInv'
    PROVE  RefInv'
<1> DEFINE body == req[r].body
           found == FindParent(body)
           k == found.split
           delta == nodes'[r].delta
           sys == nodes'[r].sys
<1>1. /\ r \notin DOMAIN nodes /\ DOMAIN nodes' = DOMAIN nodes \cup {r}
      /\ nodes'[r] = NewNode(r, found) /\ nodes'[r].resp = NoResponse
      /\ \A n \in DOMAIN nodes :
           /\ nodes'[n].delta = nodes[n].delta /\ nodes'[n].sys = nodes[n].sys
           /\ nodes'[n].resp = nodes[n].resp
  BY PushNodes DEF NodeFields
<1>2. body \in Seq(Messages) /\ req[r].sys \in Seq(Messages)
  <2>1. << >> \in Seq(Messages)
    OBVIOUS
  <2> QED
    BY <2>1, MessagesAssumption DEF RequestsOK, Request
<1>3. k \in 0 .. Len(body)
  BY <1>2, SplitIsDepth
<1>4. delta = SubSeq(body, k + 1, Len(body)) /\ sys \in Seq(Messages)
  <2>1. << >> \in Seq(Messages)
    OBVIOUS
  <2>2. /\ NewNode(r, found).delta = SubSeq(body, k + 1, Len(body))
        /\ NewNode(r, found).sys = IF found.parent = NoParent THEN req[r].sys ELSE << >>
    <3> HIDE DEF found
    <3> QED
      BY DEF NewNode
  <2> HIDE DEF found, body
  <2> QED
    BY <1>1, <1>2, <2>1, <2>2
<1>5. refs' = Intern(Release(Intern(refs, body), Prefix(body, k)), sys)
  BY <1>1 DEF Push
<1> HIDE DEF found, k, delta, sys, body
<1>6. /\ delta \in Seq(Messages) /\ Prefix(body, k) \in Seq(Messages)
      /\ Prefix(body, k) \o delta = body
  <2>1. /\ SubSeq(body, k + 1, Len(body)) \in Seq(Messages)
        /\ SubSeq(body, 1, k) \o SubSeq(body, k + 1, Len(body)) = body
    BY <1>2, <1>3, CutInTwo
  <2>2. SubSeq(body, 1, k) \in Seq(Messages)
    BY <1>2, <1>3
  <2> QED
    BY <1>4, <2>1, <2>2 DEF Prefix
<1>7. \A q \in Requests : req'[q].reply = req[q].reply
  BY RepliesStay DEF RefInv, Step
<1>8. ReplyInv'
  <2>1. refs' \in [Blocks -> Nat]
    <3>1. refs \in [Blocks -> Nat]
      BY DEF RefInv, ReplyInv
    <3>2. \A b : Uses(body, b) \in Nat /\ Uses(Prefix(body, k), b) \in Nat /\ Uses(sys, b) \in Nat
      BY <1>2, <1>4, <1>6, SpotsAreFinite
    <3>3. \A b \in Blocks :
            Less(refs[b] + Uses(body, b), Uses(Prefix(body, k), b)) + Uses(sys, b) \in Nat
      BY <3>1, <3>2 DEF Less
    <3> QED
      BY <1>5, <3>3 DEF Intern, Release
  <2>2. \A n \in DOMAIN nodes' : /\ nodes'[n].sys \in Seq(Messages)
                                 /\ IsInflight(nodes'[n].resp) => nodes'[n].resp.reply = NoReply
    BY <1>1, <1>4 DEF RefInv, ReplyInv, NoResponse, sys
  <2>3. \A q \in Requests : req'[q].pc # "interned" => req'[q].reply = NoReply
    BY RepliesStay DEF RefInv, ReplyInv, Step
  <2> QED
    BY <2>1, <2>2, <2>3 DEF ReplyInv
<1>9. ASSUME NEW b \in Blocks
      PROVE  refs'[b] = Total(HeldUses(nodes', b), DOMAIN nodes')
                          + Total(ReplyUses(req', b), Requests)
  <2>1. Total(ReplyUses(req', b), Requests) = Total(ReplyUses(req, b), Requests)
    BY <1>7, RepliesSame
  <2>2. Total(HeldUses(nodes', b), DOMAIN nodes) = Total(HeldUses(nodes, b), DOMAIN nodes)
    <3>1. \A n \in DOMAIN nodes : HeldUses(nodes', b)[n] = HeldUses(nodes, b)[n]
      BY <1>1 DEF HeldUses, Held
    <3> QED
      BY <3>1, TotalSame
  <2>3. \A n \in DOMAIN nodes : HeldUses(nodes', b)[n] \in Nat
    BY <1>1, HeldTypes, HeldIs DEF RefInv, StructInv
  <2>4. HeldUses(nodes', b)[r] = Uses(delta, b) + Uses(sys, b)
    <3>1. nodes'[r].resp.reply = << >>
      BY <1>1 DEF NoResponse, NoReply
    <3>2. << >> \in Seq(Messages)
      OBVIOUS
    <3>3. HeldUses(nodes', b)[r] = Uses(delta, b) + Uses(sys, b) + Uses(<< >>, b)
      <4>1. /\ r \in DOMAIN nodes' /\ nodes'[r].delta \in Seq(Messages)
            /\ nodes'[r].sys \in Seq(Messages) /\ nodes'[r].resp.reply \in Seq(Messages)
        BY <1>1, <1>4, <1>6, <3>1, <3>2 DEF delta, sys
      <4>2. HeldUses(nodes', b)[r] = Uses(nodes'[r].delta, b) + Uses(nodes'[r].sys, b)
                                       + Uses(nodes'[r].resp.reply, b)
        BY <4>1, HeldIs
      <4> QED
        BY <3>1, <4>2 DEF delta, sys
    <3>4. Uses(delta, b) \in Nat /\ Uses(sys, b) \in Nat
      BY <1>4, <1>6, SpotsAreFinite
    <3> QED
      BY <3>3, <3>4, UsesNothing
  <2>5. Total(HeldUses(nodes', b), DOMAIN nodes')
          = HeldUses(nodes', b)[r] + Total(HeldUses(nodes', b), DOMAIN nodes)
    <3>1. r \in DOMAIN nodes' /\ DOMAIN nodes' \ {r} = DOMAIN nodes /\ IsFiniteSet(DOMAIN nodes')
      BY <1>1 DEF StructInv, DataInv
    <3>2. Uses(delta, b) \in Nat /\ Uses(sys, b) \in Nat
      BY <1>4, <1>6, SpotsAreFinite
    <3>3. \A n \in DOMAIN nodes' : HeldUses(nodes', b)[n] \in Nat
      BY <1>1, <2>3, <2>4, <3>2
    <3> QED
      BY <3>1, <3>3, TotalSplit
  <2>6. refs'[b] = Less(refs[b] + Uses(body, b), Uses(Prefix(body, k), b)) + Uses(sys, b)
    BY <1>5 DEF Intern, Release
  <2>7. Uses(body, b) = Uses(Prefix(body, k), b) + Uses(delta, b)
    BY <1>6, UsesConcat
  <2>8. /\ refs[b] \in Nat /\ Uses(Prefix(body, k), b) \in Nat /\ Uses(delta, b) \in Nat
        /\ Uses(sys, b) \in Nat
    BY <1>4, <1>6, SpotsAreFinite DEF RefInv, ReplyInv
  <2>9. refs'[b] = refs[b] + Uses(delta, b) + Uses(sys, b)
    BY <2>6, <2>7, <2>8 DEF Less
  <2>10. refs[b] = Total(HeldUses(nodes, b), DOMAIN nodes) + Total(ReplyUses(req, b), Requests)
    BY DEF RefInv
  <2>11. Total(HeldUses(nodes, b), DOMAIN nodes) \in Nat /\ Total(ReplyUses(req, b), Requests) \in Nat
    <3>1. \A q \in Requests : ReplyUses(req, b)[q] \in Nat
      BY ReplyTypes, ReplyIs
    <3>2. \A n \in DOMAIN nodes : HeldUses(nodes, b)[n] \in Nat
      BY HeldTypes, HeldIs DEF RefInv, StructInv
    <3> QED
      BY <3>1, <3>2, PointsAreFinite DEF StructInv, DataInv
  <2> QED
    BY <2>1, <2>2, <2>4, <2>5, <2>8, <2>9, <2>10, <2>11
<1> QED
  BY <1>8, <1>9 DEF RefInv

\* An eviction releases what the nodes that go held.
LEMMA EvictRefs ==
    ASSUME IsFiniteSet(Requests), RequestsOK, RecordInv, StructInv, RefInv,
           NEW r \in Requests, Evict(r)
    PROVE  RefInv'
<1>1. PICK victim \in Oldest :
        /\ nodes' = Bereaved(Doomed(sessions[victim].leaf))
        /\ refs' = ReleaseAll(Doomed(sessions[victim].leaf))
  BY DEF Evict
<1> DEFINE gone == Doomed(sessions[victim].leaf)
<1>2. gone \subseteq DOMAIN nodes
  <2>1. sessions[victim].leaf \in DOMAIN nodes
    BY DEF Oldest, StructInv, TipInv
  <2>2. \A i \in 1 .. Len(nodes[sessions[victim].leaf].path) :
          nodes[sessions[victim].leaf].path[i] \in DOMAIN nodes
    BY <2>1, OnPath DEF StructInv
  <2> QED
    BY <2>1, <2>2, DoomedIs DEF StructInv
<1>3. nodes' = Bereaved(gone) /\ refs' = ReleaseAll(gone)
  BY <1>1
<1> HIDE DEF gone
<1> DEFINE rest == DOMAIN nodes \ gone
<1>4. /\ DOMAIN nodes' = rest
      /\ \A n \in rest : /\ nodes'[n].delta = nodes[n].delta /\ nodes'[n].sys = nodes[n].sys
                         /\ nodes'[n].resp = nodes[n].resp
  <2>1. DOMAIN nodes' = rest
    BY <1>3 DEF Bereaved
  <2>2. ASSUME NEW n \in rest
        PROVE  /\ nodes'[n].delta = nodes[n].delta /\ nodes'[n].sys = nodes[n].sys
               /\ nodes'[n].resp = nodes[n].resp
    <3>1. NodeFields \subseteq DOMAIN nodes[n]
      BY DEF RecordInv
    <3>2. PICK children : nodes'[n] = [nodes[n] EXCEPT !.children = children]
      BY <1>3 DEF Bereaved
    <3> QED
      BY <3>1, <3>2 DEF NodeFields
  <2> QED
    BY <2>1, <2>2
<1>5. IsFiniteSet(gone) /\ IsFiniteSet(rest) /\ rest \cup gone = DOMAIN nodes /\ rest \cap gone = {}
  BY <1>2, FS_Subset DEF StructInv, DataInv
<1>6. \A b : \A n \in DOMAIN nodes : HeldUses(nodes, b)[n] \in Nat
  BY HeldTypes, HeldIs DEF RefInv, StructInv
<1>7. ASSUME NEW b \in Blocks
      PROVE  /\ refs'[b] = Less(refs[b], Total(HeldUses(nodes, b), gone))
             /\ Total(HeldUses(nodes, b), gone) \in Nat
             /\ Total(HeldUses(nodes, b), rest) \in Nat
             /\ Total(ReplyUses(req, b), Requests) \in Nat
  <2>1. \A n \in gone : Uses(Held(nodes[n]), b) \in Nat
    BY <1>2, <1>6 DEF HeldUses
  <2>2. MapThenSumSet(LAMBDA n : Uses(Held(nodes[n]), b), gone) = Total(HeldUses(nodes, b), gone)
    BY <1>2, <1>5, <2>1, HeldSum
  <2>3. refs'[b] = Less(refs[b], MapThenSumSet(LAMBDA n : Uses(Held(nodes[n]), b), gone))
    BY <1>3 DEF ReleaseAll
  <2>4. \A q \in Requests : ReplyUses(req, b)[q] \in Nat
    BY ReplyTypes, ReplyIs
  <2>5. (\A n \in gone : HeldUses(nodes, b)[n] \in Nat) /\ (\A n \in rest : HeldUses(nodes, b)[n] \in Nat)
    BY <1>2, <1>6
  <2> HIDE DEF rest
  <2> QED
    BY <1>5, <2>2, <2>3, <2>4, <2>5, PointsAreFinite
<1>8. ASSUME NEW b \in Blocks
      PROVE  /\ refs'[b] = Total(HeldUses(nodes', b), DOMAIN nodes') + Total(ReplyUses(req', b), Requests)
             /\ refs'[b] \in Nat
  <2>1. Total(HeldUses(nodes', b), rest) = Total(HeldUses(nodes, b), rest)
    <3>1. \A n \in rest : HeldUses(nodes', b)[n] = HeldUses(nodes, b)[n]
      BY <1>4 DEF HeldUses, Held
    <3> HIDE DEF rest
    <3> QED
      BY <3>1, TotalSame
  <2>2. Total(HeldUses(nodes, b), DOMAIN nodes)
          = Total(HeldUses(nodes, b), rest) + Total(HeldUses(nodes, b), gone)
    <3>1. \A n \in rest \cup gone : HeldUses(nodes, b)[n] \in Nat
      BY <1>5, <1>6
    <3> HIDE DEF rest
    <3>2. Total(HeldUses(nodes, b), rest \cup gone)
            = Total(HeldUses(nodes, b), rest) + Total(HeldUses(nodes, b), gone)
      BY <1>5, <3>1, TotalUnion
    <3> QED
      BY <1>5, <3>2
  <2>3. Total(ReplyUses(req', b), Requests) = Total(ReplyUses(req, b), Requests)
    <3>1. \A q \in Requests : req'[q].reply = req[q].reply
      BY RepliesStay DEF RefInv, Step
    <3> QED
      BY <3>1, RepliesSame
  <2>4. refs[b] = Total(HeldUses(nodes, b), DOMAIN nodes) + Total(ReplyUses(req, b), Requests)
    BY DEF RefInv
  <2> HIDE DEF rest
  <2> QED
    BY <1>4, <1>7, <2>1, <2>2, <2>3, <2>4 DEF Less
<1>9. ReplyInv'
  <2>1. refs' \in [Blocks -> Nat]
    BY <1>3, <1>8 DEF ReleaseAll
  <2>2. \A n \in DOMAIN nodes' : /\ nodes'[n].sys \in Seq(Messages)
                                 /\ IsInflight(nodes'[n].resp) => nodes'[n].resp.reply = NoReply
    BY <1>4 DEF RefInv, ReplyInv
  <2>3. \A q \in Requests : req'[q].pc # "interned" => req'[q].reply = NoReply
    BY RepliesStay DEF RefInv, ReplyInv, Step
  <2> QED
    BY <2>1, <2>2, <2>3 DEF ReplyInv
<1> QED
  BY <1>8, <1>9 DEF RefInv

\* The sums are of naturals.
LEMMA SumsAreNat ==
    ASSUME IsFiniteSet(Requests), RequestsOK, RecordInv, StructInv, RefInv, NEW b
    PROVE  /\ \A n \in DOMAIN nodes : HeldUses(nodes, b)[n] \in Nat
           /\ \A q \in Requests : ReplyUses(req, b)[q] \in Nat
           /\ Total(HeldUses(nodes, b), DOMAIN nodes) \in Nat
           /\ Total(ReplyUses(req, b), Requests) \in Nat
<1>1. \A q \in Requests : ReplyUses(req, b)[q] \in Nat
  BY ReplyTypes, ReplyIs
<1>2. \A n \in DOMAIN nodes : HeldUses(nodes, b)[n] \in Nat
  BY HeldTypes, HeldIs DEF RefInv, StructInv
<1> QED
  BY <1>1, <1>2, PointsAreFinite DEF StructInv, DataInv

\* Interning a reply adds its uses, on account of the request.
LEMMA InternRefs ==
    ASSUME IsFiniteSet(Requests), RequestsOK, RecordInv, StructInv, RefInv,
           NEW r \in Requests, InternReply(r), RequestsOK'
    PROVE  RefInv'
<1>1. PICK m \in Replies :
        /\ refs' = Intern(refs, <<m>>)
        /\ req' = [req EXCEPT ![r].pc = "interned", ![r].reply = <<m>>]
  BY DEF InternReply
<1>2. <<m>> \in Seq(Messages) /\ \A b : Uses(<<m>>, b) \in Nat
  <2>1. <<m>> \in Seq(Messages)
    BY ReplyType
  <2> QED
    BY <2>1, SpotsAreFinite
<1>3. /\ req'[r].reply = <<m>> /\ req[r].reply = NoReply
      /\ \A q \in Requests \ {r} : req'[q] = req[q]
  <2>1. req[r] \in Request /\ DOMAIN req = Requests /\ req[r].pc # "interned"
    BY DEF RequestsOK, InternReply
  <2>2. req[r].reply = NoReply
    BY <2>1 DEF RefInv, ReplyInv
  <2> QED
    BY <1>1, <2>1, <2>2 DEF Request
<1>4. nodes' = nodes
  BY DEF InternReply
<1>5. ReplyInv'
  <2>1. \A q \in Requests : req'[q].pc # "interned" => req'[q].reply = NoReply
    BY RepliesStay DEF RefInv, ReplyInv, Step
  <2>2. refs' \in [Blocks -> Nat]
    <3>1. \A b \in Blocks : refs[b] + Uses(<<m>>, b) \in Nat
      BY <1>2 DEF RefInv, ReplyInv
    <3> QED
      BY <1>1, <3>1 DEF Intern
  <2> QED
    BY <1>4, <2>1, <2>2 DEF RefInv, ReplyInv
<1>6. ASSUME NEW b \in Blocks
      PROVE  refs'[b] = Total(HeldUses(nodes', b), DOMAIN nodes')
                          + Total(ReplyUses(req', b), Requests)
  <2>1. ReplyUses(req, b)[r] = 0 /\ ReplyUses(req', b)[r] = Uses(<<m>>, b)
    <3>1. ReplyUses(req, b)[r] = Uses(<< >>, b)
      BY <1>3 DEF ReplyUses, NoReply
    <3>2. ReplyUses(req', b)[r] = Uses(<<m>>, b)
      BY <1>3 DEF ReplyUses
    <3> QED
      BY <3>1, <3>2, UsesNothing
  <2>2. \A q \in Requests \ {r} : ReplyUses(req', b)[q] = ReplyUses(req, b)[q]
    BY <1>3 DEF ReplyUses
  <2>3. \A q \in Requests : ReplyUses(req, b)[q] \in Nat /\ ReplyUses(req', b)[q] \in Nat
    BY <1>2, <2>1, <2>2, SumsAreNat
  <2>4. /\ Total(ReplyUses(req', b), Requests) \in Nat
        /\ Total(ReplyUses(req', b), Requests) + ReplyUses(req, b)[r]
             = Total(ReplyUses(req, b), Requests) + ReplyUses(req', b)[r]
    BY <2>2, <2>3, TotalChange
  <2>5. refs'[b] = refs[b] + Uses(<<m>>, b)
    BY <1>1 DEF Intern
  <2>6. refs[b] = Total(HeldUses(nodes, b), DOMAIN nodes) + Total(ReplyUses(req, b), Requests)
    BY DEF RefInv
  <2> QED
    BY <1>2, <1>4, <2>1, <2>4, <2>5, <2>6, SumsAreNat
<1> QED
  BY <1>5, <1>6 DEF RefInv

\* Attaching hands the reply of the request to its node, or releases it when the node is
\* gone; the node held none before.
LEMMA AttachRefs ==
    ASSUME IsFiniteSet(Requests), RequestsOK, RecordInv, StructInv, RefInv,
           NEW r \in Requests, NEW outcome \in {"answered", "failed", "aborted"},
           AttachResponse(r, Final(outcome, req[r].reply)),
           req[r].pc \in {"inflight", "streaming", "interned", "aborting"},
           req'[r].reply = NoReply, \A q \in Requests \ {r} : req'[q] = req[q]
    PROVE  RefInv'
<1> DEFINE reply == req[r].reply
<1>1. /\ DOMAIN nodes' = DOMAIN nodes
      /\ \A n \in DOMAIN nodes : /\ nodes'[n].delta = nodes[n].delta
                                 /\ nodes'[n].sys = nodes[n].sys
                                 /\ n # r => nodes'[n].resp = nodes[n].resp
      /\ r \in DOMAIN nodes => nodes'[r].resp = Final(outcome, reply)
  BY AttachNodes DEF SameNodes, NodeFields
<1>2. reply \in Seq(Messages) /\ \A b : Uses(reply, b) \in Nat
  BY ReplyTypes, SpotsAreFinite
<1>3. ~ IsInflight(Final(outcome, reply)) /\ Final(outcome, reply).reply = reply
  BY DEF IsInflight, Final
<1>4. \A b \in Blocks : refs'[b] = IF r \in DOMAIN nodes THEN refs[b] ELSE Less(refs[b], Uses(reply, b))
  <2>1. refs \in [Blocks -> Nat]
    BY DEF RefInv, ReplyInv
  <2>2. CASE r \in DOMAIN nodes
    <3>1. nodes[r].resp.reply = << >>
      BY <2>2 DEF RecordInv, RefInv, ReplyInv, NoReply
    <3>2. refs' = [b \in Blocks |-> Less(refs[b], Uses(<< >>, b))]
      BY <2>2, <3>1 DEF AttachResponse, Release
    <3> QED
      BY <2>1, <2>2, <3>2, UsesNothing DEF Less
  <2>3. CASE r \notin DOMAIN nodes
    BY <1>3, <2>3 DEF AttachResponse, Release
  <2> QED
    BY <2>2, <2>3
<1>5. refs' \in [Blocks -> Nat]
  <2>1. refs \in [Blocks -> Nat]
    BY DEF RefInv, ReplyInv
  <2>2. \A b \in Blocks : refs'[b] \in Nat
    BY <1>2, <1>4, <2>1 DEF Less
  <2>3. \E f : refs' = [b \in Blocks |-> f[b]]
    <3>1. \E ms : refs' = [b \in Blocks |-> Less(refs[b], Uses(ms, b))]
      BY DEF AttachResponse, Release
    <3>2. PICK ms : refs' = [b \in Blocks |-> Less(refs[b], Uses(ms, b))]
      BY <3>1
    <3> DEFINE f == [b \in Blocks |-> Less(refs[b], Uses(ms, b))]
    <3>3. refs' = [b \in Blocks |-> f[b]]
      BY <3>2
    <3> HIDE DEF f
    <3> QED
      BY <3>3
  <2> QED
    BY <2>2, <2>3
<1> HIDE DEF reply
<1>6. ReplyInv'
  <2>1. \A n \in DOMAIN nodes' : /\ nodes'[n].sys \in Seq(Messages)
                                 /\ IsInflight(nodes'[n].resp) => nodes'[n].resp.reply = NoReply
    BY <1>1, <1>3 DEF RefInv, ReplyInv
  <2>2. \A q \in Requests : req'[q].pc # "interned" => req'[q].reply = NoReply
    BY DEF RefInv, ReplyInv
  <2> QED
    BY <1>5, <2>1, <2>2 DEF ReplyInv
<1>7. ASSUME NEW b \in Blocks
      PROVE  refs'[b] = Total(HeldUses(nodes', b), DOMAIN nodes')
                          + Total(ReplyUses(req', b), Requests)
  <2>1. ReplyUses(req, b)[r] = Uses(reply, b) /\ ReplyUses(req', b)[r] = 0
    <3>1. ReplyUses(req, b)[r] = Uses(reply, b) /\ ReplyUses(req', b)[r] = Uses(<< >>, b)
      BY DEF ReplyUses, NoReply, reply
    <3> QED
      BY <3>1, UsesNothing
  <2>2. \A q \in Requests \ {r} : ReplyUses(req', b)[q] = ReplyUses(req, b)[q]
    BY DEF ReplyUses
  <2>3. \A q \in Requests : ReplyUses(req, b)[q] \in Nat /\ ReplyUses(req', b)[q] \in Nat
    BY <2>1, <2>2, SumsAreNat
  <2>4. /\ Total(ReplyUses(req', b), Requests) \in Nat
        /\ Total(ReplyUses(req', b), Requests) + Uses(reply, b) = Total(ReplyUses(req, b), Requests)
    <3>1. /\ Total(ReplyUses(req', b), Requests) \in Nat
          /\ Total(ReplyUses(req', b), Requests) + ReplyUses(req, b)[r]
               = Total(ReplyUses(req, b), Requests) + ReplyUses(req', b)[r]
      BY <2>2, <2>3, TotalChange
    <3> QED
      BY <2>1, <3>1, SumsAreNat
  <2>5. \A n \in DOMAIN nodes \ {r} : HeldUses(nodes', b)[n] = HeldUses(nodes, b)[n]
    BY <1>1 DEF HeldUses, Held
  <2>6. refs[b] = Total(HeldUses(nodes, b), DOMAIN nodes) + Total(ReplyUses(req, b), Requests)
    BY DEF RefInv
  <2>7. CASE r \in DOMAIN nodes
    <3>1. HeldUses(nodes', b)[r] = HeldUses(nodes, b)[r] + Uses(reply, b)
      <4>1. /\ nodes[r].delta \in Seq(Messages) /\ nodes[r].sys \in Seq(Messages)
            /\ nodes[r].resp.reply \in Seq(Messages) /\ nodes[r].resp.reply = << >>
        BY <2>7, HeldTypes DEF RefInv, ReplyInv, RecordInv, StructInv, NoReply
      <4>2. HeldUses(nodes, b)[r] = Uses(nodes[r].delta, b) + Uses(nodes[r].sys, b) + Uses(<< >>, b)
        <5>1. HeldUses(nodes, b)[r] = Uses(nodes[r].delta, b) + Uses(nodes[r].sys, b)
                                        + Uses(nodes[r].resp.reply, b)
          BY <2>7, <4>1, HeldIs
        <5> QED
          BY <4>1, <5>1
      <4>3. /\ r \in DOMAIN nodes' /\ nodes'[r].delta = nodes[r].delta
            /\ nodes'[r].sys = nodes[r].sys /\ nodes'[r].resp.reply = reply
        BY <1>1, <1>3, <2>7
      <4>4. HeldUses(nodes', b)[r] = Uses(nodes[r].delta, b) + Uses(nodes[r].sys, b) + Uses(reply, b)
        BY <1>2, <4>1, <4>3, HeldIs
      <4>5. Uses(nodes[r].delta, b) \in Nat /\ Uses(nodes[r].sys, b) \in Nat
        BY <4>1, SpotsAreFinite
      <4> QED
        BY <1>2, <4>2, <4>4, <4>5, UsesNothing
    <3>2. \A n \in DOMAIN nodes : HeldUses(nodes, b)[n] \in Nat /\ HeldUses(nodes', b)[n] \in Nat
      BY <1>2, <2>5, <2>7, <3>1, SumsAreNat
    <3>3. /\ Total(HeldUses(nodes', b), DOMAIN nodes) \in Nat
          /\ Total(HeldUses(nodes', b), DOMAIN nodes) + HeldUses(nodes, b)[r]
               = Total(HeldUses(nodes, b), DOMAIN nodes) + HeldUses(nodes', b)[r]
      BY <2>5, <2>7, <3>2, TotalChange DEF StructInv, DataInv
    <3>4. HeldUses(nodes, b)[r] \in Nat /\ refs'[b] = refs[b] /\ Uses(reply, b) \in Nat
      BY <1>2, <1>4, <2>7, <3>2
    <3>5. /\ Total(HeldUses(nodes, b), DOMAIN nodes) \in Nat
          /\ Total(ReplyUses(req, b), Requests) \in Nat
      BY SumsAreNat
    <3>6. Total(HeldUses(nodes', b), DOMAIN nodes)
            = Total(HeldUses(nodes, b), DOMAIN nodes) + Uses(reply, b)
      BY <3>1, <3>3, <3>4, <3>5
    <3>7. refs'[b] = Total(HeldUses(nodes', b), DOMAIN nodes) + Total(ReplyUses(req', b), Requests)
      BY <2>4, <2>6, <3>4, <3>5, <3>6
    <3> QED
      BY <1>1, <3>7
  <2>8. CASE r \notin DOMAIN nodes
    <3>1. \A n \in DOMAIN nodes : HeldUses(nodes', b)[n] = HeldUses(nodes, b)[n]
      BY <2>5, <2>8
    <3>2. Total(HeldUses(nodes', b), DOMAIN nodes) = Total(HeldUses(nodes, b), DOMAIN nodes)
      BY <3>1, TotalSame
    <3>3. refs'[b] = Less(refs[b], Uses(reply, b))
      BY <1>4, <2>8
    <3> QED
      BY <1>1, <1>2, <2>4, <2>6, <3>2, <3>3, SumsAreNat DEF Less
  <2> QED
    BY <2>7, <2>8
<1> QED
  BY <1>6, <1>7 DEF RefInv

\* The empty store holds nothing.
LEMMA InitRefs == ASSUME IsFiniteSet(Requests), Init PROVE RefInv
<1>1. DOMAIN nodes = {} /\ refs = [b \in Blocks |-> 0]
      /\ \A r \in Requests : req[r].reply = << >>
  BY DEF Init, Fresh, NoReply
<1>2. ASSUME NEW b \in Blocks
      PROVE  Total(HeldUses(nodes, b), DOMAIN nodes) = 0 /\ Total(ReplyUses(req, b), Requests) = 0
  <2>1. \A r \in Requests : ReplyUses(req, b)[r] = 0
    <3>1. \A r \in Requests : ReplyUses(req, b)[r] = Uses(<< >>, b)
      BY <1>1 DEF ReplyUses
    <3> QED
      BY <3>1, UsesNothing
  <2>2. Points(ReplyUses(req, b), Requests) = {}
    <3>1. \A r \in Requests : 1 .. ReplyUses(req, b)[r] = {}
      BY <2>1
    <3> QED
      BY <3>1 DEF Points
  <2>3. Total(ReplyUses(req, b), Requests) = 0
    BY <2>2, FS_EmptySet, Zenon DEF Total
  <2> QED
    BY <1>1, <2>3, TotalEmpty
<1>3. ReplyInv
  BY <1>1 DEF ReplyInv, NoReply
<1> QED
  BY <1>1, <1>2, <1>3 DEF RefInv

\* Every step keeps the refcounts.
LEMMA NextRefs ==
    ASSUME IsFiniteSet(Requests), RequestsOK, RecordInv, StructInv, RefInv, [Next]_vars,
           RequestsOK', RecordInv', StructInv'
    PROVE  RefInv'
<1>1. CASE SetMode \/ UNCHANGED vars
  <2>1. refs' = refs /\ nodes' = nodes /\ req' = req
    BY <1>1 DEF SetMode, dag, vars
  <2>2. ReplyInv'
    BY <2>1 DEF RefInv, ReplyInv
  <2> QED
    BY <2>1, <2>2, RefFrame
<1>2. ASSUME NEW r \in Requests, Step(r) PROVE RefInv'
  <2>1. \A q \in Requests : req'[q].pc # "interned" => req'[q].reply = NoReply
    BY <1>2, RepliesStay DEF RefInv, ReplyInv
  <2>2. ASSUME Build(r) \/ SyncParsed(r) \/ GuardCheck(r)
        PROVE  \A q \in Requests : req'[q].reply = req[q].reply
    BY <1>2, <2>2, RepliesStay DEF RefInv
  <2>3. CASE Push(r)
    BY <2>3, PushRefs
  <2>4. CASE Evict(r)
    BY <2>4, EvictRefs
  <2>5. CASE InternReply(r)
    BY <2>5, InternRefs
  <2>6. CASE Build(r) \/ GuardCheck(r)
    <3>1. nodes' = nodes /\ refs' = refs
      BY <2>6 DEF Build, GuardCheck, dag
    <3>2. ReplyInv'
      BY <2>1, <3>1 DEF RefInv, ReplyInv
    <3> QED
      BY <2>2, <2>6, <3>1, <3>2, RefFrame
  <2>7. CASE SyncParsed(r)
    <3>1. refs' = refs
      BY <2>7 DEF SyncParsed
    <3>2. /\ DOMAIN nodes' = DOMAIN nodes
          /\ \A n \in DOMAIN nodes : /\ nodes'[n].delta = nodes[n].delta
                                     /\ nodes'[n].sys = nodes[n].sys
                                     /\ nodes'[n].resp.reply = nodes[n].resp.reply
      <4>1. CASE nodes' = nodes
        BY <4>1
      <4>2. CASE nodes' # nodes
        <5>1. /\ r \in DOMAIN nodes /\ nodes[r].resp = NoResponse
              /\ nodes' = [nodes EXCEPT ![r].resp = Placeholder]
          BY <2>7, <4>2 DEF SyncParsed
        <5>2. NodeFields \subseteq DOMAIN nodes[r]
          BY <5>1 DEF RecordInv
        <5>3. /\ DOMAIN nodes' = DOMAIN nodes
              /\ \A n \in DOMAIN nodes : n # r => nodes'[n] = nodes[n]
              /\ nodes'[r] = [nodes[r] EXCEPT !.resp = Placeholder]
          BY <5>1
        <5>4. /\ nodes'[r].resp = Placeholder /\ nodes'[r].delta = nodes[r].delta
              /\ nodes'[r].sys = nodes[r].sys
          BY <5>2, <5>3 DEF NodeFields
        <5> QED
          BY <5>1, <5>3, <5>4 DEF NoResponse, Placeholder
      <4> QED
        BY <4>1, <4>2
    <3>3. \A n \in DOMAIN nodes : IsInflight(nodes'[n].resp) => IsInflight(nodes[n].resp)
      <4>1. nodes' = nodes \/ (/\ r \in DOMAIN nodes /\ nodes[r].resp = NoResponse
                               /\ nodes' = [nodes EXCEPT ![r].resp = Placeholder])
        BY <2>7 DEF SyncParsed
      <4>2. \A n \in DOMAIN nodes : nodes'[n] = nodes[n] \/ (n = r /\ nodes[n].resp = NoResponse)
        BY <4>1
      <4> QED
        BY <4>2 DEF IsInflight, NoResponse
    <3>4. ReplyInv'
      BY <2>1, <3>1, <3>2, <3>3 DEF RefInv, ReplyInv
    <3> QED
      BY <2>2, <2>7, <3>1, <3>2, <3>4, RefFrame
  <2>8. CASE Attach(r)
    <3>1. /\ AttachResponse(r, Final("answered", req[r].reply))
          /\ req[r].pc \in {"inflight", "streaming", "interned", "aborting"}
      BY <2>8 DEF Attach
    <3>2. req'[r].reply = NoReply /\ \A q \in Requests \ {r} : req'[q] = req[q]
      BY <1>2, <2>8, RepliesStay DEF RefInv
    <3> QED
      BY <3>1, <3>2, AttachRefs
  <2>9. CASE Fail(r) \/ GuardAttach(r)
    <3>1. req[r].pc \in {"inflight", "aborting"}
      BY <1>2, <2>9, StepMoves DEF Moves
    <3>2. req[r].reply = NoReply
      BY <3>1 DEF RefInv, ReplyInv
    <3>3. /\ \E outcome \in {"failed", "aborted"} : AttachResponse(r, Final(outcome, req[r].reply))
      BY <2>9, <3>2 DEF Fail, GuardAttach
    <3>4. req'[r].reply = NoReply /\ \A q \in Requests \ {r} : req'[q] = req[q]
      <4>1. req'[r].pc # "interned" /\ \A q \in Requests \ {r} : req'[q] = req[q]
        BY <1>2, <2>9, StepMoves DEF Moves
      <4> QED
        BY <2>1, <4>1
    <3> QED
      BY <3>1, <3>3, <3>4, AttachRefs
  <2> QED
    BY <1>2, <2>3, <2>4, <2>5, <2>6, <2>7, <2>8, <2>9 DEF Step
<1> QED
  BY <1>1, <1>2 DEF Next

\* With finitely many requests, a block's refcount is at every moment the number of its
\* uses by nodes and by replies on their way: no leak, no release too many (CDAG-3).
THEOREM RefcountsAreExact == IsFiniteSet(Requests) => (Spec => []RefcountsExact)
<1> SUFFICES ASSUME IsFiniteSet(Requests) PROVE Spec => []RefcountsExact
  OBVIOUS
<1>1. Init => RefInv
  BY InitRefs
<1>2. /\ RequestsOK /\ RecordInv /\ StructInv /\ RefInv /\ [Next]_vars
      /\ RequestsOK' /\ RecordInv' /\ StructInv'
      => RefInv'
  BY NextRefs
<1>3. RequestsOK /\ RecordInv /\ StructInv /\ RefInv => RefcountsExact
  BY RefcountsAre DEF StructInv
<1> QED
  BY <1>1, <1>2, <1>3, StructIsKept, PTL DEF Spec
=============================================================================
