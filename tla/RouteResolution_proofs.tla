------------------------ MODULE RouteResolution_proofs ------------------------
(***************************************************************************)
(* A walk and the table it is on, for every set of ids, catalogue and      *)
(* bound on the edits.                                                     *)
(*                                                                         *)
(*   Walks    a walk reads no provider twice, however the table changes.   *)
(*            The invariant ties the history to the set the code consults: *)
(*            every hop made and the provider held are in visited.         *)
(*   Graphs   Reachable is the least closed set, found after as many       *)
(*            rounds as there are keys; a provider's edges.                *)
(*   Reports  what report_cycle appends: a rotation of the stack's end.    *)
(*   Visits   visit exists, as each call inside a call has less left to do *)
(*            than the one it is made in.  Its invariant (Settled) is the  *)
(*            heart: a finished id has all targets done, those still on    *)
(*            the stack marked, and its knot reported or on the stack.     *)
(*   Scans    so a scan of all ids, or from one, answers exactly.          *)
(*   Tables   the edits keep a table of providers, so this holds of every  *)
(*            table they lead to.                                          *)
(*   Calm     while nobody edits, all visited ids reach the one the walk   *)
(*            is at: a repeated id closes a cycle of the table; and the    *)
(*            pool candidates passed over were not usable.                 *)
(*   Stores   an edit changes what one id shows; if that closes a cycle,   *)
(*            the check would have said so, so that none has been made on  *)
(*            the table it changes.                                        *)
(***************************************************************************)
EXTENDS RouteResolution, DataLemmas, SequenceTheorems, TLAPS

Fields == {"pc", "id", "cur", "active", "offered", "visited", "body_model",
           "in_flight_model", "model_rewrite", "pool_hop", "outcome", "chain"}

Shape(w) == DOMAIN w = Fields /\ w = [x \in Fields |-> w[x]]

Typed(w) == w.chain \in Seq(Range(w.chain))

IsWalk(w) == Shape(w) /\ Typed(w)

VisitedCovers(w) ==
    /\ \A i \in DOMAIN w.chain : w.chain[i].id \in w.visited
    /\ w.pc \in {"hop", "pool"} => w.id \in w.visited
    /\ w.pc \in {"idle", "body"} => w.chain = <<>>

Simple(w) ==
    \A i \in DOMAIN w.chain :
        w.chain[i].id # w.id /\ \A j \in 1..(i - 1) : w.chain[i].id # w.chain[j].id

Good(w) == IsWalk(w) /\ VisitedCovers(w) /\ Simple(w)
-------------------------------------------------------------------------------
\* What Append does to a sequence that is typed by its own range.
LEMMA AppendFacts ==
    ASSUME NEW s, s \in Seq(Range(s)), NEW e
    PROVE  /\ Append(s, e) \in Seq(Range(Append(s, e)))
           /\ Len(s) \in Nat
           /\ DOMAIN s = 1..Len(s)
           /\ DOMAIN Append(s, e) = 1..(Len(s) + 1)
           /\ \A i \in 1..Len(s) : Append(s, e)[i] = s[i]
           /\ Append(s, e)[Len(s) + 1] = e
<1> DEFINE S == Range(s) \cup {e}
           t == Append(s, e)
<1>1. s \in Seq(S)
  OBVIOUS
<1>2. e \in S
  OBVIOUS
<1>3. t \in Seq(S)
  BY <1>1, <1>2
<1>4. Len(s) \in Nat /\ DOMAIN s = 1..Len(s)
  BY <1>1
<1>5. Len(t) = Len(s) + 1 /\ DOMAIN t = 1..(Len(s) + 1)
  BY <1>1, <1>2, <1>3
<1>6. (\A i \in 1..Len(s) : t[i] = s[i]) /\ t[Len(s) + 1] = e
  BY <1>1, <1>2
<1>7. t \in Seq(Range(t))
  <2>1. t \in [1..Len(t) -> S]
    BY <1>3, LenProperties
  <2>2. t \in [1..Len(t) -> Range(t)]
    BY <2>1 DEF Range
  <2>3. Len(t) \in Nat
    BY <1>3
  <2> QED
    BY <2>2, <2>3, SeqDef
<1> QED
  BY <1>4, <1>5, <1>6, <1>7

\* Typing passes to any walk with the same chain, and an empty chain is typed.
LEMMA TypedChain ==
    /\ \A w, v : Typed(w) /\ v.chain = w.chain => Typed(v)
    /\ \A v : v.chain = <<>> => Typed(v)
<1>1. \A v : v.chain = <<>> => Typed(v)
  BY DEF Typed, Range
<1> QED
  BY <1>1 DEF Typed

\* The idle walk and every failed walk have made no hop.
LEMMA FreshIsGood ==
    ASSUME NEW w, w.chain = <<>>, w.pc \notin {"hop", "pool"}, Shape(w)
    PROVE  Good(w)
BY TypedChain DEF Good, IsWalk, VisitedCovers, Simple

\* The idle walk and a failed one are good.
LEMMA IdleAndFail ==
    /\ Good(Idle)
    /\ \A w, why : Good(Fail(w, why))
<1>1. Shape(Idle)
  BY DEF Shape, Fields, Idle
<1>2. ASSUME NEW w, NEW why PROVE Shape(Fail(w, why))
  BY DEF Shape, Fields, Fail, Idle
<1>3. ASSUME NEW w, NEW why
      PROVE  Fail(w, why).chain = <<>> /\ Fail(w, why).pc = "done"
  BY DEF Fail, Idle
<1>4. Idle.chain = <<>> /\ Idle.pc = "idle"
  BY DEF Idle
<1> QED
  BY <1>1, <1>2, <1>3, <1>4, FreshIsGood

\* The one step that lengthens the chain: the id is new or the walk fails.
LEMMA GoToIsGood ==
    ASSUME NEW w, Good(w), w.pc \in {"hop", "pool"}, NEW id,
           NEW taken, taken.id = w.id
    PROVE  Good(GoTo(w, id, taken))
<1> DEFINE v == GoTo(w, id, taken)
<1>1. CASE id \in w.visited
  BY <1>1, IdleAndFail DEF GoTo
<1>2. CASE id \notin w.visited
  <2>1. /\ v = [w EXCEPT !.pc = "hop", !.id = id, !.cur = table[id],
                  !.active = {}, !.offered = {},
                  !.visited = @ \cup {id}, !.chain = Append(@, taken)]
        /\ w.chain \in Seq(Range(w.chain))
    BY <1>2 DEF GoTo, Good, IsWalk, Typed
  <2>2. /\ v.pc = "hop" /\ v.id = id
        /\ v.visited = w.visited \cup {id}
        /\ v.chain = Append(w.chain, taken)
        /\ Shape(v)
    BY <2>1 DEF Good, IsWalk, Shape, Fields
  <2> DEFINE n == Len(w.chain)
  <2>3. /\ v.chain \in Seq(Range(v.chain))
        /\ n \in Nat /\ DOMAIN w.chain = 1..n /\ DOMAIN v.chain = 1..(n + 1)
        /\ \A i \in 1..n : v.chain[i] = w.chain[i]
        /\ v.chain[n + 1] = taken
    BY <2>1, <2>2, AppendFacts
  <2>4. \A i \in 1..n : w.chain[i].id \in w.visited /\ w.chain[i].id # w.id
    BY <2>3 DEF Good, VisitedCovers, Simple
  <2>5. w.id \in w.visited
    BY DEF Good, VisitedCovers
  <2>6. IsWalk(v)
    BY <2>2, <2>3 DEF IsWalk, Typed
  <2>7. VisitedCovers(v)
    BY <2>2, <2>3, <2>4, <2>5 DEF VisitedCovers
  <2>8. Simple(v)
    <3>1. \A i \in 1..n : \A j \in 1..(i - 1) : w.chain[i].id # w.chain[j].id
      BY <2>3 DEF Good, Simple
    <3>2. ASSUME NEW i \in 1..(n + 1)
          PROVE  v.chain[i].id # v.id /\ \A j \in 1..(i - 1) : v.chain[i].id # v.chain[j].id
      <4>1. CASE i \in 1..n
        BY <4>1, <3>1, <2>2, <2>3, <2>4, <1>2
      <4>2. CASE i = n + 1
        BY <4>2, <2>2, <2>3, <2>4, <2>5, <1>2
      <4> QED
        BY <4>1, <4>2, <2>3
    <3> QED
      BY <3>2, <2>3 DEF Simple
  <2> QED
    BY <2>6, <2>7, <2>8 DEF Good
<1> QED
  BY <1>1, <1>2

\* Updates that leave the chain, the visited set and the id as they were.
LEMMA SameChainIsGood ==
    ASSUME NEW w, Good(w), NEW v, Shape(v),
           v.chain = w.chain, v.visited = w.visited, v.id = w.id,
           v.pc \in {"hop", "pool", "done"}, v.pc # "done" => w.pc \in {"hop", "pool"}
    PROVE  Good(v)
BY TypedChain DEF Good, IsWalk, VisitedCovers, Simple
-------------------------------------------------------------------------------
(* Every step of the walk keeps it good.                                   *)
LEMMA WalkStep ==
    ASSUME Good(walk), [Next]_vars
    PROVE  Good(walk)'
<1> USE IdleAndFail
<1>0. Shape(walk)
  BY DEF Good, IsWalk
<1>1. ASSUME NEW id \in Ids, NEW model \in Models, Lookup(id, model)
      PROVE  Good(walk')
  <2> DEFINE v == [Idle EXCEPT !.pc = "body", !.id = id, !.cur = table[id],
                                !.body_model = model]
             d == [Idle EXCEPT !.pc = "done", !.outcome = "Disabled"]
             m == [Idle EXCEPT !.pc = "done", !.outcome = "NotFound"]
  <2>1. Good(v)
    <3>1. Shape(v) /\ v.chain = <<>> /\ v.pc = "body"
      BY DEF Shape, Fields, Idle
    <3> QED
      BY <3>1, FreshIsGood
  <2>2. Good(d) /\ Good(m)
    <3>1. Shape(d) /\ d.chain = <<>> /\ d.pc = "done"
      BY DEF Shape, Fields, Idle
    <3>2. Shape(m) /\ m.chain = <<>> /\ m.pc = "done"
      BY DEF Shape, Fields, Idle
    <3> QED
      BY <3>1, <3>2, FreshIsGood
  <2> QED
    BY <1>1, <2>1, <2>2 DEF Lookup
<1>2. CASE StartWalk
  <2> DEFINE v == [walk EXCEPT !.pc = "hop", !.visited = {walk.id},
                                !.in_flight_model = request_model(walk)]
  <2>1. walk' = v /\ walk.chain = <<>>
    BY <1>2 DEF StartWalk, Good, VisitedCovers
  <2>2. Shape(v) /\ v.chain = <<>> /\ v.id = walk.id /\ v.visited = {walk.id}
    BY <2>1, <1>0 DEF Shape, Fields, Fields
  <2>3. IsWalk(v)
    BY <2>2, TypedChain DEF IsWalk
  <2>4. VisitedCovers(v) /\ Simple(v)
    BY <2>2 DEF VisitedCovers, Simple
  <2> QED
    BY <2>1, <2>3, <2>4 DEF Good
<1>3. CASE DirectHop
  <2> DEFINE v == [walk EXCEPT !.pc = "done", !.outcome = "Ok"]
  <2>1. /\ Shape(v) /\ v.chain = walk.chain /\ v.visited = walk.visited
        /\ v.id = walk.id /\ v.pc = "done"
    BY <1>0 DEF Shape, Fields, Fields
  <2>2. Good(v)
    BY <2>1, SameChainIsGood
  <2> QED
    BY <2>2, <1>3 DEF DirectHop
<1>4. CASE RouterHop
  <2> DEFINE route == select_route(walk.cur.routes, walk.in_flight_model)
             v == Rewrite(walk, route)
  <2>1. walk.pc = "hop"
    BY <1>4 DEF RouterHop
  <2>2. /\ Shape(v) /\ v.chain = walk.chain /\ v.visited = walk.visited
        /\ v.id = walk.id /\ v.pc = walk.pc
    BY <1>0 DEF Shape, Fields, Rewrite
  <2>3. Good(v)
    BY <2>1, <2>2, SameChainIsGood
  <2>4. Taken(route).id = v.id
    BY <2>2 DEF Taken
  <2>5. Good(GoTo(v, route.target, Taken(route)))
    BY <2>1, <2>2, <2>3, <2>4, GoToIsGood
  <2> QED
    BY <2>5, <1>4 DEF RouterHop
<1>5. CASE PoolHop
  <2>1. PICK active \in SUBSET DOMAIN walk.cur.members :
          walk' = IF active = {} THEN Fail(walk, "AllMembersExhausted")
                  ELSE [walk EXCEPT !.pc = "pool", !.active = active, !.offered = active]
    BY <1>5 DEF PoolHop
  <2> DEFINE v == [walk EXCEPT !.pc = "pool", !.active = active, !.offered = active]
  <2>2. /\ Shape(v) /\ v.chain = walk.chain /\ v.visited = walk.visited
        /\ v.id = walk.id /\ v.pc = "pool"
    BY <1>0 DEF Shape, Fields, Fields
  <2>3. Good(v)
    BY <2>2, <1>5, SameChainIsGood DEF PoolHop
  <2> QED
    BY <2>1, <2>3
<1>6. CASE TryMember
  <2> DEFINE idx == FirstOf(walk.active)
             c == ChargeFirstPool(walk, idx)
             v == [walk EXCEPT !.active = @ \ {idx}]
  <2>1. walk.pc = "pool"
    BY <1>6 DEF TryMember
  <2>2. /\ Shape(c) /\ c.chain = walk.chain /\ c.visited = walk.visited
        /\ c.id = walk.id /\ c.pc = "pool"
    BY <2>1, <1>0 DEF Shape, Fields, ChargeFirstPool
  <2>3. /\ Shape(v) /\ v.chain = walk.chain /\ v.visited = walk.visited
        /\ v.id = walk.id /\ v.pc = "pool"
    BY <2>1, <1>0 DEF Shape, Fields, Fields
  <2>4. Good(c) /\ Good(v)
    BY <2>1, <2>2, <2>3, SameChainIsGood
  <2>5. Taken(idx).id = c.id
    BY <2>2 DEF Taken
  <2>6. Good(GoTo(c, walk.cur.members[idx], Taken(idx)))
    BY <2>2, <2>4, <2>5, GoToIsGood
  <2> QED
    BY <2>4, <2>6, <1>6 DEF TryMember
<1>7. CASE Answered
  BY <1>7 DEF Answered
<1>8. CASE Edit
  BY <1>8 DEF Edit, CheckUpsert, StoreUpsert, UpsertRefused, Edits, Delete, Decide, Reset
<1>9. CASE UNCHANGED vars
  BY <1>9 DEF vars
<1> QED
  BY <1>1, <1>2, <1>3, <1>4, <1>5, <1>6, <1>7, <1>8, <1>9 DEF Next, Hop

(* A walk reads no provider twice, however the table is edited under it.   *)
THEOREM WalkVisitsNoProviderTwice == Spec => []ChainIsSimple
<1>1. Init => Good(walk)
  BY IdleAndFail DEF Init
<1>2. Good(walk) /\ [Next]_vars => Good(walk)'
  BY WalkStep
<1>3. Good(walk) => ChainIsSimple
  <2> SUFFICES ASSUME Good(walk) PROVE ChainIsSimple
    OBVIOUS
  <2> DEFINE ids == [i \in DOMAIN walk.chain |-> walk.chain[i].id]
  <2>1. walk.chain \in Seq(Range(walk.chain))
    BY DEF Good, IsWalk, Typed
  <2>2. DOMAIN ids = DOMAIN walk.chain
    OBVIOUS
  <2>3. \A i \in DOMAIN ids : \A j \in 1..(i - 1) : j \in DOMAIN ids
    BY <2>1, <2>2
  <2> QED
    BY <2>2, <2>3 DEF ChainIsSimple, Good, Simple
<1> QED
  BY <1>1, <1>2, <1>3, PTL DEF Spec

-------------------------------------------------------------------------------
(* Graphs.                                                                 *)

IsGraph(g) == DOMAIN g \subseteq Ids /\ \A x \in DOMAIN g : g[x] \in Seq(Ids)

Edge(g, x, y) == x \in DOMAIN g /\ y \in Range(g[x])

Closed(g, S) == \A x \in S : \A y : Edge(g, x, y) => y \in S

\* Finitely many ids, as their order lists them all.
LEMMA IdsAreFinite == IsFiniteSet(Ids)
<1>1. IdOrder \in Seq(Ids) /\ Range(IdOrder) = Ids
  BY ResolutionAssumption
<1>2. DOMAIN IdOrder = 1 .. Len(IdOrder) /\ Len(IdOrder) \in Nat
  BY <1>1
<1>3. IsFiniteSet(1 .. Len(IdOrder))
  BY <1>2, FS_Interval
<1>4. IdOrder \in Surjection(1 .. Len(IdOrder), Ids)
  BY <1>1, <1>2 DEF Surjection, Range
<1> QED
  BY <1>3, <1>4, FS_Surjection

\* Successors are along edges.
LEMMA SuccessorsAre ==
    ASSUME NEW g, IsGraph(g), NEW S, S \subseteq Ids
    PROVE  /\ Successors(g, S) \subseteq Ids
           /\ \A y : y \in Successors(g, S) <=> \E x \in S : Edge(g, x, y)
<1>1. \A y : y \in Successors(g, S) <=> \E x \in S : Edge(g, x, y)
  BY DEF Successors, Edge
<1>2. \A x, y : Edge(g, x, y) => y \in Ids
  <2>1. ASSUME NEW x, NEW y, Edge(g, x, y) PROVE y \in Ids
    <3>1. x \in DOMAIN g /\ g[x] \in Seq(Ids) /\ y \in Range(g[x])
      BY <2>1 DEF Edge, IsGraph
    <3>2. PICK i \in DOMAIN g[x] : y = g[x][i]
      BY <3>1 DEF Range
    <3> QED
      BY <3>1, <3>2
  <2> QED
    BY <2>1
<1> QED
  BY <1>1, <1>2

\* Reachable is the least closed set that holds the start: n ids are found after n rounds,
\* or no more are to be found.
LEMMA ReachableIsLeast ==
    ASSUME NEW g, IsGraph(g), NEW start \in Ids
    PROVE  /\ Reachable(g, start) \subseteq Ids /\ start \in Reachable(g, start)
           /\ Closed(g, Reachable(g, start))
           /\ \A S : start \in S /\ Closed(g, S) => Reachable(g, start) \subseteq S
<1> DEFINE D == DOMAIN g
           N == Cardinality(D)
           W == SUBSET Ids
           F == [i \in 1 .. N |-> [X \in W |-> X \cup Successors(g, X)]]
           Is(f) == f = [n \in 0 .. N |-> IF n = 0 THEN {start}
                                          ELSE f[n - 1] \cup Successors(g, f[n - 1])]
<1>1. IsFiniteSet(D) /\ N \in Nat /\ D \subseteq Ids
  BY IdsAreFinite, FS_Subset, FS_CardinalityType DEF IsGraph
<1>2. \A X \in W : X \cup Successors(g, X) \in W
  BY SuccessorsAre
<1>3. F \in [1 .. N -> [W -> W]] /\ {start} \in W
  BY <1>2
<1>4. PICK h \in [0 .. N -> W] : Steps(h, N, {start}, F)
  <2> HIDE DEF F, W, N
  <2> QED
    BY <1>1, <1>3, StepsExist
<1>5. /\ h[0] = {start}
      /\ \A n \in 1 .. N : n - 1 \in 0 .. N /\ h[n - 1] \in W
                          /\ h[n] = h[n - 1] \cup Successors(g, h[n - 1])
  <2>1. h[0] = {start} /\ \A n \in 1 .. N : h[n] = F[n][h[n - 1]]
    BY <1>4 DEF Steps
  <2>2. \A n \in 1 .. N : n - 1 \in 0 .. N
    BY <1>1
  <2>3. \A n \in 1 .. N : h[n - 1] \in W
    BY <1>4, <2>2
  <2> QED
    BY <2>1, <2>2, <2>3
<1> HIDE DEF F, W, N
<1>6. Reachable(g, start) = h[N]
  <2>1. Is(h)
    <3>1. \A n \in 0 .. N : n = 0 \/ n \in 1 .. N
      BY <1>1
    <3>2. \A n \in 0 .. N : h[n] = IF n = 0 THEN {start}
                                    ELSE h[n - 1] \cup Successors(g, h[n - 1])
      BY <1>5, <3>1
    <3> QED
      BY <1>4, <3>2
  <2>2. PICK f : f = CHOOSE x : Is(x)
    OBVIOUS
  <2>3. Is(f)
    BY <2>1, <2>2
  <2>4. Reachable(g, start) = f[N]
    BY <2>2 DEF Reachable, N, D
  <2>5. f[0] = {start} /\ \A n \in 1 .. N : f[n] = f[n - 1] \cup Successors(g, f[n - 1])
    <3>1. \A n \in 0 .. N : f[n] = IF n = 0 THEN {start}
                                    ELSE f[n - 1] \cup Successors(g, f[n - 1])
      BY <2>3
    <3>2. 0 \in 0 .. N /\ \A n \in 1 .. N : n \in 0 .. N /\ n # 0
      BY <1>1
    <3> QED
      BY <3>1, <3>2
  <2> DEFINE T == {k \in Nat : k <= N => f[k] = h[k]}
  <2>6. 0 \in T
    BY <1>5, <2>5
  <2>7. ASSUME NEW k \in Nat, k \in T PROVE k + 1 \in T
    <3> SUFFICES ASSUME k + 1 <= N PROVE f[k + 1] = h[k + 1]
      OBVIOUS
    <3>1. k + 1 \in 1 .. N /\ (k + 1) - 1 = k /\ f[k] = h[k]
      BY <1>1, <2>7
    <3> QED
      BY <1>5, <2>5, <3>1
  <2>8. Nat \subseteq T
    <3> HIDE DEF T
    <3> QED
      BY <2>6, <2>7, NatSetInduction
  <2> QED
    BY <1>1, <2>4, <2>8
<1>7. ASSUME NEW S, start \in S, Closed(g, S) PROVE h[N] \subseteq S
  <2> DEFINE T == {k \in Nat : k <= N => h[k] \subseteq S}
  <2>1. 0 \in T
    BY <1>5, <1>7
  <2>2. ASSUME NEW k \in Nat, k \in T PROVE k + 1 \in T
    <3> SUFFICES ASSUME k + 1 <= N PROVE h[k + 1] \subseteq S
      OBVIOUS
    <3>1. k + 1 \in 1 .. N /\ (k + 1) - 1 = k /\ h[k] \subseteq S
      BY <1>1, <2>2
    <3>2. h[k] \subseteq Ids /\ h[k + 1] = h[k] \cup Successors(g, h[k])
      BY <1>5, <3>1 DEF W
    <3>3. Successors(g, h[k]) \subseteq S
      BY <1>7, <3>1, <3>2, SuccessorsAre DEF Closed
    <3> QED
      BY <3>1, <3>2, <3>3
  <2>3. Nat \subseteq T
    <3> HIDE DEF T
    <3> QED
      BY <2>1, <2>2, NatSetInduction
  <2> QED
    BY <1>1, <2>3
<1>8. ASSUME NEW k \in Nat, k <= N
      PROVE  /\ h[k] \subseteq Ids /\ start \in h[k]
             /\ Closed(g, h[k]) \/ Cardinality(h[k] \cap D) >= k + 1
  <2> DEFINE Grown(n) == /\ h[n] \subseteq Ids /\ start \in h[n]
                         /\ Closed(g, h[n]) \/ Cardinality(h[n] \cap D) >= n + 1
             T == {n \in Nat : n <= N => Grown(n)}
  <2>1. Grown(0)
    <3>1. h[0] = {start}
      BY <1>5
    <3>2. CASE start \in D
      <4>1. h[0] \cap D = {start}
        BY <3>1, <3>2
      <4>2. Cardinality({start}) = 1
        BY FS_Singleton
      <4>3. Cardinality(h[0] \cap D) = 1
        BY <4>1, <4>2
      <4>4. h[0] \subseteq Ids /\ start \in h[0]
        BY <3>1
      <4> QED
        BY <4>3, <4>4
    <3>3. CASE start \notin D
      BY <3>1, <3>3 DEF Closed, Edge
    <3> QED
      BY <3>2, <3>3
  <2>2. ASSUME NEW n \in Nat, n + 1 <= N, Grown(n) PROVE Grown(n + 1)
    <3>1. n + 1 \in 1 .. N /\ (n + 1) - 1 = n
      BY <1>1, <2>2
    <3>2. h[n + 1] = h[n] \cup Successors(g, h[n])
      BY <1>5, <3>1
    <3>3. h[n] \subseteq Ids /\ h[n + 1] \subseteq Ids /\ start \in h[n + 1]
      BY <2>2, <3>2, SuccessorsAre
    <3>4. CASE Closed(g, h[n])
      <4>1. Successors(g, h[n]) \subseteq h[n]
        BY <3>3, <3>4, SuccessorsAre DEF Closed
      <4>2. h[n + 1] = h[n]
        BY <3>2, <4>1
      <4> QED
        BY <3>3, <3>4, <4>2
    <3>5. CASE ~ Closed(g, h[n])
      <4>1. Cardinality(h[n] \cap D) >= n + 1
        BY <2>2, <3>5
      <4>2. CASE h[n + 1] \cap D = h[n] \cap D
        <5>1. ASSUME NEW x \in h[n + 1], NEW y, Edge(g, x, y) PROVE y \in h[n + 1]
          <6>1. x \in h[n]
            BY <4>2, <5>1 DEF Edge
          <6>2. y \in Successors(g, h[n])
            BY <3>3, <5>1, <6>1, SuccessorsAre
          <6> QED
            BY <3>2, <6>2
        <5> QED
          BY <3>3, <5>1 DEF Closed
      <4>3. CASE h[n + 1] \cap D # h[n] \cap D
        <5>1. h[n] \cap D \subseteq h[n + 1] \cap D
          BY <3>2
        <5>2. PICK x : x \in (h[n + 1] \cap D) \ (h[n] \cap D)
          BY <4>3, <5>1
        <5> DEFINE A == h[n] \cap D
                   B == h[n + 1] \cap D
        <5>3. IsFiniteSet(A) /\ IsFiniteSet(B)
          BY <1>1, FS_Subset
        <5> HIDE DEF A, B
        <5>4. IsFiniteSet(A \cup {x}) /\ Cardinality(A \cup {x}) = Cardinality(A) + 1
          BY <5>2, <5>3, FS_AddElement DEF A, B
        <5>5. A \cup {x} \subseteq B
          BY <5>1, <5>2 DEF A, B
        <5>6. Cardinality(A \cup {x}) <= Cardinality(B)
          BY <5>3, <5>5, FS_Subset
        <5>7. Cardinality(A) \in Nat /\ Cardinality(B) \in Nat
          BY <5>3, FS_CardinalityType
        <5> QED
          BY <3>3, <4>1, <5>4, <5>6, <5>7 DEF A, B
      <4> QED
        BY <4>2, <4>3
    <3> QED
      BY <3>4, <3>5
  <2> HIDE DEF Grown
  <2>3. Nat \subseteq T
    <3>1. 0 \in T
      BY <2>1
    <3>2. ASSUME NEW n \in Nat, n \in T PROVE n + 1 \in T
      BY <1>1, <2>2, <3>2
    <3> HIDE DEF T
    <3> QED
      BY <3>1, <3>2, NatSetInduction
  <2>4. Grown(k)
    BY <1>8, <2>3
  <2> QED
    BY <2>4 DEF Grown
<1>9. h[N] \subseteq Ids /\ start \in h[N] /\ Closed(g, h[N])
  <2>0. N \in Nat /\ N <= N
    BY <1>1
  <2>1. /\ h[N] \subseteq Ids /\ start \in h[N]
        /\ Closed(g, h[N]) \/ Cardinality(h[N] \cap D) >= N + 1
    BY <2>0, <1>8
  <2>2. IsFiniteSet(h[N] \cap D) /\ Cardinality(h[N] \cap D) <= N
    BY <1>1, FS_Subset DEF N
  <2>3. Cardinality(h[N] \cap D) \in Nat
    BY <2>2, FS_CardinalityType
  <2>4. ~ (Cardinality(h[N] \cap D) >= N + 1)
    BY <1>1, <2>2, <2>3
  <2> QED
    BY <2>1, <2>4
<1> QED
  BY <1>6, <1>7, <1>9

\* What is reached from a reached id is reached.
LEMMA ReachTransitive ==
    ASSUME NEW g, IsGraph(g), NEW x \in Ids, NEW y \in Reachable(g, x)
    PROVE  y \in Ids /\ Reachable(g, y) \subseteq Reachable(g, x)
<1>1. y \in Ids /\ Closed(g, Reachable(g, x))
  BY ReachableIsLeast
<1> QED
  BY <1>1, ReachableIsLeast

\* The target of an edge is reached, and what is reached over it.
LEMMA ReachEdge ==
    ASSUME NEW g, IsGraph(g), NEW x \in Ids, NEW y, Edge(g, x, y)
    PROVE  y \in Ids /\ y \in Reachable(g, x) /\ Reachable(g, y) \subseteq Reachable(g, x)
<1>1. x \in Reachable(g, x) /\ Closed(g, Reachable(g, x))
  BY ReachableIsLeast
<1>2. y \in Reachable(g, x)
  BY <1>1 DEF Closed
<1> QED
  BY <1>2, ReachTransitive

\* What is reached is the start or is reached over one of its edges.
LEMMA ReachFirstEdge ==
    ASSUME NEW g, IsGraph(g), NEW x \in Ids, NEW z \in Reachable(g, x), z # x
    PROVE  \E y \in Ids : Edge(g, x, y) /\ z \in Reachable(g, y)
<1> DEFINE S == {x} \cup {w \in Ids : \E y \in Ids : Edge(g, x, y) /\ w \in Reachable(g, y)}
<1>1. Closed(g, S)
  <2> SUFFICES ASSUME NEW v \in S, NEW w, Edge(g, v, w) PROVE w \in S
    BY DEF Closed
  <2>1. CASE v = x
    BY <2>1, ReachEdge, ReachableIsLeast
  <2>2. CASE v # x
    <3>1. PICK y \in Ids : Edge(g, x, y) /\ v \in Reachable(g, y)
      BY <2>2
    <3>2. Closed(g, Reachable(g, y)) /\ Reachable(g, y) \subseteq Ids
      BY ReachableIsLeast
    <3>3. w \in Reachable(g, y)
      BY <3>1, <3>2 DEF Closed
    <3> QED
      BY <3>1, <3>2, <3>3
  <2> QED
    BY <2>1, <2>2
<1>2. Reachable(g, x) \subseteq S
  <2> HIDE DEF S
  <2>1. x \in S
    BY DEF S
  <2> QED
    BY <1>1, <2>1, ReachableIsLeast
<1> QED
  BY <1>2

\* OnCycle, in terms of edges.
LEMMA OnCycleIs ==
    ASSUME NEW g, NEW x
    PROVE  OnCycle(g, x) <=> \E y : Edge(g, x, y) /\ x \in Reachable(g, y)
BY DEF OnCycle, Edge

Enabled(routes) == {r \in Range(routes) : r.priority # None}

\* What select_route takes is one of the enabled routes.
LEMMA SelectedIsEnabled ==
    ASSUME NEW routes, routes \in Seq(Route), NEW model
    PROVE  select_route(routes, model) \in Enabled(routes) \cup {None}
<1> DEFINE n == Len(routes)
           S == Enabled(routes) \cup {None}
           Pick(best, r) == IF \/ r.priority = None \/ model \notin r.models
                               \/ best # None /\ r.priority <= best.priority
                            THEN best ELSE r
           F == [i \in 1 .. n |-> [x \in S |-> Pick(x, routes[i])]]
           Is(f) == f = [s \in SUBSET DOMAIN routes |->
                           IF s = {} THEN None ELSE Pick(f[s \ {Max(s)}], routes[Max(s)])]
<1>1. n \in Nat /\ DOMAIN routes = 1 .. n
  OBVIOUS
<1>2. ASSUME NEW i \in 1 .. n, NEW x \in S PROVE Pick(x, routes[i]) \in S
  <2>1. routes[i].priority # None => routes[i] \in S
    BY <1>1 DEF Enabled, Range
  <2> QED
    BY <2>1
<1>3. F \in [1 .. n -> [S -> S]] /\ None \in S
  <2> HIDE DEF S, Pick
  <2>1. \A i \in 1 .. n : [x \in S |-> Pick(x, routes[i])] \in [S -> S]
    BY <1>2
  <2>2. None \in S
    BY DEF S
  <2> QED
    BY <2>1, <2>2
<1>4. PICK h \in [0 .. n -> S] : Steps(h, n, None, F)
  <2> HIDE DEF S, F, n
  <2> QED
    BY <1>1, <1>3, StepsExist
<1>5. PICK it \in [SUBSET (1 .. n) -> S] : FoldsOver(it, 1 .. n, None, F)
  <2> HIDE DEF S, F, n
  <2> QED
    BY <1>1, <1>3, FoldExists
<1> HIDE DEF S, n
<1>6. Is(it)
  <2>1. ASSUME NEW s \in SUBSET (1 .. n)
        PROVE  it[s] = IF s = {} THEN None ELSE Pick(it[s \ {Max(s)}], routes[Max(s)])
    <3>1. CASE s = {}
      BY <1>5, <3>1 DEF FoldsOver
    <3>2. CASE s # {}
      <4>1. Max(s) \in 1 .. n
        BY <1>1, <3>2, MaxOfIndices
      <4>2. s \ {Max(s)} \in SUBSET (1 .. n) /\ it[s \ {Max(s)}] \in S
        OBVIOUS
      <4>3. it[s] = F[Max(s)][it[s \ {Max(s)}]]
        BY <1>5, <3>2 DEF FoldsOver
      <4> HIDE DEF Pick
      <4> QED
        BY <3>2, <4>1, <4>2, <4>3
    <3> QED
      BY <3>1, <3>2
  <2>2. it = [s \in SUBSET (1 .. n) |-> it[s]]
    OBVIOUS
  <2> HIDE DEF Pick
  <2> QED
    BY <1>1, <2>1, <2>2
<1>7. PICK f : f = CHOOSE x : Is(x)
  OBVIOUS
<1>8. Is(f)
  BY <1>6, <1>7, Zenon
<1>9. select_route(routes, model) = f[1 .. n]
  BY <1>1, <1>7 DEF select_route, FoldLeft, MapThenFoldSet
<1>10. f[{}] = None
  BY <1>8
<1>11. ASSUME NEW i \in 1 .. n, f[1 .. i - 1] \in S PROVE f[1 .. i] = F[i][f[1 .. i - 1]]
  <2> HIDE DEF Pick
  <2>1. /\ 1 .. i \in SUBSET (1 .. n) /\ 1 .. i # {}
        /\ Max(1 .. i) = i /\ (1 .. i) \ {i} = 1 .. i - 1
    BY <1>1, InitialPart
  <2>2. f[1 .. i] = Pick(f[1 .. i - 1], routes[i])
    BY <1>1, <1>8, <2>1
  <2> QED
    BY <1>11, <2>2
<1>12. f[1 .. n] = h[n] /\ h[n] \in S
  <2>0. Advances(f, S, n, None, F)
    BY <1>10, <1>11 DEF Advances
  <2> HIDE DEF F, Is, Pick
  <2>1. Runs(h, f, S, n, None, F)
    BY <1>1, <1>3, <1>4, <2>0 DEF Runs
  <2>2. f[1 .. n] = h[n]
    BY <1>1, <2>1, FoldValue
  <2> QED
    BY <1>1, <2>2
<1> QED
  BY <1>9, <1>12 DEF S

\* The edges of a provider lead to the targets of its enabled routes and to its members.
LEMMA EnabledTargets ==
    ASSUME NEW p, IsProvider(p)
    PROVE  /\ enabled_targets_of(p) \in Seq(Ids)
           /\ \A r \in Enabled(p.routes) : r.target \in Range(enabled_targets_of(p))
           /\ Range(p.members) \subseteq Range(enabled_targets_of(p))
<1> DEFINE E == Seq(Ids)
           ss == [i \in DOMAIN p.routes |->
                    IF p.routes[i].priority = None THEN <<>> ELSE <<p.routes[i].target>>]
           f == FlattenSeq(ss)
<1>1. p.routes \in Seq(Route) /\ p.members \in Seq(Ids)
  BY DEF IsProvider
<1>2. DOMAIN p.routes = 1 .. Len(p.routes) /\ Len(p.routes) \in Nat
  BY <1>1
<1>3. \A i \in DOMAIN p.routes : p.routes[i].target \in Ids
  <2>1. \A r \in Route : r.target \in Ids
    BY DEF Route
  <2>2. \A i \in DOMAIN p.routes : p.routes[i] \in Route
    BY <1>1
  <2> QED
    BY <2>1, <2>2
<1>4. ASSUME NEW i \in DOMAIN p.routes PROVE ss[i] \in E
  BY <1>3
<1>5. ss \in Seq(E)
  <2>1. ss \in [1 .. Len(p.routes) -> E]
    BY <1>2, <1>4
  <2> HIDE DEF E, ss
  <2> QED
    BY <1>2, <2>1, SeqDef
<1>6. f \in Seq(Ids) /\ ToSet(f) = UNION {ToSet(ss[i]) : i \in DOMAIN ss}
  <2> HIDE DEF ss
  <2> QED
    BY <1>5, FlattenElements
<1>7. ASSUME NEW r \in Enabled(p.routes) PROVE r.target \in ToSet(f)
  <2>1. PICK i \in DOMAIN p.routes : r = p.routes[i] /\ r.priority # None
    BY <1>7 DEF Enabled, Range
  <2>2. i \in DOMAIN ss /\ ss[i] = <<r.target>>
    BY <2>1
  <2>3. r.target \in ToSet(ss[i])
    BY <2>2 DEF ToSet
  <2> HIDE DEF ss, f
  <2> QED
    BY <1>6, <2>2, <2>3
<1> HIDE DEF ss
<1>8. enabled_targets_of(p) = f \o p.members
  BY DEF enabled_targets_of, ss
<1> HIDE DEF f
<1>9. f \o p.members \in Seq(Ids) /\ ToSet(f) \subseteq Range(f \o p.members)
      /\ Range(p.members) \subseteq Range(f \o p.members)
  <2> DEFINE m == p.members
             c == f \o m
  <2>1. /\ c \in Seq(Ids) /\ DOMAIN c = 1 .. Len(f) + Len(m)
        /\ \A i \in 1 .. Len(f) : c[i] = f[i]
        /\ \A i \in 1 .. Len(m) : c[Len(f) + i] = m[i]
    BY <1>1, <1>6
  <2>2. Len(f) \in Nat /\ Len(m) \in Nat /\ DOMAIN f = 1 .. Len(f) /\ DOMAIN m = 1 .. Len(m)
    BY <1>1, <1>6
  <2> HIDE DEF c, m
  <2>3. ToSet(f) \subseteq Range(c)
    BY <2>1, <2>2 DEF ToSet, Range
  <2>4. \A i \in 1 .. Len(m) : Len(f) + i \in 1 .. Len(f) + Len(m)
    BY <2>2
  <2>5. Range(m) \subseteq Range(c)
    BY <2>1, <2>2, <2>4 DEF Range
  <2> QED
    BY <2>1, <2>3, <2>5 DEF c, m
<1> QED
  BY <1>7, <1>8, <1>9

Providers(t) == \A id \in Ids : t[id] = None \/ IsProvider(t[id])

\* The graph of a table of providers, and of one with an entry more.
LEMMA TablesAreGraphs ==
    ASSUME NEW t, Providers(t)
    PROVE  /\ IsGraph(route_graph(t))
           /\ \A id \in Ids : \A p : IsProvider(p) => IsGraph(GraphWith(t, id, p))
BY EnabledTargets DEF IsGraph, route_graph, GraphWith, Providers

\* A route or a member is taken along an edge of the graph.
LEMMA TakenIsEdge ==
    ASSUME NEW t, Providers(t), NEW id \in Ids, t[id] # None
    PROVE  /\ \A m : LET r == select_route(t[id].routes, m) IN
                     r # None => r.target \in Ids /\ Edge(route_graph(t), id, r.target)
           /\ \A i \in DOMAIN t[id].members : Edge(route_graph(t), id, t[id].members[i])
<1> DEFINE g == route_graph(t)
<1>1. IsProvider(t[id])
  BY DEF Providers
<1>2. id \in DOMAIN g /\ g[id] = enabled_targets_of(t[id])
  BY DEF route_graph
<1>3. g[id] \in Seq(Ids)
  BY <1>1, <1>2, EnabledTargets
<1> HIDE DEF g
<1>4. ASSUME NEW m, select_route(t[id].routes, m) # None
      PROVE  LET r == select_route(t[id].routes, m) IN r.target \in Ids /\ Edge(g, id, r.target)
  <2>1. t[id].routes \in Seq(Route)
    BY <1>1 DEF IsProvider
  <2>2. select_route(t[id].routes, m) \in Enabled(t[id].routes)
    BY <1>4, <2>1, SelectedIsEnabled
  <2>3. select_route(t[id].routes, m).target \in Range(g[id])
    BY <1>1, <1>2, <2>2, EnabledTargets
  <2>4. Range(g[id]) \subseteq Ids
    BY <1>3 DEF Range
  <2> QED
    BY <1>2, <2>3, <2>4 DEF Edge
<1>5. ASSUME NEW i \in DOMAIN t[id].members PROVE Edge(g, id, t[id].members[i])
  <2>1. t[id].members[i] \in Range(t[id].members)
    BY DEF Range
  <2> QED
    BY <1>1, <1>2, <2>1, EnabledTargets DEF Edge
<1> QED
  BY <1>4, <1>5 DEF g

-------------------------------------------------------------------------------
(* Reports.                                                                *)

\* The order of ids gives each one rank.
LEMMA RankIs ==
    ASSUME NEW id \in Ids
    PROVE  Rank(id) \in 1 .. Len(IdOrder) /\ Rank(id) \in Nat
<1>1. IdOrder \in Seq(Ids) /\ Range(IdOrder) = Ids
  BY ResolutionAssumption
<1>2. \E i \in DOMAIN IdOrder : IdOrder[i] = id
  BY <1>1 DEF Range
<1>3. PICK r : r = CHOOSE i \in DOMAIN IdOrder : IdOrder[i] = id
  OBVIOUS
<1>4. r \in DOMAIN IdOrder
  BY <1>2, <1>3
<1> QED
  BY <1>1, <1>3, <1>4 DEF Rank

\* canonical: from the least element on, and then from the first up to it.
LEMMA CanonicalIs ==
    ASSUME NEW c \in Seq(Ids), c # <<>>
    PROVE  \E m \in 1 .. Len(c) :
             /\ \A j \in 1 .. Len(c) : Rank(c[m]) <= Rank(c[j])
             /\ canonical(c) \in Seq(Ids) /\ Len(canonical(c)) = Len(c)
             /\ \A k \in 1 .. Len(c) :
                  canonical(c)[k] = IF k <= Len(c) - m + 1 THEN c[m + k - 1]
                                    ELSE c[k - (Len(c) - m + 1)]
<1> DEFINE n == Len(c)
           R == {Rank(c[j]) : j \in 1 .. n}
<1>1. n \in Nat /\ n # 0 /\ DOMAIN c = 1 .. n /\ \A j \in 1 .. n : c[j] \in Ids
  OBVIOUS
<1>2. R \subseteq Nat /\ R # {}
  <2>1. \A j \in 1 .. n : Rank(c[j]) \in Nat
    BY <1>1, RankIs
  <2>2. 1 \in 1 .. n
    BY <1>1
  <2> QED
    BY <2>1, <2>2
<1>3. PICK r \in R : \A y \in R : r <= y
  BY <1>2, LeastNatural
<1>4. PICK m : m = CHOOSE i \in DOMAIN c : \A j \in DOMAIN c : Rank(c[i]) <= Rank(c[j])
  OBVIOUS
<1>5. m \in 1 .. n /\ \A j \in 1 .. n : Rank(c[m]) <= Rank(c[j])
  <2>1. \E i \in DOMAIN c : \A j \in DOMAIN c : Rank(c[i]) <= Rank(c[j])
    BY <1>1, <1>3
  <2> QED
    BY <1>1, <1>4, <2>1
<1> DEFINE a == SubSeq(c, m, n)
           b == SubSeq(c, 1, m - 1)
<1>6. canonical(c) = a \o b
  BY <1>4 DEF canonical
<1>7. /\ a \in Seq(Ids) /\ Len(a) = n - m + 1 /\ \A k \in 1 .. n - m + 1 : a[k] = c[m + k - 1]
      /\ b \in Seq(Ids) /\ Len(b) = m - 1 /\ \A k \in 1 .. m - 1 : b[k] = c[k]
  BY <1>1, <1>5, SubSeqProperties
<1> HIDE DEF a, b
<1>8. /\ a \o b \in Seq(Ids) /\ Len(a \o b) = n
      /\ \A k \in 1 .. n : (a \o b)[k] = IF k <= n - m + 1 THEN c[m + k - 1]
                                        ELSE c[k - (n - m + 1)]
  <2>1. /\ a \o b \in Seq(Ids) /\ Len(a \o b) = Len(a) + Len(b)
        /\ \A k \in 1 .. Len(a) : (a \o b)[k] = a[k]
        /\ \A k \in 1 .. Len(b) : (a \o b)[Len(a) + k] = b[k]
    <3>1. a \in Seq(Ids) /\ b \in Seq(Ids)
      BY <1>7
    <3> QED
      BY <3>1
  <2>2. Len(a) + Len(b) = n
    BY <1>1, <1>5, <1>7
  <2>3. ASSUME NEW k \in 1 .. n
        PROVE  (a \o b)[k] = IF k <= n - m + 1 THEN c[m + k - 1] ELSE c[k - (n - m + 1)]
    <3>1. CASE k <= n - m + 1
      <4>1. k \in 1 .. Len(a)
        BY <1>1, <1>5, <1>7, <3>1
      <4> QED
        BY <1>7, <2>1, <3>1, <4>1
    <3>2. CASE ~ (k <= n - m + 1)
      <4>1. k - (n - m + 1) \in 1 .. Len(b) /\ Len(a) + (k - (n - m + 1)) = k
        BY <1>1, <1>5, <1>7, <3>2
      <4> QED
        BY <1>7, <2>1, <3>2, <4>1
    <3> QED
      BY <3>1, <3>2
  <2> QED
    BY <2>1, <2>2, <2>3
<1> QED
  BY <1>5, <1>6, <1>8

\* A closed walk through distinct ids along the edges of g, from the least of them.
IsCycle(g, c) ==
    /\ c \in Seq(Ids) /\ c # <<>> /\ IsInjective(c)
    /\ \A k \in 1 .. Len(c) - 1 : Edge(g, c[k], c[k + 1])
    /\ Edge(g, c[Len(c)], c[1])
    /\ \A k \in 1 .. Len(c) : Rank(c[1]) <= Rank(c[k])

IsPath(g, p) ==
    p \in Seq(Ids) /\ IsInjective(p) /\ \A k \in 1 .. Len(p) - 1 : Edge(g, p[k], p[k + 1])

\* Rotation keeps the elements.
LEMMA CanonicalElements ==
    ASSUME NEW c \in Seq(Ids), c # <<>>
    PROVE  canonical(c) \in Seq(Ids) /\ canonical(c) # <<>> /\ Range(canonical(c)) = Range(c)
<1> DEFINE n == Len(c)
           d == canonical(c)
<1>1. PICK m \in 1 .. n :
        /\ d \in Seq(Ids) /\ Len(d) = n
        /\ \A k \in 1 .. n : d[k] = IF k <= n - m + 1 THEN c[m + k - 1] ELSE c[k - (n - m + 1)]
  BY CanonicalIs
<1>2. n \in Nat /\ n # 0 /\ DOMAIN c = 1 .. n /\ DOMAIN d = 1 .. n
  BY <1>1
<1> HIDE DEF n, d
<1>3. ASSUME NEW k \in 1 .. n PROVE d[k] \in Range(c)
  <2>1. CASE k <= n - m + 1
    <3>1. m + k - 1 \in 1 .. n
      BY <1>2, <2>1
    <3> QED
      BY <1>1, <1>2, <2>1, <3>1 DEF Range
  <2>2. CASE ~ (k <= n - m + 1)
    <3>1. k - (n - m + 1) \in 1 .. n
      BY <1>2, <2>2
    <3> QED
      BY <1>1, <1>2, <2>2, <3>1 DEF Range
  <2> QED
    BY <2>1, <2>2
<1>4. ASSUME NEW i \in 1 .. n PROVE c[i] \in Range(d)
  <2>1. CASE m <= i
    <3>1. /\ i - m + 1 \in 1 .. n /\ i - m + 1 <= n - m + 1
          /\ m + (i - m + 1) - 1 = i
      BY <1>2, <2>1
    <3>2. d[i - m + 1] = c[i]
      BY <1>1, <3>1
    <3> QED
      BY <1>2, <3>1, <3>2 DEF Range
  <2>2. CASE ~ (m <= i)
    <3>1. /\ i + (n - m + 1) \in 1 .. n /\ ~ (i + (n - m + 1) <= n - m + 1)
          /\ (i + (n - m + 1)) - (n - m + 1) = i
      BY <1>2, <2>2
    <3>2. d[i + (n - m + 1)] = c[i]
      BY <1>1, <3>1
    <3> QED
      BY <1>2, <3>1, <3>2 DEF Range
  <2> QED
    BY <2>1, <2>2
<1>5. Range(d) = Range(c)
  BY <1>2, <1>3, <1>4 DEF Range
<1>6. d # <<>>
  BY <1>1, <1>2
<1> QED
  BY <1>1, <1>5, <1>6 DEF d

\* A path that an edge closes becomes a cycle by rotation.
LEMMA CanonicalIsCycle ==
    ASSUME NEW g, NEW c, IsPath(g, c), c # <<>>, Edge(g, c[Len(c)], c[1])
    PROVE  IsCycle(g, canonical(c))
<1> DEFINE n == Len(c)
           d == canonical(c)
<1>1. PICK m \in 1 .. n :
        /\ \A j \in 1 .. n : Rank(c[m]) <= Rank(c[j])
        /\ d \in Seq(Ids) /\ Len(d) = n
        /\ \A k \in 1 .. n : d[k] = IF k <= n - m + 1 THEN c[m + k - 1] ELSE c[k - (n - m + 1)]
  BY CanonicalIs DEF IsPath
<1>2. n \in Nat /\ n # 0 /\ DOMAIN c = 1 .. n /\ DOMAIN d = 1 .. n
  BY <1>1 DEF IsPath
<1> DEFINE at(k) == IF k <= n - m + 1 THEN m + k - 1 ELSE k - (n - m + 1)
<1>3. ASSUME NEW k \in 1 .. n PROVE at(k) \in 1 .. n /\ d[k] = c[at(k)]
  BY <1>1, <1>2
<1>4. ASSUME NEW k \in 1 .. n, NEW j \in 1 .. n, d[k] = d[j] PROVE k = j
  <2>1. c[at(k)] = c[at(j)]
    BY <1>3, <1>4
  <2>2. at(k) = at(j)
    <3> HIDE DEF at
    <3> QED
      BY <1>2, <1>3, <2>1 DEF IsPath, IsInjective
  <2> QED
    BY <1>2, <2>2
<1>5. ASSUME NEW k \in 1 .. n - 1 PROVE Edge(g, d[k], d[k + 1])
  <2>1. k \in 1 .. n /\ k + 1 \in 1 .. n
    BY <1>2
  <2>2. d[k] = c[at(k)] /\ d[k + 1] = c[at(k + 1)]
    BY <1>3, <2>1
  <2>3. CASE k = n - m + 1
    <3>1. at(k) = n /\ at(k + 1) = 1
      BY <1>2, <2>3
    <3> QED
      BY <2>2, <3>1
  <2>4. CASE k # n - m + 1
    <3>1. at(k) \in 1 .. n - 1 /\ at(k + 1) = at(k) + 1
      BY <1>2, <2>4
    <3> HIDE DEF at
    <3> QED
      BY <2>2, <3>1 DEF IsPath
  <2> QED
    BY <2>3, <2>4
<1>6. Edge(g, d[n], d[1])
  <2>1. n \in 1 .. n /\ 1 \in 1 .. n
    BY <1>2
  <2>2. d[n] = c[at(n)] /\ d[1] = c[at(1)] /\ at(1) = m
    BY <1>2, <1>3, <2>1
  <2>3. CASE m = 1
    <3>1. at(n) = n
      BY <1>2, <2>3
    <3> HIDE DEF at
    <3> QED
      BY <2>2, <2>3, <3>1
  <2>4. CASE m # 1
    <3>1. at(n) = m - 1 /\ m - 1 \in 1 .. n - 1 /\ (m - 1) + 1 = m
      BY <1>2, <2>4
    <3> HIDE DEF at
    <3> QED
      BY <2>2, <3>1 DEF IsPath
  <2> QED
    BY <2>3, <2>4
<1>7. ASSUME NEW k \in 1 .. n PROVE Rank(d[1]) <= Rank(d[k])
  <2>1. 1 \in 1 .. n /\ at(1) = m /\ at(k) \in 1 .. n
    BY <1>2, <1>3
  <2> HIDE DEF at
  <2> QED
    BY <1>1, <1>3, <2>1
<1> HIDE DEF n
<1>8. IsInjective(d) /\ d # <<>>
  BY <1>1, <1>2, <1>4 DEF IsInjective
<1> HIDE DEF d
<1>9. IsCycle(g, d)
  BY <1>1, <1>5, <1>6, <1>7, <1>8 DEF IsCycle
<1> QED
  BY <1>9 DEF d

Marked(s, x) == \E c \in s.seen : x \in Range(c)

Full(c) == Append(c, c[1])

\* Every cycle seen is one, has been entered, and is reported once and in full.
ScanOK(g, s) ==
    /\ s \in Scans
    /\ \A c \in s.seen : /\ IsCycle(g, c) /\ Range(c) \subseteq s.done
                         /\ \E i \in DOMAIN s.out : s.out[i] = Full(c)
    /\ \A i \in DOMAIN s.out : \E c \in s.seen : s.out[i] = Full(c)
    /\ IsInjective(s.out)

\* The part of a stack from a target on.
LEMMA SegmentIs ==
    ASSUME NEW p \in Seq(Ids), NEW t \in Range(p)
    PROVE  \E k \in 1 .. Len(p) :
             LET seg == SubSeq(p, k, Len(p)) IN
             /\ k = CHOOSE i \in DOMAIN p : p[i] = t
             /\ seg \in Seq(Ids) /\ Len(seg) = Len(p) - k + 1 /\ seg # <<>>
             /\ \A i \in 1 .. Len(seg) : seg[i] = p[k + i - 1]
             /\ seg[1] = t /\ seg[Len(seg)] = p[Len(p)] /\ Range(seg) \subseteq Range(p)
             /\ t \in Range(seg)
<1>1. DOMAIN p = 1 .. Len(p) /\ Len(p) \in Nat
  OBVIOUS
<1>2. \E i \in DOMAIN p : p[i] = t
  BY DEF Range
<1>3. PICK k : k = CHOOSE i \in DOMAIN p : p[i] = t
  OBVIOUS
<1>4. k \in 1 .. Len(p) /\ p[k] = t
  BY <1>1, <1>2, <1>3
<1> DEFINE seg == SubSeq(p, k, Len(p))
           n == Len(p) - k + 1
<1>5. /\ seg \in Seq(Ids) /\ Len(seg) = n
      /\ \A i \in 1 .. n : seg[i] = p[k + i - 1]
  BY <1>1, <1>4, SubSeqProperties
<1> HIDE DEF seg
<1>6. n \in Nat /\ 1 \in 1 .. n /\ n \in 1 .. n /\ DOMAIN seg = 1 .. n
  BY <1>1, <1>4, <1>5
<1>7. seg[1] = t /\ seg[n] = p[Len(p)]
  <2>1. k + 1 - 1 = k /\ k + n - 1 = Len(p)
    BY <1>1, <1>4
  <2> HIDE DEF n
  <2>2. seg[1] = p[k + 1 - 1] /\ seg[n] = p[k + n - 1]
    BY <1>5, <1>6
  <2> QED
    BY <1>4, <2>1, <2>2
<1>8. Range(seg) \subseteq Range(p) /\ t \in Range(seg)
  <2>1. \A i \in 1 .. n : k + i - 1 \in 1 .. Len(p)
    BY <1>1, <1>4
  <2>2. \A i \in 1 .. n : seg[i] \in Range(p)
    BY <1>1, <1>5, <2>1 DEF Range
  <2> QED
    BY <1>6, <1>7, <2>2 DEF Range
<1>9. seg # <<>>
  <2> HIDE DEF n
  <2> QED
    BY <1>5, <1>6
<1>10. Len(seg) = Len(p) - k + 1 /\ seg[Len(seg)] = p[Len(p)]
       /\ \A i \in 1 .. Len(seg) : seg[i] = p[k + i - 1]
  BY <1>5, <1>7
<1> QED
  BY <1>3, <1>4, <1>5, <1>7, <1>8, <1>9, <1>10 DEF seg

\* The cycle that a target on the stack closes, as report_cycle names it.
Closing(p, t) == canonical(SubSeq(p, CHOOSE i \in DOMAIN p : p[i] = t, Len(p)))

\* Its ids are on the stack, and it is one if the stack is a path with an edge to the target.
LEMMA ClosingIs ==
    ASSUME NEW p \in Seq(Ids), NEW t \in Range(p)
    PROVE  /\ Closing(p, t) \in Seq(Ids) /\ Closing(p, t) # <<>>
           /\ Range(Closing(p, t)) \subseteq Range(p) /\ t \in Range(Closing(p, t))
           /\ \A g : IsPath(g, p) /\ Edge(g, p[Len(p)], t) => IsCycle(g, Closing(p, t))
<1>1. PICK k \in 1 .. Len(p) :
        LET seg == SubSeq(p, k, Len(p)) IN
        /\ k = CHOOSE i \in DOMAIN p : p[i] = t
        /\ seg \in Seq(Ids) /\ Len(seg) = Len(p) - k + 1 /\ seg # <<>>
        /\ \A i \in 1 .. Len(seg) : seg[i] = p[k + i - 1]
        /\ seg[1] = t /\ seg[Len(seg)] = p[Len(p)] /\ Range(seg) \subseteq Range(p)
        /\ t \in Range(seg)
  BY SegmentIs
<1> DEFINE seg == SubSeq(p, k, Len(p))
<1>2. Closing(p, t) = canonical(seg)
  BY <1>1 DEF Closing
<1>3. /\ seg \in Seq(Ids) /\ Len(seg) = Len(p) - k + 1 /\ seg # <<>>
      /\ \A i \in 1 .. Len(seg) : seg[i] = p[k + i - 1]
      /\ seg[1] = t /\ seg[Len(seg)] = p[Len(p)] /\ Range(seg) \subseteq Range(p)
      /\ t \in Range(seg)
  BY <1>1
<1> HIDE DEF seg
<1>4. canonical(seg) \in Seq(Ids) /\ canonical(seg) # <<>> /\ Range(canonical(seg)) = Range(seg)
  BY <1>3, CanonicalElements
<1>5. ASSUME NEW g, IsPath(g, p), Edge(g, p[Len(p)], t) PROVE IsCycle(g, canonical(seg))
  <2>1. DOMAIN p = 1 .. Len(p) /\ Len(p) \in Nat /\ DOMAIN seg = 1 .. Len(seg)
    BY <1>3
  <2>2. ASSUME NEW i \in 1 .. Len(seg), NEW j \in 1 .. Len(seg), seg[i] = seg[j] PROVE i = j
    <3>1. p[k + i - 1] = p[k + j - 1] /\ k + i - 1 \in DOMAIN p /\ k + j - 1 \in DOMAIN p
      BY <1>3, <2>1, <2>2
    <3>2. k + i - 1 = k + j - 1
      BY <1>5, <3>1 DEF IsPath, IsInjective
    <3> QED
      BY <3>2, <2>1
  <2>3. ASSUME NEW i \in 1 .. Len(seg) - 1 PROVE Edge(g, seg[i], seg[i + 1])
    <3>1. /\ i \in 1 .. Len(seg) /\ i + 1 \in 1 .. Len(seg)
          /\ k + i - 1 \in 1 .. Len(p) - 1 /\ (k + i - 1) + 1 = k + (i + 1) - 1
      BY <1>3, <2>1
    <3>2. seg[i] = p[k + i - 1] /\ seg[i + 1] = p[k + (i + 1) - 1]
      BY <1>3, <3>1
    <3>3. Edge(g, p[k + i - 1], p[(k + i - 1) + 1])
      BY <1>5, <3>1 DEF IsPath
    <3> QED
      BY <3>1, <3>2, <3>3
  <2>4. IsPath(g, seg)
    BY <1>3, <2>1, <2>2, <2>3 DEF IsPath, IsInjective
  <2> QED
    BY <1>3, <1>5, <2>4, CanonicalIsCycle
<1> QED
  BY <1>2, <1>3, <1>4, <1>5

\* A report keeps what is done and marks the target.
LEMMA ReportIs ==
    ASSUME NEW s \in Scans, NEW p \in Seq(Ids), NEW t \in Range(p)
    PROVE  LET r == report_cycle(s, p, t) IN
           /\ r \in Scans /\ r.done = s.done /\ s.seen \subseteq r.seen /\ Marked(r, t)
           /\ r.seen = s.seen \cup {Closing(p, t)}
           /\ Closing(p, t) \in s.seen => r = s
           /\ Closing(p, t) \notin s.seen => r.out = Append(s.out, Full(Closing(p, t)))
<1> DEFINE c == Closing(p, t)
           r == report_cycle(s, p, t)
<1>1. c \in Seq(Ids) /\ c # <<>> /\ t \in Range(c)
  BY ClosingIs
<1>2. r = IF c \in s.seen THEN s
          ELSE [s EXCEPT !.seen = @ \cup {c}, !.out = Append(@, Append(c, c[1]))]
  BY DEF report_cycle, Closing
<1> HIDE DEF c, r
<1>3. Full(c) \in Seq(Ids)
  <2>1. c[1] \in Ids
    BY <1>1
  <2> QED
    BY <1>1, <2>1 DEF Full
<1>4. CASE c \in s.seen
  <2>1. r = s /\ r.seen = s.seen \cup {c}
    BY <1>2, <1>4
  <2> QED
    BY <1>1, <1>4, <2>1 DEF Marked, r, c
<1>5. CASE c \notin s.seen
  <2>1. r = [s EXCEPT !.seen = @ \cup {c}, !.out = Append(@, Full(c))]
    BY <1>2, <1>5 DEF Full
  <2>2. /\ s.done \subseteq Ids /\ s.seen \subseteq Seq(Ids) /\ s.out \in Seq(Seq(Ids))
        /\ s = [done |-> s.done, seen |-> s.seen, out |-> s.out]
    BY DEF Scans
  <2>3. Append(s.out, Full(c)) \in Seq(Seq(Ids))
    <3> DEFINE E == Seq(Ids)
    <3> HIDE DEF E
    <3>1. s.out \in Seq(E) /\ Full(c) \in E
      BY <1>3, <2>2 DEF E
    <3>2. Append(s.out, Full(c)) \in Seq(E)
      BY <3>1, AppendProperties
    <3> QED
      BY <3>2 DEF E
  <2>4. r = [done |-> s.done, seen |-> s.seen \cup {c}, out |-> Append(s.out, Full(c))]
    BY <2>1, <2>2
  <2>5. r \in Scans
    <3>1. s.seen \cup {c} \subseteq Seq(Ids)
      BY <1>1, <2>2
    <3> HIDE DEF r
    <3> QED
      BY <2>2, <2>3, <2>4, <3>1 DEF Scans
  <2>6. r.done = s.done /\ r.seen = s.seen \cup {c} /\ r.out = Append(s.out, Full(c))
    BY <2>4
  <2>7. Marked(r, t)
    BY <1>1, <2>6 DEF Marked
  <2> QED
    BY <1>5, <2>5, <2>6, <2>7 DEF r, c
<1> QED
  BY <1>4, <1>5

\* A cycle can be read off its report.
LEMMA FullIsInjective ==
    ASSUME NEW c \in Seq(Ids), c # <<>>, NEW d \in Seq(Ids), d # <<>>, Full(c) = Full(d)
    PROVE  c = d
<1>1. c[1] \in Ids /\ d[1] \in Ids
  OBVIOUS
<1>2. Len(Append(c, c[1])) = Len(c) + 1 /\ Len(Append(d, d[1])) = Len(d) + 1
  BY <1>1
<1>3. Len(c) = Len(d) /\ Len(c) \in Nat
  BY <1>2 DEF Full
<1>4. \A i \in 1 .. Len(c) : Append(c, c[1])[i] = c[i] /\ Append(d, d[1])[i] = d[i]
  BY <1>1, <1>3
<1>5. \A i \in 1 .. Len(c) : c[i] = d[i]
  BY <1>4 DEF Full
<1>6. c = [i \in 1 .. Len(c) |-> c[i]] /\ d = [i \in 1 .. Len(d) |-> d[i]]
  OBVIOUS
<1> QED
  BY <1>3, <1>5, <1>6

\* A report keeps the reports right.
LEMMA ReportOK ==
    ASSUME NEW g, NEW s, ScanOK(g, s), NEW p, IsPath(g, p), NEW t \in Range(p),
           Range(p) \subseteq s.done, Edge(g, p[Len(p)], t)
    PROVE  ScanOK(g, report_cycle(s, p, t))
<1> DEFINE c == Closing(p, t)
           r == report_cycle(s, p, t)
<1>1. s \in Scans /\ p \in Seq(Ids)
  BY DEF ScanOK, IsPath
<1>2. IsCycle(g, c) /\ c \in Seq(Ids) /\ c # <<>> /\ Range(c) \subseteq s.done
  BY <1>1, ClosingIs
<1>3. /\ r \in Scans /\ r.done = s.done /\ r.seen = s.seen \cup {c}
      /\ c \in s.seen => r = s
      /\ c \notin s.seen => r.out = Append(s.out, Full(c))
  BY <1>1, ReportIs
<1> HIDE DEF c, r
<1>4. CASE c \in s.seen
  <2>1. r = s
    BY <1>3, <1>4
  <2> QED
    BY <2>1 DEF r
<1>5. CASE c \notin s.seen
  <2> DEFINE n == Len(s.out)
             E == Seq(Ids)
  <2>1. s.out \in Seq(E) /\ Full(c) \in E
    <3>1. c[1] \in Ids
      BY <1>2
    <3> QED
      BY <1>1, <1>2, <3>1 DEF Scans, Full
  <2>2. /\ n \in Nat /\ DOMAIN s.out = 1 .. n /\ DOMAIN r.out = 1 .. n + 1
        /\ \A i \in 1 .. n : r.out[i] = s.out[i]
        /\ r.out[n + 1] = Full(c)
    <3> HIDE DEF E
    <3>1. r.out = Append(s.out, Full(c))
      BY <1>3, <1>5
    <3> QED
      BY <2>1, <3>1, AppendProperties
  <2> HIDE DEF n, E
  <2>3. ASSUME NEW i \in 1 .. n PROVE s.out[i] # Full(c)
    <3>1. PICK d \in s.seen : s.out[i] = Full(d)
      BY <2>2 DEF ScanOK
    <3>2. IsCycle(g, d) /\ d # c
      BY <1>5 DEF ScanOK
    <3>3. d \in Seq(Ids) /\ d # <<>>
      BY <3>2 DEF IsCycle
    <3> QED
      BY <1>2, <3>1, <3>2, <3>3, FullIsInjective
  <2>4. IsInjective(r.out)
    <3>1. IsInjective(s.out)
      BY DEF ScanOK
    <3> QED
      BY <2>2, <2>3, <3>1 DEF IsInjective
  <2>5. ASSUME NEW d \in r.seen
        PROVE  /\ IsCycle(g, d) /\ Range(d) \subseteq r.done
               /\ \E i \in DOMAIN r.out : r.out[i] = Full(d)
    <3>1. CASE d = c
      BY <1>2, <1>3, <2>2, <3>1
    <3>2. CASE d \in s.seen
      BY <1>3, <2>2, <3>2 DEF ScanOK
    <3> QED
      BY <1>3, <3>1, <3>2
  <2>6. ASSUME NEW i \in DOMAIN r.out PROVE \E d \in r.seen : r.out[i] = Full(d)
    <3>1. CASE i = n + 1
      BY <1>3, <2>2, <3>1
    <3>2. CASE i # n + 1
      <4>1. i \in 1 .. n
        BY <2>2, <3>2
      <4> QED
        BY <1>3, <2>2, <4>1 DEF ScanOK
    <3> QED
      BY <3>1, <3>2
  <2>7. ScanOK(g, r)
    BY <1>3, <2>4, <2>5, <2>6 DEF ScanOK
  <2> QED
    BY <2>7 DEF r
<1> QED
  BY <1>4, <1>5

-------------------------------------------------------------------------------
(* Visits.                                                                 *)

Pushed(c) == Append(c.stack, c.node)

Entered(c) == [c.scan EXCEPT !.done = @ \cup {c.node}]

\* The scans that go on from the entry of a call.
Later(c) == {s \in Scans : c.scan.done \cup {c.node} \subseteq s.done}

\* The calls that a call makes.
Calling(c) == {Call(Pushed(c), t, s) : t \in Ids, s \in Later(c)}

\* A function that answers the calls with scans that go on.
Answers(f, C) == \A d \in C : f[d] \in Scans /\ d.scan.done \subseteq f[d].done

\* A scan with one id more done.
LEMMA AlsoDone ==
    ASSUME NEW s \in Scans, NEW x \in Ids
    PROVE  LET e == [s EXCEPT !.done = @ \cup {x}] IN
           e \in Scans /\ e.done = s.done \cup {x} /\ e.seen = s.seen /\ e.out = s.out
<1> DEFINE e == [s EXCEPT !.done = @ \cup {x}]
<1>1. /\ s = [done |-> s.done, seen |-> s.seen, out |-> s.out]
      /\ s.done \subseteq Ids /\ s.seen \subseteq Seq(Ids) /\ s.out \in Seq(Seq(Ids))
  BY DEF Scans
<1>2. e = [s EXCEPT !.done = @ \cup {x}]
  OBVIOUS
<1> HIDE DEF e
<1>3. e.done = s.done \cup {x} /\ e.seen = s.seen /\ e.out = s.out
      /\ e = [done |-> e.done, seen |-> e.seen, out |-> e.out]
  BY <1>1, <1>2
<1>4. e \in Scans /\ e.done = s.done \cup {x} /\ e.seen = s.seen /\ e.out = s.out
  BY <1>1, <1>2, <1>3 DEF Scans
<1> QED
  BY <1>4 DEF e

\* What a call holds, the stack it pushes and the scan it enters with.
LEMMA CallIs ==
    ASSUME NEW c \in Calls
    PROVE  /\ c.stack \in Seq(Ids) /\ c.node \in Ids /\ c.scan \in Scans
           /\ Pushed(c) \in Seq(Ids) /\ Range(Pushed(c)) = Range(c.stack) \cup {c.node}
           /\ Entered(c) \in Later(c)
           /\ Entered(c).done = c.scan.done \cup {c.node}
           /\ Entered(c).seen = c.scan.seen /\ Entered(c).out = c.scan.out
<1>1. c.stack \in Seq(Ids) /\ c.node \in Ids /\ c.scan \in Scans
  BY DEF Calls
<1>2. Pushed(c) \in Seq(Ids) /\ Range(Pushed(c)) = Range(c.stack) \cup {c.node}
  <2>1. ToSet(Pushed(c)) = ToSet(c.stack) \cup {c.node}
    BY <1>1, AppendElements DEF Pushed
  <2>2. Pushed(c) \in Seq(Ids)
    BY <1>1 DEF Pushed
  <2> QED
    BY <2>1, <2>2 DEF ToSet, Range
<1>3. /\ Entered(c) \in Scans /\ Entered(c).done = c.scan.done \cup {c.node}
      /\ Entered(c).seen = c.scan.seen /\ Entered(c).out = c.scan.out
  BY <1>1, AlsoDone DEF Entered
<1> QED
  BY <1>1, <1>2, <1>3 DEF Later

\* A call from within a call, and what is left to do in it.
LEMMA CallingIs ==
    ASSUME NEW c \in Calls, NEW t \in Ids, NEW s \in Later(c)
    PROVE  LET d == Call(Pushed(c), t, s) IN
           d \in Calling(c) /\ d \in Calls /\ d.stack = Pushed(c) /\ d.node = t /\ d.scan = s
<1>1. Pushed(c) \in Seq(Ids) /\ s \in Scans
  BY CallIs DEF Later
<1> QED
  BY <1>1 DEF Calling, Call, Calls

\* One target of a node leads to a scan that goes on.
LEMMA TurnIs ==
    ASSUME NEW c \in Calls, NEW f, Answers(f, Calling(c)), NEW s \in Later(c), NEW t \in Ids
    PROVE  Turn(f, Pushed(c), s, t) \in Later(c)
<1>1. Pushed(c) \in Seq(Ids) /\ s \in Scans /\ c.scan.done \cup {c.node} \subseteq s.done
  BY CallIs DEF Later
<1>2. CASE t \in Range(Pushed(c))
  <2>1. report_cycle(s, Pushed(c), t) \in Scans /\ report_cycle(s, Pushed(c), t).done = s.done
    BY <1>1, <1>2, ReportIs
  <2>2. Turn(f, Pushed(c), s, t) = report_cycle(s, Pushed(c), t)
    BY <1>2 DEF Turn
  <2> QED
    BY <1>1, <2>1, <2>2 DEF Later
<1>3. CASE t \notin Range(Pushed(c))
  <2> DEFINE d == Call(Pushed(c), t, s)
  <2>1. d \in Calling(c) /\ d.scan = s
    BY CallingIs
  <2>2. Turn(f, Pushed(c), s, t) = f[d]
    BY <1>3 DEF Turn
  <2> HIDE DEF d
  <2>3. f[d] \in Scans /\ s.done \subseteq f[d].done
    BY <2>1 DEF Answers
  <2> QED
    BY <1>1, <2>2, <2>3 DEF Later
<1> QED
  BY <1>2, <1>3

\* The targets of a node, as a sequence and as edges.
LEMMA TargetsAre ==
    ASSUME NEW g, IsGraph(g), NEW x
    PROVE  /\ Targets(g, x) \in Seq(Ids) /\ Len(Targets(g, x)) \in Nat
           /\ DOMAIN Targets(g, x) = 1 .. Len(Targets(g, x))
           /\ \A i \in 1 .. Len(Targets(g, x)) : Targets(g, x)[i] \in Ids
           /\ \A y : Edge(g, x, y) <=> \E i \in 1 .. Len(Targets(g, x)) : y = Targets(g, x)[i]
<1>1. Targets(g, x) \in Seq(Ids)
  BY DEF Targets, IsGraph
<1>2. /\ DOMAIN Targets(g, x) = 1 .. Len(Targets(g, x)) /\ Len(Targets(g, x)) \in Nat
      /\ \A i \in 1 .. Len(Targets(g, x)) : Targets(g, x)[i] \in Ids
  BY <1>1
<1>3. CASE x \in DOMAIN g
  <2>1. Targets(g, x) = g[x]
    BY <1>3 DEF Targets
  <2> QED
    BY <1>1, <1>2, <1>3, <2>1 DEF Edge, Range
<1>4. CASE x \notin DOMAIN g
  <2>1. Targets(g, x) = <<>>
    BY <1>4 DEF Targets
  <2> QED
    BY <1>1, <1>2, <1>4, <2>1 DEF Edge
<1> QED
  BY <1>3, <1>4

\* h is the scan after each of the targets of a call's node.
Rounds(h, f, g, c) ==
    LET n == Len(Targets(g, c.node)) IN
    /\ h \in [0 .. n -> Later(c)]
    /\ h[0] = Entered(c)
    /\ \A i \in 1 .. n : h[i] = Turn(f, Pushed(c), h[i - 1], Targets(g, c.node)[i])

\* Enter takes the targets one after the other.
LEMMA EnterIs ==
    ASSUME NEW g, IsGraph(g), NEW c \in Calls, NEW f, Answers(f, Calling(c))
    PROVE  \E h : Rounds(h, f, g, c) /\ Enter(f, g, c) = h[Len(Targets(g, c.node))]
<1> DEFINE ts == Targets(g, c.node)
           n == Len(ts)
           S == Later(c)
           init == Entered(c)
           F == [i \in 1 .. n |-> [x \in S |-> Turn(f, Pushed(c), x, ts[i])]]
           Is(k) == k = [s \in SUBSET DOMAIN ts |->
                           IF s = {} THEN init
                           ELSE Turn(f, Pushed(c), k[s \ {Max(s)}], ts[Max(s)])]
<1>1. n \in Nat /\ DOMAIN ts = 1 .. n /\ \A i \in 1 .. n : ts[i] \in Ids
  BY TargetsAre
<1>2. init \in S
  BY CallIs
<1> HIDE DEF ts, n, init
<1>3. ASSUME NEW i \in 1 .. n, NEW x \in S PROVE Turn(f, Pushed(c), x, ts[i]) \in S
  BY <1>1, <1>3, TurnIs
<1> HIDE DEF S
<1>4. F \in [1 .. n -> [S -> S]]
  <2>1. \A i \in 1 .. n : [x \in S |-> Turn(f, Pushed(c), x, ts[i])] \in [S -> S]
    BY <1>3
  <2> QED
    BY <2>1
<1>5. PICK h \in [0 .. n -> S] : Steps(h, n, init, F)
  <2> HIDE DEF F
  <2> QED
    BY <1>1, <1>2, <1>4, StepsExist
<1>6. PICK it \in [SUBSET (1 .. n) -> S] : FoldsOver(it, 1 .. n, init, F)
  <2> HIDE DEF F
  <2> QED
    BY <1>1, <1>2, <1>4, FoldExists
<1>7. Is(it)
  <2>1. ASSUME NEW s \in SUBSET (1 .. n)
        PROVE  it[s] = IF s = {} THEN init ELSE Turn(f, Pushed(c), it[s \ {Max(s)}], ts[Max(s)])
    <3>1. CASE s = {}
      BY <1>6, <3>1 DEF FoldsOver
    <3>2. CASE s # {}
      <4>1. Max(s) \in 1 .. n
        BY <1>1, <3>2, MaxOfIndices
      <4>2. s \ {Max(s)} \in SUBSET (1 .. n) /\ it[s \ {Max(s)}] \in S
        OBVIOUS
      <4>3. it[s] = F[Max(s)][it[s \ {Max(s)}]]
        BY <1>6, <3>2 DEF FoldsOver
      <4> QED
        BY <3>2, <4>1, <4>2, <4>3
    <3> QED
      BY <3>1, <3>2
  <2>2. it = [s \in SUBSET (1 .. n) |-> it[s]]
    OBVIOUS
  <2> QED
    BY <1>1, <2>1, <2>2
<1>8. PICK k : k = CHOOSE x : Is(x)
  OBVIOUS
<1>9. Is(k)
  BY <1>7, <1>8
<1>10. Enter(f, g, c) = k[1 .. n]
  BY <1>1, <1>8 DEF Enter, FoldLeft, MapThenFoldSet, Pushed, ts, init, Entered
<1>11. Advances(k, S, n, init, F)
  <2>1. k[{}] = init
    BY <1>9
  <2>2. ASSUME NEW i \in 1 .. n, k[1 .. i - 1] \in S PROVE k[1 .. i] = F[i][k[1 .. i - 1]]
    <3>1. /\ 1 .. i \in SUBSET (1 .. n) /\ 1 .. i # {}
          /\ Max(1 .. i) = i /\ (1 .. i) \ {i} = 1 .. i - 1
      BY <1>1, InitialPart
    <3>2. k[1 .. i] = Turn(f, Pushed(c), k[1 .. i - 1], ts[i])
      BY <1>1, <1>9, <3>1
    <3> QED
      BY <2>2, <3>2
  <2> HIDE DEF F, Is
  <2> QED
    BY <2>1, <2>2 DEF Advances
<1>12. k[1 .. n] = h[n]
  <2> HIDE DEF F, Is
  <2>1. Runs(h, k, S, n, init, F)
    BY <1>1, <1>2, <1>4, <1>5, <1>11 DEF Runs
  <2> QED
    BY <1>1, <2>1, FoldValue
<1>13. Rounds(h, f, g, c)
  <2>1. h[0] = init
    BY <1>5 DEF Steps
  <2>2. ASSUME NEW i \in 1 .. n PROVE h[i] = Turn(f, Pushed(c), h[i - 1], ts[i])
    <3>1. i - 1 \in 0 .. n
      BY <1>1
    <3>2. h[i - 1] \in S /\ h[i] = F[i][h[i - 1]]
      BY <1>5, <3>1 DEF Steps
    <3> QED
      BY <3>2
  <2> QED
    BY <2>1, <2>2 DEF Rounds, S, n, ts, init
<1> QED
  BY <1>10, <1>12, <1>13 DEF n, ts

\* What Enter returns goes on from the entry.
LEMMA EnterType ==
    ASSUME NEW g, IsGraph(g), NEW c \in Calls, NEW f, Answers(f, Calling(c))
    PROVE  Enter(f, g, c) \in Later(c)
<1>1. PICK h : Rounds(h, f, g, c) /\ Enter(f, g, c) = h[Len(Targets(g, c.node))]
  BY EnterIs
<1>2. Len(Targets(g, c.node)) \in 0 .. Len(Targets(g, c.node))
  BY TargetsAre
<1> QED
  BY <1>1, <1>2 DEF Rounds

\* Functions that answer the same calls alike are entered alike.
LEMMA EnterAgrees ==
    ASSUME NEW g, IsGraph(g), NEW c \in Calls, NEW f, Answers(f, Calling(c)),
           NEW e, \A d \in Calling(c) : e[d] = f[d]
    PROVE  Enter(e, g, c) = Enter(f, g, c)
<1> DEFINE ts == Targets(g, c.node)
           n == Len(ts)
<1>1. Answers(e, Calling(c))
  BY DEF Answers
<1>2. PICK h : Rounds(h, f, g, c) /\ Enter(f, g, c) = h[n]
  BY EnterIs
<1>3. PICK k : Rounds(k, e, g, c) /\ Enter(e, g, c) = k[n]
  BY <1>1, EnterIs
<1>4. n \in Nat /\ \A i \in 1 .. n : ts[i] \in Ids
  BY TargetsAre
<1>5. /\ \A i \in 0 .. n : h[i] \in Later(c)
      /\ h[0] = Entered(c) /\ k[0] = Entered(c)
      /\ \A i \in 1 .. n : /\ h[i] = Turn(f, Pushed(c), h[i - 1], ts[i])
                           /\ k[i] = Turn(e, Pushed(c), k[i - 1], ts[i])
  BY <1>2, <1>3 DEF Rounds
<1> HIDE DEF ts, n
<1> DEFINE T == {i \in Nat : i <= n => k[i] = h[i]}
<1>6. 0 \in T
  BY <1>5
<1>7. ASSUME NEW i \in Nat, i \in T PROVE i + 1 \in T
  <2> SUFFICES ASSUME i + 1 <= n PROVE k[i + 1] = h[i + 1]
    OBVIOUS
  <2>1. i + 1 \in 1 .. n /\ (i + 1) - 1 = i /\ i \in 0 .. n /\ k[i] = h[i]
    BY <1>4, <1>7
  <2>2. h[i] \in Later(c) /\ ts[i + 1] \in Ids
    BY <1>4, <1>5, <2>1
  <2>3. Turn(e, Pushed(c), h[i], ts[i + 1]) = Turn(f, Pushed(c), h[i], ts[i + 1])
    <3>1. Call(Pushed(c), ts[i + 1], h[i]) \in Calling(c)
      BY <2>2, CallingIs
    <3> QED
      BY <3>1 DEF Turn
  <2> QED
    BY <1>5, <2>1, <2>3
<1>8. Nat \subseteq T
  <2> HIDE DEF T
  <2> QED
    BY <1>6, <1>7, NatSetInduction
<1> QED
  BY <1>2, <1>3, <1>4, <1>8

Body(f, g, c) == IF c.node \in c.scan.done THEN c.scan ELSE Enter(f, g, c)

IsVisit(f, g) == f = [c \in Calls |-> Body(f, g, c)]

Left(c) == Cardinality(Ids \ c.scan.done)

\* A call that enters its node leaves less to the calls it makes.
LEMMA LeftIs ==
    ASSUME NEW c \in Calls
    PROVE  /\ Left(c) \in Nat
           /\ c.node \notin c.scan.done => Left(c) # 0 /\ \A d \in Calling(c) : Left(d) <= Left(c) - 1
<1> DEFINE L == Ids \ c.scan.done
<1>1. IsFiniteSet(L) /\ Cardinality(L) \in Nat
  BY IdsAreFinite, FS_Subset, FS_CardinalityType
<1>2. ASSUME c.node \notin c.scan.done
      PROVE  Left(c) # 0 /\ \A d \in Calling(c) : Left(d) <= Left(c) - 1
  <2>1. c.node \in L
    BY <1>2, CallIs
  <2> HIDE DEF L
  <2>2. /\ IsFiniteSet(L \ {c.node}) /\ Cardinality(L \ {c.node}) = Cardinality(L) - 1
    BY <1>1, <2>1, FS_RemoveElement
  <2>3. Cardinality(L \ {c.node}) \in Nat
    BY <2>2, FS_CardinalityType
  <2>4. ASSUME NEW d \in Calling(c) PROVE Left(d) <= Cardinality(L) - 1
    <3>1. PICK t \in Ids, s \in Later(c) : d = Call(Pushed(c), t, s)
      BY DEF Calling
    <3>2. d.scan = s /\ c.scan.done \cup {c.node} \subseteq s.done
      BY <3>1, CallingIs DEF Later
    <3>3. Ids \ d.scan.done \subseteq L \ {c.node}
      BY <3>2 DEF L
    <3>4. Cardinality(Ids \ d.scan.done) <= Cardinality(L \ {c.node})
      BY <2>2, <3>3, FS_Subset
    <3> QED
      BY <2>2, <3>4 DEF Left
  <2>5. Left(c) = Cardinality(L)
    BY DEF Left, L
  <2> QED
    BY <1>1, <2>2, <2>3, <2>4, <2>5
<1> QED
  BY <1>1, <1>2 DEF Left

\* What visit describes exists: a function right for the calls with less left gives one
\* right for the next ...
LEMMA VisitExists ==
    ASSUME NEW g, IsGraph(g)
    PROVE  \E f : IsVisit(f, g)
<1> DEFINE Right(f, k) == \A c \in Calls : Left(c) <= k => f[c] = Body(f, g, c)
           Holds(k) == \E f \in [Calls -> Scans] : Answers(f, Calls) /\ Right(f, k)
           T == {k \in Nat : Holds(k)}
<1>1. Holds(0)
  <2> DEFINE f == [c \in Calls |-> c.scan]
  <2>1. f \in [Calls -> Scans] /\ Answers(f, Calls)
    BY CallIs DEF Answers
  <2>2. ASSUME NEW c \in Calls, Left(c) <= 0 PROVE f[c] = Body(f, g, c)
    <3>1. c.node \in c.scan.done
      BY <2>2, LeftIs
    <3> QED
      BY <3>1 DEF Body
  <2> HIDE DEF f
  <2> QED
    BY <2>1, <2>2
<1>2. ASSUME NEW k \in Nat, Holds(k) PROVE Holds(k + 1)
  <2>1. PICK f \in [Calls -> Scans] : Answers(f, Calls) /\ Right(f, k)
    BY <1>2
  <2> DEFINE e == [c \in Calls |-> Body(f, g, c)]
  <2>2. \A c \in Calls : Calling(c) \subseteq Calls
    BY CallingIs DEF Calling
  <2>3. \A c \in Calls : Answers(f, Calling(c))
    BY <2>1, <2>2 DEF Answers
  <2>4. ASSUME NEW c \in Calls PROVE Body(f, g, c) \in Scans /\ c.scan.done \subseteq Body(f, g, c).done
    <3>1. c.scan \in Scans
      BY CallIs
    <3>2. Enter(f, g, c) \in Later(c)
      BY <2>3, EnterType
    <3> QED
      BY <3>1, <3>2 DEF Later, Body
  <2>5. e \in [Calls -> Scans] /\ Answers(e, Calls)
    BY <2>4 DEF Answers
  <2>6. ASSUME NEW c \in Calls, Left(c) <= k + 1 PROVE e[c] = Body(e, g, c)
    <3>1. e[c] = Body(f, g, c)
      OBVIOUS
    <3>2. CASE c.node \in c.scan.done
      BY <3>1, <3>2 DEF Body
    <3>3. CASE c.node \notin c.scan.done
      <4>1. ASSUME NEW d \in Calling(c) PROVE e[d] = f[d]
        <5>1. d \in Calls /\ Left(d) <= Left(c) - 1 /\ Left(c) \in Nat
          BY <2>2, <3>3, LeftIs
        <5>2. Left(d) \in Nat
          BY <5>1, LeftIs
        <5>3. Left(d) <= k
          BY <2>6, <5>1, <5>2
        <5> QED
          BY <2>1, <5>1, <5>3
      <4> HIDE DEF e
      <4>2. Enter(e, g, c) = Enter(f, g, c)
        BY <2>3, <4>1, EnterAgrees
      <4> QED
        BY <3>1, <3>3, <4>2 DEF Body
    <3> QED
      BY <3>2, <3>3
  <2> HIDE DEF e
  <2> QED
    BY <2>5, <2>6
<1> HIDE DEF Holds
<1>3. Nat \subseteq T
  <2>1. 0 \in T
    BY <1>1
  <2>2. ASSUME NEW k \in Nat, k \in T PROVE k + 1 \in T
    BY <1>2, <2>2
  <2> HIDE DEF T
  <2> QED
    BY <2>1, <2>2, NatSetInduction
<1> DEFINE N == Cardinality(Ids)
<1>4. N \in Nat
  BY IdsAreFinite, FS_CardinalityType
<1>5. \A c \in Calls : Left(c) <= N
  BY IdsAreFinite, FS_Subset DEF Left
<1>6. PICK f \in [Calls -> Scans] : Answers(f, Calls) /\ Right(f, N)
  <2>1. Holds(N)
    BY <1>3, <1>4
  <2> QED
    BY <2>1 DEF Holds
<1> HIDE DEF N
<1>7. \A c \in Calls : f[c] = Body(f, g, c)
  BY <1>5, <1>6
<1>8. f = [c \in Calls |-> f[c]]
  OBVIOUS
<1>9. f = [c \in Calls |-> Body(f, g, c)]
  BY <1>7, <1>8
<1> QED
  BY <1>9 DEF IsVisit

\* ... and answers every call with a scan that goes on.
LEMMA VisitAnswers ==
    ASSUME NEW g, IsGraph(g), NEW f, IsVisit(f, g)
    PROVE  Answers(f, Calls)
<1> DEFINE T == {k \in Nat : \A c \in Calls : Left(c) <= k =>
                               f[c] \in Scans /\ c.scan.done \subseteq f[c].done}
<1>0. \A c \in Calls : f[c] = Body(f, g, c)
  BY DEF IsVisit
<1>1. 0 \in T
  <2> SUFFICES ASSUME NEW c \in Calls, Left(c) <= 0
               PROVE  f[c] \in Scans /\ c.scan.done \subseteq f[c].done
    OBVIOUS
  <2>1. c.node \in c.scan.done
    BY LeftIs
  <2> QED
    BY <1>0, <2>1, CallIs DEF Body
<1>2. ASSUME NEW k \in Nat, k \in T PROVE k + 1 \in T
  <2> SUFFICES ASSUME NEW c \in Calls, Left(c) <= k + 1
               PROVE  f[c] \in Scans /\ c.scan.done \subseteq f[c].done
    OBVIOUS
  <2>1. CASE c.node \in c.scan.done
    BY <1>0, <2>1, CallIs DEF Body
  <2>2. CASE c.node \notin c.scan.done
    <3>1. ASSUME NEW d \in Calling(c) PROVE f[d] \in Scans /\ d.scan.done \subseteq f[d].done
      <4>1. d \in Calls
        BY CallingIs DEF Calling
      <4>2. Left(d) <= Left(c) - 1 /\ Left(c) \in Nat
        BY <2>2, LeftIs
      <4>3. Left(d) \in Nat
        BY <4>1, LeftIs
      <4>4. Left(d) <= k
        BY <4>2, <4>3
      <4> QED
        BY <1>2, <4>1, <4>4
    <3>2. Enter(f, g, c) \in Later(c)
      BY <3>1, EnterType DEF Answers
    <3> QED
      BY <1>0, <2>2, <3>2 DEF Body, Later
  <2> QED
    BY <2>1, <2>2
<1>3. Nat \subseteq T
  <2> HIDE DEF T
  <2> QED
    BY <1>1, <1>2, NatSetInduction
<1>4. ASSUME NEW c \in Calls PROVE f[c] \in Scans /\ c.scan.done \subseteq f[c].done
  <2>1. Left(c) \in T /\ Left(c) <= Left(c)
    BY <1>3, LeftIs
  <2> QED
    BY <2>1
<1> QED
  BY <1>4 DEF Answers

\* The function that visit chooses.
LEMMA VisitIs ==
    ASSUME NEW g, IsGraph(g)
    PROVE  \E f : /\ IsVisit(f, g) /\ Answers(f, Calls)
                  /\ \A start, s : visit(g, start, s) = f[Call(<<>>, start, s)]
<1>1. PICK f : f = CHOOSE x : IsVisit(x, g)
  OBVIOUS
<1>2. IsVisit(f, g)
  BY <1>1, VisitExists
<1>3. ASSUME NEW start, NEW s PROVE visit(g, start, s) = f[Call(<<>>, start, s)]
  BY <1>1 DEF visit, IsVisit, Body
<1> QED
  BY <1>2, <1>3, VisitAnswers

Mutual(g, x, y) == x \in Reachable(g, y) /\ y \in Reachable(g, x)

Covered(g, s, x) == \E c \in s.seen : Mutual(g, c[1], x)

\* Mutual reachability is an equivalence on ids.
LEMMA MutualIs ==
    ASSUME NEW g, IsGraph(g)
    PROVE  /\ \A x, y : Mutual(g, x, y) => Mutual(g, y, x)
           /\ \A x, y, z \in Ids : Mutual(g, x, y) /\ Mutual(g, y, z) => Mutual(g, x, z)
<1>1. ASSUME NEW x \in Ids, NEW y \in Ids, NEW z \in Ids, Mutual(g, x, y), Mutual(g, y, z)
      PROVE  Mutual(g, x, z)
  <2>1. Reachable(g, y) \subseteq Reachable(g, z) /\ Reachable(g, y) \subseteq Reachable(g, x)
    BY <1>1, ReachTransitive DEF Mutual
  <2> QED
    BY <1>1, <2>1 DEF Mutual
<1> QED
  BY <1>1 DEF Mutual

\* Two ids that reach each other are on a cycle.
LEMMA MutualOnCycle ==
    ASSUME NEW g, IsGraph(g), NEW x \in Ids, NEW y \in Ids, Mutual(g, x, y), x # y
    PROVE  OnCycle(g, x)
<1>1. PICK z \in Ids : Edge(g, x, z) /\ y \in Reachable(g, z)
  BY ReachFirstEdge DEF Mutual
<1>2. x \in Reachable(g, z)
  BY <1>1, ReachTransitive DEF Mutual
<1> QED
  BY <1>1, <1>2, OnCycleIs

\* The ids of a cycle reach each other.
LEMMA CycleIsMutual ==
    ASSUME NEW g, IsGraph(g), NEW c, IsCycle(g, c), NEW x \in Range(c)
    PROVE  x \in Ids /\ c[1] \in Range(c) /\ c[1] \in Ids /\ Mutual(g, c[1], x)
<1> DEFINE n == Len(c)
<1>1. /\ n \in Nat /\ n # 0 /\ DOMAIN c = 1 .. n /\ \A k \in 1 .. n : c[k] \in Ids
      /\ \A k \in 1 .. n - 1 : Edge(g, c[k], c[k + 1])
      /\ Edge(g, c[n], c[1])
  <2>1. c \in Seq(Ids) /\ c # <<>>
    BY DEF IsCycle
  <2> QED
    BY <2>1 DEF IsCycle
<1> HIDE DEF n
<1>2. ASSUME NEW k \in 1 .. n - 1
      PROVE  /\ c[k + 1] \in Reachable(g, c[k])
             /\ Reachable(g, c[k + 1]) \subseteq Reachable(g, c[k])
  <2>1. c[k] \in Ids /\ Edge(g, c[k], c[k + 1])
    BY <1>1
  <2> QED
    BY <2>1, ReachEdge
<1> DEFINE T == {k \in Nat : k + 1 <= n => c[k + 1] \in Reachable(g, c[1])}
           U == {k \in Nat : k + 1 <= n => c[1] \in Reachable(g, c[n - k])}
<1>3. 0 \in T
  BY <1>1, ReachableIsLeast
<1>4. ASSUME NEW k \in Nat, k \in T PROVE k + 1 \in T
  <2> SUFFICES ASSUME (k + 1) + 1 <= n PROVE c[(k + 1) + 1] \in Reachable(g, c[1])
    OBVIOUS
  <2>1. k + 1 \in 1 .. n - 1 /\ 1 \in 1 .. n
    BY <1>1
  <2>2. c[k + 1] \in Reachable(g, c[1])
    BY <1>1, <1>4
  <2>3. Reachable(g, c[k + 1]) \subseteq Reachable(g, c[1])
    BY <1>1, <2>1, <2>2, ReachTransitive
  <2> QED
    BY <1>2, <2>1, <2>3
<1>5. Nat \subseteq T
  <2> HIDE DEF T
  <2> QED
    BY <1>3, <1>4, NatSetInduction
<1>6. 0 \in U
  <2>1. n \in 1 .. n /\ n - 0 = n
    BY <1>1
  <2>2. c[1] \in Reachable(g, c[n])
    BY <1>1, <2>1, ReachEdge
  <2> QED
    BY <2>1, <2>2
<1>7. ASSUME NEW k \in Nat, k \in U PROVE k + 1 \in U
  <2> SUFFICES ASSUME (k + 1) + 1 <= n PROVE c[1] \in Reachable(g, c[n - (k + 1)])
    OBVIOUS
  <2>1. n - (k + 1) \in 1 .. n - 1 /\ (n - (k + 1)) + 1 = n - k
    BY <1>1
  <2>2. c[1] \in Reachable(g, c[n - k])
    BY <1>1, <1>7
  <2> QED
    BY <1>2, <2>1, <2>2
<1>8. Nat \subseteq U
  <2> HIDE DEF U
  <2> QED
    BY <1>6, <1>7, NatSetInduction
<1>9. PICK i \in 1 .. n : x = c[i]
  BY <1>1 DEF Range
<1>10. c[i] \in Reachable(g, c[1])
  <2>1. i - 1 \in T /\ (i - 1) + 1 = i /\ i <= n
    BY <1>1, <1>5
  <2> QED
    BY <2>1
<1>11. c[1] \in Reachable(g, c[i])
  <2>1. n - i \in Nat /\ n - (n - i) = i /\ (n - i) + 1 <= n
    BY <1>1
  <2>2. n - i \in U
    BY <1>8, <2>1
  <2> QED
    BY <2>1, <2>2
<1>12. 1 \in 1 .. n
  BY <1>1
<1> QED
  BY <1>1, <1>9, <1>10, <1>11, <1>12 DEF Mutual, Range

\* What is on a cycle that is seen is covered.
LEMMA MarkedIsCovered ==
    ASSUME NEW g, IsGraph(g), NEW s, ScanOK(g, s), NEW x, Marked(s, x)
    PROVE  x \in Ids /\ Covered(g, s, x)
BY CycleIsMutual DEF Marked, Covered, ScanOK

\* Covering extends to what an id reaches and is reached from.
LEMMA CoveredIsShared ==
    ASSUME NEW g, IsGraph(g), NEW s, ScanOK(g, s), NEW x \in Ids, NEW y \in Ids,
           Covered(g, s, x), Mutual(g, x, y)
    PROVE  Covered(g, s, y)
<1>1. PICK c \in s.seen : Mutual(g, c[1], x)
  BY DEF Covered
<1>2. c[1] \in Ids
  <2>1. IsCycle(g, c)
    BY DEF ScanOK
  <2>2. c \in Seq(Ids) /\ c # <<>>
    BY <2>1 DEF IsCycle
  <2> QED
    BY <2>2
<1> QED
  BY <1>1, <1>2, MutualIs DEF Covered

\* A finished id is one that is done and no longer on the stack.  Its targets are done,
\* those on the stack are marked, and if it is on a cycle, a report covers it or the stack
\* still holds an id of that knot.
Finished(st, s) == s.done \ Range(st)

Settled(g, B, st, s) ==
    /\ ScanOK(g, s) /\ s.done \subseteq B
    /\ \A x \in Finished(st, s) : \A y : Edge(g, x, y) =>
         y \in s.done /\ (y \in Range(st) => Marked(s, y))
    /\ \A x \in Finished(st, s) : OnCycle(g, x) =>
         Covered(g, s, x) \/ \E t \in Range(st) : Mutual(g, x, t)

\* When the last target of n is through, n is finished.
LEMMA PopSettles ==
    ASSUME NEW g, IsGraph(g), NEW B, B \subseteq Ids, NEW st, NEW p, NEW n \in Ids, NEW s,
           Range(p) = Range(st) \cup {n}, n \notin Range(st), Range(p) \subseteq s.done,
           Settled(g, B, p, s),
           \A y : Edge(g, n, y) => y \in s.done /\ (y \in Range(p) => Marked(s, y))
    PROVE  Settled(g, B, st, s)
<1>1. Finished(st, s) = Finished(p, s) \cup {n} /\ n \in s.done /\ s.done \subseteq Ids
  BY DEF Finished, Settled
<1>2. ASSUME NEW x \in Finished(st, s), NEW y, Edge(g, x, y)
      PROVE  y \in s.done /\ (y \in Range(st) => Marked(s, y))
  BY <1>1, <1>2 DEF Settled
<1>3. (\E w \in Range(st) : Mutual(g, n, w)) \/ (OnCycle(g, n) => Marked(s, n))
  <2> SUFFICES ASSUME \A w \in Range(st) : ~ Mutual(g, n, w), OnCycle(g, n), ~ Marked(s, n)
               PROVE  FALSE
    OBVIOUS
  <2>1. PICK y : Edge(g, n, y) /\ n \in Reachable(g, y)
    BY OnCycleIs
  <2> DEFINE V == {w \in Ids : \/ n \notin Reachable(g, w)
                               \/ w \in s.done /\ w # n /\ w \in Reachable(g, n)}
  <2>2. y \in Ids /\ y \in s.done /\ y # n /\ y \in Reachable(g, n)
    <3>1. n \in Range(p)
      OBVIOUS
    <3> QED
      BY <2>1, <3>1, ReachEdge
  <2>3. ASSUME NEW w \in V, NEW z, Edge(g, w, z) PROVE z \in V
    <3>1. z \in Ids /\ z \in Reachable(g, w) /\ Reachable(g, z) \subseteq Reachable(g, w)
      BY <2>3, ReachEdge
    <3>2. CASE n \notin Reachable(g, w)
      BY <3>1, <3>2
    <3>3. CASE n \in Reachable(g, w)
      <4>1. w \in s.done /\ w # n /\ w \in Reachable(g, n)
        BY <3>3
      <4>2. Mutual(g, n, w)
        BY <3>3, <4>1 DEF Mutual
      <4>3. w \in Finished(p, s)
        BY <4>1, <4>2 DEF Finished
      <4>4. z \in s.done /\ (z \in Range(p) => Marked(s, z))
        BY <2>3, <4>3 DEF Settled
      <4>5. z # n
        BY <4>4
      <4>6. z \in Reachable(g, n)
        <5>1. Reachable(g, w) \subseteq Reachable(g, n)
          BY <4>1, ReachTransitive
        <5> QED
          BY <3>1, <5>1
      <4> QED
        BY <3>1, <4>4, <4>5, <4>6
    <3> QED
      BY <3>2, <3>3
  <2>4. y \in V
    BY <2>2
  <2>5. n \notin V
    BY ReachableIsLeast
  <2> HIDE DEF V
  <2>6. Reachable(g, y) \subseteq V
    BY <2>2, <2>3, <2>4, ReachableIsLeast DEF Closed
  <2> QED
    BY <2>1, <2>5, <2>6
<1>4. ASSUME NEW x \in Finished(st, s), OnCycle(g, x)
      PROVE  Covered(g, s, x) \/ \E t \in Range(st) : Mutual(g, x, t)
  <2>0. ScanOK(g, s) /\ x \in Ids
    BY <1>1, <1>4 DEF Settled, Finished
  <2>1. \/ Covered(g, s, x)
        \/ \E t \in Range(st) : Mutual(g, x, t)
        \/ Mutual(g, x, n) /\ (x # n \/ OnCycle(g, n))
    <3>1. CASE x = n
      <4>1. Mutual(g, n, n)
        BY ReachableIsLeast DEF Mutual
      <4> QED
        BY <1>4, <3>1, <4>1
    <3>2. CASE x # n
      <4>1. x \in Finished(p, s)
        BY <1>1, <3>2
      <4> QED
        BY <1>4, <3>2, <4>1 DEF Settled
    <3> QED
      BY <3>1, <3>2
  <2>2. CASE Mutual(g, x, n) /\ (x # n \/ OnCycle(g, n))
    <3>1. OnCycle(g, n) /\ Mutual(g, n, x)
      BY <2>0, <2>2, MutualIs, MutualOnCycle
    <3>2. CASE Marked(s, n)
      BY <2>0, <3>1, <3>2, MarkedIsCovered, CoveredIsShared
    <3>3. CASE \E w \in Range(st) : Mutual(g, n, w)
      <4>1. PICK w \in Range(st) : Mutual(g, n, w)
        BY <3>3
      <4>2. w \in Ids
        BY <1>1
      <4> QED
        BY <2>0, <2>2, <4>1, <4>2, MutualIs
    <3> QED
      BY <1>3, <3>1, <3>2, <3>3
  <2> QED
    BY <2>1, <2>2
<1> QED
  BY <1>2, <1>4 DEF Settled

\* A call that visit makes: the stack is a path to the node, through ids that are done.
Ready(g, B, c) ==
    /\ c \in Calls /\ Settled(g, B, c.stack, c.scan)
    /\ IsPath(g, c.stack) /\ Range(c.stack) \subseteq c.scan.done
    /\ c.node \in B /\ c.node \notin Range(c.stack)
    /\ c.stack # <<>> => Edge(g, c.stack[Len(c.stack)], c.node)

\* How it returns.
Returned(g, B, c, s) ==
    Settled(g, B, c.stack, s) /\ c.scan.seen \subseteq s.seen /\ c.node \in s.done

\* The stack with the node is a path that ends in the node.
LEMMA PushedIsPath ==
    ASSUME NEW g, NEW B, NEW c, Ready(g, B, c)
    PROVE  /\ IsPath(g, Pushed(c)) /\ Pushed(c)[Len(Pushed(c))] = c.node
           /\ Pushed(c) # <<>>
<1> DEFINE p == c.stack
           q == Pushed(c)
           n == Len(p)
<1>1. p \in Seq(Ids) /\ c.node \in Ids /\ q = Append(p, c.node) /\ IsPath(g, p)
      /\ c.node \notin Range(p)
  BY CallIs DEF Ready, Pushed
<1>2. /\ n \in Nat /\ q \in Seq(Ids) /\ Len(q) = n + 1 /\ \A i \in 1 .. n : q[i] = p[i]
      /\ q[n + 1] = c.node
  BY <1>1
<1>3. IsInjective(q)
  <2>1. IsInjective(p) /\ c.node \notin ToSet(p)
    BY <1>1 DEF IsPath, ToSet, Range
  <2> QED
    BY <1>1, <2>1, AppendElements
<1>4. p # <<>> => Edge(g, p[n], c.node)
  BY DEF Ready
<1> HIDE DEF q
<1>5. ASSUME NEW k \in 1 .. Len(q) - 1 PROVE Edge(g, q[k], q[k + 1])
  <2>1. CASE k = n
    <3>1. p # <<>> /\ k \in 1 .. n
      BY <1>1, <1>2, <2>1
    <3> QED
      BY <1>2, <1>4, <2>1, <3>1
  <2>2. CASE k # n
    <3>1. k \in 1 .. n - 1 /\ k \in 1 .. n /\ k + 1 \in 1 .. n
      BY <1>2, <2>2
    <3>2. Edge(g, p[k], p[k + 1])
      BY <1>1, <3>1 DEF IsPath
    <3> QED
      BY <1>2, <3>1, <3>2
  <2> QED
    BY <2>1, <2>2
<1>6. q # <<>>
  BY <1>2
<1> QED
  BY <1>2, <1>3, <1>5, <1>6 DEF IsPath, q

\* A report on the stack keeps it settled.
LEMMA ReportSettles ==
    ASSUME NEW g, NEW B, NEW s, NEW p, Settled(g, B, p, s), IsPath(g, p),
           NEW t \in Range(p), Range(p) \subseteq s.done, Edge(g, p[Len(p)], t)
    PROVE  Settled(g, B, p, report_cycle(s, p, t))
<1> DEFINE r == report_cycle(s, p, t)
<1>1. s \in Scans /\ p \in Seq(Ids) /\ ScanOK(g, s)
  BY DEF Settled, ScanOK, IsPath
<1>2. ScanOK(g, r) /\ r.done = s.done /\ s.seen \subseteq r.seen
  BY <1>1, ReportOK, ReportIs
<1> HIDE DEF r
<1>3. \A x : (Marked(s, x) => Marked(r, x)) /\ (Covered(g, s, x) => Covered(g, r, x))
  BY <1>2 DEF Marked, Covered
<1>4. Finished(p, r) = Finished(p, s)
  BY <1>2 DEF Finished
<1>5. Settled(g, B, p, r)
  BY <1>2, <1>3, <1>4 DEF Settled
<1> QED
  BY <1>5 DEF r

\* One target of a node, if the calls to other nodes return as they should.
LEMMA TurnSettles ==
    ASSUME NEW g, IsGraph(g), NEW B, B \subseteq Ids, Closed(g, B), NEW c, Ready(g, B, c),
           NEW f, Answers(f, Calls),
           \A d \in Calling(c) : Ready(g, B, d) => Returned(g, B, d, f[d]),
           NEW s \in Later(c), Settled(g, B, Pushed(c), s), NEW t, Edge(g, c.node, t)
    PROVE  LET r == Turn(f, Pushed(c), s, t) IN
           /\ Settled(g, B, Pushed(c), r) /\ r \in Later(c)
           /\ s.seen \subseteq r.seen /\ s.done \subseteq r.done
           /\ t \in r.done /\ (t \in Range(Pushed(c)) => Marked(r, t))
<1> DEFINE p == Pushed(c)
           r == Turn(f, p, s, t)
<1>1. /\ c \in Calls /\ c.node \in B /\ c.node \in Ids /\ t \in Ids /\ t \in B
      /\ p \in Seq(Ids) /\ s \in Scans
  <2>1. c \in Calls /\ c.node \in B
    BY DEF Ready
  <2>2. c.node \in Ids /\ p \in Seq(Ids) /\ s \in Scans
    BY <2>1, CallIs DEF Later
  <2>3. t \in Ids /\ t \in B
    BY <2>1, <2>2, ReachEdge DEF Closed
  <2> QED
    BY <2>1, <2>2, <2>3
<1>2. Range(p) \subseteq s.done
  <2>1. Range(p) = Range(c.stack) \cup {c.node}
    BY <1>1, CallIs
  <2>2. c.scan.done \cup {c.node} \subseteq s.done /\ Range(c.stack) \subseteq c.scan.done
    BY DEF Later, Ready
  <2> QED
    BY <2>1, <2>2
<1>3. IsPath(g, p) /\ p[Len(p)] = c.node
  BY PushedIsPath
<1>4. CASE t \in Range(p)
  <2>1. r = report_cycle(s, p, t)
    BY <1>4 DEF Turn
  <2> HIDE DEF p, r
  <2>2. Settled(g, B, p, report_cycle(s, p, t))
    BY <1>2, <1>3, <1>4, ReportSettles DEF p
  <2>3. LET q == report_cycle(s, p, t) IN
        q \in Scans /\ q.done = s.done /\ s.seen \subseteq q.seen /\ Marked(q, t)
    BY <1>1, <1>4, ReportIs
  <2>4. r \in Later(c)
    BY <2>1, <2>3 DEF Later
  <2> QED
    BY <1>2, <1>4, <2>1, <2>2, <2>3, <2>4 DEF p, r
<1>5. CASE t \notin Range(p)
  <2> DEFINE d == Call(p, t, s)
  <2>1. r = f[d]
    BY <1>5 DEF Turn
  <2>2. d \in Calling(c) /\ d \in Calls /\ d.stack = p /\ d.node = t /\ d.scan = s
    BY <1>1, CallingIs
  <2> HIDE DEF p, r, d
  <2>3. Ready(g, B, d)
    BY <1>1, <1>2, <1>3, <1>5, <2>2 DEF Ready, p
  <2>4. Returned(g, B, d, f[d])
    BY <2>2, <2>3
  <2>5. f[d] \in Scans /\ s.done \subseteq f[d].done
    BY <2>2 DEF Answers
  <2>6. f[d] \in Later(c)
    BY <2>5 DEF Later
  <2> QED
    BY <1>5, <2>1, <2>2, <2>4, <2>5, <2>6 DEF Returned, p, r
<1> QED
  BY <1>4, <1>5

\* A node that is entered settles with its last target.
LEMMA EnterSettles ==
    ASSUME NEW g, IsGraph(g), NEW B, B \subseteq Ids, Closed(g, B), NEW c, Ready(g, B, c),
           c.node \notin c.scan.done, NEW f, Answers(f, Calls),
           \A d \in Calling(c) : Ready(g, B, d) => Returned(g, B, d, f[d])
    PROVE  Returned(g, B, c, Enter(f, g, c))
<1> DEFINE ts == Targets(g, c.node)
           n == Len(ts)
           p == Pushed(c)
<1>1. c \in Calls /\ Calling(c) \subseteq Calls
  BY CallingIs DEF Ready, Calling
<1>2. PICK h : Rounds(h, f, g, c) /\ Enter(f, g, c) = h[n]
  <2>1. Answers(f, Calling(c))
    BY <1>1 DEF Answers
  <2> QED
    BY <1>1, <2>1, EnterIs
<1>3. /\ n \in Nat /\ \A i \in 1 .. n : Edge(g, c.node, ts[i])
      /\ \A y : Edge(g, c.node, y) => \E i \in 1 .. n : y = ts[i]
  BY TargetsAre
<1>4. /\ h[0] = Entered(c) /\ \A i \in 0 .. n : h[i] \in Later(c)
      /\ \A i \in 1 .. n : h[i] = Turn(f, p, h[i - 1], ts[i])
  BY <1>2 DEF Rounds
<1>5. /\ p \in Seq(Ids) /\ Range(p) = Range(c.stack) \cup {c.node}
      /\ c.stack \in Seq(Ids) /\ c.node \in Ids
      /\ Entered(c).done = c.scan.done \cup {c.node}
      /\ Entered(c).seen = c.scan.seen /\ Entered(c).out = c.scan.out
      /\ Entered(c) \in Scans
  BY <1>1, CallIs DEF Later
<1>6. Settled(g, B, p, Entered(c))
  <2>1. Settled(g, B, c.stack, c.scan) /\ c.node \in B /\ c.node \notin Range(c.stack)
    BY DEF Ready
  <2>2. ScanOK(g, Entered(c)) /\ Entered(c).done \subseteq B
    BY <1>5, <2>1 DEF Settled, ScanOK
  <2>3. Finished(p, Entered(c)) = Finished(c.stack, c.scan)
    BY <1>5, <2>1 DEF Finished
  <2>4. \A x : /\ Marked(c.scan, x) => Marked(Entered(c), x)
               /\ Covered(g, c.scan, x) => Covered(g, Entered(c), x)
    BY <1>5 DEF Marked, Covered
  <2>5. ASSUME NEW x \in Finished(p, Entered(c)), NEW y, Edge(g, x, y)
        PROVE  y \in Entered(c).done /\ (y \in Range(p) => Marked(Entered(c), y))
    <3>1. y \in c.scan.done /\ (y \in Range(c.stack) => Marked(c.scan, y))
      BY <2>1, <2>3, <2>5 DEF Settled
    <3>2. y # c.node
      BY <3>1
    <3> QED
      BY <1>5, <2>4, <3>1, <3>2
  <2>6. ASSUME NEW x \in Finished(p, Entered(c)), OnCycle(g, x)
        PROVE  Covered(g, Entered(c), x) \/ \E t \in Range(p) : Mutual(g, x, t)
    <3>1. Covered(g, c.scan, x) \/ \E t \in Range(c.stack) : Mutual(g, x, t)
      BY <2>1, <2>3, <2>6 DEF Settled
    <3> QED
      BY <1>5, <2>4, <3>1
  <2> QED
    BY <2>2, <2>5, <2>6 DEF Settled
<1> HIDE DEF ts, n
<1> DEFINE Seen(i) == /\ Settled(g, B, p, h[i]) /\ c.scan.seen \subseteq h[i].seen
                      /\ \A j \in 1 .. i : /\ ts[j] \in h[i].done
                                           /\ ts[j] \in Range(p) => Marked(h[i], ts[j])
           T == {i \in Nat : i <= n => Seen(i)}
<1>7. Seen(0)
  BY <1>4, <1>5, <1>6
<1>8. ASSUME NEW i \in Nat, i + 1 <= n, Seen(i) PROVE Seen(i + 1)
  <2>1. i + 1 \in 1 .. n /\ (i + 1) - 1 = i /\ i \in 0 .. n
    BY <1>3, <1>8
  <2>2. h[i + 1] = Turn(f, p, h[i], ts[i + 1]) /\ Edge(g, c.node, ts[i + 1]) /\ h[i] \in Later(c)
    BY <1>3, <1>4, <2>1
  <2>3. /\ Settled(g, B, p, h[i + 1]) /\ h[i].seen \subseteq h[i + 1].seen
        /\ h[i].done \subseteq h[i + 1].done
        /\ ts[i + 1] \in h[i + 1].done /\ (ts[i + 1] \in Range(p) => Marked(h[i + 1], ts[i + 1]))
    BY <1>8, <2>2, TurnSettles
  <2>4. ASSUME NEW j \in 1 .. i + 1
        PROVE  ts[j] \in h[i + 1].done /\ (ts[j] \in Range(p) => Marked(h[i + 1], ts[j]))
    <3>1. CASE j = i + 1
      BY <2>3, <3>1
    <3>2. CASE j # i + 1
      <4>1. j \in 1 .. i
        BY <3>2
      <4> QED
        BY <1>8, <2>3, <4>1 DEF Marked
    <3> QED
      BY <3>1, <3>2
  <2> QED
    BY <1>8, <2>3, <2>4
<1> HIDE DEF Seen
<1>9. Nat \subseteq T
  <2>1. 0 \in T
    BY <1>7
  <2>2. ASSUME NEW i \in Nat, i \in T PROVE i + 1 \in T
    BY <1>3, <1>8, <2>2
  <2> HIDE DEF T
  <2> QED
    BY <2>1, <2>2, NatSetInduction
<1>10. Seen(n) /\ h[n] \in Later(c)
  BY <1>3, <1>4, <1>9
<1>11. Settled(g, B, c.stack, h[n])
  <2>1. Range(c.stack) \subseteq c.scan.done /\ c.node \notin Range(c.stack)
    BY DEF Ready
  <2>2. Range(p) \subseteq h[n].done
    BY <1>5, <1>10, <2>1 DEF Later
  <2>3. \A y : Edge(g, c.node, y) => y \in h[n].done /\ (y \in Range(p) => Marked(h[n], y))
    BY <1>3, <1>10 DEF Seen
  <2>4. Settled(g, B, p, h[n])
    BY <1>10 DEF Seen
  <2> HIDE DEF p
  <2> QED
    BY <1>5, <2>1, <2>2, <2>3, <2>4, PopSettles
<1> QED
  BY <1>2, <1>10, <1>11 DEF Returned, Seen, Later

-------------------------------------------------------------------------------
(* Scans.                                                                  *)

\* Every call returns settled: by induction on what is left to do.
LEMMA VisitSettles ==
    ASSUME NEW g, IsGraph(g), NEW B, B \subseteq Ids, Closed(g, B), NEW f, IsVisit(f, g)
    PROVE  \A c \in Calls : Ready(g, B, c) => Returned(g, B, c, f[c])
<1> DEFINE T == {k \in Nat : \A c \in Calls : Left(c) <= k /\ Ready(g, B, c)
                               => Returned(g, B, c, f[c])}
<1>0. /\ \A c \in Calls : f[c] = Body(f, g, c)
      /\ Answers(f, Calls)
  BY VisitAnswers DEF IsVisit
<1>1. ASSUME NEW c \in Calls, Ready(g, B, c), c.node \in c.scan.done
      PROVE  Returned(g, B, c, f[c])
  <2>1. f[c] = c.scan
    BY <1>0, <1>1 DEF Body
  <2> QED
    BY <1>1, <2>1 DEF Returned, Ready
<1>2. 0 \in T
  <2> SUFFICES ASSUME NEW c \in Calls, Left(c) <= 0, Ready(g, B, c)
               PROVE  Returned(g, B, c, f[c])
    OBVIOUS
  <2>1. c.node \in c.scan.done
    BY LeftIs
  <2> QED
    BY <1>1, <2>1
<1>3. ASSUME NEW k \in Nat, k \in T PROVE k + 1 \in T
  <2> SUFFICES ASSUME NEW c \in Calls, Left(c) <= k + 1, Ready(g, B, c),
                      c.node \notin c.scan.done
               PROVE  Returned(g, B, c, f[c])
    BY <1>1
  <2>1. ASSUME NEW d \in Calling(c), Ready(g, B, d) PROVE Returned(g, B, d, f[d])
    <3>1. d \in Calls
      BY CallingIs DEF Calling
    <3>2. Left(d) <= Left(c) - 1 /\ Left(c) \in Nat
      BY LeftIs
    <3>3. Left(d) \in Nat
      BY <3>1, LeftIs
    <3>4. Left(d) <= k
      BY <3>2, <3>3
    <3> QED
      BY <1>3, <2>1, <3>1, <3>4
  <2>2. f[c] = Enter(f, g, c)
    BY <1>0 DEF Body
  <2>3. Returned(g, B, c, Enter(f, g, c))
    BY <1>0, <2>1, EnterSettles
  <2> QED
    BY <2>2, <2>3
<1>4. Nat \subseteq T
  <2> HIDE DEF T
  <2> QED
    BY <1>2, <1>3, NatSetInduction
<1>5. ASSUME NEW c \in Calls, Ready(g, B, c) PROVE Returned(g, B, c, f[c])
  <2>1. Left(c) \in T /\ Left(c) <= Left(c)
    BY <1>4, LeftIs
  <2> QED
    BY <1>5, <2>1
<1> QED
  BY <1>5

\* A visit from outside: the start is done, and everything settled.
LEMMA VisitFromOutside ==
    ASSUME NEW g, IsGraph(g), NEW B, B \subseteq Ids, Closed(g, B),
           NEW s, Settled(g, B, <<>>, s), NEW start \in B
    PROVE  LET r == visit(g, start, s) IN
           r \in Scans /\ Settled(g, B, <<>>, r) /\ s.done \subseteq r.done /\ start \in r.done
<1>1. PICK f : /\ IsVisit(f, g) /\ Answers(f, Calls)
               /\ \A x, y : visit(g, x, y) = f[Call(<<>>, x, y)]
  BY VisitIs
<1> DEFINE c == Call(<<>>, start, s)
<1>2. c \in Calls /\ c.stack = <<>> /\ c.node = start /\ c.scan = s
  <2>1. s \in Scans /\ start \in Ids
    BY DEF Settled, ScanOK
  <2> QED
    BY <2>1 DEF Call, Calls
<1>3. visit(g, start, s) = f[c]
  BY <1>1
<1> HIDE DEF c
<1>4. IsPath(g, <<>>) /\ Range(<<>>) = {}
  BY DEF IsPath, IsInjective, Range
<1>5. Ready(g, B, c)
  BY <1>2, <1>4 DEF Ready
<1>6. Returned(g, B, c, f[c])
  BY <1>1, <1>2, <1>5, VisitSettles
<1>7. f[c] \in Scans /\ s.done \subseteq f[c].done
  BY <1>1, <1>2 DEF Answers
<1> QED
  BY <1>2, <1>3, <1>6, <1>7 DEF Returned

\* A scan that has not begun.
LEMMA NewScanSettles ==
    ASSUME NEW g, NEW B
    PROVE  NewScan \in Scans /\ Settled(g, B, <<>>, NewScan)
<1>1. /\ NewScan \in Scans /\ NewScan.done = {} /\ NewScan.seen = {} /\ NewScan.out = <<>>
  <2>1. <<>> \in Seq(Seq(Ids))
    OBVIOUS
  <2> QED
    BY <2>1 DEF NewScan, Scans
<1>2. ScanOK(g, NewScan)
  BY <1>1 DEF ScanOK, IsInjective
<1> QED
  BY <1>1, <1>2 DEF Settled, Finished

\* What is done in a settled scan is closed, and its knots are covered.
LEMMA OutsideIs ==
    ASSUME NEW g, NEW B, NEW s, Settled(g, B, <<>>, s)
    PROVE  /\ Closed(g, s.done)
           /\ \A x \in s.done : OnCycle(g, x) => Covered(g, s, x)
<1>1. Range(<<>>) = {}
  BY DEF Range
<1>2. Finished(<<>>, s) = s.done
  BY <1>1 DEF Finished
<1> QED
  BY <1>1, <1>2 DEF Settled, Closed

\* A report repeats its first id at its end.
LEMMA FullIs ==
    ASSUME NEW g, NEW c, IsCycle(g, c)
    PROVE  /\ Full(c) \in Seq(Ids) /\ Len(Full(c)) = Len(c) + 1 /\ Len(c) \in Nat /\ Len(c) # 0
           /\ Full(c)[1] = c[1] /\ Full(c)[Len(c) + 1] = c[1]
           /\ \A k \in 1 .. Len(c) : Full(c)[k] = c[k]
           /\ Front(Full(c)) = c /\ Last(Full(c)) = c[1]
<1>1. c \in Seq(Ids) /\ c # <<>>
  BY DEF IsCycle
<1>2. c[1] \in Ids /\ Len(c) \in Nat /\ Len(c) # 0
  BY <1>1
<1>3. /\ Full(c) \in Seq(Ids) /\ Len(Full(c)) = Len(c) + 1
      /\ \A k \in 1 .. Len(c) : Full(c)[k] = c[k]
      /\ Full(c)[Len(c) + 1] = c[1]
  BY <1>1, <1>2 DEF Full
<1>4. Front(Full(c)) = c
  <2>1. Front(Full(c)) = SubSeq(Full(c), 1, Len(c))
    BY <1>2, <1>3 DEF Front
  <2>2. SubSeq(Append(c, c[1]), 1, Len(c)) = SubSeq(c, 1, Len(c)) /\ SubSeq(c, 1, Len(c)) = c
    <3>1. Len(c) \in 1 .. Len(c)
      BY <1>2
    <3>2. SubSeq(c, 1, Len(c)) = c
      BY <1>1
    <3> QED
      BY <1>1, <1>2, <3>1, <3>2, AppendPrefixes
  <2> QED
    BY <2>1, <2>2 DEF Full
<1>5. Last(Full(c)) = c[1]
  BY <1>3 DEF Last
<1>6. Full(c)[1] = c[1]
  BY <1>2, <1>3
<1> QED
  BY <1>2, <1>3, <1>4, <1>5, <1>6

\* The reports of a settled scan are cycles.
LEMMA SettledReports ==
    ASSUME NEW g, IsGraph(g), NEW s, ScanOK(g, s)
    PROVE  ReportsAreCycles(g, s.out)
<1>1. IsInjective(s.out)
  BY DEF ScanOK
<1>2. ASSUME NEW r \in Range(s.out)
      PROVE  /\ Len(r) > 1 /\ r[1] = Last(r) /\ IsInjective(Front(r))
             /\ \A k \in 1 .. Len(r) - 1 :
                  r[k + 1] \in Range(Targets(g, r[k])) /\ Rank(r[1]) <= Rank(r[k])
  <2>1. PICK c \in s.seen : r = Full(c)
    BY <1>2 DEF ScanOK, Range
  <2>2. IsCycle(g, c)
    BY DEF ScanOK
  <2>3. /\ Len(r) = Len(c) + 1 /\ Len(c) \in Nat /\ Len(c) # 0
        /\ r[1] = c[1] /\ r[Len(c) + 1] = c[1]
        /\ \A k \in 1 .. Len(c) : r[k] = c[k]
        /\ Front(r) = c /\ Last(r) = c[1]
    BY <2>1, <2>2, FullIs
  <2>4. Len(r) > 1 /\ r[1] = Last(r) /\ IsInjective(Front(r))
    BY <2>2, <2>3 DEF IsCycle
  <2>5. ASSUME NEW k \in 1 .. Len(r) - 1
        PROVE  r[k + 1] \in Range(Targets(g, r[k])) /\ Rank(r[1]) <= Rank(r[k])
    <3>1. k \in 1 .. Len(c) /\ r[k] = c[k]
      BY <2>3
    <3>2. Rank(r[1]) <= Rank(r[k])
      BY <2>2, <2>3, <3>1 DEF IsCycle
    <3>3. Edge(g, r[k], r[k + 1])
      <4>1. CASE k = Len(c)
        BY <2>2, <2>3, <3>1, <4>1 DEF IsCycle
      <4>2. CASE k # Len(c)
        <5>1. k \in 1 .. Len(c) - 1 /\ k + 1 \in 1 .. Len(c)
          BY <2>3, <3>1, <4>2
        <5> QED
          BY <2>2, <2>3, <3>1, <5>1 DEF IsCycle
      <4> QED
        BY <4>1, <4>2
    <3> QED
      BY <3>2, <3>3 DEF Edge, Targets
  <2> QED
    BY <2>4, <2>5
<1> QED
  BY <1>1, <1>2 DEF ReportsAreCycles

\* The scan from one entry reports something exactly if a cycle can be reached from it.
LEMMA ScanOfOneIsExact ==
    ASSUME NEW g, IsGraph(g), NEW id \in Ids
    PROVE  visit(g, id, NewScan).out # <<>> <=> CyclicFrom(g, id)
<1> DEFINE B == Reachable(g, id)
           r == visit(g, id, NewScan)
<1>1. B \subseteq Ids /\ Closed(g, B) /\ id \in B
  BY ReachableIsLeast
<1> HIDE DEF B, r
<1>2. Settled(g, B, <<>>, r) /\ id \in r.done /\ r \in Scans
  BY <1>1, NewScanSettles, VisitFromOutside DEF r
<1>3. ScanOK(g, r) /\ r.done \subseteq B
  BY <1>2 DEF Settled
<1>4. B \subseteq r.done
  BY <1>2, OutsideIs, ReachableIsLeast DEF B
<1>5. r.out \in Seq(Seq(Ids))
  BY <1>2 DEF Scans
<1>6. ASSUME r.out # <<>> PROVE CyclicFrom(g, id)
  <2>1. 1 \in DOMAIN r.out
    <3> DEFINE E == Seq(Ids)
    <3>1. r.out \in Seq(E)
      BY <1>5
    <3> HIDE DEF E
    <3> QED
      BY <1>6, <3>1
  <2>2. PICK c \in r.seen : IsCycle(g, c) /\ Range(c) \subseteq r.done
    BY <1>3, <2>1 DEF ScanOK
  <2> DEFINE x == c[Len(c)]
  <2>3. x \in Range(c) /\ Edge(g, x, c[1])
    <3>1. c \in Seq(Ids) /\ c # <<>> /\ Edge(g, x, c[1])
      BY <2>2 DEF IsCycle
    <3>2. Len(c) \in DOMAIN c
      BY <3>1
    <3> QED
      BY <3>1, <3>2 DEF Range
  <2> HIDE DEF x
  <2>4. x \in Reachable(g, c[1])
    BY <2>2, <2>3, CycleIsMutual DEF Mutual
  <2>5. OnCycle(g, x)
    BY <2>3, <2>4, OnCycleIs
  <2> QED
    BY <1>3, <2>2, <2>3, <2>5 DEF CyclicFrom, B
<1>7. ASSUME CyclicFrom(g, id) PROVE r.out # <<>>
  <2>1. PICK x \in Reachable(g, id) : OnCycle(g, x)
    BY <1>7 DEF CyclicFrom
  <2>2. Covered(g, r, x)
    BY <1>2, <1>4, <2>1, OutsideIs DEF B
  <2>3. PICK c \in r.seen : TRUE
    BY <2>2 DEF Covered
  <2>4. DOMAIN r.out # {}
    BY <1>3, <2>3 DEF ScanOK
  <2> QED
    BY <2>4
<1> QED
  BY <1>6, <1>7 DEF r

\* h is the scan of all ids after each of them, in order.
Starts(h, t) ==
    LET n == Len(IdOrder)
        g == route_graph(t)
    IN  /\ h \in [0 .. n -> {s \in Scans : Settled(g, Ids, <<>>, s)}]
        /\ h[0] = NewScan
        /\ \A i \in 1 .. n : h[i] = IF t[IdOrder[i]] = None THEN h[i - 1]
                                    ELSE visit(g, IdOrder[i], h[i - 1])

\* Every id is a closed part of the graph with all others.
LEMMA IdsAreClosed ==
    ASSUME NEW g, IsGraph(g)
    PROVE  Closed(g, Ids)
BY ReachEdge DEF Closed

\* find_cycles visits one id after the other.
LEMMA StartsAre ==
    ASSUME NEW t, Providers(t)
    PROVE  \E h : Starts(h, t) /\ find_cycles(t) = h[Len(IdOrder)].out
<1> DEFINE n == Len(IdOrder)
           g == route_graph(t)
           S == {s \in Scans : Settled(g, Ids, <<>>, s)}
           V(x, id) == IF t[id] = None THEN x ELSE visit(g, id, x)
           F == [i \in 1 .. n |-> [x \in S |-> V(x, IdOrder[i])]]
           Is(k) == k = [s \in SUBSET DOMAIN IdOrder |->
                           IF s = {} THEN NewScan ELSE V(k[s \ {Max(s)}], IdOrder[Max(s)])]
<1>1. n \in Nat /\ DOMAIN IdOrder = 1 .. n /\ \A i \in 1 .. n : IdOrder[i] \in Ids
  BY ResolutionAssumption
<1>2. NewScan \in S
  BY NewScanSettles
<1>3. ASSUME NEW x \in S, NEW id \in Ids PROVE V(x, id) \in S
  <2>1. IsGraph(g) /\ Closed(g, Ids) /\ Ids \subseteq Ids
    BY TablesAreGraphs, IdsAreClosed
  <2> HIDE DEF g
  <2>2. visit(g, id, x) \in S
    BY <2>1, VisitFromOutside
  <2> HIDE DEF S
  <2> QED
    BY <2>2
<1> HIDE DEF n, S
<1>4. F \in [1 .. n -> [S -> S]]
  <2>1. \A i \in 1 .. n : [x \in S |-> V(x, IdOrder[i])] \in [S -> S]
    <3> HIDE DEF V
    <3> QED
      BY <1>1, <1>3
  <2> HIDE DEF V
  <2> QED
    BY <2>1
<1>5. PICK h \in [0 .. n -> S] : Steps(h, n, NewScan, F)
  <2> HIDE DEF F
  <2> QED
    BY <1>1, <1>2, <1>4, StepsExist
<1>6. PICK it \in [SUBSET (1 .. n) -> S] : FoldsOver(it, 1 .. n, NewScan, F)
  <2> HIDE DEF F
  <2> QED
    BY <1>1, <1>2, <1>4, FoldExists
<1>7. Is(it)
  <2>1. ASSUME NEW s \in SUBSET (1 .. n)
        PROVE  it[s] = IF s = {} THEN NewScan ELSE V(it[s \ {Max(s)}], IdOrder[Max(s)])
    <3> HIDE DEF V
    <3>1. CASE s = {}
      BY <1>6, <3>1 DEF FoldsOver
    <3>2. CASE s # {}
      <4>1. Max(s) \in 1 .. n
        BY <1>1, <3>2, MaxOfIndices
      <4>2. s \ {Max(s)} \in SUBSET (1 .. n) /\ it[s \ {Max(s)}] \in S
        OBVIOUS
      <4>3. it[s] = F[Max(s)][it[s \ {Max(s)}]]
        BY <1>6, <3>2 DEF FoldsOver
      <4> QED
        BY <3>2, <4>1, <4>2, <4>3
    <3> QED
      BY <3>1, <3>2
  <2>2. it = [s \in SUBSET (1 .. n) |-> it[s]]
    OBVIOUS
  <2> HIDE DEF V
  <2> QED
    BY <1>1, <2>1, <2>2
<1>8. PICK k : k = CHOOSE x : Is(x)
  OBVIOUS
<1>9. Is(k)
  BY <1>7, <1>8
<1>10. find_cycles(t) = k[1 .. n].out
  BY <1>1, <1>8 DEF find_cycles, FoldLeft, MapThenFoldSet
<1>11. Advances(k, S, n, NewScan, F)
  <2> HIDE DEF V
  <2>1. k[{}] = NewScan
    BY <1>9
  <2>2. ASSUME NEW i \in 1 .. n, k[1 .. i - 1] \in S PROVE k[1 .. i] = F[i][k[1 .. i - 1]]
    <3>1. /\ 1 .. i \in SUBSET (1 .. n) /\ 1 .. i # {}
          /\ Max(1 .. i) = i /\ (1 .. i) \ {i} = 1 .. i - 1
      BY <1>1, InitialPart
    <3>2. k[1 .. i] = V(k[1 .. i - 1], IdOrder[i])
      BY <1>1, <1>9, <3>1
    <3> QED
      BY <2>2, <3>2
  <2> HIDE DEF F, Is
  <2> QED
    BY <2>1, <2>2 DEF Advances
<1>12. k[1 .. n] = h[n]
  <2> HIDE DEF F, Is
  <2>1. Runs(h, k, S, n, NewScan, F)
    BY <1>1, <1>2, <1>4, <1>5, <1>11 DEF Runs
  <2> QED
    BY <1>1, <2>1, FoldValue
<1>13. Starts(h, t)
  <2>1. h[0] = NewScan
    BY <1>5 DEF Steps
  <2>2. ASSUME NEW i \in 1 .. n PROVE h[i] = V(h[i - 1], IdOrder[i])
    <3> HIDE DEF V
    <3>1. i - 1 \in 0 .. n
      BY <1>1
    <3>2. h[i - 1] \in S /\ h[i] = F[i][h[i - 1]]
      BY <1>5, <3>1 DEF Steps
    <3> QED
      BY <3>2
  <2> QED
    BY <1>5, <2>1, <2>2 DEF Starts, S, n
<1> QED
  BY <1>10, <1>12, <1>13 DEF n

\* The reports of a scan of all ids are cycles, and they leave out no knot.
LEMMA ScanOfAllIsExact ==
    ASSUME NEW t, Providers(t)
    PROVE  /\ ReportsAreCycles(route_graph(t), find_cycles(t))
           /\ KnotsAreReported(route_graph(t), find_cycles(t))
<1> DEFINE n == Len(IdOrder)
           g == route_graph(t)
<1>1. IsGraph(g) /\ Closed(g, Ids) /\ DOMAIN g = {x \in Ids : t[x] # None}
  BY TablesAreGraphs, IdsAreClosed DEF route_graph
<1>2. PICK h : Starts(h, t) /\ find_cycles(t) = h[n].out
  BY StartsAre
<1>3. n \in Nat /\ \A i \in 1 .. n : IdOrder[i] \in Ids
  BY ResolutionAssumption
<1>4. /\ \A i \in 0 .. n : h[i] \in Scans /\ Settled(g, Ids, <<>>, h[i])
      /\ \A i \in 1 .. n : h[i] = IF t[IdOrder[i]] = None THEN h[i - 1]
                                  ELSE visit(g, IdOrder[i], h[i - 1])
  <2>1. \A i \in 0 .. n : h[i] \in {s \in Scans : Settled(g, Ids, <<>>, s)}
    BY <1>2 DEF Starts
  <2>2. \A i \in 1 .. n : h[i] = IF t[IdOrder[i]] = None THEN h[i - 1]
                                  ELSE visit(g, IdOrder[i], h[i - 1])
    BY <1>2 DEF Starts
  <2> QED
    BY <2>1, <2>2
<1> HIDE DEF n, g
<1> DEFINE Visited(i) == \A j \in 1 .. i : t[IdOrder[j]] # None => IdOrder[j] \in h[i].done
           T == {i \in Nat : i <= n => Visited(i)}
<1>5. ASSUME NEW i \in Nat, i + 1 <= n, Visited(i) PROVE Visited(i + 1)
  <2>1. i + 1 \in 1 .. n /\ (i + 1) - 1 = i /\ i \in 0 .. n
    BY <1>3, <1>5
  <2>2. CASE t[IdOrder[i + 1]] = None
    <3>1. h[i + 1] = h[i]
      BY <1>4, <2>1, <2>2
    <3>2. \A j \in 1 .. i + 1 : j = i + 1 \/ j \in 1 .. i
      BY <1>5
    <3> QED
      BY <1>5, <2>2, <3>1, <3>2
  <2>3. CASE t[IdOrder[i + 1]] # None
    <3>1. h[i + 1] = visit(g, IdOrder[i + 1], h[i])
      BY <1>4, <2>1, <2>3
    <3>2. h[i].done \subseteq h[i + 1].done /\ IdOrder[i + 1] \in h[i + 1].done
      <4>1. Settled(g, Ids, <<>>, h[i]) /\ IdOrder[i + 1] \in Ids /\ Ids \subseteq Ids
        BY <1>3, <1>4, <2>1
      <4> QED
        BY <1>1, <3>1, <4>1, VisitFromOutside
    <3>3. \A j \in 1 .. i + 1 : j = i + 1 \/ j \in 1 .. i
      BY <1>5
    <3> QED
      BY <1>5, <3>2, <3>3
  <2> QED
    BY <2>2, <2>3
<1>6. Nat \subseteq T
  <2>1. 0 \in T
    OBVIOUS
  <2>2. ASSUME NEW i \in Nat, i \in T PROVE i + 1 \in T
    <3> HIDE DEF Visited
    <3> QED
      BY <1>3, <1>5, <2>2
  <2> HIDE DEF T
  <2> QED
    BY <2>1, <2>2, NatSetInduction
<1>7. ScanOK(g, h[n]) /\ Settled(g, Ids, <<>>, h[n]) /\ Visited(n)
  <2>1. n \in 0 .. n /\ n \in T /\ n <= n
    BY <1>3, <1>6
  <2> HIDE DEF Visited
  <2>2. Visited(n)
    BY <2>1
  <2> QED
    BY <1>4, <2>1, <2>2 DEF Settled
<1>8. DOMAIN g \subseteq h[n].done
  <2> SUFFICES ASSUME NEW x \in Ids, t[x] # None PROVE x \in h[n].done
    BY <1>1
  <2>1. IdOrder \in Seq(Ids) /\ Range(IdOrder) = Ids
    BY ResolutionAssumption
  <2>2. PICK j \in 1 .. n : x = IdOrder[j]
    BY <2>1 DEF Range, n
  <2> QED
    BY <1>7, <2>2
<1>9. ASSUME NEW id \in DOMAIN g, OnCycle(g, id)
      PROVE  \E c \in Range(h[n].out) : c[1] \in Reachable(g, id) /\ id \in Reachable(g, c[1])
  <2>1. Covered(g, h[n], id)
    BY <1>7, <1>8, <1>9, OutsideIs
  <2>2. PICK c \in h[n].seen : Mutual(g, c[1], id)
    BY <2>1 DEF Covered
  <2>3. Full(c) \in Range(h[n].out) /\ IsCycle(g, c)
    BY <1>7 DEF ScanOK, Range
  <2>4. Full(c)[1] = c[1]
    BY <2>3, FullIs
  <2> QED
    BY <2>2, <2>3, <2>4 DEF Mutual
<1>10. KnotsAreReported(g, h[n].out)
  BY <1>9 DEF KnotsAreReported
<1>11. ReportsAreCycles(g, h[n].out)
  BY <1>1, <1>7, SettledReports
<1> QED
  BY <1>2, <1>10, <1>11 DEF g

\* The check of an upsert is exact on every table of providers.
LEMMA CheckIsExact ==
    ASSUME NEW t, Providers(t), NEW id \in Ids, NEW entry, IsProvider(entry)
    PROVE  would_cycle(t, id, entry) <=> CyclicFrom(GraphWith(t, id, entry), id)
<1>1. IsGraph(GraphWith(t, id, entry))
  BY TablesAreGraphs
<1> QED
  BY <1>1, ScanOfOneIsExact DEF would_cycle

-------------------------------------------------------------------------------
(* Tables.                                                                 *)

IsUpsert(u) ==
    /\ u.id \in Ids /\ u.entry \in Catalogue[u.id] /\ IsProvider(u.entry) /\ u.entry # None
    /\ Providers(u.read) /\ ~ would_cycle(u.read, u.id, u.entry)

\* What the layers and the admins hold, and that nothing is on the way before the first
\* edit.  A pending upsert has passed the check on the table it has read.
TableOK ==
    /\ DOMAIN dynamic_entries = Ids /\ Providers(dynamic_entries)
    /\ DOMAIN decisions = Ids
    /\ DOMAIN upserts = Admins /\ \A a \in Admins : upserts[a] = None \/ IsUpsert(upserts[a])
    /\ edits \in 0 .. MaxEdits
    /\ edits = 0 => \A a \in Admins : upserts[a] = None

\* What an id shows is an entry of one of its layers.
LEMMA ViewOfProviders ==
    ASSUME Providers(dynamic_entries)
    PROVE  DOMAIN table = Ids /\ Providers(table)
<1>1. \A id \in Ids : StaticEntries[id] = None \/ IsProvider(StaticEntries[id])
  BY ResolutionAssumption
<1>2. ASSUME NEW id \in Ids PROVE get_effective(id) = None \/ IsProvider(get_effective(id))
  BY <1>1 DEF get_effective, IsStatic, Providers
<1> QED
  BY <1>2 DEF table, Providers

\* The merged view is a function of the two layers.
LEMMA SameView ==
    ASSUME UNCHANGED <<dynamic_entries, decisions>>
    PROVE  table' = table
BY DEF table, get_effective

\* What a process starts with.
LEMMA TableInit == Init => TableOK
<1> SUFFICES ASSUME Init PROVE TableOK
  OBVIOUS
<1>1. /\ dynamic_entries \in [Ids -> UNION {Catalogue[id] : id \in Ids} \cup {None}]
      /\ \A id \in Ids : dynamic_entries[id] \in Catalogue[id] \cup {None}
  BY DEF Init, Stored
<1>2. DOMAIN dynamic_entries = Ids /\ Providers(dynamic_entries)
  BY <1>1, ResolutionAssumption DEF Providers
<1>3. MaxEdits \in Nat
  BY ResolutionAssumption
<1>4. DOMAIN decisions = Ids
  BY DEF Init, Decided
<1> QED
  BY <1>2, <1>3, <1>4 DEF Init, TableOK

\* The steps of the request leave the admins' state alone.
LEMMA WalkOnly ==
    ASSUME Hop \/ Answered \/ \E id \in Ids, model \in Models : Lookup(id, model)
    PROVE  UNCHANGED <<dynamic_entries, decisions, upserts, edits>> /\ table' = table
<1>1. UNCHANGED <<dynamic_entries, decisions, upserts, edits>>
  BY DEF Lookup, Hop, StartWalk, DirectHop, RouterHop, PoolHop, TryMember, Answered
<1> QED
  BY <1>1, SameView

\* Every edit keeps the dynamic layer one of providers.
LEMMA TableStep ==
    ASSUME TableOK, [Next]_vars
    PROVE  TableOK'
<1>0. MaxEdits \in Nat /\ \A id \in Ids : \A p \in Catalogue[id] : IsProvider(p) /\ p # None
  BY ResolutionAssumption
<1>1. ASSUME NEW a \in Admins, NEW id \in Ids, NEW entry \in Catalogue[id],
             CheckUpsert(a, id, entry)
      PROVE  TableOK'
  <2> DEFINE u == [id |-> id, entry |-> entry, read |-> table]
  <2>1. IsUpsert(u)
    <3>1. ~ would_cycle(table, id, entry)
      BY <1>1 DEF CheckUpsert
    <3>2. Providers(table)
      BY ViewOfProviders DEF TableOK
    <3> QED
      BY <1>0, <3>1, <3>2 DEF IsUpsert
  <2>2. /\ upserts' = [upserts EXCEPT ![a] = u] /\ edits' = edits + 1 /\ edits < MaxEdits
        /\ dynamic_entries' = dynamic_entries /\ decisions' = decisions
    BY <1>1 DEF CheckUpsert
  <2> HIDE DEF u
  <2>3. DOMAIN upserts' = Admins /\ \A b \in Admins : upserts'[b] = None \/ IsUpsert(upserts'[b])
    BY <2>1, <2>2 DEF TableOK
  <2>4. edits' \in 0 .. MaxEdits /\ edits' # 0
    BY <1>0, <2>2 DEF TableOK
  <2> QED
    BY <2>2, <2>3, <2>4 DEF TableOK, Providers
<1>2. ASSUME NEW a \in Admins, StoreUpsert(a) \/ UpsertRefused(a) PROVE TableOK'
  <2> DEFINE u == upserts[a]
  <2>1. u # None /\ IsUpsert(u) /\ edits # 0
    BY <1>2 DEF StoreUpsert, UpsertRefused, TableOK
  <2>2. /\ upserts' = [upserts EXCEPT ![a] = None] /\ edits' = edits /\ decisions' = decisions
        /\ \/ dynamic_entries' = dynamic_entries
           \/ dynamic_entries' = [dynamic_entries EXCEPT ![u.id] = u.entry]
    BY <1>2 DEF StoreUpsert, UpsertRefused
  <2>3. u.id \in Ids /\ IsProvider(u.entry)
    BY <2>1 DEF IsUpsert
  <2> HIDE DEF u
  <2>4. DOMAIN upserts' = Admins /\ \A b \in Admins : upserts'[b] = None \/ IsUpsert(upserts'[b])
    BY <2>2 DEF TableOK
  <2>5. DOMAIN dynamic_entries' = Ids /\ Providers(dynamic_entries')
    BY <2>2, <2>3 DEF TableOK, Providers
  <2> QED
    BY <2>1, <2>2, <2>4, <2>5 DEF TableOK, Providers
<1>3. ASSUME NEW a \in Admins, NEW id \in Ids, NEW mode \in OverrideModes,
             Delete(a, id) \/ Reset(a, id) \/ Decide(a, id, mode)
      PROVE  TableOK'
  <2>1. upserts' = upserts /\ edits' = edits + 1 /\ edits < MaxEdits
    BY <1>3 DEF Delete, Reset, Decide, Edits
  <2>2. edits' \in 0 .. MaxEdits /\ edits' # 0
    BY <1>0, <2>1 DEF TableOK
  <2>3. DOMAIN decisions' = Ids
    BY <1>3 DEF Delete, Reset, Decide, TableOK
  <2>4. \/ dynamic_entries' = dynamic_entries
        \/ dynamic_entries' = [dynamic_entries EXCEPT ![id] = None]
    BY <1>3 DEF Delete, Reset, Decide
  <2>5. DOMAIN dynamic_entries' = Ids /\ Providers(dynamic_entries')
    BY <2>4 DEF TableOK, Providers
  <2> QED
    BY <2>1, <2>2, <2>3, <2>5 DEF TableOK, Providers
<1>6. ASSUME UNCHANGED <<dynamic_entries, decisions, upserts, edits>> PROVE TableOK'
  BY <1>6 DEF TableOK, Providers
<1>7. CASE UNCHANGED vars
  BY <1>6, <1>7 DEF vars
<1>8. CASE Edit
  <2>1. OverrideModes # {}
    BY DEF OverrideModes
  <2> QED
    BY <1>1, <1>2, <1>3, <1>8, <2>1 DEF Edit
<1>9. CASE Hop \/ Answered \/ \E id \in Ids, model \in Models : Lookup(id, model)
  BY <1>6, <1>9, WalkOnly
<1> QED
  BY <1>7, <1>8, <1>9 DEF Next

\* The invariant of the tables.
LEMMA TableAlways == Spec => []TableOK
BY TableInit, TableStep, PTL DEF Spec

\* On every table that edits lead to, what the scan of all ids reports is a closed path
\* through distinct ids, no knot of cycles stays without a report, and the check of an
\* upsert says exactly whether a cycle can be reached from the entry.
THEOREM ScansAnswerExactly == Spec => []ScansAreExact
<1>1. TableOK => ScansAreExact
  <2> SUFFICES ASSUME TableOK PROVE ScansAreExact
    OBVIOUS
  <2>1. Providers(table)
    BY ViewOfProviders DEF TableOK
  <2>2. \A id \in Ids : \A entry \in Catalogue[id] : IsProvider(entry)
    BY ResolutionAssumption
  <2> QED
    BY <2>1, <2>2, ScanOfAllIsExact, CheckIsExact DEF ScansAreExact
<1> QED
  BY <1>1, TableAlways, PTL

-------------------------------------------------------------------------------
(* Calm walks.                                                             *)

\* Where a calm walk stands: it holds what the table holds.  The ids it has visited all
\* reach the one it is at.  The candidates a pool was left with or without are as read.
AtHome(w) ==
    /\ w.pc \in {"body", "hop", "pool"} =>
         w.id \in Ids /\ table[w.id] # None /\ w.cur = table[w.id]
    /\ w.pc \in {"hop", "pool"} =>
         w.visited \subseteq Ids /\ \A v \in w.visited : w.id \in Reachable(route_graph(table), v)

Tried(w) ==
    w.pc = "pool" =>
        /\ w.active # {} /\ w.active \subseteq w.offered
        /\ w.offered \subseteq DOMAIN w.cur.members
        /\ \A j \in w.offered \ w.active : ~ Usable(w.cur.members[j])

ServedBy(hop) ==
    hop.read.kind = "pool" =>
        /\ Usable(hop.read.members[hop.took])
        /\ \A j \in hop.offered : Usable(hop.read.members[j]) => j >= hop.took

CalmOK(w) ==
    /\ AtHome(w) /\ Tried(w)
    /\ \A i \in DOMAIN w.chain : ServedBy(w.chain[i])
    /\ w.outcome = "Cycle" => Cyclic(route_graph(table))

\* A walk that has not begun or is over without a cycle.
LEMMA CalmFresh ==
    ASSUME NEW w, w.chain = <<>>, w.pc \in {"idle", "done"}, w.outcome # "Cycle"
    PROVE  CalmOK(w)
BY DEF CalmOK, AtHome, Tried

\* What Idle and a failed walk hold.
LEMMA FreshFields ==
    /\ Idle.chain = <<>> /\ Idle.pc = "idle" /\ Idle.outcome # "Cycle"
    /\ \A w, why : /\ Fail(w, why).chain = <<>> /\ Fail(w, why).pc = "done"
                   /\ Fail(w, why).outcome = why
<1>1. None # "Cycle"
  BY ResolutionAssumption DEF Outcomes
<1>2. Idle.chain = <<>> /\ Idle.pc = "idle" /\ Idle.outcome # "Cycle"
  BY <1>1 DEF Idle
<1>3. ASSUME NEW w, NEW why
      PROVE  /\ Fail(w, why).chain = <<>> /\ Fail(w, why).pc = "done"
             /\ Fail(w, why).outcome = why
  BY DEF Fail, Idle
<1> QED
  BY <1>2, <1>3

\* A hop along an edge: to an id not yet visited the walk goes on, at an id visited before
\* the graph has a cycle.
LEMMA CalmGoTo ==
    ASSUME Providers(table), NEW w, Good(w), CalmOK(w), w.pc \in {"hop", "pool"},
           NEW id \in Ids, Usable(id), Edge(route_graph(table), w.id, id),
           NEW hop, ServedBy(hop)
    PROVE  CalmOK(GoTo(w, id, hop))
<1> DEFINE g == route_graph(table)
           v == GoTo(w, id, hop)
<1>1. /\ IsGraph(g) /\ w.id \in Ids /\ w.visited \subseteq Ids
      /\ w.id \in DOMAIN g
      /\ \A x \in w.visited : w.id \in Reachable(g, x)
  BY TablesAreGraphs DEF CalmOK, AtHome, Edge
<1> HIDE DEF g
<1>2. CASE id \in w.visited
  <2>1. v.chain = <<>> /\ v.pc = "done" /\ v.outcome = "Cycle"
    BY <1>2, FreshFields DEF GoTo
  <2>2. OnCycle(g, w.id)
    BY <1>1, <1>2, OnCycleIs DEF g
  <2>3. Cyclic(g)
    BY <1>1, <2>2 DEF Cyclic
  <2> HIDE DEF v
  <2> QED
    BY <2>1, <2>3 DEF CalmOK, AtHome, Tried, g, v
<1>3. CASE id \notin w.visited
  <2>1. v = [w EXCEPT !.pc = "hop", !.id = id, !.cur = table[id],
                  !.active = {}, !.offered = {},
                  !.visited = @ \cup {id}, !.chain = Append(@, hop)]
    BY <1>3 DEF GoTo
  <2>2. /\ v.pc = "hop" /\ v.id = id /\ v.cur = table[id]
        /\ v.visited = w.visited \cup {id}
        /\ v.chain = Append(w.chain, hop) /\ v.outcome = w.outcome
    BY <2>1 DEF Good, IsWalk, Shape, Fields
  <2> HIDE DEF v
  <2>3. AtHome(v)
    <3>1. ASSUME NEW x \in w.visited PROVE id \in Reachable(g, x)
      <4>1. Closed(g, Reachable(g, x))
        BY <1>1, ReachableIsLeast
      <4> QED
        BY <1>1, <4>1 DEF Closed, g
    <3>2. id \in Reachable(g, id)
      BY <1>1, ReachableIsLeast
    <3> QED
      BY <1>1, <2>2, <3>1, <3>2 DEF AtHome, Usable, g
  <2>4. \A i \in DOMAIN v.chain : ServedBy(v.chain[i])
    <3> DEFINE n == Len(w.chain)
    <3>1. /\ n \in Nat /\ DOMAIN w.chain = 1 .. n /\ DOMAIN v.chain = 1 .. n + 1
          /\ \A i \in 1 .. n : v.chain[i] = w.chain[i]
          /\ v.chain[n + 1] = hop
      BY <2>2, AppendFacts DEF Good, IsWalk, Typed
    <3>2. \A i \in 1 .. n + 1 : i = n + 1 \/ i \in 1 .. n
      BY <3>1
    <3> QED
      BY <3>1, <3>2 DEF CalmOK
  <2>5. v.outcome = "Cycle" => Cyclic(g)
    BY <2>2 DEF CalmOK, g
  <2> QED
    BY <2>2, <2>3, <2>4, <2>5 DEF CalmOK, Tried, g, v
<1> QED
  BY <1>2, <1>3

CalmInv == TableOK /\ Good(walk) /\ (edits = 0 => CalmOK(walk))

\* Nothing is edited in a step that ends without edits.
LEMMA CalmEdits ==
    ASSUME TableOK, Edit
    PROVE  edits' # 0
<1>1. edits \in Nat
  BY ResolutionAssumption DEF TableOK
<1> QED
  BY <1>1 DEF Edit, CheckUpsert, StoreUpsert, UpsertRefused, Edits, Delete, Decide, Reset, TableOK

\* The first candidate is one, and none comes before it.
LEMMA FirstOfIs ==
    ASSUME NEW S, S \subseteq Nat, S # {}
    PROVE  FirstOf(S) \in S /\ \A j \in S : FirstOf(S) <= j
BY LeastNatural DEF FirstOf

\* The steps of a request keep it calm.
LEMMA CalmWalk ==
    ASSUME TableOK, Good(walk), CalmOK(walk),
           Hop \/ Answered \/ \E id \in Ids, model \in Models : Lookup(id, model)
    PROVE  CalmOK(walk')
<1>0. Providers(table) /\ Shape(walk)
  BY ViewOfProviders DEF TableOK, Good, IsWalk
<1>1. ASSUME NEW id \in Ids, NEW model \in Models, Lookup(id, model) PROVE CalmOK(walk')
  <2>1. CASE table[id] = None
    <3>1. walk' = [Idle EXCEPT !.pc = "done", !.outcome = "NotFound"]
      BY <1>1, <2>1 DEF Lookup
    <3>2. walk'.chain = <<>> /\ walk'.pc = "done" /\ walk'.outcome = "NotFound"
      BY <3>1 DEF Idle
    <3> QED
      BY <3>2, CalmFresh
  <2>2. CASE table[id] # None /\ ~ table[id].enabled
    <3>1. walk' = [Idle EXCEPT !.pc = "done", !.outcome = "Disabled"]
      BY <1>1, <2>2 DEF Lookup
    <3>2. walk'.chain = <<>> /\ walk'.pc = "done" /\ walk'.outcome = "Disabled"
      BY <3>1 DEF Idle
    <3> QED
      BY <3>2, CalmFresh
  <2>3. CASE table[id] # None /\ table[id].enabled
    <3>1. walk' = [Idle EXCEPT !.pc = "body", !.id = id, !.cur = table[id], !.body_model = model]
      BY <1>1, <2>3 DEF Lookup
    <3>2. /\ walk'.chain = <<>> /\ walk'.pc = "body" /\ walk'.outcome = Idle.outcome
          /\ walk'.id = id /\ walk'.cur = table[id]
      BY <3>1 DEF Idle
    <3> QED
      BY <2>3, <3>2, FreshFields DEF CalmOK, AtHome, Tried
  <2> QED
    BY <2>1, <2>2, <2>3
<1>2. CASE StartWalk
  <2>1. /\ walk.pc = "body" /\ walk' = [walk EXCEPT !.pc = "hop", !.visited = {walk.id},
                                           !.in_flight_model = request_model(walk)]
    BY <1>2 DEF StartWalk
  <2>2. /\ walk'.pc = "hop" /\ walk'.id = walk.id /\ walk'.cur = walk.cur
        /\ walk'.visited = {walk.id} /\ walk'.chain = walk.chain /\ walk'.outcome = walk.outcome
    BY <1>0, <2>1 DEF Shape, Fields
  <2>3. walk.id \in Ids /\ IsGraph(route_graph(table))
    BY <1>0, <2>1, TablesAreGraphs DEF CalmOK, AtHome
  <2>4. walk.id \in Reachable(route_graph(table), walk.id)
    BY <2>3, ReachableIsLeast
  <2> QED
    BY <2>1, <2>2, <2>3, <2>4 DEF CalmOK, AtHome, Tried
<1>3. CASE DirectHop
  <2>1. walk' = [walk EXCEPT !.pc = "done", !.outcome = "Ok"]
    BY <1>3 DEF DirectHop
  <2>2. walk'.pc = "done" /\ walk'.chain = walk.chain /\ walk'.outcome = "Ok"
    BY <1>0, <2>1 DEF Shape, Fields
  <2> QED
    BY <2>2 DEF CalmOK, AtHome, Tried
<1>4. CASE RouterHop
  <2> DEFINE route == select_route(walk.cur.routes, walk.in_flight_model)
             w == Rewrite(walk, route)
  <2>1. /\ walk.pc = "hop" /\ walk.cur.kind = "router"
        /\ walk' = IF route = None THEN Fail(walk, "NoMatch")
                   ELSE IF table[route.target] = None THEN Fail(walk, "Missing")
                   ELSE IF ~table[route.target].enabled THEN Fail(walk, "Disabled")
                   ELSE GoTo(w, route.target, Taken(route))
    BY <1>4 DEF RouterHop
  <2>2. \A why : why # "Cycle" => CalmOK(Fail(walk, why))
    BY CalmFresh, FreshFields
  <2>3. CASE route # None /\ Usable(route.target)
    <3>1. /\ Shape(w) /\ w.pc = walk.pc /\ w.id = walk.id /\ w.cur = walk.cur
          /\ w.visited = walk.visited /\ w.chain = walk.chain /\ w.outcome = walk.outcome
          /\ w.active = walk.active /\ w.offered = walk.offered
      BY <1>0 DEF Shape, Fields, Rewrite
    <3>2. Good(w)
      BY <2>1, <3>1, SameChainIsGood
    <3>3. CalmOK(w)
      <4> HIDE DEF w
      <4> QED
        BY <3>1 DEF CalmOK, AtHome, Tried
    <3>4. walk.id \in Ids /\ table[walk.id] # None /\ walk.cur = table[walk.id]
      BY <2>1 DEF CalmOK, AtHome
    <3>5. route.target \in Ids /\ Edge(route_graph(table), walk.id, route.target)
      BY <1>0, <2>3, <3>4, TakenIsEdge
    <3>6. ServedBy(Taken(route))
      BY <2>1 DEF ServedBy, Taken
    <3> DEFINE id == route.target
               hop == Taken(route)
    <3> HIDE DEF w, id, hop
    <3>7. CalmOK(GoTo(w, id, hop))
      BY <1>0, <2>1, <2>3, <3>1, <3>2, <3>3, <3>5, <3>6, CalmGoTo DEF id, hop
    <3> QED
      BY <2>1, <2>3, <3>7 DEF Usable, id, hop
  <2>4. CASE ~ (route # None /\ Usable(route.target))
    <3> HIDE DEF route, w
    <3> QED
      BY <2>1, <2>2, <2>4 DEF Usable
  <2> QED
    BY <2>3, <2>4
<1>5. CASE PoolHop
  <2>1. PICK active \in SUBSET DOMAIN walk.cur.members :
          walk' = IF active = {} THEN Fail(walk, "AllMembersExhausted")
                  ELSE [walk EXCEPT !.pc = "pool", !.active = active, !.offered = active]
    BY <1>5 DEF PoolHop
  <2>2. CASE active = {}
    <3>1. walk' = Fail(walk, "AllMembersExhausted")
      BY <2>1, <2>2
    <3> QED
      BY <3>1, CalmFresh, FreshFields
  <2>3. CASE active # {}
    <3>1. walk' = [walk EXCEPT !.pc = "pool", !.active = active, !.offered = active]
      BY <2>1, <2>3
    <3>2. /\ walk'.pc = "pool" /\ walk'.id = walk.id /\ walk'.cur = walk.cur
          /\ walk'.visited = walk.visited /\ walk'.chain = walk.chain
          /\ walk'.outcome = walk.outcome /\ walk'.active = active /\ walk'.offered = active
      BY <1>0, <3>1 DEF Shape, Fields
    <3>3. walk.pc = "hop"
      BY <1>5 DEF PoolHop
    <3> QED
      BY <2>3, <3>2, <3>3 DEF CalmOK, AtHome, Tried
  <2> QED
    BY <2>2, <2>3
<1>6. CASE TryMember
  <2> DEFINE idx == FirstOf(walk.active)
             member == walk.cur.members[idx]
             w == ChargeFirstPool(walk, idx)
  <2>1. /\ walk.pc = "pool"
        /\ walk' = IF Usable(member) THEN GoTo(w, member, Taken(idx))
                   ELSE IF walk.active = {idx} THEN Fail(walk, "AllMembersExhausted")
                   ELSE [walk EXCEPT !.active = @ \ {idx}]
    BY <1>6 DEF TryMember
  <2>2. /\ walk.id \in Ids /\ table[walk.id] # None /\ walk.cur = table[walk.id]
        /\ IsProvider(walk.cur)
    BY <1>0, <2>1 DEF CalmOK, AtHome, Providers
  <2>3. DOMAIN walk.cur.members \subseteq Nat /\ \A i \in DOMAIN walk.cur.members : walk.cur.members[i] \in Ids
    <3>1. walk.cur.members \in Seq(Ids)
      BY <2>2 DEF IsProvider
    <3> QED
      BY <3>1
  <2>4. /\ walk.active # {} /\ walk.active \subseteq walk.offered
        /\ walk.offered \subseteq DOMAIN walk.cur.members
        /\ \A j \in walk.offered \ walk.active : ~ Usable(walk.cur.members[j])
    BY <2>1 DEF CalmOK, Tried
  <2>5. idx \in walk.active /\ \A j \in walk.active : idx <= j
    BY <2>3, <2>4, FirstOfIs
  <2>6. member \in Ids /\ Edge(route_graph(table), walk.id, member)
    BY <1>0, <2>2, <2>3, <2>4, <2>5, TakenIsEdge
  <2> HIDE DEF idx
  <2>7. CASE Usable(member)
    <3>1. /\ Shape(w) /\ w.pc = walk.pc /\ w.id = walk.id /\ w.cur = walk.cur
          /\ w.visited = walk.visited /\ w.chain = walk.chain /\ w.outcome = walk.outcome
          /\ w.active = walk.active /\ w.offered = walk.offered
      BY <1>0 DEF Shape, Fields, ChargeFirstPool
    <3>2. Good(w)
      BY <2>1, <3>1, SameChainIsGood
    <3> DEFINE hop == Taken(idx)
    <3>3. /\ hop.read = walk.cur /\ hop.took = idx /\ hop.offered = walk.offered
      BY DEF Taken
    <3> HIDE DEF w, hop
    <3>4. CalmOK(w)
      BY <3>1 DEF CalmOK, AtHome, Tried
    <3>5. ServedBy(hop)
      <4>1. ASSUME NEW j \in walk.offered, Usable(walk.cur.members[j]) PROVE j >= idx
        <5>1. j \in walk.active /\ j \in Nat /\ idx \in Nat
          BY <2>3, <2>4, <2>5, <4>1
        <5> QED
          BY <2>5, <5>1
      <4> QED
        BY <2>7, <3>3, <4>1 DEF ServedBy
    <3> HIDE DEF member
    <3>6. CalmOK(GoTo(w, member, hop))
      BY <1>0, <2>1, <2>6, <2>7, <3>1, <3>2, <3>4, <3>5, CalmGoTo
    <3> QED
      BY <2>1, <2>7, <3>6 DEF hop
  <2>8. CASE ~ Usable(member) /\ walk.active = {idx}
    <3>1. walk' = Fail(walk, "AllMembersExhausted")
      BY <2>1, <2>8
    <3> QED
      BY <3>1, CalmFresh, FreshFields
  <2>9. CASE ~ Usable(member) /\ walk.active # {idx}
    <3>1. walk' = [walk EXCEPT !.active = @ \ {idx}]
      BY <2>1, <2>9
    <3>2. /\ walk'.pc = "pool" /\ walk'.id = walk.id /\ walk'.cur = walk.cur
          /\ walk'.visited = walk.visited /\ walk'.chain = walk.chain
          /\ walk'.outcome = walk.outcome /\ walk'.active = walk.active \ {idx}
          /\ walk'.offered = walk.offered
      BY <1>0, <2>1, <3>1 DEF Shape, Fields
    <3>3. /\ walk'.active # {} /\ walk'.active \subseteq walk'.offered
          /\ \A j \in walk'.offered \ walk'.active : ~ Usable(walk'.cur.members[j])
      <4>1. walk'.active # {}
        BY <2>5, <2>9, <3>2
      <4>2. \A j \in walk'.offered \ walk'.active : j = idx \/ j \in walk.offered \ walk.active
        BY <3>2
      <4> QED
        BY <2>4, <2>9, <3>2, <4>1, <4>2
    <3>4. AtHome(walk')
      BY <2>1, <3>2 DEF CalmOK, AtHome
    <3> QED
      BY <2>4, <3>2, <3>3, <3>4 DEF CalmOK, Tried
  <2> QED
    BY <2>7, <2>8, <2>9
<1>7. CASE Answered
  <2>1. walk' = Idle
    BY <1>7 DEF Answered
  <2> QED
    BY <2>1, CalmFresh, FreshFields
<1> QED
  BY <1>1, <1>2, <1>3, <1>4, <1>5, <1>6, <1>7 DEF Hop

\* Every step keeps the walk calm until the first edit.
LEMMA CalmStep == CalmInv /\ [Next]_vars => CalmInv'
<1> SUFFICES ASSUME CalmInv, [Next]_vars PROVE CalmInv'
  OBVIOUS
<1>1. TableOK' /\ Good(walk)'
  BY TableStep, WalkStep DEF CalmInv
<1>2. CASE Edit
  BY <1>1, <1>2, CalmEdits DEF CalmInv
<1>3. CASE Hop \/ Answered \/ \E id \in Ids, model \in Models : Lookup(id, model)
  <2>1. UNCHANGED <<table, edits>>
    BY <1>3, WalkOnly
  <2>2. edits = 0 => CalmOK(walk')
    BY <1>3, CalmWalk DEF CalmInv
  <2>3. CalmOK(walk') => CalmOK(walk)'
    BY <2>1 DEF CalmOK, AtHome, Tried, ServedBy, Usable
  <2> QED
    BY <1>1, <2>1, <2>2, <2>3 DEF CalmInv
<1>4. CASE UNCHANGED vars
  <2>1. UNCHANGED <<table, edits, walk>>
    BY <1>4, SameView DEF vars
  <2> QED
    BY <1>1, <2>1 DEF CalmInv, CalmOK, AtHome, Tried, ServedBy, Usable
<1> QED
  BY <1>2, <1>3, <1>4 DEF Next

\* It holds in every state.
LEMMA CalmAlways == Spec => []CalmInv
<1>1. Init => CalmInv
  BY TableInit, IdleAndFail, CalmFresh, FreshFields DEF Init, CalmInv
<1> QED
  BY <1>1, CalmStep, PTL DEF Spec

\* While nobody edits, a route cycle is answered only for a table that has one: the ids
\* visited all reach the id the walk is at, so an edge back to one of them closes a cycle.
THEOREM CycleErrorsAreReal == Spec => []CyclesAreReal
<1>1. CalmInv => CyclesAreReal
  BY DEF CalmInv, CalmOK, CyclesAreReal
<1> QED
  BY <1>1, CalmAlways, PTL

\* While nobody edits, a pool is left through the first candidate of its list that exists
\* and is enabled.
THEOREM PoolServesFirstUsable == Spec => []FirstUsableMemberServes
<1>1. CalmInv => FirstUsableMemberServes
  BY DEF CalmInv, CalmOK, ServedBy, FirstUsableMemberServes
<1> QED
  BY <1>1, CalmAlways, PTL

-------------------------------------------------------------------------------
(* Stores.                                                                 *)

\* Fewer edges, fewer cycles.
LEMMA FewerEdges ==
    ASSUME NEW g, IsGraph(g), NEW h, IsGraph(h), \A x, y : Edge(h, x, y) => Edge(g, x, y),
           Cyclic(h)
    PROVE  Cyclic(g)
<1>1. PICK x \in Ids : x \in DOMAIN h /\ OnCycle(h, x)
  BY DEF Cyclic, IsGraph
<1>2. PICK y : Edge(h, x, y) /\ x \in Reachable(h, y)
  BY <1>1, OnCycleIs
<1>3. y \in Ids /\ Edge(g, x, y)
  BY <1>2, ReachEdge
<1>4. y \in Reachable(g, y) /\ Closed(h, Reachable(g, y))
  BY <1>3, ReachableIsLeast DEF Closed
<1>5. x \in Reachable(g, y)
  BY <1>2, <1>3, <1>4, ReachableIsLeast
<1>6. OnCycle(g, x) /\ x \in DOMAIN g
  BY <1>3, <1>5, OnCycleIs DEF Edge
<1> QED
  BY <1>6 DEF Cyclic

\* New edges from one id close a cycle only if one can be reached from it.
LEMMA NewEdgesCloseFrom ==
    ASSUME NEW g, IsGraph(g), NEW h, IsGraph(h), NEW a \in Ids,
           \A x, y : x # a /\ Edge(h, x, y) => Edge(g, x, y),
           Cyclic(h), ~ CyclicFrom(h, a)
    PROVE  Cyclic(g)
<1>1. PICK x \in Ids : x \in DOMAIN h /\ OnCycle(h, x)
  BY DEF Cyclic, IsGraph
<1>2. x \notin Reachable(h, a) /\ x # a
  BY <1>1, ReachableIsLeast DEF CyclicFrom
<1>3. PICK y : Edge(h, x, y) /\ x \in Reachable(h, y)
  BY <1>1, OnCycleIs
<1>4. y \in Ids /\ Edge(g, x, y)
  BY <1>2, <1>3, ReachEdge
<1> DEFINE S == Reachable(g, y) \cup Reachable(h, a)
<1>5. Closed(h, S)
  <2> SUFFICES ASSUME NEW v \in S, NEW w, Edge(h, v, w) PROVE w \in S
    BY DEF Closed
  <2>1. CASE v \in Reachable(h, a) \/ v = a
    <3>1. Closed(h, Reachable(h, a)) /\ a \in Reachable(h, a)
      BY ReachableIsLeast
    <3> QED
      BY <2>1, <3>1 DEF Closed
  <2>2. CASE v \in Reachable(g, y) /\ v # a
    <3>1. Closed(g, Reachable(g, y)) /\ Edge(g, v, w)
      BY <1>4, <2>2, ReachableIsLeast
    <3> QED
      BY <2>2, <3>1 DEF Closed
  <2> QED
    BY <2>1, <2>2
<1>6. y \in S
  BY <1>4, ReachableIsLeast
<1> HIDE DEF S
<1>7. Reachable(h, y) \subseteq S
  BY <1>4, <1>5, <1>6, ReachableIsLeast
<1>8. x \in Reachable(g, y)
  BY <1>2, <1>3, <1>7 DEF S
<1>9. OnCycle(g, x) /\ x \in DOMAIN g
  BY <1>4, <1>8, OnCycleIs DEF Edge
<1> QED
  BY <1>9 DEF Cyclic

\* Another entry for one id closes a cycle only if there is one and the check of it fails.
LEMMA EntryClosesCycle ==
    ASSUME NEW t, Providers(t), DOMAIN t = Ids, NEW id \in Ids, NEW p,
           p = None \/ IsProvider(p),
           ~ Cyclic(route_graph(t)), Cyclic(route_graph([t EXCEPT ![id] = p]))
    PROVE  p # None /\ p # t[id] /\ would_cycle(t, id, p)
<1> DEFINE s == [t EXCEPT ![id] = p]
           g == route_graph(t)
           h == route_graph(s)
<1>1. Providers(s) /\ DOMAIN s = Ids
  BY DEF Providers
<1>2. IsGraph(g) /\ IsGraph(h)
  BY <1>1, TablesAreGraphs
<1>3. p # t[id]
  <2> SUFFICES ASSUME p = t[id] PROVE FALSE
    OBVIOUS
  <2>1. \A x, y : Edge(h, x, y) => Edge(g, x, y)
    <3>1. \A x \in Ids : s[x] = t[x]
      OBVIOUS
    <3> HIDE DEF s
    <3> QED
      BY <1>1, <3>1 DEF Edge, route_graph
  <2> HIDE DEF g, h, s
  <2>2. Cyclic(g)
    BY <1>2, <2>1, FewerEdges DEF h, s
  <2> QED
    BY <2>2 DEF g
<1>4. p # None
  <2> SUFFICES ASSUME p = None PROVE FALSE
    OBVIOUS
  <2>1. \A x, y : Edge(h, x, y) => Edge(g, x, y)
    BY DEF Edge, route_graph
  <2> HIDE DEF g, h, s
  <2>2. Cyclic(g)
    BY <1>2, <2>1, FewerEdges DEF h, s
  <2> QED
    BY <2>2 DEF g
<1>5. would_cycle(t, id, p)
  <2> SUFFICES ASSUME ~ would_cycle(t, id, p) PROVE FALSE
    OBVIOUS
  <2> DEFINE w == GraphWith(t, id, p)
  <2>1. IsGraph(w) /\ ~ CyclicFrom(w, id)
    BY <1>4, TablesAreGraphs, CheckIsExact
  <2>2. \A x, y : Edge(h, x, y) => Edge(w, x, y)
    BY <1>4 DEF Edge, GraphWith, route_graph
  <2>3. \A x, y : x # id /\ Edge(w, x, y) => Edge(g, x, y)
    BY DEF Edge, GraphWith
  <2> HIDE DEF g, h, s, w
  <2>4. Cyclic(w)
    BY <1>2, <2>1, <2>2, FewerEdges DEF h, s
  <2>5. Cyclic(g)
    BY <1>2, <2>1, <2>3, <2>4, NewEdgesCloseFrom
  <2> QED
    BY <2>5 DEF g
<1> QED
  BY <1>3, <1>4, <1>5

\* A step that leaves what the layers hold of the other ids.
Touches(id) ==
    \A x \in Ids : x # id => dynamic_entries'[x] = dynamic_entries[x]
                            /\ decisions'[x] = decisions[x]

\* It changes nothing but that.
LEMMA TouchesOne ==
    ASSUME NEW id \in Ids, Touches(id)
    PROVE  table' = [table EXCEPT ![id] = table'[id]]
<1>1. \A x \in Ids : x # id => get_effective(x)' = get_effective(x)
  BY DEF Touches, get_effective
<1>2. table' = [x \in Ids |-> get_effective(x)'] /\ table = [x \in Ids |-> get_effective(x)]
  BY DEF table
<1> QED
  BY <1>1, <1>2

\* With an override stored, an id shows what it has shown, or the override.
LEMMA StoredShows ==
    ASSUME NEW id \in Ids, decisions'[id] = decisions[id],
           NEW p, p # None, dynamic_entries'[id] = p
    PROVE  table'[id] \in {table[id], p}
<1>1. table'[id] = get_effective(id)' /\ table[id] = get_effective(id)
  BY DEF table
<1>2. get_effective(id)' \in {get_effective(id), p}
  BY DEF get_effective
<1> QED
  BY <1>1, <1>2

\* What a step may do to the graph.
LEMMA StepClosesUnchecked ==
    ASSUME TableOK, TableOK', [Next]_vars,
           ~ Cyclic(route_graph(table)), Cyclic(route_graph(table'))
    PROVE  ClosesUnchecked
<1>1. DOMAIN table = Ids /\ Providers(table)
  BY ViewOfProviders DEF TableOK
<1>2. \A id \in Ids : table'[id] = None \/ IsProvider(table'[id])
  <2>1. Providers(dynamic_entries)' => Providers(table)'
    BY ViewOfProviders, PTL
  <2> QED
    BY <2>1 DEF TableOK, Providers
<1>3. table' # table
  OBVIOUS
<1>4. ASSUME NEW id \in Ids, Touches(id), BroughtBack(id) \/ CheckedElsewhere(id)
      PROVE  ClosesUnchecked
  <2> DEFINE p == table'[id]
  <2>1. table' = [table EXCEPT ![id] = p] /\ (p = None \/ IsProvider(p))
    BY <1>2, <1>4, TouchesOne
  <2> HIDE DEF p
  <2>2. Cyclic(route_graph([table EXCEPT ![id] = p]))
    BY <2>1
  <2>3. p # None /\ p # table[id] /\ would_cycle(table, id, p)
    BY <1>1, <2>1, <2>2, EntryClosesCycle
  <2> QED
    BY <1>4, <2>3 DEF ClosesUnchecked, p
<1>5. ASSUME NEW a \in Admins, StoreUpsert(a) PROVE ClosesUnchecked
  <2> DEFINE u == upserts[a]
             p == table'[u.id]
  <2>1. /\ u # None /\ IsUpsert(u) /\ upserts'[a] = None /\ decisions' = decisions
        /\ dynamic_entries' = [dynamic_entries EXCEPT ![u.id] = u.entry]
    BY <1>5 DEF StoreUpsert, TableOK
  <2>2. u.id \in Ids
    BY <2>1 DEF IsUpsert
  <2>3. Touches(u.id)
    BY <2>1, <2>2 DEF Touches, TableOK
  <2>4. CASE u.read # table
    BY <1>4, <2>1, <2>2, <2>3, <2>4 DEF CheckedElsewhere
  <2>5. CASE u.read = table
    <3>1. ~ would_cycle(table, u.id, u.entry)
      BY <2>1, <2>5 DEF IsUpsert
    <3>2. /\ dynamic_entries'[u.id] = u.entry /\ u.entry # None
          /\ decisions'[u.id] = decisions[u.id]
      BY <2>1, <2>2 DEF TableOK, IsUpsert
    <3>3. p = table[u.id] \/ p = u.entry
      BY <2>2, <3>2, StoredShows
    <3>5. table' = [table EXCEPT ![u.id] = p] /\ (p = None \/ IsProvider(p))
      BY <1>2, <2>2, <2>3, TouchesOne
    <3> HIDE DEF u, p
    <3>6. Cyclic(route_graph([table EXCEPT ![u.id] = p]))
      BY <3>5
    <3>7. p # table[u.id] /\ would_cycle(table, u.id, p)
      BY <1>1, <2>2, <3>5, <3>6, EntryClosesCycle
    <3> QED
      BY <3>1, <3>3, <3>7
  <2> QED
    BY <2>4, <2>5
<1>6. ASSUME NEW a \in Admins, NEW id \in Ids, NEW mode \in OverrideModes,
             Reset(a, id) \/ Decide(a, id, mode)
      PROVE  ClosesUnchecked
  <2>1. Touches(id)
    BY <1>6 DEF Reset, Decide, Touches, TableOK
  <2>2. BroughtBack(id)
    <3>1. CASE Decide(a, id, mode)
      BY <3>1 DEF Decide, BroughtBack, TableOK
    <3>2. CASE Reset(a, id)
      BY <3>2 DEF Reset, BroughtBack, TableOK
    <3> QED
      BY <1>6, <3>1, <3>2
  <2> QED
    BY <1>4, <2>1, <2>2
<1>7. ASSUME NEW a \in Admins, NEW id \in Ids, Delete(a, id) PROVE ClosesUnchecked
  <2>1. Touches(id) /\ BroughtBack(id)
    BY <1>7 DEF Delete, Touches, BroughtBack, TableOK
  <2> QED
    BY <1>4, <2>1
<1>8. CASE Edit
  <2>1. ASSUME NEW a \in Admins, NEW id \in Ids, NEW entry \in Catalogue[id],
               CheckUpsert(a, id, entry)
        PROVE  FALSE
    BY <1>3, <2>1, SameView DEF CheckUpsert
  <2>2. ASSUME NEW a \in Admins, UpsertRefused(a) PROVE FALSE
    BY <1>3, <2>2, SameView DEF UpsertRefused
  <2>3. OverrideModes # {}
    BY DEF OverrideModes
  <2> QED
    BY <1>5, <1>6, <1>7, <1>8, <2>1, <2>2, <2>3 DEF Edit
<1>9. CASE Hop \/ Answered \/ \E id \in Ids, model \in Models : Lookup(id, model)
  BY <1>3, <1>9, WalkOnly
<1>10. CASE UNCHANGED vars
  BY <1>3, <1>10, SameView DEF vars
<1> QED
  BY <1>8, <1>9, <1>10 DEF Next

\* For any number of admins: a cycle comes into a table only by an entry that nobody has
\* checked against it, brought back by a decision or a reset or stored too late, and that
\* the check, which is exact on the graph with its edges, would have refused.
THEOREM CyclesAreUnchecked == Spec => CyclesEnterUnchecked
<1> DEFINE Closes == CycleCloses => ClosesUnchecked
<1>1. TableOK /\ [Next]_vars => Closes
  <2>1. route_graph(table)' = route_graph(table')
    BY DEF route_graph
  <2> QED
    BY <2>1, TableStep, StepClosesUnchecked DEF CycleCloses
<1>2. TableOK /\ [Next]_vars => [Closes]_<<dynamic_entries, decisions>>
  BY <1>1
<1> HIDE DEF Closes
<1>3. Spec => [][Closes]_<<dynamic_entries, decisions>>
  BY <1>2, TableAlways, PTL DEF Spec
<1> QED
  BY <1>3 DEF CyclesEnterUnchecked, Closes
===============================================================================
