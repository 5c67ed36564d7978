----------------------- MODULE UpstreamAnswers_proofs -----------------------
(***************************************************************************)
(* Proofs about what upstreams answer: which member of a pool gives the    *)
(* answer, how its bytes arrive, and what is kept of the model lists that  *)
(* the upstreams were asked for.                                           *)
(*                                                                         *)
(* PoolFailover, for every set of providers, member lists, requests and    *)
(* hints, and every cooldown and cap: the runtime stays well formed and    *)
(* aligned, no alarm exceeds the cap, and the positions a request holds    *)
(* exist in its list.  The invariant is inductive because every operation  *)
(* of PoolStates aligns the runtime with the list of its caller under the  *)
(* write lock first, so that what it returns or writes is a position of    *)
(* that list, whatever other requests did to the runtime before.           *)
(*                                                                         *)
(* ChunkedStream, for every alphabet, every way to cut a body into chunks  *)
(* and every bound of the buffer: the frames handed over are those of the  *)
(* body.  The invariant says that the buffer is what lies behind the last  *)
(* frame, and holds no terminator; it is inductive because a search that   *)
(* begins three bytes before the new ones finds the first terminator.      *)
(*                                                                         *)
(* ModelListCache, for every set of queries, providers and target          *)
(* sequences and every window: lists are fetched exactly when due, and an  *)
(* answer is what each upstream gave last.  The invariant says that the    *)
(* cache is the history of the fetches, as far as the windows can see, and *)
(* that the answer of the query that holds the lock agrees with that       *)
(* history up to the target it is at; it is inductive because only the     *)
(* holder writes the cache, and because the targets of one walk have       *)
(* different ids.                                                          *)
(***************************************************************************)
EXTENDS PoolFailover, ChunkedStream, ModelListCache, DataLemmas

CapOK(r) == \A i \in DOMAIN r.slots : r.slots[i] \in -1 .. Cap

IInv == TypeOK /\ AlarmWithinCap /\ CandidatesInBounds
-----------------------------------------------------------------------------
\* A runtime, taken apart and put together.
LEMMA RuntimeShape ==
    ASSUME NEW r
    PROVE  IsRuntime(r) <=>
             /\ r.ids \in Lists
             /\ r.slots \in [DOMAIN r.ids -> Int]
             /\ r = [ids |-> r.ids, slots |-> r.slots]
BY DEF IsRuntime

\* Aligning a runtime yields a runtime for the caller's list, and no alarm grows.
LEMMA AlignRuntime ==
    ASSUME NEW r, IsRuntime(r), NEW list \in Lists
    PROVE  /\ IsRuntime(Align(r, list))
           /\ Align(r, list).ids = list
           /\ CapOK(r) => CapOK(Align(r, list))
<1> DEFINE s == [i \in DOMAIN list |->
                   IF i \in DOMAIN r.ids /\ r.ids[i] = list[i] THEN r.slots[i] ELSE Active]
<1>1. r.slots \in [DOMAIN r.ids -> Int]
  BY RuntimeShape
<1>2. CASE r.ids = list
  BY <1>2 DEF Align
<1>3. CASE r.ids # list
  <2>1. Align(r, list) = [ids |-> list, slots |-> s]
    BY <1>3 DEF Align
  <2>2. s \in [DOMAIN list -> Int]
    BY <1>1 DEF Active
  <2>3. IsRuntime(Align(r, list))
    BY <2>1, <2>2, RuntimeShape
  <2>4. CapOK(r) => CapOK(Align(r, list))
    BY <2>1, <1>1, TimeAssumption DEF CapOK, Active
  <2> QED
    BY <2>1, <2>3, <2>4
<1> QED
  BY <1>2, <1>3

\* Clearing the alarms that have rung keeps the runtime well formed.
LEMMA ClearedRuntime ==
    ASSUME NEW r, IsRuntime(r)
    PROVE  /\ IsRuntime(Cleared(r))
           /\ Cleared(r).ids = r.ids
           /\ CapOK(r) => CapOK(Cleared(r))
           /\ ActiveMembers(Cleared(r)) \subseteq DOMAIN r.ids
<1> DEFINE s == [i \in DOMAIN r.slots |-> IF Available(r.slots[i]) THEN Active ELSE r.slots[i]]
<1>1. /\ r.ids \in Lists
      /\ r.slots \in [DOMAIN r.ids -> Int]
      /\ r = [ids |-> r.ids, slots |-> r.slots]
  BY RuntimeShape
<1>2. Cleared(r) = [ids |-> r.ids, slots |-> s]
  BY <1>1 DEF Cleared
<1>3. s \in [DOMAIN r.ids -> Int]
  BY <1>1 DEF Active
<1>4. IsRuntime(Cleared(r))
  BY <1>1, <1>2, <1>3, RuntimeShape
<1>5. CapOK(r) => CapOK(Cleared(r))
  BY <1>1, <1>2, TimeAssumption DEF CapOK, Active
<1>6. ActiveMembers(Cleared(r)) \subseteq DOMAIN r.ids
  BY <1>2, <1>3 DEF ActiveMembers
<1> QED
  BY <1>2, <1>4, <1>5, <1>6

\* Marking a position keeps the runtime well formed.
LEMMA MarkedRuntime ==
    ASSUME NEW r, IsRuntime(r), NEW i, NEW left \in 0 .. Cap
    PROVE  /\ IsRuntime(Marked(r, i, left))
           /\ Marked(r, i, left).ids = r.ids
           /\ CapOK(r) => CapOK(Marked(r, i, left))
<1>1. /\ r.ids \in Lists
      /\ r.slots \in [DOMAIN r.ids -> Int]
      /\ r = [ids |-> r.ids, slots |-> r.slots]
  BY RuntimeShape
<1>2. CASE i \in DOMAIN r.slots
  <2> DEFINE s == [r.slots EXCEPT ![i] = left]
  <2>1. Marked(r, i, left) = [ids |-> r.ids, slots |-> s]
    BY <1>1, <1>2 DEF Marked, Exhausted
  <2>2. s \in [DOMAIN r.ids -> Int]
    <3>1. left \in Int
      BY TimeAssumption
    <3> QED
      BY <3>1, RuntimeShape
  <2>3. IsRuntime(Marked(r, i, left))
    BY <1>1, <2>1, <2>2, RuntimeShape
  <2>4. CapOK(r) => CapOK(Marked(r, i, left))
    BY <1>1, <2>1, TimeAssumption DEF CapOK
  <2> QED
    BY <2>1, <2>3, <2>4
<1>3. CASE i \notin DOMAIN r.slots
  BY <1>3 DEF Marked
<1> QED
  BY <1>2, <1>3

\* Whatever resume time a response carries, the alarm lies within the cap.
LEMMA AlarmBounds ==
    ASSUME NEW hint \in Hints \cup {NoHint}, NEW cooldown \in Cooldowns
    PROVE  AlarmFor(hint, cooldown) \in 0 .. Cap
BY TimeAssumption DEF AlarmFor, Clamp, NoHint
-----------------------------------------------------------------------------
LEMMA EmptyRuntime == IsRuntime(NoRuntime) /\ CapOK(NoRuntime)
<1>1. NoRuntime.ids \in Lists
  BY DEF NoRuntime, Lists, NotAPool
<1>2. NoRuntime.slots \in [DOMAIN NoRuntime.ids -> Int]
  BY DEF NoRuntime
<1>3. IsRuntime(NoRuntime)
  BY <1>1, <1>2, RuntimeShape DEF NoRuntime
<1>4. CapOK(NoRuntime)
  BY DEF NoRuntime, CapOK
<1> QED
  BY <1>3, <1>4

LEMMA InitIInv == Init => IInv
<1> SUFFICES ASSUME Init PROVE IInv
  OBVIOUS
<1>1. NotAPool \in Lists
  BY DEF Lists
<1>2. IsRuntime(NoRuntime)
  BY EmptyRuntime
<1>3. Idle \in RequestStates
  BY <1>1 DEF Idle, RequestStates
<1>4. AlarmWithinCap
  BY DEF Init, NoRuntime, AlarmWithinCap
<1> QED
  BY <1>1, <1>2, <1>3, <1>4 DEF Init, IInv, TypeOK, Lists, CandidatesInBounds, Idle

\* The pick of request r with the list it holds.
LEMMA PickIInv ==
    ASSUME IInv, NEW r \in Requests, NEW list \in Lists, PickFrom(r, list)
    PROVE  IInv'
<1> DEFINE r0 == Align(rt, list)
           r1 == Cleared(r0)
           cands == ActiveMembers(r1)
           next == IF cands = {} THEN Idle
                   ELSE [Idle EXCEPT !.pc = "picking", !.list = list, !.cands = cands]
<1>1. IsRuntime(rt) /\ CapOK(rt) /\ req \in [Requests -> RequestStates]
  BY DEF IInv, TypeOK, AlarmWithinCap, CapOK
<1>2. IsRuntime(r0) /\ r0.ids = list /\ CapOK(r0)
  BY <1>1, AlignRuntime
<1>3. IsRuntime(r1) /\ CapOK(r1) /\ cands \subseteq DOMAIN list
  BY <1>2, ClearedRuntime
<1>4. /\ rt' = r1
      /\ req' = [req EXCEPT ![r] = next]
      /\ UNCHANGED <<members, usable>>
  BY DEF PickFrom
<1> HIDE DEF r0, r1, cands
<1>5. DOMAIN list \subseteq Nat
  BY ListsAssumption DEF Lists, NotAPool
<1>6. next \in RequestStates
  BY <1>3, <1>5 DEF RequestStates, Idle, Lists
<1>7. next.pc = "picking" => next.cands # {} /\ next.cands \subseteq DOMAIN next.list
  BY <1>3 DEF Idle
<1> HIDE DEF next
<1>8. req' \in [Requests -> RequestStates]
  BY <1>1, <1>4, <1>6
<1>9. CandidatesInBounds'
  BY <1>1, <1>4, <1>7 DEF CandidatesInBounds, IInv
<1> QED
  BY <1>1, <1>3, <1>4, <1>8, <1>9 DEF IInv, TypeOK, AlarmWithinCap, CapOK

\* A step that changes at most request r, to a state that is well formed and holds
\* no candidates.
LEMMA OneRequest ==
    ASSUME IInv, NEW r \in Requests, NEW next \in RequestStates,
           next.pc # "picking",
           req' = [req EXCEPT ![r] = next], UNCHANGED <<members, usable, rt>>
    PROVE  IInv'
<1>1. req \in [Requests -> RequestStates]
  BY DEF IInv, TypeOK
<1>2. req' \in [Requests -> RequestStates]
  BY <1>1
<1>3. CandidatesInBounds'
  BY <1>1 DEF CandidatesInBounds, IInv
<1> QED
  BY <1>2, <1>3 DEF IInv, TypeOK, AlarmWithinCap

LEMMA IdleState == Idle \in RequestStates /\ Idle.pc # "picking"
BY DEF Idle, RequestStates, Lists

\* Every step of a request keeps the invariant.
LEMMA RequestIInv ==
    ASSUME IInv, NEW r \in Requests, RequestStep(r)
    PROVE  IInv'
<1>1. /\ req \in [Requests -> RequestStates]
      /\ req[r] \in RequestStates
      /\ members \in Lists
      /\ IsRuntime(rt) /\ CapOK(rt)
  BY DEF IInv, TypeOK, AlarmWithinCap, CapOK
<1>2. CASE Enter(r)
  <2> DEFINE next == [Idle EXCEPT !.pc = "entered", !.list = members]
  <2>1. next \in RequestStates /\ next.pc # "picking"
    BY <1>1 DEF RequestStates, Idle, Lists
  <2> QED
    BY <1>2, <2>1, OneRequest DEF Enter
<1>3. CASE Pick(r)
  <2>1. req[r].list \in Lists
    BY <1>1 DEF RequestStates
  <2>2. CASE req[r].pc = "entered" /\ PickFrom(r, req[r].list)
    BY <2>1, <2>2, PickIInv
  <2>3. CASE PickFrom(r, members)
    BY <1>1, <2>3, PickIInv
  <2> QED
    BY <1>3, <2>2, <2>3 DEF Pick
<1>4. CASE TryCandidate(r)
  <2>1. PICK i \in req[r].cands :
          req' = [req EXCEPT ![r] = IF req[r].list[i] \in usable
                                    THEN Chosen(req[r], i) ELSE Skipped(req[r], i)]
    BY <1>4 DEF TryCandidate
  <2>2. /\ req[r].pc = "picking"
        /\ UNCHANGED <<members, usable, rt>>
    BY <1>4 DEF TryCandidate
  <2>3. /\ req[r].cands \in SUBSET Nat
        /\ req[r].list \in Lists /\ req[r].watch \in Lists
        /\ req[r].idx \in Nat /\ req[r].target \in Providers \cup {0}
    BY <1>1 DEF RequestStates
  <2>4. req[r].cands \subseteq DOMAIN req[r].list
    BY <2>2 DEF IInv, CandidatesInBounds
  <2>5. CASE req[r].list[i] \in usable
    <3> DEFINE next == Chosen(req[r], i)
    <3>1. req[r].list[i] \in Providers
      BY <2>5 DEF IInv, TypeOK
    <3>2. next \in RequestStates /\ next.pc # "picking"
      BY <1>1, <2>3, <3>1 DEF RequestStates, Chosen
    <3>3. req' = [req EXCEPT ![r] = next]
      BY <2>1, <2>5
    <3> QED
      BY <2>2, <3>2, <3>3, OneRequest
  <2>6. CASE req[r].list[i] \notin usable /\ req[r].cands = {i}
    <3>1. req' = [req EXCEPT ![r] = Idle]
      BY <2>1, <2>6 DEF Skipped
    <3> QED
      BY <2>2, <3>1, IdleState, OneRequest
  <2>7. CASE req[r].list[i] \notin usable /\ req[r].cands # {i}
    <3> DEFINE next == [req[r] EXCEPT !.cands = req[r].cands \ {i}]
    <3>1. req' = [req EXCEPT ![r] = next]
      BY <2>1, <2>7 DEF Skipped
    <3>2. next \in RequestStates
      BY <1>1, <2>3 DEF RequestStates
    <3>3. next.cands # {} /\ next.cands \subseteq DOMAIN next.list
      BY <1>1, <2>1, <2>4, <2>7 DEF RequestStates
    <3> HIDE DEF next
    <3>4. req' \in [Requests -> RequestStates]
      BY <1>1, <3>1, <3>2
    <3>5. CandidatesInBounds'
      BY <1>1, <3>1, <3>3 DEF CandidatesInBounds, IInv
    <3> QED
      BY <2>2, <3>4, <3>5 DEF IInv, TypeOK, AlarmWithinCap
  <2> QED
    BY <2>5, <2>6, <2>7
<1>5. CASE BuildWatch(r)
  <2> DEFINE next == [req[r] EXCEPT !.pc = "forwarded", !.watch = members]
  <2>1. req' = [req EXCEPT ![r] = next]
    BY <1>1, <1>5 DEF BuildWatch
  <2>2. next \in RequestStates /\ next.pc # "picking"
    BY <1>1 DEF RequestStates
  <2> QED
    BY <1>5, <2>1, <2>2, OneRequest DEF BuildWatch
<1>6. CASE Answered(r)
  BY <1>6, IdleState, OneRequest DEF Answered
<1>7. CASE ExhaustionSignal(r)
  <2>1. PICK hint \in Hints \cup {NoHint}, cooldown \in Cooldowns :
          rt' = IF req[r].watch = NotAPool THEN rt
                ELSE Marked(Align(rt, req[r].watch), req[r].idx, AlarmFor(hint, cooldown))
    BY <1>7 DEF ExhaustionSignal
  <2>2. req[r].watch \in Lists
    BY <1>1 DEF RequestStates
  <2>3. IsRuntime(Align(rt, req[r].watch)) /\ CapOK(Align(rt, req[r].watch))
    BY <1>1, <2>2, AlignRuntime
  <2>4. AlarmFor(hint, cooldown) \in 0 .. Cap
    BY AlarmBounds
  <2>5. IsRuntime(rt') /\ CapOK(rt')
    BY <1>1, <2>1, <2>3, <2>4, MarkedRuntime
  <2>6. req' = [req EXCEPT ![r] = Idle] /\ UNCHANGED <<members, usable>>
    BY <1>7 DEF ExhaustionSignal
  <2>7. req' \in [Requests -> RequestStates] /\ CandidatesInBounds'
    BY <1>1, <2>6, IdleState DEF CandidatesInBounds, IInv
  <2> QED
    BY <2>5, <2>6, <2>7 DEF IInv, TypeOK, AlarmWithinCap, CapOK
<1> QED
  BY <1>2, <1>3, <1>4, <1>5, <1>6, <1>7 DEF RequestStep

LEMMA NextIInv == IInv /\ [Next]_vars => IInv'
<1> SUFFICES ASSUME IInv, [Next]_vars PROVE IInv'
  OBVIOUS
<1>1. CASE \E r \in Requests : RequestStep(r)
  BY <1>1, RequestIInv
<1>2. CASE Reset
  <2>1. IsRuntime(NoRuntime) /\ CapOK(NoRuntime)
    BY EmptyRuntime
  <2> QED
    BY <1>2, <2>1 DEF Reset, IInv, TypeOK, AlarmWithinCap, CapOK, CandidatesInBounds
<1>3. CASE Reconfigure
  BY <1>3 DEF Reconfigure, IInv, TypeOK, Lists, AlarmWithinCap, CandidatesInBounds
<1>4. CASE \E p \in Providers : Toggle(p)
  BY <1>4 DEF Toggle, IInv, TypeOK, AlarmWithinCap, CandidatesInBounds
<1>5. CASE Tick
  <2> DEFINE s == [i \in DOMAIN rt.slots |->
                     IF rt.slots[i] > 0 THEN rt.slots[i] - 1 ELSE rt.slots[i]]
  <2>1. IsRuntime(rt) /\ CapOK(rt)
    BY DEF IInv, TypeOK, AlarmWithinCap, CapOK
  <2>2. rt.ids \in Lists /\ rt.slots \in [DOMAIN rt.ids -> Int]
    BY <2>1, RuntimeShape
  <2>3. rt' = [ids |-> rt.ids, slots |-> s]
    BY <1>5, <2>1, RuntimeShape DEF Tick
  <2>4. s \in [DOMAIN rt.ids -> Int]
    BY <2>2
  <2>5. IsRuntime(rt')
    BY <2>2, <2>3, <2>4 DEF IsRuntime
  <2>6. CapOK(rt')
    BY <2>1, <2>2, <2>3, TimeAssumption DEF CapOK
  <2> QED
    BY <1>5, <2>5, <2>6
    DEF Tick, IInv, TypeOK, AlarmWithinCap, CapOK, CandidatesInBounds
<1>6. CASE UNCHANGED vars
  BY <1>6 DEF vars, IInv, TypeOK, AlarmWithinCap, CandidatesInBounds
<1> QED
  BY <1>1, <1>2, <1>3, <1>4, <1>5, <1>6 DEF Next

\* The state of the pool and of its requests stays well formed, and the slots stay
\* aligned with member_ids (the debug_assert of align_runtime).
THEOREM PoolTypeCorrect == Spec => []TypeOK
<1>1. IInv => TypeOK
  BY DEF IInv
<1> QED
  BY InitIInv, NextIInv, <1>1, PTL DEF Spec

\* No member sleeps longer than the cap (POOL-3).
THEOREM PoolAlarmWithinCap == Spec => []AlarmWithinCap
<1>1. IInv => AlarmWithinCap
  BY DEF IInv
<1> QED
  BY InitIInv, NextIInv, <1>1, PTL DEF Spec

\* A runtime whose alarms are within the cap is shown as the next pick finds it:
\* a slot that is not under alarm is Active, or its alarm has just rung.
LEMMA StatusAgrees == IInv => StatusAgreesWithPick
<1> SUFFICES ASSUME IInv, NEW list \in MemberLists
             PROVE  StatusView(list) =
                      {i \in DOMAIN list : Cleared(Align(rt, list)).slots[i] = Active}
  BY DEF StatusAgreesWithPick
<1> DEFINE r0 == Align(rt, list)
<1>1. IsRuntime(rt) /\ CapOK(rt) /\ list \in Lists
  BY DEF IInv, TypeOK, AlarmWithinCap, CapOK, Lists
<1>2. IsRuntime(r0) /\ r0.ids = list /\ CapOK(r0)
  BY <1>1, AlignRuntime
<1> HIDE DEF r0
<1>3. DOMAIN r0.slots = DOMAIN list /\ \A i \in DOMAIN list : r0.slots[i] \in -1 .. Cap
  BY <1>2, RuntimeShape DEF CapOK
<1>4. Cleared(r0).slots = [i \in DOMAIN list |->
                            IF Available(r0.slots[i]) THEN Active ELSE r0.slots[i]]
  <2>1. r0 = [ids |-> r0.ids, slots |-> r0.slots]
    BY <1>2, RuntimeShape
  <2> QED
    BY <1>3, <2>1 DEF Cleared
<1>5. \A i \in DOMAIN list : ~(r0.slots[i] > 0) <=> Cleared(r0).slots[i] = Active
  BY <1>3, <1>4, TimeAssumption DEF Available, Active
<1> QED
  BY <1>5 DEF StatusView, r0

\* What the WebUI shows as active is what the next pick offers, for every list the
\* runtime may be aligned with.
THEOREM PoolStatusAgrees == Spec => []StatusAgreesWithPick
  BY InitIInv, NextIInv, StatusAgrees, PTL DEF Spec

\* resolve_route never indexes the member list out of bounds.
THEOREM PoolCandidatesInBounds == Spec => []CandidatesInBounds
<1>1. IInv => CandidatesInBounds
  BY DEF IInv
<1> QED
  BY InitIInv, NextIInv, <1>1, PTL DEF Spec
-----------------------------------------------------------------------------
\* From r0 to r1 no slot goes under alarm and no alarm moves further away.
Disarming(r0, r1) ==
    \A i \in DOMAIN r1.slots : r1.slots[i] > 0 =>
        /\ i \in DOMAIN r0.ids
        /\ r0.ids[i] = r1.ids[i]
        /\ r0.slots[i] >= r1.slots[i]

\* Alignment keeps an alarm only where the position has the same member id.
LEMMA AlignDisarming ==
    ASSUME NEW r, IsRuntime(r), NEW list \in Lists
    PROVE  Disarming(r, Align(r, list))
<1>1. r.slots \in [DOMAIN r.ids -> Int]
  BY RuntimeShape
<1>2. CASE r.ids = list
  BY <1>1, <1>2 DEF Align, Disarming
<1>3. CASE r.ids # list
  BY <1>1, <1>3 DEF Align, Disarming, Active
<1> QED
  BY <1>2, <1>3

\* So a pick, which aligns and then clears, arms nothing.
LEMMA PickDisarming ==
    ASSUME NEW r, IsRuntime(r), NEW list \in Lists
    PROVE  Disarming(r, Cleared(Align(r, list)))
<1> DEFINE r0 == Align(r, list)
<1>1. IsRuntime(r0) /\ Disarming(r, r0)
  BY AlignRuntime, AlignDisarming
<1> HIDE DEF r0
<1>2. r0.slots \in [DOMAIN r0.ids -> Int]
  BY <1>1, RuntimeShape
<1>3. Disarming(r0, Cleared(r0))
  BY <1>2 DEF Disarming, Cleared, Active
<1>4. DOMAIN Cleared(r0).slots = DOMAIN r0.slots /\ Cleared(r0).ids = r0.ids
  BY DEF Cleared
<1>5. \A i \in DOMAIN r0.slots : Cleared(r0).slots[i] > 0 => Cleared(r0).slots[i] = r0.slots[i]
  BY <1>2 DEF Cleared, Active
<1> QED
  BY <1>1, <1>4, <1>5 DEF Disarming, r0

\* An exhaustion signal arms at most the position of the request that is answered,
\* in the list of its watch.
LEMMA SignalArms ==
    ASSUME NEW r, IsRuntime(r), NEW list \in Lists, NEW j, NEW left \in 0 .. Cap,
           NEW i \in DOMAIN Marked(Align(r, list), j, left).slots,
           Marked(Align(r, list), j, left).slots[i] > 0,
           ~ /\ i \in DOMAIN r.ids
             /\ r.ids[i] = Marked(Align(r, list), j, left).ids[i]
             /\ r.slots[i] >= Marked(Align(r, list), j, left).slots[i]
    PROVE  i = j /\ Marked(Align(r, list), j, left).ids = list
<1> DEFINE r0 == Align(r, list)
<1>1. IsRuntime(r0) /\ Disarming(r, r0) /\ r0.ids = list
  BY AlignRuntime, AlignDisarming
<1> HIDE DEF r0
<1>2. r0.slots \in [DOMAIN r0.ids -> Int] /\ Marked(r0, j, left).ids = r0.ids
  BY <1>1, RuntimeShape, MarkedRuntime
<1>3. i # j => i \in DOMAIN r0.slots /\ Marked(r0, j, left).slots[i] = r0.slots[i]
  BY <1>2 DEF Marked, r0
<1> QED
  BY <1>1, <1>2, <1>3 DEF Disarming, r0

\* Every step arms only what an exhaustion signal names.
LEMMA StepArms ==
    ASSUME IInv, [Next]_vars, NEW i \in DOMAIN rt'.slots, Armed(i)
    PROVE  \E r \in Requests : AnsweredNow(r) /\ req[r].idx = i /\ rt'.ids = req[r].watch
<1>1. /\ IsRuntime(rt) /\ members \in Lists
      /\ req \in [Requests -> RequestStates]
      /\ rt.slots \in [DOMAIN rt.ids -> Int]
  BY RuntimeShape DEF IInv, TypeOK
<1>2. ~Disarming(rt, rt')
  BY DEF Armed, Disarming
<1>3. ~UNCHANGED rt
  BY <1>1, <1>2 DEF Disarming
<1>4. \A r \in Requests : req[r].list \in Lists /\ req[r].watch \in Lists
  BY <1>1 DEF RequestStates
<1>5. ASSUME NEW r \in Requests, Pick(r) PROVE FALSE
  BY <1>1, <1>2, <1>4, <1>5, PickDisarming DEF Pick, PickFrom
<1>6. ASSUME NEW r \in Requests, ExhaustionSignal(r)
      PROVE  AnsweredNow(r) /\ req[r].idx = i /\ rt'.ids = req[r].watch
  <2>1. PICK hint \in Hints \cup {NoHint}, cooldown \in Cooldowns :
          rt' = IF req[r].watch = NotAPool THEN rt
                ELSE Marked(Align(rt, req[r].watch), req[r].idx, AlarmFor(hint, cooldown))
    BY <1>6 DEF ExhaustionSignal
  <2>2. rt' = Marked(Align(rt, req[r].watch), req[r].idx, AlarmFor(hint, cooldown))
    BY <1>3, <2>1
  <2>3. AlarmFor(hint, cooldown) \in 0 .. Cap
    BY AlarmBounds
  <2>4. req[r].idx = i /\ rt'.ids = req[r].watch
    BY <1>1, <1>4, <2>2, <2>3, SignalArms DEF Armed
  <2>5. AnsweredNow(r)
    BY <1>1, <1>6 DEF ExhaustionSignal, AnsweredNow, Idle
  <2> QED
    BY <2>4, <2>5
<1>7. ASSUME Tick PROVE FALSE
  BY <1>1, <1>2, <1>7 DEF Tick, Disarming
<1>8. ASSUME Reset PROVE FALSE
  BY <1>2, <1>8 DEF Reset, NoRuntime, Disarming
<1> QED
  BY <1>3, <1>5, <1>6, <1>7, <1>8
  DEF Next, RequestStep, Enter, TryCandidate, BuildWatch, Answered, Reconfigure, Toggle, vars

\* Alarms are armed by exhaustion signals alone, at the position of the request
\* that was answered, and never move to another member (POOL-1).
THEOREM PoolAlarmsFollowTheirMember == Spec => AlarmsFollowTheirMember
<1>1. IInv /\ [Next]_vars =>
        [\A i \in DOMAIN rt'.slots : Armed(i) =>
           \E r \in Requests : AnsweredNow(r) /\ req[r].idx = i /\ rt'.ids = req[r].watch]_vars
  BY StepArms
<1> QED
  BY InitIInv, NextIInv, <1>1, PTL DEF Spec, AlarmsFollowTheirMember
-----------------------------------------------------------------------------
(* ChunkedStream: the terminators of a sequence of bytes.                  *)

\* Where the terminator that is recognised at i ends.
EndOf(s, i) == IF TerminatorAt(s, i) = 2 THEN i + 1 ELSE i + 2

Anchored(s, i) == TerminatorAt(s, i) # 0

\* The two terminators, byte by byte.
LEMMA Terminators ==
    ASSUME NEW s \in Seq(Bytes), NEW i \in 1 .. Len(s)
    PROVE  /\ TerminatorAt(s, i) \in {0, 2, 4}
           /\ TerminatorAt(s, i) = 2 <=> s[i] = LF /\ i + 1 <= Len(s) /\ s[i + 1] = LF
           /\ TerminatorAt(s, i) = 4 <=>
                /\ s[i] = LF /\ i > 1 /\ i + 2 <= Len(s)
                /\ s[i - 1] = CR /\ s[i + 1] = CR /\ s[i + 2] = LF
<1>1. LF # CR
  BY DEF LF, CR
<1>2. i < Len(s) <=> i + 1 <= Len(s)
  OBVIOUS
<1> QED
  BY <1>1, <1>2 DEF TerminatorAt

\* A terminator ends in its sequence, and the later one ends later.
LEMMA EndsGrow ==
    ASSUME NEW s \in Seq(Bytes), NEW i \in 1 .. Len(s), Anchored(s, i)
    PROVE  /\ EndOf(s, i) \in Nat /\ i < EndOf(s, i) /\ EndOf(s, i) <= Len(s)
           /\ \A j \in 1 .. Len(s) : i < j /\ Anchored(s, j) => EndOf(s, i) < EndOf(s, j)
<1>0. LF # CR
  BY DEF LF, CR
<1>1. EndOf(s, i) \in Nat /\ i < EndOf(s, i) /\ EndOf(s, i) <= Len(s)
  BY Terminators DEF EndOf, Anchored
<1>2. ASSUME NEW j \in 1 .. Len(s), i < j, Anchored(s, j) PROVE EndOf(s, i) < EndOf(s, j)
  <2>1. s[j] = LF /\ EndOf(s, j) > j /\ EndOf(s, j) \in Nat
    BY <1>2, Terminators DEF EndOf, Anchored
  <2>2. CASE TerminatorAt(s, i) = 2
    BY <1>2, <2>1, <2>2 DEF EndOf
  <2>3. CASE TerminatorAt(s, i) # 2
    <3>1. TerminatorAt(s, i) = 4 /\ EndOf(s, i) = i + 2 /\ s[i + 1] = CR
      BY <2>3, Terminators DEF EndOf, Anchored
    <3>2. j # i + 1
      BY <1>0, <2>1, <3>1
    <3> QED
      BY <1>2, <2>1, <3>1, <3>2
  <2> QED
    BY <2>2, <2>3
<1> QED
  BY <1>1, <1>2

\* find_frame_terminator: the end of the terminator with the first anchor.
LEMMA FirstTerminator ==
    ASSUME NEW s \in Seq(Bytes)
    PROVE  \/ /\ FindFrameTerminator(s) = 0
              /\ \A i \in 1 .. Len(s) : ~ Anchored(s, i)
           \/ \E i \in 1 .. Len(s) :
                /\ Anchored(s, i) /\ FindFrameTerminator(s) = EndOf(s, i)
                /\ FindFrameTerminator(s) \in 1 .. Len(s)
                /\ \A j \in 1 .. Len(s) : Anchored(s, j) => i <= j
<1> DEFINE ends == {i \in DOMAIN s : TerminatorAt(s, i) # 0}
           first == CHOOSE i \in ends : \A j \in ends : i <= j
<1>1. DOMAIN s = 1 .. Len(s) /\ Len(s) \in Nat
  OBVIOUS
<1>2. FindFrameTerminator(s) = IF ends = {} THEN 0
                               ELSE IF TerminatorAt(s, first) = 2 THEN first + 1 ELSE first + 2
  BY DEF FindFrameTerminator
<1>3. \A i : i \in ends <=> i \in 1 .. Len(s) /\ Anchored(s, i)
  BY <1>1 DEF Anchored
<1>4. CASE ends = {}
  BY <1>2, <1>3, <1>4
<1>5. CASE ends # {}
  <2>1. ends \subseteq Nat
    BY <1>3
  <2>2. \E i \in ends : \A j \in ends : i <= j
    BY <1>5, <2>1, LeastNatural
  <2>3. first \in ends /\ \A j \in ends : first <= j
    BY <2>2
  <2> HIDE DEF ends, first
  <2>4. FindFrameTerminator(s) = EndOf(s, first)
    BY <1>2, <1>5 DEF EndOf
  <2>5. EndOf(s, first) \in 1 .. Len(s)
    BY <1>1, <1>3, <2>3, EndsGrow
  <2> QED
    BY <1>3, <2>3, <2>4, <2>5
<1> QED
  BY <1>4, <1>5

\* The terminator that is anchored first is the one that is found.
LEMMA FoundIs ==
    ASSUME NEW s \in Seq(Bytes), NEW i \in 1 .. Len(s), Anchored(s, i),
           \A j \in 1 .. Len(s) : Anchored(s, j) => i <= j
    PROVE  FindFrameTerminator(s) = EndOf(s, i) /\ FindFrameTerminator(s) # 0
<1>1. PICK k \in 1 .. Len(s) : /\ Anchored(s, k) /\ FindFrameTerminator(s) = EndOf(s, k)
                               /\ FindFrameTerminator(s) \in 1 .. Len(s)
                               /\ \A j \in 1 .. Len(s) : Anchored(s, j) => k <= j
  BY FirstTerminator
<1>2. k = i
  BY <1>1
<1> QED
  BY <1>1, <1>2

\* The bytes behind a place, one by one.
LEMMA RestOfBytes ==
    ASSUME NEW s \in Seq(Bytes), NEW k \in 0 .. Len(s)
    PROVE  /\ SkipTo(s, k) \in Seq(Bytes) /\ Len(SkipTo(s, k)) = Len(s) - k
           /\ \A i \in 1 .. Len(s) - k : SkipTo(s, k)[i] = s[i + k]
<1>1. Len(s) \in Nat /\ k \in Nat /\ k <= Len(s)
  OBVIOUS
<1>2. SkipTo(s, k) \in Seq(Bytes)
  BY <1>1 DEF SkipTo
<1>3. Len(SkipTo(s, k)) = Len(s) - k
  <2>1. Len(SkipTo(s, k)) = IF k + 1 <= Len(s) THEN Len(s) - (k + 1) + 1 ELSE 0
    BY <1>1 DEF SkipTo
  <2> QED
    BY <1>1, <2>1
<1>4. ASSUME NEW i \in 1 .. Len(s) - k PROVE SkipTo(s, k)[i] = s[i + k]
  BY <1>1, <1>4 DEF SkipTo
<1> QED
  BY <1>2, <1>3, <1>4

\* The bytes of a sequence and of what is appended to it.
LEMMA Joined ==
    ASSUME NEW s \in Seq(Bytes), NEW c \in Seq(Bytes)
    PROVE  /\ s \o c \in Seq(Bytes) /\ Len(s \o c) = Len(s) + Len(c)
           /\ Len(s) \in Nat /\ Len(c) \in Nat
           /\ \A i \in 1 .. Len(s) : (s \o c)[i] = s[i]
           /\ \A i \in 1 .. Len(c) : (s \o c)[Len(s) + i] = c[i]
<1>1. s \o c \in Seq(Bytes) /\ Len(s \o c) = Len(s) + Len(c) /\ Len(s) \in Nat /\ Len(c) \in Nat
  OBVIOUS
<1>2. ASSUME NEW i \in 1 .. Len(s) PROVE (s \o c)[i] = s[i]
  BY <1>1
<1>3. ASSUME NEW i \in 1 .. Len(c) PROVE (s \o c)[Len(s) + i] = c[i]
  BY <1>1
<1> QED
  BY <1>1, <1>2, <1>3

\* The same for a sequence of frames.
LEMMA JoinedFrames ==
    ASSUME NEW s \in Seq(Seq(Bytes)), NEW c \in Seq(Seq(Bytes))
    PROVE  /\ s \o c \in Seq(Seq(Bytes)) /\ Len(s \o c) = Len(s) + Len(c)
           /\ Len(s) \in Nat /\ Len(c) \in Nat
           /\ \A i \in 1 .. Len(s) : (s \o c)[i] = s[i]
           /\ \A i \in 1 .. Len(c) : (s \o c)[Len(s) + i] = c[i]
<1>1. s \o c \in Seq(Seq(Bytes)) /\ Len(s \o c) = Len(s) + Len(c) /\ Len(s) \in Nat /\ Len(c) \in Nat
  OBVIOUS
<1>2. ASSUME NEW i \in 1 .. Len(s) PROVE (s \o c)[i] = s[i]
  BY <1>1
<1>3. ASSUME NEW i \in 1 .. Len(c) PROVE (s \o c)[Len(s) + i] = c[i]
  BY <1>1
<1> QED
  BY <1>1, <1>2, <1>3

\* Skipping twice is skipping once.
LEMMA SkipTwice ==
    ASSUME NEW s \in Seq(Bytes), NEW k \in 0 .. Len(s), NEW j \in 0 .. Len(s) - k
    PROVE  SkipTo(SkipTo(s, k), j) = SkipTo(s, k + j)
<1> DEFINE a == SkipTo(SkipTo(s, k), j)
           b == SkipTo(s, k + j)
<1>1. Len(s) \in Nat /\ k \in Nat /\ j \in Nat /\ k + j \in 0 .. Len(s)
  OBVIOUS
<1>2. /\ b \in Seq(Bytes) /\ Len(b) = Len(s) - (k + j)
      /\ \A i \in 1 .. Len(s) - (k + j) : b[i] = s[i + (k + j)]
  BY <1>1, RestOfBytes
<1>3. /\ SkipTo(s, k) \in Seq(Bytes) /\ Len(SkipTo(s, k)) = Len(s) - k
      /\ \A i \in 1 .. Len(s) - k : SkipTo(s, k)[i] = s[i + k]
  BY RestOfBytes
<1>4. /\ a \in Seq(Bytes) /\ Len(a) = Len(s) - k - j
      /\ \A i \in 1 .. Len(s) - k - j : a[i] = SkipTo(s, k)[i + j]
  <2>1. j \in 0 .. Len(SkipTo(s, k))
    BY <1>3
  <2> QED
    BY <1>3, <2>1, RestOfBytes
<1>5. ASSUME NEW i \in 1 .. Len(s) - (k + j) PROVE a[i] = b[i]
  <2>1. i \in 1 .. Len(s) - k - j /\ i + j \in 1 .. Len(s) - k /\ (i + j) + k = i + (k + j)
    BY <1>1
  <2>2. a[i] = SkipTo(s, k)[i + j]
    BY <1>4, <2>1
  <2>3. SkipTo(s, k)[i + j] = s[(i + j) + k]
    BY <1>3, <2>1
  <2> QED
    BY <1>2, <2>1, <2>2, <2>3
<1> HIDE DEF a, b
<1>6. Len(a) = Len(b)
  BY <1>1, <1>2, <1>4
<1>7. a = b
  BY <1>2, <1>4, <1>5, <1>6, SeqEqual
<1> QED
  BY <1>7 DEF a, b

\* What is behind a place grows with the sequence.
LEMMA SkipJoined ==
    ASSUME NEW s \in Seq(Bytes), NEW c \in Seq(Bytes), NEW k \in 0 .. Len(s)
    PROVE  SkipTo(s \o c, k) = SkipTo(s, k) \o c
<1> DEFINE r == s \o c
           t == SkipTo(s, k)
           a == SkipTo(r, k)
           b == t \o c
<1>1. /\ r \in Seq(Bytes) /\ Len(r) = Len(s) + Len(c)
      /\ Len(s) \in Nat /\ Len(c) \in Nat /\ k \in Nat /\ k <= Len(s)
      /\ \A i \in 1 .. Len(s) : r[i] = s[i]
      /\ \A i \in 1 .. Len(c) : r[Len(s) + i] = c[i]
  BY Joined
<1> HIDE DEF r
<1>2. /\ a \in Seq(Bytes) /\ Len(a) = Len(s) + Len(c) - k
      /\ \A i \in 1 .. Len(s) + Len(c) - k : a[i] = r[i + k]
  <2>1. k \in 0 .. Len(r)
    BY <1>1
  <2>2. /\ a \in Seq(Bytes) /\ Len(a) = Len(r) - k
        /\ \A i \in 1 .. Len(r) - k : a[i] = r[i + k]
    BY <1>1, <2>1, RestOfBytes
  <2> HIDE DEF a
  <2> QED
    BY <1>1, <2>2
<1>3. t \in Seq(Bytes) /\ Len(t) = Len(s) - k /\ \A i \in 1 .. Len(s) - k : t[i] = s[i + k]
  BY RestOfBytes
<1> HIDE DEF a, t
<1>4. /\ b \in Seq(Bytes) /\ Len(b) = Len(s) - k + Len(c)
      /\ \A i \in 1 .. Len(s) - k : b[i] = t[i]
      /\ \A i \in 1 .. Len(c) : b[Len(s) - k + i] = c[i]
  <2>1. /\ b \in Seq(Bytes) /\ Len(b) = Len(t) + Len(c)
        /\ \A i \in 1 .. Len(t) : b[i] = t[i]
        /\ \A i \in 1 .. Len(c) : b[Len(t) + i] = c[i]
    BY <1>3, Joined
  <2> HIDE DEF b
  <2> QED
    BY <1>3, <2>1
<1>5. ASSUME NEW i \in 1 .. Len(a) PROVE a[i] = b[i]
  <2>1. i \in 1 .. Len(s) + Len(c) - k /\ a[i] = r[i + k]
    BY <1>2
  <2>2. CASE i <= Len(s) - k
    <3>1. i \in 1 .. Len(s) - k /\ i + k \in 1 .. Len(s)
      BY <1>1, <2>1, <2>2
    <3> QED
      BY <1>1, <1>3, <1>4, <2>1, <3>1
  <2>3. CASE ~ (i <= Len(s) - k)
    <3> DEFINE j == i - (Len(s) - k)
    <3>1. j \in 1 .. Len(c) /\ i = Len(s) - k + j /\ i + k = Len(s) + j
      BY <1>1, <2>1, <2>3
    <3> HIDE DEF j
    <3>2. b[i] = c[j]
      BY <1>4, <3>1
    <3>3. r[i + k] = c[j]
      BY <1>1, <3>1
    <3> QED
      BY <2>1, <3>2, <3>3
  <2> QED
    BY <2>2, <2>3
<1> HIDE DEF b
<1>6. Len(a) = Len(b)
  BY <1>1, <1>2, <1>4
<1>7. a = b
  BY <1>2, <1>4, <1>5, <1>6, SeqEqual
<1> QED
  BY <1>7 DEF a, b, t, r
-----------------------------------------------------------------------------
\* A search that begins at k misses a terminator of s only if it is anchored at
\* k + 1 or before, and takes nothing else for one.
LEMMA SearchFrom ==
    ASSUME NEW s \in Seq(Bytes), NEW k \in 0 .. Len(s)
    PROVE  /\ \A j \in 1 .. Len(s) - k : Anchored(SkipTo(s, k), j) =>
                Anchored(s, j + k) /\ EndOf(s, j + k) = k + EndOf(SkipTo(s, k), j)
           /\ \A i \in 1 .. Len(s) : Anchored(s, i) /\ (i > k + 1 \/ k = 0) =>
                i - k \in 1 .. Len(s) - k /\ Anchored(SkipTo(s, k), i - k)
<1> DEFINE t == SkipTo(s, k)
<1>1. /\ t \in Seq(Bytes) /\ Len(t) = Len(s) - k /\ Len(s) \in Nat /\ k \in Nat
      /\ \A i \in 1 .. Len(s) - k : t[i] = s[i + k]
  BY RestOfBytes
<1> HIDE DEF t
<1>2. ASSUME NEW j \in 1 .. Len(s) - k, Anchored(t, j)
      PROVE  Anchored(s, j + k) /\ EndOf(s, j + k) = k + EndOf(t, j)
  <2>1. j + k \in 1 .. Len(s) /\ j \in 1 .. Len(t)
    BY <1>1
  <2>2. t[j] = s[j + k]
    BY <1>1
  <2>3. CASE TerminatorAt(t, j) = 2
    <3>1. t[j] = LF /\ j + 1 <= Len(t) /\ t[j + 1] = LF
      BY <1>1, <2>1, <2>3, Terminators
    <3>2. t[j + 1] = s[(j + k) + 1]
      <4>1. j + 1 \in 1 .. Len(s) - k /\ (j + 1) + k = (j + k) + 1
        BY <1>1, <3>1
      <4>2. t[j + 1] = s[(j + 1) + k]
        BY <1>1, <4>1
      <4> QED
        BY <4>1, <4>2
    <3>3. TerminatorAt(s, j + k) = 2
      BY <1>1, <2>1, <2>2, <3>1, <3>2, Terminators
    <3> QED
      BY <1>1, <2>3, <3>3 DEF Anchored, EndOf
  <2>4. CASE TerminatorAt(t, j) = 4
    <3>1. /\ t[j] = LF /\ j > 1 /\ j + 2 <= Len(t)
          /\ t[j - 1] = CR /\ t[j + 1] = CR /\ t[j + 2] = LF
      BY <1>1, <2>1, <2>4, Terminators
    <3>2. /\ j - 1 \in 1 .. Len(s) - k /\ (j - 1) + k = (j + k) - 1
          /\ j + 1 \in 1 .. Len(s) - k /\ (j + 1) + k = (j + k) + 1
          /\ j + 2 \in 1 .. Len(s) - k /\ (j + 2) + k = (j + k) + 2
      BY <1>1, <3>1
    <3>3. t[j - 1] = s[(j + k) - 1] /\ t[j + 1] = s[(j + k) + 1] /\ t[j + 2] = s[(j + k) + 2]
      BY <1>1, <3>2
    <3>4. s[j + k] = LF /\ j + k > 1 /\ (j + k) + 2 <= Len(s)
      BY <1>1, <2>2, <3>1
    <3>5. TerminatorAt(s, j + k) = 4
      BY <2>1, <3>1, <3>3, <3>4, Terminators
    <3> QED
      BY <1>1, <2>4, <3>5 DEF Anchored, EndOf
  <2> QED
    BY <1>1, <1>2, <2>1, <2>3, <2>4, Terminators DEF Anchored
<1>3. ASSUME NEW i \in 1 .. Len(s), Anchored(s, i), i > k + 1 \/ k = 0
      PROVE  i - k \in 1 .. Len(s) - k /\ Anchored(t, i - k)
  <2> DEFINE j == i - k
  <2>1. j \in 1 .. Len(t) /\ j \in 1 .. Len(s) - k /\ i = j + k /\ (i > 1 => j > 1)
    BY <1>1, <1>3
  <2> HIDE DEF j
  <2>2. t[j] = s[i]
    BY <1>1, <2>1
  <2>3. CASE TerminatorAt(s, i) = 2
    <3>1. s[i] = LF /\ i + 1 <= Len(s) /\ s[i + 1] = LF
      BY <2>3, Terminators
    <3>2. j + 1 \in 1 .. Len(s) - k /\ (j + 1) + k = i + 1
      BY <1>1, <2>1, <3>1
    <3>3. t[j + 1] = s[i + 1]
      <4>1. t[j + 1] = s[(j + 1) + k]
        BY <1>1, <3>2
      <4> QED
        BY <3>2, <4>1
    <3>4. t[j] = LF /\ t[j + 1] = LF /\ j + 1 <= Len(t)
      BY <1>1, <2>2, <3>1, <3>2, <3>3
    <3>5. TerminatorAt(t, j) = 2
      BY <1>1, <2>1, <3>4, Terminators
    <3> QED
      BY <1>1, <2>1, <3>5 DEF Anchored, j
  <2>4. CASE TerminatorAt(s, i) = 4
    <3>1. /\ s[i] = LF /\ i > 1 /\ i + 2 <= Len(s)
          /\ s[i - 1] = CR /\ s[i + 1] = CR /\ s[i + 2] = LF
      BY <2>4, Terminators
    <3>2. /\ j - 1 \in 1 .. Len(s) - k /\ (j - 1) + k = i - 1
          /\ j + 1 \in 1 .. Len(s) - k /\ (j + 1) + k = i + 1
          /\ j + 2 \in 1 .. Len(s) - k /\ (j + 2) + k = i + 2
      BY <1>1, <2>1, <3>1
    <3>3. t[j - 1] = s[i - 1] /\ t[j + 1] = s[i + 1] /\ t[j + 2] = s[i + 2]
      <4>1. /\ t[j - 1] = s[(j - 1) + k] /\ t[j + 1] = s[(j + 1) + k]
            /\ t[j + 2] = s[(j + 2) + k]
        BY <1>1, <3>2
      <4> QED
        BY <3>2, <4>1
    <3>4. t[j] = LF /\ j > 1 /\ j + 2 <= Len(t)
      BY <1>1, <2>1, <2>2, <3>1, <3>2
    <3>5. TerminatorAt(t, j) = 4
      BY <1>1, <2>1, <3>1, <3>3, <3>4, Terminators
    <3> QED
      BY <1>1, <2>1, <3>5 DEF Anchored, j
  <2> QED
    BY <1>3, <2>3, <2>4, Terminators DEF Anchored
<1> QED
  BY <1>2, <1>3 DEF t

\* Bytes that follow neither hide a terminator nor make one that ends before them.
LEMMA TerminatorsStay ==
    ASSUME NEW s \in Seq(Bytes), NEW c \in Seq(Bytes), NEW i \in 1 .. Len(s)
    PROVE  /\ Anchored(s, i) => Anchored(s \o c, i) /\ EndOf(s \o c, i) = EndOf(s, i)
           /\ Anchored(s \o c, i) /\ EndOf(s \o c, i) <= Len(s) => Anchored(s, i)
<1> DEFINE t == s \o c
<1>1. /\ t \in Seq(Bytes) /\ Len(t) = Len(s) + Len(c) /\ Len(s) \in Nat /\ Len(c) \in Nat
      /\ \A j \in 1 .. Len(s) : t[j] = s[j]
  BY Joined
<1> HIDE DEF t
<1>2. i \in 1 .. Len(t)
  BY <1>1
<1>3. ASSUME i + 1 <= Len(s) PROVE TerminatorAt(t, i) = 2 <=> TerminatorAt(s, i) = 2
  <2>1. t[i] = s[i] /\ t[i + 1] = s[i + 1] /\ i + 1 <= Len(t)
    BY <1>1, <1>3
  <2> QED
    BY <1>1, <1>2, <1>3, <2>1, Terminators
<1>4. ASSUME i + 2 <= Len(s) PROVE TerminatorAt(t, i) = 4 <=> TerminatorAt(s, i) = 4
  <2>1. t[i] = s[i] /\ t[i + 1] = s[i + 1] /\ t[i + 2] = s[i + 2] /\ i + 2 <= Len(t)
    BY <1>1, <1>4
  <2>2. i > 1 => t[i - 1] = s[i - 1]
    BY <1>1
  <2> QED
    BY <1>1, <1>2, <1>4, <2>1, <2>2, Terminators
<1>5. TerminatorAt(s, i) = 2 => i + 1 <= Len(s)
  BY Terminators
<1>6. TerminatorAt(s, i) = 4 => i + 2 <= Len(s)
  BY Terminators
<1>7. TerminatorAt(s, i) \in {0, 2, 4} /\ TerminatorAt(t, i) \in {0, 2, 4}
  BY <1>1, <1>2, Terminators
<1> QED
  BY <1>3, <1>4, <1>5, <1>6, <1>7 DEF Anchored, EndOf, t

\* A terminator once found is found again, whatever bytes follow.
LEMMA FoundStays ==
    ASSUME NEW s \in Seq(Bytes), NEW c \in Seq(Bytes), FindFrameTerminator(s) # 0
    PROVE  FindFrameTerminator(s \o c) = FindFrameTerminator(s)
<1> DEFINE t == s \o c
<1>1. t \in Seq(Bytes) /\ Len(t) = Len(s) + Len(c) /\ Len(s) \in Nat /\ Len(c) \in Nat
  BY Joined
<1>2. PICK i \in 1 .. Len(s) :
        /\ Anchored(s, i) /\ FindFrameTerminator(s) = EndOf(s, i)
        /\ FindFrameTerminator(s) \in 1 .. Len(s)
        /\ \A j \in 1 .. Len(s) : Anchored(s, j) => i <= j
  BY FirstTerminator
<1>3. i \in 1 .. Len(t) /\ Anchored(t, i) /\ EndOf(t, i) = EndOf(s, i)
  BY <1>1, <1>2, TerminatorsStay
<1>4. ASSUME NEW j \in 1 .. Len(t), Anchored(t, j) PROVE i <= j
  <2> SUFFICES ASSUME j < i PROVE FALSE
    OBVIOUS
  <2>1. EndOf(t, j) < EndOf(t, i) /\ EndOf(t, j) \in Nat
    BY <1>1, <1>3, <1>4, EndsGrow
  <2>2. j \in 1 .. Len(s) /\ EndOf(t, j) <= Len(s)
    BY <1>1, <1>2, <1>3, <2>1
  <2>3. Anchored(s, j)
    BY <1>4, <2>2, TerminatorsStay
  <2> QED
    BY <1>2, <2>2, <2>3
<1> HIDE DEF t
<1>5. FindFrameTerminator(t) = EndOf(t, i)
  BY <1>1, <1>3, <1>4, FoundIs
<1> QED
  BY <1>2, <1>3, <1>5 DEF t

\* STR-1, the step back of three bytes: in a buffer without a terminator to which
\* a chunk is added, a search from three bytes before the chunk finds what a
\* search from the beginning finds, and that ends behind the buffer.
LEMMA StepBackIsEnough ==
    ASSUME NEW s \in Seq(Bytes), NEW c \in Seq(Bytes), FindFrameTerminator(s) = 0,
           NEW k \in 0 .. Len(s), k = 0 \/ k + 3 <= Len(s)
    PROVE  LET all == FindFrameTerminator(s \o c)
               rel == FindFrameTerminator(SkipTo(s \o c, k))
           IN  /\ rel = 0 <=> all = 0
               /\ rel # 0 => k + rel = all /\ all > Len(s)
<1> DEFINE t == s \o c
           u == SkipTo(t, k)
<1>1. t \in Seq(Bytes) /\ Len(t) = Len(s) + Len(c) /\ Len(s) \in Nat /\ Len(c) \in Nat
  BY Joined
<1>2. k \in 0 .. Len(t) /\ k \in Nat
  BY <1>1
<1> HIDE DEF t
<1>3. u \in Seq(Bytes) /\ Len(u) = Len(t) - k
  BY <1>1, <1>2, RestOfBytes
<1>4. ASSUME NEW i \in 1 .. Len(t), Anchored(t, i)
      PROVE  EndOf(t, i) > Len(s) /\ (i > k + 1 \/ k = 0)
  <2>1. ~ (i <= Len(s) /\ EndOf(t, i) <= Len(s))
    <3> SUFFICES ASSUME i <= Len(s), EndOf(t, i) <= Len(s) PROVE FALSE
      OBVIOUS
    <3>1. i \in 1 .. Len(s)
      BY <1>1
    <3>2. Anchored(s, i)
      BY <1>4, <3>1, TerminatorsStay DEF t
    <3> QED
      BY <3>1, <3>2, FirstTerminator
  <2>2. EndOf(t, i) \in Nat /\ i < EndOf(t, i) /\ EndOf(t, i) <= i + 2
    BY <1>1, <1>4, EndsGrow DEF EndOf
  <2> QED
    BY <1>1, <1>2, <2>1, <2>2
<1>5. /\ \A j \in 1 .. Len(t) - k : Anchored(u, j) =>
           Anchored(t, j + k) /\ EndOf(t, j + k) = k + EndOf(u, j)
      /\ \A i \in 1 .. Len(t) : Anchored(t, i) =>
           i - k \in 1 .. Len(t) - k /\ Anchored(u, i - k)
  BY <1>1, <1>2, <1>4, SearchFrom
<1> HIDE DEF u
<1>6. CASE FindFrameTerminator(u) = 0
  <2>1. \A j \in 1 .. Len(u) : ~ Anchored(u, j)
    BY <1>3, <1>6, FirstTerminator
  <2>2. \A i \in 1 .. Len(t) : ~ Anchored(t, i)
    BY <1>3, <1>5, <2>1
  <2>3. FindFrameTerminator(t) = 0
    BY <1>1, <2>2, FirstTerminator
  <2> QED
    BY <1>6, <2>3 DEF t, u
<1>7. CASE FindFrameTerminator(u) # 0
  <2>1. PICK j \in 1 .. Len(u) :
          /\ Anchored(u, j) /\ FindFrameTerminator(u) = EndOf(u, j)
          /\ FindFrameTerminator(u) \in 1 .. Len(u)
          /\ \A i \in 1 .. Len(u) : Anchored(u, i) => j <= i
    BY <1>3, <1>7, FirstTerminator
  <2>2. j + k \in 1 .. Len(t) /\ Anchored(t, j + k) /\ EndOf(t, j + k) = k + EndOf(u, j)
    BY <1>1, <1>2, <1>3, <1>5, <2>1
  <2>3. ASSUME NEW i \in 1 .. Len(t), Anchored(t, i) PROVE j + k <= i
    <3>1. i - k \in 1 .. Len(u) /\ Anchored(u, i - k)
      BY <1>3, <1>5, <2>3
    <3>2. j <= i - k
      BY <2>1, <3>1
    <3> QED
      BY <1>2, <3>2
  <2>4. FindFrameTerminator(t) = EndOf(t, j + k) /\ FindFrameTerminator(t) # 0
    BY <1>1, <2>2, <2>3, FoundIs
  <2>5. EndOf(t, j + k) > Len(s)
    BY <1>4, <2>2
  <2> QED
    BY <1>7, <2>1, <2>2, <2>4, <2>5 DEF t, u
<1> QED
  BY <1>6, <1>7

-----------------------------------------------------------------------------
(* A body cut at the places h[0], ..., h[n].                               *)

\* Each of these frames ends at the first terminator behind the frame before it.
Ends(b, h, n, from) ==
    /\ h \in [0 .. n -> 0 .. Len(b)] /\ h[0] = from
    /\ \A i \in 1 .. n : /\ FindFrameTerminator(SkipTo(b, h[i - 1])) # 0
                         /\ h[i] = h[i - 1] + FindFrameTerminator(SkipTo(b, h[i - 1]))

Slices(b, h, n) == [i \in 1 .. n |-> SubSeq(b, h[i - 1] + 1, h[i])]

\* A frame is not empty and ends in its sequence.
LEMMA FrameBehind ==
    ASSUME NEW b \in Seq(Bytes), NEW s \in 0 .. Len(b)
    PROVE  /\ FindFrameTerminator(SkipTo(b, s)) \in Nat
           /\ s + FindFrameTerminator(SkipTo(b, s)) \in 0 .. Len(b)
           /\ FindFrameTerminator(SkipTo(b, s)) # 0 =>
                s + FindFrameTerminator(SkipTo(b, s)) > s
<1> DEFINE t == SkipTo(b, s)
<1>1. t \in Seq(Bytes) /\ Len(t) = Len(b) - s /\ Len(b) \in Nat /\ s \in Nat
  BY RestOfBytes
<1> HIDE DEF t
<1>2. FindFrameTerminator(t) = 0 \/ FindFrameTerminator(t) \in 1 .. Len(t)
  BY <1>1, FirstTerminator
<1> QED
  BY <1>1, <1>2 DEF t

\* A slice of a body is a sequence of bytes.
LEMMA SlicesAreFrames ==
    ASSUME NEW b \in Seq(Bytes), NEW n \in Nat, NEW h \in [0 .. n -> 0 .. Len(b)]
    PROVE  /\ Slices(b, h, n) \in Seq(Seq(Bytes)) /\ Len(Slices(b, h, n)) = n
           /\ \A i \in 1 .. n : /\ i - 1 \in 0 .. n /\ i \in 0 .. n
                                /\ h[i - 1] \in 0 .. Len(b) /\ h[i] \in 0 .. Len(b)
                                /\ Slices(b, h, n)[i] = SubSeq(b, h[i - 1] + 1, h[i])
<1>1. ASSUME NEW i \in 1 .. n
      PROVE  /\ i - 1 \in 0 .. n /\ i \in 0 .. n
             /\ h[i - 1] \in 0 .. Len(b) /\ h[i] \in 0 .. Len(b)
             /\ SubSeq(b, h[i - 1] + 1, h[i]) \in Seq(Bytes)
  <2>1. i - 1 \in 0 .. n /\ i \in 0 .. n
    OBVIOUS
  <2>2. h[i - 1] \in 0 .. Len(b) /\ h[i] \in 0 .. Len(b)
    BY <2>1
  <2> QED
    BY <2>1, <2>2
<1>2. Slices(b, h, n) \in [1 .. n -> Seq(Bytes)]
  BY <1>1 DEF Slices
<1>3. Slices(b, h, n) \in Seq(Seq(Bytes)) /\ Len(Slices(b, h, n)) = n
  BY <1>2
<1>4. \A i \in 1 .. n : Slices(b, h, n)[i] = SubSeq(b, h[i - 1] + 1, h[i])
  BY DEF Slices
<1> QED
  BY <1>1, <1>3, <1>4

\* What follows moves no end of a frame.
LEMMA EndsStay ==
    ASSUME NEW b \in Seq(Bytes), NEW c \in Seq(Bytes), NEW n \in Nat, NEW h, Ends(b, h, n, 0)
    PROVE  Ends(b \o c, h, n, 0) /\ Slices(b \o c, h, n) = Slices(b, h, n)
<1> DEFINE t == b \o c
<1>1. /\ t \in Seq(Bytes) /\ Len(t) = Len(b) + Len(c) /\ Len(b) \in Nat /\ Len(c) \in Nat
      /\ \A i \in 1 .. Len(b) : t[i] = b[i]
  BY Joined
<1> HIDE DEF t
<1>2. h \in [0 .. n -> 0 .. Len(b)] /\ h \in [0 .. n -> 0 .. Len(t)] /\ h[0] = 0
  BY <1>1 DEF Ends
<1>3. ASSUME NEW i \in 1 .. n
      PROVE  /\ FindFrameTerminator(SkipTo(t, h[i - 1])) # 0
             /\ h[i] = h[i - 1] + FindFrameTerminator(SkipTo(t, h[i - 1]))
             /\ SubSeq(t, h[i - 1] + 1, h[i]) = SubSeq(b, h[i - 1] + 1, h[i])
  <2> DEFINE x == h[i - 1]
             y == h[i]
             u == SkipTo(b, x)
  <2>1. x \in 0 .. Len(b) /\ y \in 0 .. Len(b)
    BY <1>2
  <2>2. FindFrameTerminator(u) # 0 /\ y = x + FindFrameTerminator(u)
    BY DEF Ends
  <2> HIDE DEF x, y
  <2>3. u \in Seq(Bytes) /\ SkipTo(t, x) = u \o c
    BY <2>1, RestOfBytes, SkipJoined DEF t
  <2> HIDE DEF u
  <2>4. FindFrameTerminator(SkipTo(t, x)) = FindFrameTerminator(u)
    BY <2>2, <2>3, FoundStays
  <2>5. SubSeq(t, x + 1, y) = SubSeq(b, x + 1, y)
    <3> DEFINE p == SubSeq(t, x + 1, y)
               q == SubSeq(b, x + 1, y)
               d == IF x + 1 <= y THEN y - (x + 1) + 1 ELSE 0
    <3>1. /\ p \in Seq(Bytes) /\ q \in Seq(Bytes) /\ Len(p) = d /\ Len(q) = d
      BY <1>1, <2>1
    <3>2. ASSUME NEW j \in 1 .. d PROVE p[j] = q[j]
      <4>1. j + x \in 1 .. Len(b) /\ p[j] = t[j + x] /\ q[j] = b[j + x]
        BY <1>1, <2>1
      <4> QED
        BY <1>1, <4>1
    <3> HIDE DEF p, q, d
    <3>3. p = q
      BY <3>1, <3>2, SeqEqual
    <3> QED
      BY <3>3 DEF p, q
  <2> QED
    BY <2>2, <2>4, <2>5 DEF x, y
<1>4. Ends(t, h, n, 0)
  BY <1>2, <1>3 DEF Ends
<1>5. Slices(t, h, n) = Slices(b, h, n)
  BY <1>3 DEF Slices
<1> QED
  BY <1>4, <1>5 DEF t

\* A frame in front of the frames that g cuts behind it.
IsBefore(b, s, g, m) ==
    \E h : /\ Ends(b, h, m + 1, s) /\ h[m + 1] = g[m]
           /\ Slices(b, h, m + 1) =
                <<SubSeq(b, s + 1, s + FindFrameTerminator(SkipTo(b, s)))>> \o Slices(b, g, m)

LEMMA EndsBefore ==
    ASSUME NEW b \in Seq(Bytes), NEW s \in 0 .. Len(b), FindFrameTerminator(SkipTo(b, s)) # 0,
           NEW m \in Nat, NEW g, Ends(b, g, m, s + FindFrameTerminator(SkipTo(b, s)))
    PROVE  IsBefore(b, s, g, m)
<1> DEFINE e == s + FindFrameTerminator(SkipTo(b, s))
           h == [i \in 0 .. m + 1 |-> IF i = 0 THEN s ELSE g[i - 1]]
<1>1. e \in 0 .. Len(b)
  BY FrameBehind
<1>2. g \in [0 .. m -> 0 .. Len(b)] /\ g[0] = e
  BY DEF Ends
<1>3. h \in [0 .. m + 1 -> 0 .. Len(b)] /\ h[0] = s /\ h[1] = e /\ h[m + 1] = g[m]
  BY <1>2
<1>4. \A i \in 1 .. m + 1 : h[i] = g[i - 1]
  OBVIOUS
<1> HIDE DEF h
<1>5. ASSUME NEW i \in 1 .. m + 1
      PROVE  /\ FindFrameTerminator(SkipTo(b, h[i - 1])) # 0
             /\ h[i] = h[i - 1] + FindFrameTerminator(SkipTo(b, h[i - 1]))
  <2>1. CASE i = 1
    BY <1>3, <2>1
  <2>2. CASE i # 1
    <3>1. i - 1 \in 1 .. m /\ i - 1 \in 1 .. m + 1
      BY <2>2
    <3>2. h[i] = g[i - 1] /\ h[i - 1] = g[(i - 1) - 1]
      BY <1>4, <3>1
    <3>3. /\ FindFrameTerminator(SkipTo(b, g[(i - 1) - 1])) # 0
          /\ g[i - 1] = g[(i - 1) - 1] + FindFrameTerminator(SkipTo(b, g[(i - 1) - 1]))
      BY <3>1 DEF Ends
    <3> QED
      BY <3>2, <3>3
  <2> QED
    BY <2>1, <2>2
<1>6. Ends(b, h, m + 1, s)
  BY <1>3, <1>5 DEF Ends
<1>7. Slices(b, h, m + 1) = <<SubSeq(b, s + 1, e)>> \o Slices(b, g, m)
  <2> DEFINE p == Slices(b, h, m + 1)
             q == Slices(b, g, m)
             f == SubSeq(b, s + 1, e)
             r == <<f>> \o q
  <2>1. /\ p \in Seq(Seq(Bytes)) /\ Len(p) = m + 1
        /\ \A i \in 1 .. m + 1 : p[i] = SubSeq(b, h[i - 1] + 1, h[i])
    <3>1. m + 1 \in Nat
      OBVIOUS
    <3> QED
      BY <1>3, <3>1, SlicesAreFrames
  <2>2. /\ q \in Seq(Seq(Bytes)) /\ Len(q) = m
        /\ \A i \in 1 .. m : q[i] = SubSeq(b, g[i - 1] + 1, g[i])
    BY <1>2, SlicesAreFrames
  <2>3. f \in Seq(Bytes)
    BY <1>1
  <2> HIDE DEF p, q, f, e
  <2>4. /\ r \in Seq(Seq(Bytes)) /\ Len(r) = m + 1 /\ r[1] = f
        /\ \A i \in 1 .. m : r[i + 1] = q[i]
    <3> DEFINE o == <<f>>
    <3>1. o \in Seq(Seq(Bytes)) /\ Len(o) = 1 /\ o[1] = f
      BY <2>3
    <3> HIDE DEF o
    <3>2. /\ o \o q \in Seq(Seq(Bytes)) /\ Len(o \o q) = Len(o) + Len(q)
          /\ \A i \in 1 .. Len(o) : (o \o q)[i] = o[i]
          /\ \A i \in 1 .. Len(q) : (o \o q)[Len(o) + i] = q[i]
      BY <2>2, <3>1, JoinedFrames
    <3>3. r = o \o q
      BY DEF o
    <3> HIDE DEF r
    <3>4. Len(r) = m + 1 /\ r[1] = f
      BY <2>2, <3>1, <3>2, <3>3
    <3>5. ASSUME NEW i \in 1 .. m PROVE r[i + 1] = q[i]
      BY <2>2, <3>1, <3>2, <3>3
    <3> QED
      BY <3>2, <3>3, <3>4, <3>5
  <2> HIDE DEF r
  <2>5. ASSUME NEW i \in 1 .. m + 1 PROVE p[i] = r[i]
    <3>1. CASE i = 1
      <4>1. 1 \in 1 .. m + 1 /\ 1 - 1 = 0
        OBVIOUS
      <4>2. p[1] = SubSeq(b, h[1 - 1] + 1, h[1])
        BY <2>1, <4>1
      <4>3. p[1] = SubSeq(b, s + 1, e)
        BY <1>3, <4>1, <4>2 DEF e
      <4> QED
        BY <2>4, <3>1, <4>3 DEF f
    <3>2. CASE i # 1
      <4>1. i - 1 \in 1 .. m /\ i - 1 \in 1 .. m + 1 /\ (i - 1) + 1 = i
        BY <3>2
      <4>2. r[i] = q[i - 1]
        BY <2>4, <4>1
      <4>3. q[i - 1] = SubSeq(b, g[(i - 1) - 1] + 1, g[i - 1])
        BY <2>2, <4>1
      <4>4. h[i] = g[i - 1] /\ h[i - 1] = g[(i - 1) - 1]
        BY <1>4, <4>1
      <4> QED
        BY <2>1, <4>2, <4>3, <4>4
    <3> QED
      BY <3>1, <3>2
  <2>6. p = r
    BY <2>1, <2>4, <2>5, SeqEqual
  <2> QED
    BY <2>6 DEF p, q, r, f
<1> QED
  BY <1>3, <1>6, <1>7 DEF IsBefore, e

\* The frames that h cuts from b, and behind them those that g cuts from u.
AreJoined(b, h, n, u, g, m) ==
    \E k : /\ Ends(b, k, n + m, 0) /\ k[n + m] = h[n] + g[m]
           /\ Slices(b, k, n + m) = Slices(b, h, n) \o Slices(u, g, m)

\* The frames of what is behind the last end of a body are the next ones of the body.
LEMMA EndsConcatenate ==
    ASSUME NEW b \in Seq(Bytes), NEW n \in Nat, NEW h, Ends(b, h, n, 0),
           NEW m \in Nat, NEW g, Ends(SkipTo(b, h[n]), g, m, 0)
    PROVE  AreJoined(b, h, n, SkipTo(b, h[n]), g, m)
<1> DEFINE p == h[n]
           u == SkipTo(b, p)
           k == [i \in 0 .. n + m |-> IF i <= n THEN h[i] ELSE p + g[i - n]]
<1>1. h \in [0 .. n -> 0 .. Len(b)] /\ h[0] = 0
  BY DEF Ends
<1>2. p \in 0 .. Len(b) /\ p \in Nat /\ Len(b) \in Nat
  BY <1>1
<1>3. g \in [0 .. m -> 0 .. Len(u)] /\ g[0] = 0
  BY DEF Ends
<1> HIDE DEF p
<1>4. u \in Seq(Bytes) /\ Len(u) = Len(b) - p /\ \A i \in 1 .. Len(b) - p : u[i] = b[i + p]
  BY <1>2, RestOfBytes
<1> HIDE DEF u
<1>5. \A i \in 0 .. n : k[i] = h[i]
  BY <1>1
<1>6. \A j \in 0 .. m : k[n + j] = p + g[j]
  <2>1. ASSUME NEW j \in 0 .. m PROVE k[n + j] = p + g[j]
    <3>1. n + j \in 0 .. n + m /\ (n + j) - n = j
      OBVIOUS
    <3>2. CASE j = 0
      BY <1>1, <1>2, <1>3, <3>1, <3>2 DEF p
    <3>3. CASE j # 0
      BY <3>1, <3>3
    <3> QED
      BY <3>2, <3>3
  <2> QED
    BY <2>1
<1>7. k \in [0 .. n + m -> 0 .. Len(b)]
  <2>1. ASSUME NEW i \in 0 .. n + m PROVE (IF i <= n THEN h[i] ELSE p + g[i - n]) \in 0 .. Len(b)
    <3>1. CASE i <= n
      BY <1>1, <3>1
    <3>2. CASE ~ (i <= n)
      <4>1. i - n \in 0 .. m
        BY <3>2
      <4>2. g[i - n] \in 0 .. Len(u)
        BY <1>3, <4>1
      <4> QED
        BY <1>2, <1>4, <3>2, <4>2
    <3> QED
      BY <3>1, <3>2
  <2> QED
    BY <2>1
<1> HIDE DEF k
<1>8. ASSUME NEW i \in 1 .. n
      PROVE  /\ k[i - 1] = h[i - 1] /\ k[i] = h[i]
             /\ FindFrameTerminator(SkipTo(b, k[i - 1])) # 0
             /\ k[i] = k[i - 1] + FindFrameTerminator(SkipTo(b, k[i - 1]))
  <2>1. i - 1 \in 0 .. n /\ i \in 0 .. n
    OBVIOUS
  <2>2. k[i - 1] = h[i - 1] /\ k[i] = h[i]
    BY <1>5, <2>1
  <2>3. /\ FindFrameTerminator(SkipTo(b, h[i - 1])) # 0
        /\ h[i] = h[i - 1] + FindFrameTerminator(SkipTo(b, h[i - 1]))
    BY DEF Ends
  <2> QED
    BY <2>2, <2>3
<1>9. ASSUME NEW j \in 1 .. m
      PROVE  /\ k[(n + j) - 1] = p + g[j - 1] /\ k[n + j] = p + g[j]
             /\ g[j - 1] \in 0 .. Len(u) /\ g[j] \in 0 .. Len(u)
             /\ FindFrameTerminator(SkipTo(b, k[(n + j) - 1])) # 0
             /\ k[n + j] = k[(n + j) - 1] + FindFrameTerminator(SkipTo(b, k[(n + j) - 1]))
  <2>1. j - 1 \in 0 .. m /\ j \in 0 .. m /\ n + (j - 1) = (n + j) - 1
    OBVIOUS
  <2>2. k[(n + j) - 1] = p + g[j - 1] /\ k[n + j] = p + g[j]
    BY <1>6, <2>1
  <2>3. /\ FindFrameTerminator(SkipTo(u, g[j - 1])) # 0
        /\ g[j] = g[j - 1] + FindFrameTerminator(SkipTo(u, g[j - 1]))
    BY DEF Ends, u, p
  <2>4. g[j - 1] \in 0 .. Len(u) /\ g[j] \in 0 .. Len(u)
    BY <1>3, <2>1
  <2>5. SkipTo(u, g[j - 1]) = SkipTo(b, p + g[j - 1])
    BY <1>2, <1>4, <2>4, SkipTwice DEF u
  <2>6. FindFrameTerminator(SkipTo(u, g[j - 1])) \in Nat
    BY <1>4, <2>4, FrameBehind
  <2> QED
    BY <1>2, <2>2, <2>3, <2>4, <2>5, <2>6
<1>10. Ends(b, k, n + m, 0)
  <2>1. k[0] = 0
    BY <1>1, <1>5
  <2>2. ASSUME NEW i \in 1 .. n + m
        PROVE  /\ FindFrameTerminator(SkipTo(b, k[i - 1])) # 0
               /\ k[i] = k[i - 1] + FindFrameTerminator(SkipTo(b, k[i - 1]))
    <3>1. CASE i <= n
      <4>1. i \in 1 .. n
        BY <3>1
      <4> QED
        BY <1>8, <4>1
    <3>2. CASE ~ (i <= n)
      <4>1. i - n \in 1 .. m /\ n + (i - n) = i
        BY <3>2
      <4> QED
        BY <1>9, <4>1
    <3> QED
      BY <3>1, <3>2
  <2> QED
    BY <1>7, <2>1, <2>2 DEF Ends
<1>11. Slices(b, k, n + m) = Slices(b, h, n) \o Slices(u, g, m)
  <2> DEFINE a == Slices(b, k, n + m)
             c == Slices(b, h, n)
             d == Slices(u, g, m)
             r == c \o d
  <2>1. /\ a \in Seq(Seq(Bytes)) /\ Len(a) = n + m
        /\ \A i \in 1 .. n + m : a[i] = SubSeq(b, k[i - 1] + 1, k[i])
    <3>1. n + m \in Nat
      OBVIOUS
    <3> QED
      BY <1>7, <3>1, SlicesAreFrames
  <2>2. /\ c \in Seq(Seq(Bytes)) /\ Len(c) = n
        /\ \A i \in 1 .. n : c[i] = SubSeq(b, h[i - 1] + 1, h[i])
    BY <1>1, SlicesAreFrames
  <2>3. /\ d \in Seq(Seq(Bytes)) /\ Len(d) = m
        /\ \A i \in 1 .. m : d[i] = SubSeq(u, g[i - 1] + 1, g[i])
    BY <1>3, <1>4, SlicesAreFrames
  <2> HIDE DEF a, c, d
  <2>4. /\ r \in Seq(Seq(Bytes)) /\ Len(r) = n + m
        /\ \A i \in 1 .. n : r[i] = c[i]
        /\ \A i \in 1 .. m : r[n + i] = d[i]
    <3>1. /\ r \in Seq(Seq(Bytes)) /\ Len(r) = Len(c) + Len(d)
          /\ \A i \in 1 .. Len(c) : r[i] = c[i]
          /\ \A i \in 1 .. Len(d) : r[Len(c) + i] = d[i]
      BY <2>2, <2>3, JoinedFrames
    <3> HIDE DEF r
    <3> QED
      BY <2>2, <2>3, <3>1
  <2> HIDE DEF r
  <2>5. ASSUME NEW i \in 1 .. n + m PROVE a[i] = r[i]
    <3>1. CASE i <= n
      <4>1. i \in 1 .. n
        BY <3>1
      <4>2. a[i] = SubSeq(b, k[i - 1] + 1, k[i]) /\ k[i - 1] = h[i - 1] /\ k[i] = h[i]
        BY <1>8, <2>1, <4>1
      <4>3. r[i] = c[i] /\ c[i] = SubSeq(b, h[i - 1] + 1, h[i])
        BY <2>2, <2>4, <4>1
      <4> QED
        BY <4>2, <4>3
    <3>2. CASE ~ (i <= n)
      <4> DEFINE j == i - n
      <4>1. j \in 1 .. m /\ i = n + j
        BY <3>2
      <4> HIDE DEF j
      <4>2. a[i] = SubSeq(b, (p + g[j - 1]) + 1, p + g[j])
        BY <1>9, <2>1, <4>1
      <4>3. r[i] = SubSeq(u, g[j - 1] + 1, g[j])
        BY <2>3, <2>4, <4>1
      <4>4. g[j - 1] \in 0 .. Len(u) /\ g[j] \in 0 .. Len(u)
        BY <1>9, <4>1
      <4>5. ASSUME NEW x \in 0 .. Len(u), NEW y \in 0 .. Len(u)
            PROVE  SubSeq(b, (p + x) + 1, p + y) = SubSeq(u, x + 1, y)
        <5> DEFINE v == SubSeq(b, (p + x) + 1, p + y)
                   w == SubSeq(u, x + 1, y)
                   l == IF x + 1 <= y THEN y - (x + 1) + 1 ELSE 0
        <5>1. v \in Seq(Bytes) /\ Len(v) = l
          <6>1. x \in Nat /\ y \in Nat /\ p + y <= Len(b)
            BY <1>2, <1>4
          <6> DEFINE from == (p + x) + 1
                     to == p + y
          <6>2. from \in Nat /\ from >= 1 /\ to \in Nat /\ to <= Len(b)
            BY <1>2, <6>1
          <6>3. (IF from <= to THEN to - from + 1 ELSE 0) = l
            BY <1>2, <6>1
          <6> HIDE DEF from, to, l
          <6>4. SubSeq(b, from, to) \in Seq(Bytes)
            BY <6>2
          <6>5. Len(SubSeq(b, from, to)) = IF from <= to THEN to - from + 1 ELSE 0
            BY <6>2
          <6> QED
            BY <6>3, <6>4, <6>5 DEF from, to
        <5>2. w \in Seq(Bytes) /\ Len(w) = l
          BY <1>4
        <5>3. ASSUME NEW q \in 1 .. l PROVE v[q] = w[q]
          <6>1. q + x \in 1 .. Len(b) - p
            BY <1>2, <1>4
          <6>2. v[q] = b[q + (p + x)]
            BY <1>2, <1>4
          <6>3. w[q] = u[q + x]
            BY <1>4
          <6>4. u[q + x] = b[(q + x) + p] /\ (q + x) + p = q + (p + x)
            BY <1>2, <1>4, <6>1
          <6> QED
            BY <6>2, <6>3, <6>4
        <5> HIDE DEF v, w, l
        <5>4. v = w
          BY <5>1, <5>2, <5>3, SeqEqual
        <5> QED
          BY <5>4 DEF v, w
      <4> QED
        BY <4>2, <4>3, <4>4, <4>5
    <3> QED
      BY <3>1, <3>2
  <2>6. a = r
    BY <2>1, <2>4, <2>5, SeqEqual
  <2> QED
    BY <2>6 DEF a, c, d, r
<1>12. k[n + m] = p + g[m]
  BY <1>6
<1> QED
  BY <1>10, <1>11, <1>12 DEF AreJoined, u, p

-----------------------------------------------------------------------------
(* What the recursive functions of FramesOf and of CutFrom compute.        *)

\* FramesOf takes a frame and goes on behind it.
LEMMA FramesOfSteps ==
    ASSUME NEW b \in Seq(Bytes)
    PROVE  \E f \in [0 .. Len(b) -> Seq(Seq(Bytes))] :
             /\ FramesOf(b) = f[0]
             /\ \A s \in 0 .. Len(b) :
                  LET rel == FindFrameTerminator(SkipTo(b, s))
                  IN  f[s] = IF rel = 0 THEN << >>
                             ELSE <<SubSeq(b, s + 1, s + rel)>> \o f[s + rel]
<1> DEFINE n == Len(b)
           S == Seq(Seq(Bytes))
           Rel(s) == FindFrameTerminator(SkipTo(b, s))
           Frame(s) == SubSeq(b, s + 1, s + Rel(s))
           Is(f) == f = [s \in 0 .. Len(b) |->
                          IF FindFrameTerminator(SkipTo(b, s)) = 0 THEN << >>
                          ELSE <<SubSeq(b, s + 1, s + FindFrameTerminator(SkipTo(b, s)))>>
                                 \o f[s + FindFrameTerminator(SkipTo(b, s))]]
           Right(f) == \A s \in 0 .. n :
                         f[s] = IF Rel(s) = 0 THEN << >> ELSE <<Frame(s)>> \o f[s + Rel(s)]
           J == [s \in 0 .. n |-> s + Rel(s)]
           E == [s \in 0 .. n |-> << >>]
           F == [s \in 0 .. n |-> [fs \in S |-> <<Frame(s)>> \o fs]]
<1>1. n \in Nat
  OBVIOUS
<1>2. ASSUME NEW s \in 0 .. n
      PROVE  /\ Rel(s) \in Nat /\ s + Rel(s) \in 0 .. n /\ (Rel(s) = 0 <=> ~ (s + Rel(s) > s))
             /\ Frame(s) \in Seq(Bytes)
  <2>1. Rel(s) \in Nat /\ s + Rel(s) \in 0 .. n /\ (Rel(s) # 0 => s + Rel(s) > s)
    BY FrameBehind
  <2> HIDE DEF Rel
  <2>2. s \in Nat /\ Frame(s) \in Seq(Bytes)
    BY <2>1
  <2> QED
    BY <2>1, <2>2
<1>3. J \in [0 .. n -> 0 .. n] /\ E \in [0 .. n -> S]
  <2> HIDE DEF Rel, n
  <2> QED
    BY <1>2
<1>4. F \in [0 .. n -> [S -> S]]
  <2>1. ASSUME NEW s \in 0 .. n, NEW fs \in S PROVE <<Frame(s)>> \o fs \in S
    <3>1. Frame(s) \in Seq(Bytes)
      BY <1>2, <2>1
    <3> HIDE DEF Frame
    <3> QED
      BY <3>1
  <2> HIDE DEF Frame, S, n
  <2> QED
    BY <2>1
<1>5. PICK f0 \in [0 .. n -> S] : Jumps(f0, n, J, E, F)
  <2> HIDE DEF J, E, F, S, n
  <2> QED
    BY <1>1, <1>3, <1>4, JumpsExist
<1> HIDE DEF Rel, Frame
<1>6. Right(f0)
  <2>1. ASSUME NEW s \in 0 .. n
        PROVE  f0[s] = IF Rel(s) = 0 THEN << >> ELSE <<Frame(s)>> \o f0[s + Rel(s)]
    <3>1. J[s] = s + Rel(s) /\ E[s] = << >> /\ f0[J[s]] \in S
      BY <1>3
    <3> HIDE DEF S
    <3>2. F[s][f0[J[s]]] = <<Frame(s)>> \o f0[J[s]]
      BY <3>1
    <3>3. Rel(s) = 0 <=> ~ (J[s] > s)
      BY <1>2, <3>1
    <3> HIDE DEF F, J, E
    <3> QED
      BY <1>5, <3>1, <3>2, <3>3 DEF Jumps
  <2> QED
    BY <2>1
<1> HIDE DEF J, E, F
<1>7. Is(f0)
  BY <1>6 DEF Rel, Frame
<1>8. PICK f : f = CHOOSE x : Is(x)
  OBVIOUS
<1>9. Is(f)
  <2> HIDE DEF Is
  <2> QED
    BY <1>7, <1>8
<1>10. FramesOf(b) = f[0]
  BY <1>8 DEF FramesOf
<1>11. Right(f) /\ DOMAIN f = 0 .. n
  BY <1>9 DEF Rel, Frame
<1> HIDE DEF Is
<1>12. 0 .. n \subseteq {s \in 0 .. n : f[s] = f0[s]}
  <2> DEFINE T == {s \in 0 .. n : f[s] = f0[s]}
  <2>1. ASSUME NEW x \in 0 .. n, \A y \in 0 .. n : y > x => y \in T PROVE x \in T
    <3>1. CASE Rel(x) = 0
      BY <1>6, <1>11, <3>1
    <3>2. CASE Rel(x) # 0
      <4>1. x + Rel(x) \in 0 .. n /\ x + Rel(x) > x
        BY <1>2, <3>2
      <4>2. f[x + Rel(x)] = f0[x + Rel(x)]
        BY <2>1, <4>1
      <4> QED
        BY <1>6, <1>11, <3>2, <4>2
    <3> QED
      BY <3>1, <3>2
  <2> HIDE DEF T, n
  <2>2. 0 .. n \subseteq T
    BY <1>1, <2>1, DownwardInduction
  <2> QED
    BY <2>2 DEF T
<1>13. FramesOf(b) = f0[0]
  BY <1>1, <1>10, <1>12
<1> QED
  BY <1>6, <1>13 DEF Rel, Frame

\* The frames of a body begin with those that have been cut from it, and they are
\* all its frames when there is no terminator behind them.
LEMMA FramesOfEnds ==
    ASSUME NEW b \in Seq(Bytes), NEW n \in Nat, NEW h, Ends(b, h, n, 0)
    PROVE  /\ \E rest \in Seq(Seq(Bytes)) : FramesOf(b) = Slices(b, h, n) \o rest
           /\ FindFrameTerminator(SkipTo(b, h[n])) = 0 => FramesOf(b) = Slices(b, h, n)
<1>1. PICK f \in [0 .. Len(b) -> Seq(Seq(Bytes))] :
        /\ FramesOf(b) = f[0]
        /\ \A s \in 0 .. Len(b) :
             LET rel == FindFrameTerminator(SkipTo(b, s))
             IN  f[s] = IF rel = 0 THEN << >> ELSE <<SubSeq(b, s + 1, s + rel)>> \o f[s + rel]
  BY FramesOfSteps
<1>2. h \in [0 .. n -> 0 .. Len(b)] /\ h[0] = 0
  BY DEF Ends
<1> DEFINE P(k) == k <= n => f[0] = Slices(b, h, k) \o f[h[k]]
           T == {k \in Nat : P(k)}
<1>3. P(0)
  <2>1. Slices(b, h, 0) = << >>
    BY DEF Slices
  <2>2. 0 \in 0 .. Len(b) /\ f[0] \in Seq(Seq(Bytes))
    OBVIOUS
  <2> QED
    BY <1>2, <2>1, <2>2
<1>4. ASSUME NEW k \in Nat, P(k) PROVE P(k + 1)
  <2> SUFFICES ASSUME k + 1 <= n PROVE f[0] = Slices(b, h, k + 1) \o f[h[k + 1]]
    OBVIOUS
  <2> DEFINE x == h[k]
             y == h[k + 1]
             p == Slices(b, h, k)
             q == Slices(b, h, k + 1)
             e == SubSeq(b, x + 1, y)
  <2>1. f[0] = p \o f[x]
    BY <1>4
  <2>2. x \in 0 .. Len(b) /\ y \in 0 .. Len(b) /\ (k + 1) - 1 = k /\ k + 1 \in 1 .. n
    BY <1>2
  <2>3. FindFrameTerminator(SkipTo(b, x)) # 0 /\ y = x + FindFrameTerminator(SkipTo(b, x))
    BY <2>2 DEF Ends
  <2>4. f[x] = <<e>> \o f[y]
    BY <1>1, <2>2, <2>3
  <2>5. /\ p \in Seq(Seq(Bytes)) /\ Len(p) = k
        /\ \A i \in 1 .. k : p[i] = SubSeq(b, h[i - 1] + 1, h[i])
    <3>1. [i \in 0 .. k |-> h[i]] \in [0 .. k -> 0 .. Len(b)]
      BY <1>2
    <3>2. p = Slices(b, [i \in 0 .. k |-> h[i]], k)
      BY DEF Slices
    <3>3. p \in Seq(Seq(Bytes)) /\ Len(p) = k
      BY <3>1, <3>2, SlicesAreFrames
    <3> QED
      BY <3>3 DEF Slices
  <2>6. /\ DOMAIN q = 1 .. k + 1
        /\ \A i \in 1 .. k + 1 : q[i] = SubSeq(b, h[i - 1] + 1, h[i])
    BY DEF Slices
  <2>7. e \in Seq(Bytes) /\ f[y] \in Seq(Seq(Bytes))
    BY <2>2
  <2> HIDE DEF p, q, e, x, y
  <2>8. q = Append(p, e)
    <3>1. q[k + 1] = e
      BY <2>2, <2>6 DEF e, x, y
    <3>2. ASSUME NEW i \in 1 .. k PROVE q[i] = p[i]
      <4>1. i \in 1 .. k + 1
        OBVIOUS
      <4> QED
        BY <2>5, <2>6, <4>1
    <3>3. q = [i \in 1 .. k + 1 |-> q[i]]
      BY DEF q, Slices
    <3>4. /\ Append(p, e) \in Seq(Seq(Bytes)) /\ Len(Append(p, e)) = k + 1
          /\ Append(p, e)[k + 1] = e /\ \A i \in 1 .. k : Append(p, e)[i] = p[i]
      BY <2>5, <2>7
    <3> DEFINE r == Append(p, e)
    <3>5. r = [i \in 1 .. k + 1 |-> r[i]]
      <4> HIDE DEF r
      <4>1. r \in Seq(Seq(Bytes)) /\ Len(r) = k + 1
        BY <3>4 DEF r
      <4> QED
        BY <4>1
    <3>6. \A i \in 1 .. k + 1 : r[i] = q[i]
      BY <3>1, <3>2, <3>4
    <3> HIDE DEF r
    <3>7. r = q
      BY <3>3, <3>5, <3>6
    <3> QED
      BY <3>7 DEF r
  <2>9. f[0] = p \o (<<e>> \o f[y])
    BY <2>1, <2>4
  <2>10. p \o (<<e>> \o f[y]) = Append(p, e) \o f[y]
    <3> DEFINE o == <<e>>
               z == f[y]
               S == Seq(Bytes)
    <3>1. /\ o \in Seq(S) /\ p \in Seq(S) /\ z \in Seq(S)
          /\ Append(p, e) = p \o o
      <4>1. p \in Seq(S) /\ z \in Seq(S) /\ e \in S
        BY <2>5, <2>7
      <4> HIDE DEF S, z
      <4>2. o \in Seq(S)
        BY <4>1
      <4>3. Append(p, e) = p \o o
        BY <4>1, AppendIsConcat
      <4> QED
        BY <4>1, <4>2, <4>3
    <3> HIDE DEF o, z, S
    <3>2. (p \o o) \o z = p \o (o \o z)
      BY <3>1, ConcatAssociative
    <3> QED
      BY <3>1, <3>2 DEF o, z
  <2> QED
    BY <2>8, <2>9, <2>10 DEF q, y
<1>5. P(n)
  <2> HIDE DEF P
  <2>1. 0 \in T /\ \A k \in Nat : k \in T => k + 1 \in T
    BY <1>3, <1>4
  <2> HIDE DEF T
  <2>2. n \in T
    BY <2>1, NatSetInduction
  <2> QED
    BY <2>2 DEF T
<1>6. f[0] = Slices(b, h, n) \o f[h[n]] /\ h[n] \in 0 .. Len(b) /\ f[h[n]] \in Seq(Seq(Bytes))
  BY <1>2, <1>5
<1>7. FindFrameTerminator(SkipTo(b, h[n])) = 0 => f[h[n]] = << >>
  BY <1>1, <1>6
<1>8. Slices(b, h, n) \in Seq(Seq(Bytes))
  BY <1>2, SlicesAreFrames
<1>9. Slices(b, h, n) \o << >> = Slices(b, h, n)
  BY <1>8
<1> QED
  BY <1>1, <1>6, <1>7, <1>9

\* The loop of feed: it searches at `back` first, and then behind the last frame.
LEMMA CutSteps ==
    ASSUME NEW b \in Seq(Bytes), NEW back \in 0 .. Len(b)
    PROVE  \E f : /\ CutFrom(b, back) = f[0]
                  /\ \A s \in 0 .. Len(b) :
                       LET at == IF back > s THEN back ELSE s
                           rel == FindFrameTerminator(SkipTo(b, at))
                       IN  f[s] = IF rel = 0 THEN [frames |-> << >>, consumed |-> s]
                                  ELSE [frames   |-> <<SubSeq(b, s + 1, at + rel)>> \o f[at + rel].frames,
                                        consumed |-> f[at + rel].consumed]
<1> DEFINE n == Len(b)
           S == [frames : Seq(Seq(Bytes)), consumed : 0 .. n]
           At(s) == IF back > s THEN back ELSE s
           Rel(s) == FindFrameTerminator(SkipTo(b, At(s)))
           Frame(s) == SubSeq(b, s + 1, At(s) + Rel(s))
           Step(s, r) == [frames |-> <<Frame(s)>> \o r.frames, consumed |-> r.consumed]
           Stop(s) == [frames |-> << >>, consumed |-> s]
           Value(f, s) == IF Rel(s) = 0 THEN Stop(s) ELSE Step(s, f[At(s) + Rel(s)])
           Is(f) == f = [s \in 0 .. n |-> Value(f, s)]
           Right(f) == \A s \in 0 .. n : f[s] = Value(f, s)
           J == [s \in 0 .. n |-> IF Rel(s) = 0 THEN s ELSE At(s) + Rel(s)]
           E == [s \in 0 .. n |-> Stop(s)]
           F == [s \in 0 .. n |-> [r \in S |-> Step(s, r)]]
<1>0. CutFrom(b, back) = (CHOOSE f : Is(f))[0]
  BY DEF CutFrom
<1>1. n \in Nat
  OBVIOUS
<1>2. ASSUME NEW s \in 0 .. n
      PROVE  /\ At(s) \in 0 .. n /\ Rel(s) \in Nat /\ At(s) + Rel(s) \in 0 .. n
             /\ Rel(s) # 0 => At(s) + Rel(s) > s
             /\ Frame(s) \in Seq(Bytes)
  <2>1. At(s) \in 0 .. n /\ At(s) >= s
    OBVIOUS
  <2>2. /\ Rel(s) \in Nat /\ At(s) + Rel(s) \in 0 .. n
        /\ Rel(s) # 0 => At(s) + Rel(s) > At(s)
    BY <2>1, FrameBehind
  <2> HIDE DEF Rel, At
  <2> QED
    BY <1>1, <2>1, <2>2
<1> HIDE DEF Rel, At, Frame, n
<1>3. J \in [0 .. n -> 0 .. n]
  BY <1>2
<1>4. E \in [0 .. n -> S] /\ F \in [0 .. n -> [S -> S]]
  <2>1. \A s \in 0 .. n : Stop(s) \in S
    OBVIOUS
  <2>2. ASSUME NEW s \in 0 .. n, NEW r \in S PROVE Step(s, r) \in S
    <3>1. Frame(s) \in Seq(Bytes) /\ r.frames \in Seq(Seq(Bytes)) /\ r.consumed \in 0 .. n
      BY <1>2
    <3>2. <<Frame(s)>> \o r.frames \in Seq(Seq(Bytes))
      BY <3>1
    <3> QED
      BY <3>1, <3>2
  <2> HIDE DEF S, Stop, Step
  <2> QED
    BY <2>1, <2>2
<1>5. PICK f0 \in [0 .. n -> S] : Jumps(f0, n, J, E, F)
  <2> HIDE DEF J, E, F, S
  <2>1. n \in Nat
    BY <1>1 DEF n
  <2> QED
    BY <2>1, <1>3, <1>4, JumpsExist
<1>6. Right(f0)
  <2>1. ASSUME NEW s \in 0 .. n
        PROVE  f0[s] = Value(f0, s)
    <3>0. n \in Nat
      BY <1>1 DEF n
    <3>1. /\ J[s] = IF Rel(s) = 0 THEN s ELSE At(s) + Rel(s)
          /\ E[s] = Stop(s) /\ J[s] \in 0 .. n
      BY <1>3
    <3>2. J[s] > s <=> Rel(s) # 0
      <4> HIDE DEF J
      <4>1. s \in Nat /\ (Rel(s) # 0 => At(s) + Rel(s) > s)
        BY <1>2, <3>0
      <4> QED
        BY <3>1, <4>1
    <3>3. f0[J[s]] \in S
      BY <1>5, <3>1
    <3> HIDE DEF S, Step, Stop, J, E
    <3>4. F[s][f0[J[s]]] = Step(s, f0[J[s]])
      BY <3>3
    <3> HIDE DEF F
    <3> QED
      BY <1>5, <3>1, <3>2, <3>4 DEF Jumps
  <2> QED
    BY <2>1
<1> HIDE DEF J, E, F
<1>7. Is(f0)
  <2>1. f0 = [s \in 0 .. n |-> f0[s]]
    OBVIOUS
  <2> HIDE DEF Value
  <2> QED
    BY <1>6, <2>1
<1>8. PICK f : f = CHOOSE x : Is(x)
  OBVIOUS
<1>9. Is(f)
  <2> HIDE DEF Is
  <2> QED
    BY <1>7, <1>8
<1>10. CutFrom(b, back) = f[0]
  BY <1>0, <1>8
<1>11. \A s \in 0 .. n : f[s] = Value(f, s)
  <2> HIDE DEF Value
  <2> QED
    BY <1>9
<1> QED
  BY <1>10, <1>11, Zenon DEF Rel, At, Frame, n

\* r is what the loop of feed cuts from b, beginning at x.
IsCut(b, x, r) ==
    \E m \in Nat : \E g :
        /\ Ends(b, g, m, x) /\ r = [frames |-> Slices(b, g, m), consumed |-> g[m]]
        /\ FindFrameTerminator(SkipTo(b, g[m])) = 0

\* What feed cuts from a buffer without a terminator and a chunk that follows it:
\* all its frames, although it begins its search three bytes before the chunk.
LEMMA CutIsExact ==
    ASSUME NEW s \in Seq(Bytes), NEW c \in Seq(Bytes), FindFrameTerminator(s) = 0
    PROVE  IsCut(s \o c, 0, Cut(s \o c, Len(s)))
<1> DEFINE b == s \o c
           n == Len(b)
           back == IF Len(s) > 3 THEN Len(s) - 3 ELSE 0
           Rel(x) == FindFrameTerminator(SkipTo(b, x))
           Frame(x) == SubSeq(b, x + 1, x + Rel(x))
<1>1. b \in Seq(Bytes) /\ n = Len(s) + Len(c) /\ n \in Nat /\ Len(s) \in Nat /\ Len(c) \in Nat
  BY Joined
<1>2. back \in 0 .. n /\ back \in 0 .. Len(s) /\ (back = 0 \/ back + 3 <= Len(s)) /\ back \in Nat
  BY <1>1
<1>3. Cut(b, Len(s)) = CutFrom(b, back)
  BY DEF Cut
<1> HIDE DEF b, back, n
<1>4. PICK f : /\ CutFrom(b, back) = f[0]
               /\ \A x \in 0 .. n :
                    LET at == IF back > x THEN back ELSE x
                        rel == FindFrameTerminator(SkipTo(b, at))
                    IN  f[x] = IF rel = 0 THEN [frames |-> << >>, consumed |-> x]
                               ELSE [frames   |-> <<SubSeq(b, x + 1, at + rel)>> \o f[at + rel].frames,
                                     consumed |-> f[at + rel].consumed]
  BY <1>1, <1>2, CutSteps DEF n
<1> DEFINE Good(x) == x = 0 \/ x >= back
           T == {x \in 0 .. n : Good(x) => IsCut(b, x, f[x])}
<1>5. ASSUME NEW x \in 0 .. n, Good(x)
      PROVE  /\ Rel(x) = 0 => f[x] = [frames |-> << >>, consumed |-> x]
             /\ Rel(x) # 0 =>
                  /\ f[x] = [frames   |-> <<Frame(x)>> \o f[x + Rel(x)].frames,
                             consumed |-> f[x + Rel(x)].consumed]
                  /\ Good(x + Rel(x)) /\ x + Rel(x) \in 0 .. n /\ x + Rel(x) > x
  <2>1. Rel(x) \in Nat /\ x + Rel(x) \in 0 .. n /\ (Rel(x) # 0 => x + Rel(x) > x)
    BY <1>1, FrameBehind DEF n
  <2>2. CASE ~ (back > x)
    <3>1. Rel(x) # 0 => x + Rel(x) >= back
      <4> HIDE DEF Rel
      <4> QED
        BY <1>1, <1>2, <2>1, <2>2
    <3> QED
      BY <1>4, <2>1, <2>2, <3>1
  <2>3. CASE back > x
    <3>1. x = 0 /\ back # 0
      BY <1>1, <1>2, <1>5, <2>3
    <3>2. SkipTo(b, 0) = b
      BY <1>1 DEF SkipTo, n
    <3>3. /\ Rel(back) = 0 <=> FindFrameTerminator(b) = 0
          /\ Rel(back) # 0 => back + Rel(back) = FindFrameTerminator(b)
                              /\ FindFrameTerminator(b) > Len(s)
      BY <1>2, StepBackIsEnough DEF b
    <3>4. Rel(0) = FindFrameTerminator(b)
      BY <3>2
    <3>5. f[0] = IF Rel(back) = 0 THEN [frames |-> << >>, consumed |-> 0]
                 ELSE [frames   |-> <<SubSeq(b, 0 + 1, back + Rel(back))>> \o f[back + Rel(back)].frames,
                       consumed |-> f[back + Rel(back)].consumed]
      BY <1>4, <2>3, <3>1
    <3>6. Rel(0) \in Nat
      BY <2>1, <3>1
    <3> HIDE DEF Rel
    <3>7. Rel(0) # 0 => 0 + Rel(0) = back + Rel(back) /\ 0 + Rel(0) >= back
      BY <1>1, <1>2, <3>3, <3>4, <3>6
    <3> QED
      BY <2>1, <3>1, <3>3, <3>4, <3>5, <3>7
  <2> QED
    BY <2>2, <2>3
<1>6. ASSUME NEW x \in 0 .. n, \A y \in 0 .. n : y > x => y \in T PROVE x \in T
  <2> SUFFICES ASSUME Good(x) PROVE IsCut(b, x, f[x])
    OBVIOUS
  <2>1. CASE Rel(x) = 0
    <3> DEFINE g == [i \in 0 .. 0 |-> x]
    <3>1. g[0] = x /\ g \in [0 .. 0 -> 0 .. n]
      OBVIOUS
    <3> HIDE DEF g
    <3>2. Ends(b, g, 0, x)
      BY <3>1 DEF Ends, n
    <3>3. Slices(b, g, 0) = << >>
      BY DEF Slices
    <3>4. f[x] = [frames |-> Slices(b, g, 0), consumed |-> g[0]]
      BY <1>5, <2>1, <3>1, <3>3
    <3>5. FindFrameTerminator(SkipTo(b, g[0])) = 0 /\ 0 \in Nat
      BY <2>1, <3>1
    <3> DEFINE r == f[x]
    <3> HIDE DEF r
    <3>6. IsCut(b, x, r)
      BY <3>2, <3>4, <3>5 DEF IsCut, r
    <3> QED
      BY <3>6 DEF r
  <2>2. CASE Rel(x) # 0
    <3> DEFINE y == x + Rel(x)
    <3>1. Good(y) /\ y \in 0 .. n /\ y > x
      BY <1>5, <2>2
    <3>2. IsCut(b, y, f[y])
      BY <1>6, <3>1
    <3>3. PICK m \in Nat : \E g :
            /\ Ends(b, g, m, y) /\ f[y] = [frames |-> Slices(b, g, m), consumed |-> g[m]]
            /\ Rel(g[m]) = 0
      BY <3>2 DEF IsCut
    <3>4. PICK g :
            /\ Ends(b, g, m, y) /\ f[y] = [frames |-> Slices(b, g, m), consumed |-> g[m]]
            /\ Rel(g[m]) = 0
      BY <3>3
    <3>5. PICK h : /\ Ends(b, h, m + 1, x) /\ h[m + 1] = g[m]
                   /\ Slices(b, h, m + 1) = <<Frame(x)>> \o Slices(b, g, m)
      <4>1. /\ x \in 0 .. Len(b) /\ FindFrameTerminator(SkipTo(b, x)) # 0
            /\ Ends(b, g, m, x + FindFrameTerminator(SkipTo(b, x)))
        BY <2>2, <3>4 DEF n
      <4>2. b \in Seq(Bytes) /\ m \in Nat
        BY <1>1
      <4>3. IsBefore(b, x, g, m)
        BY <4>1, <4>2, EndsBefore
      <4> QED
        BY <4>3 DEF IsBefore
    <3>6. f[x] = [frames |-> <<Frame(x)>> \o f[y].frames, consumed |-> f[y].consumed]
      BY <1>5, <2>2
    <3> HIDE DEF Rel, Frame, y
    <3>7. f[y].frames = Slices(b, g, m) /\ f[y].consumed = g[m]
      BY <3>4
    <3>8. f[x] = [frames |-> Slices(b, h, m + 1), consumed |-> h[m + 1]]
      BY <3>5, <3>6, <3>7
    <3>9. m + 1 \in Nat /\ Rel(h[m + 1]) = 0
      BY <3>4, <3>5
    <3> QED
      BY <3>5, <3>8, <3>9 DEF IsCut, Rel
  <2> QED
    BY <2>1, <2>2
<1>7. 0 \in T
  <2> HIDE DEF T
  <2>1. n \in Nat
    BY <1>1
  <2>2. 0 .. n \subseteq T
    BY <1>6, <2>1, DownwardInduction
  <2> QED
    BY <2>1, <2>2
<1>8. IsCut(b, 0, f[0])
  BY <1>7
<1> QED
  BY <1>3, <1>4, <1>8 DEF b
-----------------------------------------------------------------------------
(* The invariant: the frames handed over are the first ones of the body, and as    *)
(* long as the reassembler has not given up, the buffer holds what is behind them, *)
(* without a terminator, and all of it has been scanned.                           *)

FramesInv ==
    /\ body \in Seq(Bytes) /\ buf \in Seq(Bytes) /\ aborted \in BOOLEAN /\ table \in Tables
    /\ \E n \in Nat : \E h :
         /\ Ends(body, h, n, 0) /\ frames = Slices(body, h, n)
         /\ ~ aborted => /\ buf = SkipTo(body, h[n]) /\ FindFrameTerminator(buf) = 0
                         /\ scanned = Len(buf)

\* A chunk is a sequence of bytes.
LEMMA ChunksAreBytes ==
    ASSUME table \in Tables, NEW chunk \in Chunks
    PROVE  chunk \in Seq(Bytes)
<1>1. PICK n \in 1 .. MaxChunk : \E cs \in [1 .. n -> table.chars] : chunk = FlattenSeq(cs)
  BY StreamAssumption DEF Chunks
<1>2. PICK cs \in [1 .. n -> table.chars] : chunk = FlattenSeq(cs)
  BY <1>1
<1>3. n \in Nat /\ table.chars \subseteq Seq(Bytes)
  BY StreamAssumption
<1>4. cs \in [1 .. n -> Seq(Bytes)]
  BY <1>3
<1>5. cs \in Seq(Seq(Bytes))
  BY <1>3, <1>4
<1> QED
  BY <1>2, <1>5, FlattenElements

LEMMA InitFramesInv == StreamInit => FramesInv
<1> SUFFICES ASSUME StreamInit PROVE FramesInv
  OBVIOUS
<1> DEFINE h == [i \in 0 .. 0 |-> 0]
<1>1. body = << >> /\ buf = << >> /\ scanned = 0 /\ aborted = FALSE /\ frames = << >> /\ table \in Tables
  BY DEF StreamInit
<1>2. << >> \in Seq(Bytes) /\ Len(<< >>) = 0
  OBVIOUS
<1>3. h[0] = 0 /\ h \in [0 .. 0 -> 0 .. Len(body)]
  BY <1>1
<1> HIDE DEF h
<1>4. Ends(body, h, 0, 0)
  BY <1>3 DEF Ends
<1>5. Slices(body, h, 0) = << >>
  BY DEF Slices
<1>6. SkipTo(body, h[0]) = << >>
  BY <1>1, <1>3 DEF SkipTo
<1>7. FindFrameTerminator(<< >>) = 0
  <2>1. ~ \E i \in 1 .. Len(<< >>) : TRUE
    BY <1>2
  <2> QED
    BY <1>2, <2>1, FirstTerminator
<1> QED
  BY <1>1, <1>2, <1>4, <1>5, <1>6, <1>7 DEF FramesInv

\* feed hands over the frames that the chunk completes.
LEMMA FeedFramesInv ==
    ASSUME FramesInv, NEW chunk \in Chunks, Feed(chunk)
    PROVE  FramesInv'
<1> DEFINE b == body \o chunk
           grown == buf \o chunk
           cut == Cut(grown, scanned)
<1>1. /\ body \in Seq(Bytes) /\ buf \in Seq(Bytes) /\ aborted \in BOOLEAN /\ table \in Tables
      /\ chunk \in Seq(Bytes)
  BY ChunksAreBytes DEF FramesInv
<1>2. PICK n \in Nat : \E h :
        /\ Ends(body, h, n, 0) /\ frames = Slices(body, h, n)
        /\ ~ aborted => /\ buf = SkipTo(body, h[n]) /\ FindFrameTerminator(buf) = 0
                        /\ scanned = Len(buf)
  BY DEF FramesInv
<1>2a. PICK h :
        /\ Ends(body, h, n, 0) /\ frames = Slices(body, h, n)
        /\ ~ aborted => /\ buf = SkipTo(body, h[n]) /\ FindFrameTerminator(buf) = 0
                        /\ scanned = Len(buf)
  BY <1>2
<1>3. body' = b /\ b \in Seq(Bytes) /\ table' = table
  BY <1>1, Joined DEF Feed
<1>4. Ends(b, h, n, 0) /\ Slices(b, h, n) = Slices(body, h, n)
  BY <1>1, <1>2a, EndsStay
<1>5. CASE aborted
  <2>1. aborted' = aborted /\ buf' = buf /\ scanned' = scanned /\ frames' = frames
    BY <1>5 DEF Feed, reassembler
  <2> HIDE DEF b
  <2> QED
    BY <1>1, <1>2a, <1>3, <1>4, <1>5, <2>1 DEF FramesInv
<1>6. CASE ~ aborted
  <2>1. h[n] \in 0 .. Len(body) /\ h[n] \in Nat
    BY <1>1, <1>2a DEF Ends
  <2>2. SkipTo(b, h[n]) = grown
    BY <1>1, <1>2a, <1>6, <2>1, SkipJoined
  <2>3. h[n] \in 0 .. Len(b)
    BY <1>4 DEF Ends
  <2>4. /\ aborted' \in BOOLEAN
        /\ buf' = IF aborted' THEN << >> ELSE SkipTo(grown, cut.consumed)
        /\ scanned' = Len(buf') /\ frames' = frames \o cut.frames
    BY <1>6 DEF Feed, Overflow
  <2>5. PICK m \in Nat : \E g :
          /\ Ends(grown, g, m, 0) /\ cut = [frames |-> Slices(grown, g, m), consumed |-> g[m]]
          /\ FindFrameTerminator(SkipTo(grown, g[m])) = 0
    <3>1. IsCut(grown, 0, cut)
      BY <1>1, <1>2a, <1>6, CutIsExact
    <3> HIDE DEF grown, cut
    <3> QED
      BY <3>1 DEF IsCut
  <2>5a. PICK g :
          /\ Ends(grown, g, m, 0) /\ cut = [frames |-> Slices(grown, g, m), consumed |-> g[m]]
          /\ FindFrameTerminator(SkipTo(grown, g[m])) = 0
    BY <2>5
  <2>6. cut.frames = Slices(grown, g, m) /\ cut.consumed = g[m]
    BY <2>5a
  <2> HIDE DEF b, grown, cut
  <2>7. PICK k : /\ Ends(b, k, n + m, 0) /\ k[n + m] = h[n] + g[m]
                 /\ Slices(b, k, n + m) = Slices(b, h, n) \o Slices(grown, g, m)
    <3>1. Ends(SkipTo(b, h[n]), g, m, 0)
      BY <2>2, <2>5a
    <3>2. b \in Seq(Bytes) /\ n \in Nat /\ m \in Nat /\ Ends(b, h, n, 0)
      BY <1>3, <1>4
    <3>3. AreJoined(b, h, n, SkipTo(b, h[n]), g, m)
      BY <3>1, <3>2, EndsConcatenate
    <3> QED
      BY <2>2, <3>3 DEF AreJoined
  <2>8. grown \in Seq(Bytes) /\ Len(grown) = Len(b) - h[n]
    BY <1>3, <2>2, <2>3, RestOfBytes
  <2>9. g[m] \in 0 .. Len(grown)
    BY <2>5a DEF Ends
  <2>10. SkipTo(grown, g[m]) = SkipTo(b, k[n + m])
    BY <1>3, <2>2, <2>3, <2>7, <2>8, <2>9, SkipTwice
  <2>11. buf' \in Seq(Bytes)
    <3>1. SkipTo(grown, g[m]) \in Seq(Bytes)
      BY <2>8, <2>9, RestOfBytes
    <3> QED
      BY <2>4, <2>6, <3>1
  <2>12. frames' = Slices(b, k, n + m)
    BY <1>2a, <1>4, <2>4, <2>6, <2>7
  <2>13. ~ aborted' => buf' = SkipTo(b, k[n + m]) /\ FindFrameTerminator(buf') = 0
    BY <2>4, <2>5a, <2>6, <2>10
  <2>14. n + m \in Nat /\ table' \in Tables /\ body' \in Seq(Bytes)
    BY <1>1, <1>3
  <2> QED
    BY <1>3, <2>4, <2>7, <2>11, <2>12, <2>13, <2>14 DEF FramesInv
<1> QED
  BY <1>1, <1>5, <1>6

LEMMA NextFramesInv == FramesInv /\ [StreamNext]_stream_vars => FramesInv'
<1> SUFFICES ASSUME FramesInv, [StreamNext]_stream_vars PROVE FramesInv'
  OBVIOUS
<1>1. ASSUME NEW chunk \in Chunks, Feed(chunk) PROVE FramesInv'
  BY <1>1, FeedFramesInv
<1>2. CASE Finish
  <2>1. UNCHANGED <<table, body, buf, scanned, aborted, frames>>
    BY <1>2 DEF Finish, reassembler
  <2> QED
    BY <2>1 DEF FramesInv
<1>3. CASE UNCHANGED stream_vars
  <2>1. UNCHANGED <<table, body, buf, scanned, aborted, frames>>
    BY <1>3 DEF stream_vars, reassembler
  <2> QED
    BY <2>1 DEF FramesInv
<1> QED
  BY <1>1, <1>2, <1>3 DEF StreamNext

\* STR-1: however the bytes of an answer are cut into chunks, and whatever bytes they
\* are, the frames handed over are those of the body; when an overlong frame makes the
\* reassembler give up, they are the first ones.
THEOREM FramesAreThoseOfTheBody == StreamSpec => []FramesIgnoreChunks
<1>1. ASSUME FramesInv PROVE FramesIgnoreChunks
  <2>0. PICK n \in Nat : \E h :
          /\ Ends(body, h, n, 0) /\ frames = Slices(body, h, n)
          /\ ~ aborted => /\ buf = SkipTo(body, h[n]) /\ FindFrameTerminator(buf) = 0
                          /\ scanned = Len(buf)
    BY <1>1 DEF FramesInv
  <2>1. PICK h :
          /\ Ends(body, h, n, 0) /\ frames = Slices(body, h, n)
          /\ ~ aborted => /\ buf = SkipTo(body, h[n]) /\ FindFrameTerminator(buf) = 0
                          /\ scanned = Len(buf)
    BY <2>0
  <2>2. body \in Seq(Bytes) /\ aborted \in BOOLEAN
    BY <1>1 DEF FramesInv
  <2>3. CASE ~ aborted
    <3>1. FramesOf(body) = frames
      BY <2>1, <2>2, <2>3, FramesOfEnds
    <3> QED
      BY <2>3, <3>1 DEF FramesIgnoreChunks
  <2>4. CASE aborted
    <3>1. PICK rest \in Seq(Seq(Bytes)) : FramesOf(body) = frames \o rest
      BY <2>1, <2>2, FramesOfEnds
    <3>2. frames \in Seq(Seq(Bytes))
      <4>1. h \in [0 .. n -> 0 .. Len(body)]
        BY <2>1 DEF Ends
      <4> QED
        BY <2>1, <2>2, <4>1, SlicesAreFrames
    <3>3. IsPrefix(frames, frames \o rest)
      <4>1. PICK t : t = frames \o rest
        OBVIOUS
      <4>2. /\ t \in Seq(Seq(Bytes)) /\ Len(t) = Len(frames) + Len(rest)
            /\ Len(frames) \in Nat /\ Len(rest) \in Nat
            /\ \A i \in 1 .. Len(frames) : t[i] = frames[i]
        BY <3>2, <4>1, JoinedFrames
      <4>3. SubSeq(frames, 1, Len(frames)) = SubSeq(t, 1, Len(frames))
        <5> DEFINE p == SubSeq(frames, 1, Len(frames))
                   q == SubSeq(t, 1, Len(frames))
        <5>1. /\ p \in Seq(Seq(Bytes)) /\ Len(p) = Len(frames)
              /\ \A i \in 1 .. Len(frames) : p[i] = frames[i]
          BY <3>2
        <5>2. /\ q \in Seq(Seq(Bytes)) /\ Len(q) = Len(frames)
              /\ \A i \in 1 .. Len(frames) : q[i] = t[i]
          BY <4>2
        <5> HIDE DEF p, q
        <5>3. p = q
          BY <4>2, <5>1, <5>2, SeqEqual
        <5> QED
          BY <5>3 DEF p, q
      <4> QED
        BY <4>1, <4>2, <4>3 DEF IsPrefix
    <3> QED
      BY <2>4, <3>1, <3>3 DEF FramesIgnoreChunks
  <2> QED
    BY <2>2, <2>3, <2>4
<1> QED
  BY <1>1, InitFramesInv, NextFramesInv, PTL DEF StreamSpec

-----------------------------------------------------------------------------
(* ModelListCache *)

\* The history of a key, and the entry that agrees with it.
LastShape(l) == /\ l = [list |-> l.list, since_ok |-> l.since_ok,
                        since_failed |-> l.since_failed, joined |-> l.joined]
                /\ l.since_ok \in 0..TTL /\ l.since_failed \in 0..Backoff

Agree(e, l) ==
    IF e = None THEN l.list = None /\ l.since_ok = TTL /\ l.since_failed = Backoff
    ELSE /\ e \in Entry
         /\ e.last_attempt = IF l.since_ok <= l.since_failed THEN l.since_ok
                             ELSE l.since_failed
         /\ IF l.list = None THEN e.fetched_at = None /\ l.since_ok = TTL
            ELSE e.fetched_at = l.since_ok /\ e.models = l.list

CacheInv ==
    /\ DOMAIN entries = Keys /\ entries = [k \in Keys |-> entries[k]]
    /\ last = [k \in Keys |-> last[k]]
    /\ \A k \in Keys : LastShape(last[k]) /\ Agree(entries[k], last[k])

QueryShape(x) ==
    /\ x = [pc |-> x.pc, targets |-> x.targets, at |-> x.at, fetch |-> x.fetch,
            out |-> x.out]
    /\ x.pc \in {"idle", "waiting", "scan", "fetch"}
    /\ x.targets \in Walks \cup {<<>>}
    /\ x.at \in 1..(Len(x.targets) + 1)
    /\ x.out = [id \in Ids |-> x.out[id]]
    /\ x.pc = "fetch" => /\ x.at <= Len(x.targets)
                         /\ x.fetch.candidates \in Seq(CommonUris \cup {None}) \ {<<>>}
    /\ x.pc \in {"idle", "waiting"} => x.at = 1
    /\ \A id \in Ids : x.out[id] # None => \E i \in 1..(x.at - 1) : x.targets[i].key[1] = id

Told(x, history) ==
    \A i \in 1..(x.at - 1) : x.out[x.targets[i].key[1]] = history[x.targets[i].key].list

QueryInv ==
    /\ query = [q \in Queries |-> query[q]]
    /\ \A q \in Queries :
         /\ QueryShape(query[q])
         /\ (query[q].pc \in {"scan", "fetch"}) <=> (holder = q)
         /\ Told(query[q], last)

ModelListInv == CacheInv /\ QueryInv
-----------------------------------------------------------------------------
\* The targets of a walk are keys, of different providers.
LEMMA WalkTargets ==
    ASSUME NEW w \in Walks \cup {<<>>}
    PROVE  /\ w \in Seq(Target)
           /\ \A i \in 1..Len(w) : w[i] \in Target /\ w[i].key \in Keys
                                   /\ w[i].key[1] \in Ids
           /\ \A i, j \in 1..Len(w) : w[i].key[1] = w[j].key[1] => i = j
<1>1. w \in Seq(Target)
  <2>1. CASE w \in Walks
    BY <2>1, CacheAssumption
  <2>2. CASE w = <<>>
    BY <2>2
  <2> QED
    BY <2>1, <2>2
<1>2. \A i \in 1..Len(w) : w[i] \in Target
  BY <1>1
<1>3. \A i \in 1..Len(w) : w[i].key \in Keys /\ w[i].key[1] \in Ids
  BY <1>2 DEF Target, Keys
<1>4. \A i, j \in 1..Len(w) : w[i].key[1] = w[j].key[1] => i = j
  <2>1. CASE w \in Walks
    <3>1. DOMAIN w = 1..Len(w)
      BY <1>1
    <3> QED
      BY <2>1, <3>1, CacheAssumption
  <2>2. CASE w = <<>>
    BY <2>2
  <2> QED
    BY <2>1, <2>2
<1> QED
  BY <1>1, <1>2, <1>3, <1>4

\* The target a query is at.
LEMMA TargetIsKey ==
    ASSUME NEW q \in Queries, QueryShape(query[q]), query[q].at <= Len(query[q].targets)
    PROVE  /\ TargetOf(q).key \in Keys /\ TargetOf(q).key[1] \in Ids
           /\ query[q].at \in 1..Len(query[q].targets)
<1>1. query[q].targets \in Walks \cup {<<>>} /\ query[q].at \in 1..Len(query[q].targets)
  <2>1. query[q].targets \in Walks \cup {<<>>}
    BY DEF QueryShape
  <2>2. Len(query[q].targets) \in Nat
    BY <2>1, WalkTargets
  <2> QED
    BY <2>1, <2>2 DEF QueryShape
<1> QED
  BY <1>1, WalkTargets DEF TargetOf

LEMMA HeadOf ==
    ASSUME NEW S, NEW s \in Seq(S) \ {<<>>}
    PROVE  Head(s) \in S
OBVIOUS

LEMMA TailOf ==
    ASSUME NEW S, NEW s \in Seq(S), Len(s) > 1
    PROVE  Tail(s) \in Seq(S) \ {<<>>}
<1>1. s # <<>>
  OBVIOUS
<1>2. Tail(s) \in Seq(S) /\ Len(Tail(s)) = Len(s) - 1 /\ Len(s) \in Nat
  BY <1>1, HeadTailProperties
<1>3. Len(Tail(s)) # 0
  BY <1>2
<1>4. Len(<<>>) = 0
  BY EmptySeq
<1>5. Tail(s) # <<>>
  BY <1>3, <1>4, Zenon
<1> QED
  BY <1>2, <1>5

LEMMA TriesTyped ==
    ASSUME NEW target
    PROVE  Tries(target) \in Seq(CommonUris \cup {None}) \ {<<>>}
<1>1. <<None>> \in Seq(CommonUris \cup {None}) \ {<<>>}
  OBVIOUS
<1>2. ASSUME NEW c
      PROVE  Candidates(c) \in Seq(CommonUris \cup {None}) \ {<<>>}
  BY DEF Candidates, CommonUris
<1> QED
  BY <1>1, <1>2 DEF Tries

\* A refresh is needed exactly when the history says it is due, and what is
\* collected from an entry is the last list of its key.
LEMMA DueIsNeeded ==
    ASSUME NEW k \in Keys, LastShape(last[k]), Agree(entries[k], last[k])
    PROVE  /\ NeedsRefresh(entries[k]) <=> Due(k)
           /\ Snapshot(entries[k]) = last[k].list
<1>1. CASE entries[k] = None
  BY <1>1, CacheAssumption DEF Agree, NeedsRefresh, Due, Snapshot, LastShape
<1>2. CASE entries[k] # None
  BY <1>2, CacheAssumption DEF Agree, NeedsRefresh, Stale, Due, Snapshot, LastShape
<1> QED
  BY <1>1, <1>2

\* An entry agrees with a history in either of two ways.
LEMMA Agreeing ==
    ASSUME NEW e \in Entry, NEW l,
           e.last_attempt = IF l.since_ok <= l.since_failed THEN l.since_ok
                            ELSE l.since_failed,
           \/ l.list = None /\ e.fetched_at = None /\ l.since_ok = TTL
           \/ l.list # None /\ e.fetched_at = l.since_ok /\ e.models = l.list
    PROVE  Agree(e, l)
<1>1. e # None
  BY CacheAssumption
<1> QED
  BY <1>1 DEF Agree

LEMMA SnapshotAgrees ==
    ASSUME NEW e, NEW l, LastShape(l), Agree(e, l)
    PROVE  Snapshot(e) = l.list
<1>1. CASE e = None
  BY <1>1 DEF Agree, Snapshot
<1>2. CASE e # None
  BY <1>2, CacheAssumption DEF Agree, Snapshot, LastShape
<1> QED
  BY <1>1, <1>2

\* Time passing keeps an entry and its history in agreement.
LEMMA AgreeOlder ==
    ASSUME NEW e, NEW l, LastShape(l), Agree(e, l)
    PROVE  /\ LastShape(OlderHistory(l)) /\ Agree(OlderEntry(e), OlderHistory(l))
           /\ OlderHistory(l).list = l.list
<1> DEFINE e2 == OlderEntry(e)
           l2 == OlderHistory(l)
<1>1. /\ l2 = [list |-> l.list, since_ok |-> Older(l.since_ok, TTL),
               since_failed |-> Older(l.since_failed, Backoff), joined |-> l.joined]
      /\ l2.list = l.list
  <2>1. ASSUME NEW m, m = [l EXCEPT !.since_ok = Older(@, TTL),
                                    !.since_failed = Older(@, Backoff)]
        PROVE  /\ m = [list |-> l.list, since_ok |-> Older(l.since_ok, TTL),
                       since_failed |-> Older(l.since_failed, Backoff), joined |-> l.joined]
               /\ m.list = l.list
    BY <2>1 DEF LastShape
  <2> QED
    BY <2>1 DEF OlderHistory
<1>2. Older(l.since_ok, TTL) \in 0..TTL /\ Older(l.since_failed, Backoff) \in 0..Backoff
  BY CacheAssumption DEF LastShape, Older
<1>3. LastShape(l2)
  BY <1>1, <1>2 DEF LastShape
<1>4. CASE e = None
  <2>1. e2 = None
    BY <1>4 DEF OlderEntry
  <2>2. l.list = None /\ l.since_ok = TTL /\ l.since_failed = Backoff
    BY <1>4 DEF Agree
  <2>3. l2.list = None /\ l2.since_ok = TTL /\ l2.since_failed = Backoff
    BY <2>2, <1>1 DEF Older
  <2>4. Agree(e2, l2)
    BY <2>1, <2>3 DEF Agree
  <2> QED
    BY <2>4, <1>1, <1>3
<1>5. CASE e # None
  <2>1. e2 = [models |-> e.models, fetched_at |-> Older(e.fetched_at, TTL),
              last_attempt |-> Older(e.last_attempt, Backoff),
              common_uri_hit |-> e.common_uri_hit]
    BY <1>5 DEF Agree, Entry, OlderEntry
  <2>2. Older(e.last_attempt, Backoff) =
          IF Older(l.since_ok, TTL) <= Older(l.since_failed, Backoff)
          THEN Older(l.since_ok, TTL) ELSE Older(l.since_failed, Backoff)
    BY <1>5, CacheAssumption DEF Agree, LastShape, Older
  <2>a. e2 # None /\ e2 \in Entry
    <3>1. Older(e.fetched_at, TTL) \in 0..TTL \cup {None}
      BY <1>5, CacheAssumption DEF Agree, Entry, Older
    <3>2. Older(e.last_attempt, Backoff) \in 0..Backoff
      BY <1>5, CacheAssumption DEF Agree, Entry, Older
    <3>3. e \in Entry
      BY <1>5 DEF Agree
    <3>4. e2 \in Entry
      BY <2>1, <3>1, <3>2, <3>3 DEF Entry
    <3> QED
      BY <3>4, CacheAssumption
  <2>b. e2.last_attempt = IF l2.since_ok <= l2.since_failed THEN l2.since_ok
                          ELSE l2.since_failed
    BY <1>1, <2>1, <2>2
  <2>3. CASE l.list = None
    <3>1. e.fetched_at = None /\ l.since_ok = TTL
      BY <2>3, <1>5 DEF Agree
    <3>2. e2.fetched_at = None /\ l2.since_ok = TTL /\ l2.list = None
      BY <3>1, <2>1, <1>1, <2>3 DEF Older
    <3> QED
      BY <3>2, <2>a, <2>b, <1>1, <1>3, Agreeing
  <2>4. CASE l.list # None
    <3>1. e.fetched_at = l.since_ok /\ e.models = l.list
      BY <2>4, <1>5 DEF Agree
    <3>2. e2.fetched_at = l2.since_ok /\ e2.models = l2.list /\ l2.list # None
      BY <3>1, <2>1, <1>1, <2>4
    <3> QED
      BY <3>2, <2>a, <2>b, <1>1, <1>3, Agreeing
  <2> QED
    BY <2>3, <2>4
<1> QED
  BY <1>1, <1>3, <1>4, <1>5

\* What the steps do to the cache: a new entry, or a change that the
\* invariant does not see.
LEMMA CacheStep ==
    ASSUME CacheInv, QueryInv, [CacheNext]_cache_vars
    PROVE  CacheInv'
<1>1. ASSUME entries' = entries,
             \A k \in Keys : LastShape(last'[k])
                             /\ last'[k].list = last[k].list
                             /\ last'[k].since_ok = last[k].since_ok
                             /\ last'[k].since_failed = last[k].since_failed,
             last' = [k \in Keys |-> last'[k]]
      PROVE  CacheInv'
  BY <1>1 DEF CacheInv, Agree
<1>2. ASSUME entries' = entries, last' = last
      PROVE  CacheInv'
  BY <1>2 DEF CacheInv, Agree, LastShape
<1>3. ASSUME NEW q \in Queries, entries' = entries, last' = Forget(q)
      PROVE  CacheInv'
  <2>1. \A k \in Keys : last'[k] = [last[k] EXCEPT !.joined = @ \ {q}]
    BY <1>3 DEF Forget
  <2>2. \A k \in Keys :
          last'[k] = [list |-> last[k].list, since_ok |-> last[k].since_ok,
                      since_failed |-> last[k].since_failed,
                      joined |-> last[k].joined \ {q}]
    BY <2>1 DEF CacheInv, LastShape
  <2>3. ASSUME NEW k \in Keys
        PROVE  /\ LastShape(last'[k])
               /\ last'[k].list = last[k].list
               /\ last'[k].since_ok = last[k].since_ok
               /\ last'[k].since_failed = last[k].since_failed
    <3>1. LastShape(last[k])
      BY DEF CacheInv
    <3>2. last'[k] = [list |-> last[k].list, since_ok |-> last[k].since_ok,
                      since_failed |-> last[k].since_failed,
                      joined |-> last[k].joined \ {q}]
      BY <2>2
    <3> QED
      BY <3>1, <3>2 DEF LastShape
  <2>4. last' = [k \in Keys |-> last'[k]]
    BY <1>3 DEF Forget
  <2> QED
    BY <1>1, <1>3, <2>3, <2>4
<1>4. ASSUME NEW q \in Queries, query[q].pc = "fetch"
      PROVE  TargetOf(q).key \in Keys
  BY <1>4, TargetIsKey DEF QueryInv, QueryShape
<1>5. ASSUME NEW q \in Queries, FetchOk(q)
      PROVE  CacheInv'
  <2> DEFINE k == TargetOf(q).key
  <2>1. k \in Keys /\ query[q].pc = "fetch"
    BY <1>4, <1>5 DEF FetchOk
  <2>2. PICK list \in ModelLists[k] :
          /\ entries' = StoreList(k, list, Head(query[q].fetch.candidates))
          /\ last' = [last EXCEPT ![k].list = list, ![k].since_ok = 0,
                                  ![k].joined = @ \cup Range(queue)]
    BY <1>5 DEF FetchOk, Collect
  <2>3. Head(query[q].fetch.candidates) \in CommonUris \cup {None}
    BY <2>1, HeadOf DEF QueryInv, QueryShape
  <2>a. last[k] = [list |-> last[k].list, since_ok |-> last[k].since_ok,
                   since_failed |-> last[k].since_failed, joined |-> last[k].joined]
    BY <2>1 DEF CacheInv, LastShape
  <2>b. DOMAIN last = Keys
    BY DEF CacheInv
  <2>4. /\ last'[k] = [list |-> list, since_ok |-> 0,
                       since_failed |-> last[k].since_failed,
                       joined |-> last[k].joined \cup Range(queue)]
        /\ \A x \in Keys \ {k} : last'[x] = last[x]
        /\ last' = [x \in Keys |-> last'[x]]
    BY <2>1, <2>2, <2>a, <2>b
  <2>5. /\ entries'[k] = [models |-> list, fetched_at |-> 0, last_attempt |-> 0,
                          common_uri_hit |-> Head(query[q].fetch.candidates)]
        /\ \A x \in Keys \ {k} : entries'[x] = entries[x]
        /\ entries' = [x \in Keys |-> entries'[x]] /\ DOMAIN entries' = Keys
    BY <2>1, <2>2 DEF CacheInv, StoreList
  <2>6. entries'[k] \in Entry
    BY <2>1, <2>3, <2>5, CacheAssumption DEF Entry
  <2>7. LastShape(last'[k])
    BY <2>1, <2>4, CacheAssumption DEF CacheInv, LastShape
  <2>8. list # None
    BY <2>1, CacheAssumption
  <2>9. /\ entries'[k].last_attempt = 0 /\ entries'[k].fetched_at = 0
        /\ entries'[k].models = list
        /\ last'[k].list = list /\ last'[k].since_ok = 0
        /\ last'[k].since_failed \in Nat
    BY <2>1, <2>4, <2>5, CacheAssumption DEF CacheInv, LastShape
  <2>10. Agree(entries'[k], last'[k])
    BY <2>6, <2>8, <2>9, Agreeing
  <2> QED
    BY <2>4, <2>5, <2>7, <2>10 DEF CacheInv, LastShape, Agree
<1>6. ASSUME NEW q \in Queries, FetchFails(q)
      PROVE  CacheInv'
  <2> DEFINE k == TargetOf(q).key
             e == IF entries[k] # None THEN [entries[k] EXCEPT !.last_attempt = 0]
                  ELSE [models |-> None, fetched_at |-> None, last_attempt |-> 0,
                        common_uri_hit |-> None]
  <2>1. k \in Keys
    BY <1>4, <1>6 DEF FetchFails
  <2>2. /\ entries' = StoreFailure(k)
        /\ last' = [last EXCEPT ![k].since_failed = 0, ![k].joined = @ \cup Range(queue)]
    BY <1>6 DEF FetchFails, Collect
  <2>a. last[k] = [list |-> last[k].list, since_ok |-> last[k].since_ok,
                   since_failed |-> last[k].since_failed, joined |-> last[k].joined]
    BY <2>1 DEF CacheInv, LastShape
  <2>b. DOMAIN last = Keys
    BY DEF CacheInv
  <2>4. /\ last'[k] = [list |-> last[k].list, since_ok |-> last[k].since_ok,
                       since_failed |-> 0, joined |-> last[k].joined \cup Range(queue)]
        /\ \A x \in Keys \ {k} : last'[x] = last[x]
        /\ last' = [x \in Keys |-> last'[x]]
    BY <2>1, <2>2, <2>a, <2>b
  <2>5. /\ entries'[k] = e
        /\ \A x \in Keys \ {k} : entries'[x] = entries[x]
        /\ entries' = [x \in Keys |-> entries'[x]] /\ DOMAIN entries' = Keys
    BY <2>1, <2>2 DEF CacheInv, StoreFailure
  <2>6. LastShape(last[k]) /\ Agree(entries[k], last[k])
    BY <2>1 DEF CacheInv
  <2>7. LastShape(last'[k])
    BY <2>4, <2>6, CacheAssumption DEF LastShape
  <2>8. e \in Entry /\ e.last_attempt = 0
    <3>1. CASE entries[k] = None
      BY <3>1, CacheAssumption DEF Entry
    <3>2. CASE entries[k] # None
      <4>1. entries[k] \in Entry
        BY <2>6, <3>2 DEF Agree
      <4>2. 0 \in 0..Backoff
        BY CacheAssumption
      <4> QED
        BY <4>1, <4>2, <3>2 DEF Entry
    <3> QED
      BY <3>1, <3>2
  <2>9. \/ last[k].list = None /\ e.fetched_at = None /\ last[k].since_ok = TTL
        \/ /\ last[k].list # None /\ e.fetched_at = last[k].since_ok
           /\ e.models = last[k].list
    <3>1. CASE entries[k] = None
      BY <3>1, <2>6 DEF Agree
    <3>2. CASE entries[k] # None
      <4>1. e.fetched_at = entries[k].fetched_at /\ e.models = entries[k].models
        <5>1. entries[k] \in Entry
          BY <2>6, <3>2 DEF Agree
        <5> QED
          BY <5>1, <3>2 DEF Entry
      <4> QED
        BY <4>1, <3>2, <2>6 DEF Agree
    <3> QED
      BY <3>1, <3>2
  <2>10. /\ last'[k].list = last[k].list /\ last'[k].since_ok = last[k].since_ok
         /\ last'[k].since_failed = 0 /\ last[k].since_ok \in Nat
    BY <2>4, <2>6, CacheAssumption DEF LastShape
  <2>11. Agree(entries'[k], last'[k])
    <3>1. e.last_attempt = IF last'[k].since_ok <= last'[k].since_failed
                           THEN last'[k].since_ok ELSE last'[k].since_failed
      BY <2>8, <2>10
    <3> HIDE DEF e
    <3> QED
      BY <3>1, <2>5, <2>8, <2>9, <2>10, Agreeing
  <2>12. ASSUME NEW x \in Keys
         PROVE  LastShape(last'[x]) /\ Agree(entries'[x], last'[x])
    <3>1. LastShape(last[x]) /\ Agree(entries[x], last[x])
      BY DEF CacheInv
    <3> QED
      BY <2>4, <2>5, <2>7, <2>11, <3>1
  <2> QED
    BY <2>4, <2>5, <2>12 DEF CacheInv
<1>7. ASSUME TimePasses
      PROVE  CacheInv'
  <2>1. /\ DOMAIN entries' = Keys /\ entries' = [k \in Keys |-> entries'[k]]
        /\ last' = [k \in Keys |-> last'[k]]
    BY <1>7 DEF TimePasses
  <2>2. ASSUME NEW k \in Keys
        PROVE  LastShape(last'[k]) /\ Agree(entries'[k], last'[k])
    <3>1. entries'[k] = OlderEntry(entries[k]) /\ last'[k] = OlderHistory(last[k])
      BY <1>7 DEF TimePasses
    <3>2. LastShape(last[k]) /\ Agree(entries[k], last[k])
      BY DEF CacheInv
    <3> QED
      BY <3>1, <3>2, AgreeOlder
  <2> QED
    BY <2>1, <2>2 DEF CacheInv
<1>8. ASSUME NEW q \in Queries,
             \/ Arrive(q) \/ Lock(q) \/ UseCached(q) \/ SendFetch(q) \/ FetchAbsent(q)
             \/ Headers(q)
      PROVE  CacheInv'
  BY <1>2, <1>8 DEF Arrive, Lock, UseCached, SendFetch, FetchAbsent, Headers, Collect
<1>9. ASSUME NEW q \in Queries, Answer(q) \/ Disconnect(q)
      PROVE  CacheInv'
  BY <1>3, <1>9 DEF Answer, Disconnect
<1>10. CASE UNCHANGED cache_vars
  BY <1>2, <1>10 DEF cache_vars
<1> QED
  BY <1>5, <1>6, <1>7, <1>8, <1>9, <1>10 DEF CacheNext, TimedOut

\* One query changes.
Becomes(q, x) ==
    /\ query'[q] = x
    /\ \A r \in Queries \ {q} : query'[r] = query[r]
    /\ query' = [r \in Queries |-> query'[r]]

\* A record that is as far as the old one.
LEMMA SameProgress ==
    ASSUME NEW old, QueryShape(old), NEW x, x.pc = "fetch",
           x = [pc |-> x.pc, targets |-> x.targets, at |-> x.at, fetch |-> x.fetch,
                out |-> x.out],
           x.targets = old.targets, x.at = old.at, x.out = old.out,
           old.at <= Len(old.targets),
           x.fetch.candidates \in Seq(CommonUris \cup {None}) \ {<<>>}
    PROVE  QueryShape(x)
BY DEF QueryShape

\* The query that holds the lock, and only it, is past the lock; what it has
\* collected is what the upstreams gave last.
LEMMA QueryStep ==
    ASSUME CacheInv, QueryInv, [CacheNext]_cache_vars
    PROVE  QueryInv'
<1>0. ASSUME NEW q \in Queries, NEW x, query' = [query EXCEPT ![q] = x]
      PROVE  Becomes(q, x)
  BY <1>0 DEF Becomes, QueryInv
<1> DEFINE TellsTheSame == \A k \in Keys : last'[k].list = last[k].list
<1>a. ASSUME NEW r \in Queries, query'[r] = query[r], TellsTheSame
      PROVE  QueryShape(query'[r]) /\ Told(query'[r], last')
  <2>1. QueryShape(query[r]) /\ Told(query[r], last)
    BY DEF QueryInv
  <2>2. \A i \in 1..(query[r].at - 1) : query[r].targets[i].key \in Keys
    <3>1. query[r].targets \in Walks \cup {<<>>} /\ query[r].at \in 1..(Len(query[r].targets) + 1)
      BY <2>1 DEF QueryShape
    <3> QED
      BY <3>1, WalkTargets
  <2> QED
    BY <1>a, <2>1, <2>2 DEF Told
<1>b. ASSUME NEW q \in Queries, NEW x, Becomes(q, x),
             TellsTheSame \/ holder = q,
             QueryShape(x), Told(x, last'),
             (x.pc \in {"scan", "fetch"}) <=> (holder' = q),
             \A r \in Queries \ {q} : (holder' = r) <=> (holder = r)
      PROVE  QueryInv'
  <2>1. query'[q] = x /\ \A r \in Queries \ {q} : query'[r] = query[r]
    BY <1>b DEF Becomes
  <2>2. query' = [r \in Queries |-> query'[r]]
    BY <1>b DEF Becomes
  <2>3. ASSUME NEW r \in Queries
        PROVE  /\ QueryShape(query'[r])
               /\ (query'[r].pc \in {"scan", "fetch"}) <=> (holder' = r)
               /\ Told(query'[r], last')
    <3>1. CASE r = q
      BY <1>b, <2>1, <3>1 DEF Told
    <3>2. CASE r # q
      <4>1. /\ QueryShape(query[r]) /\ query'[r] = query[r]
            /\ (query[r].pc \in {"scan", "fetch"}) <=> (holder = r)
        BY <2>1, <3>2 DEF QueryInv
      <4>2. Told(query'[r], last')
        <5>1. CASE TellsTheSame
          BY <1>a, <4>1, <5>1
        <5>2. CASE holder = q
          <6>1. query[r].at = 1
            BY <4>1, <5>2, <3>2 DEF QueryShape
          <6> QED
            BY <4>1, <6>1 DEF Told
        <5> QED
          BY <1>b, <5>1, <5>2
      <4> QED
        BY <1>b, <3>2, <4>1, <4>2
    <3> QED
      BY <3>1, <3>2
  <2> QED
    BY <2>2, <2>3 DEF QueryInv
<1>c. QueryShape(IdleQuery) /\ Told(IdleQuery, last')
  BY DEF QueryShape, IdleQuery, Fresh, Told
<1>d. ASSUME NEW q \in Queries, last' = Forget(q)
      PROVE  TellsTheSame
  BY <1>d DEF Forget, CacheInv, LastShape
<1>1. ASSUME NEW q \in Queries, Arrive(q)
      PROVE  QueryInv'
  <2>1. PICK targets \in Walks :
          query' = [query EXCEPT ![q] = Fresh("waiting", targets)]
    BY <1>1 DEF Arrive
  <2> DEFINE x == Fresh("waiting", targets)
  <2>2. x = [pc |-> "waiting", targets |-> targets, at |-> 1, fetch |-> Nothing,
             out |-> [id \in Ids |-> None]]
    BY DEF Fresh
  <2>3. Len(targets) \in Nat
    BY WalkTargets
  <2>4. QueryShape(x) /\ Told(x, last')
    <3> HIDE DEF x
    <3>0. /\ x.pc = "waiting" /\ x.targets = targets /\ x.at = 1
          /\ x.out = [id \in Ids |-> None]
          /\ x = [pc |-> x.pc, targets |-> x.targets, at |-> x.at, fetch |-> x.fetch,
                  out |-> x.out]
      BY <2>2
    <3>1. x.at \in 1..(Len(x.targets) + 1) /\ 1..(x.at - 1) = {}
      BY <3>0, <2>3
    <3> QED
      BY <3>0, <3>1 DEF QueryShape, Told
  <2>5. query[q].pc = "idle" /\ holder' = holder /\ last' = last /\ holder # q
    BY <1>1 DEF Arrive, QueryInv
  <2> QED
    BY <1>0, <1>b, <2>1, <2>2, <2>4, <2>5
<1>2. ASSUME NEW q \in Queries, Lock(q)
      PROVE  QueryInv'
  <2> DEFINE x == [query[q] EXCEPT !.pc = "scan"]
  <2>1. query' = [query EXCEPT ![q] = x] /\ last' = last /\ holder = None /\ holder' = q
    BY <1>2 DEF Lock, QueryInv
  <2>2. QueryShape(query[q]) /\ Told(query[q], last)
    BY DEF QueryInv
  <2>3. x = [pc |-> "scan", targets |-> query[q].targets, at |-> query[q].at,
             fetch |-> query[q].fetch, out |-> query[q].out]
    BY <2>2 DEF QueryShape
  <2>4. QueryShape(x) /\ Told(x, last')
    <3> HIDE DEF x
    <3> QED
      BY <2>1, <2>2, <2>3 DEF QueryShape, Told
  <2>5. /\ Becomes(q, x) /\ x.pc = "scan" /\ TellsTheSame
        /\ \A r \in Queries \ {q} : holder' # r /\ holder # r
    BY <1>0, <2>1, <2>3, CacheAssumption
  <2> HIDE DEF x
  <2> QED
    BY <1>b, <2>1, <2>4, <2>5
<1>3. ASSUME NEW q \in Queries, holder = q, holder' = q, query[q].at <= Len(query[q].targets),
             NEW es, Collect(q, es),
             Snapshot(es[TargetOf(q).key]) = last'[TargetOf(q).key].list,
             \A k \in Keys \ {TargetOf(q).key} : last'[k].list = last[k].list
      PROVE  QueryInv'
  <2> DEFINE t == TargetOf(q).key
             old == query[q]
             x == [pc |-> "scan", targets |-> old.targets, at |-> old.at + 1,
                   fetch |-> Nothing,
                   out |-> [old.out EXCEPT ![t[1]] = last'[t].list]]
  <2>1. QueryShape(old) /\ Told(old, last)
    BY DEF QueryInv
  <2>2. t \in Keys /\ t[1] \in Ids /\ old.at \in 1..Len(old.targets)
        /\ t = old.targets[old.at].key
    BY <1>3, <2>1, TargetIsKey DEF TargetOf
  <2>3. query' = [query EXCEPT ![q].pc = "scan", ![q].at = @ + 1, ![q].fetch = Nothing,
                               ![q].out[t[1]] = last'[t].list]
    BY <1>3 DEF Collect
  <2>4. /\ old = [pc |-> old.pc, targets |-> old.targets, at |-> old.at,
                  fetch |-> old.fetch, out |-> old.out]
        /\ DOMAIN query = Queries
    BY <2>1 DEF QueryShape, QueryInv
  <2>5. Becomes(q, x)
    <3>1. query'[q] = [old EXCEPT !.pc = "scan", !.at = @ + 1, !.fetch = Nothing,
                                  !.out[t[1]] = last'[t].list]
      BY <2>3, <2>4
    <3>2. query'[q] = x
      BY <3>1, <2>4
    <3> QED
      BY <2>3, <2>4, <3>2 DEF Becomes
  <2>6. /\ old.targets \in Walks \cup {<<>>}
        /\ \A i \in 1..Len(old.targets) : old.targets[i].key \in Keys
                                           /\ old.targets[i].key[1] \in Ids
        /\ \A i, j \in 1..Len(old.targets) :
             old.targets[i].key[1] = old.targets[j].key[1] => i = j
        /\ Len(old.targets) \in Nat
    BY <2>1, WalkTargets DEF QueryShape
  <2>7. /\ old.out = [id \in Ids |-> old.out[id]]
        /\ \A id \in Ids : old.out[id] # None =>
             \E i \in 1..(old.at - 1) : old.targets[i].key[1] = id
    BY <2>1 DEF QueryShape
  <2>8. /\ x.out = [id \in Ids |-> x.out[id]]
        /\ x.out[t[1]] = last'[t].list
        /\ \A id \in Ids \ {t[1]} : x.out[id] = old.out[id]
    BY <2>2, <2>7
  <2>9. QueryShape(x)
    <3>1. x.at \in 1..(Len(x.targets) + 1)
      <4>1. x.at = old.at + 1 /\ x.targets = old.targets
        OBVIOUS
      <4>2. old.at + 1 \in 1..(Len(old.targets) + 1)
        BY <2>2, <2>6
      <4> HIDE DEF x
      <4> QED
        BY <4>1, <4>2
    <3>2. \A id \in Ids : x.out[id] # None => \E i \in 1..(x.at - 1) : x.targets[i].key[1] = id
      <4>1. /\ x.targets = old.targets /\ x.at = old.at + 1 /\ old.at \in Nat
            /\ \A i \in 1..(old.at - 1) : i \in 1..(x.at - 1)
            /\ old.at \in 1..(x.at - 1)
        BY <2>2, <2>6
      <4> HIDE DEF x
      <4>2. ASSUME NEW id \in Ids, x.out[id] # None
            PROVE  \E i \in 1..(x.at - 1) : x.targets[i].key[1] = id
        <5>1. CASE id = t[1]
          BY <4>1, <5>1, <2>2
        <5>2. CASE id # t[1]
          BY <4>1, <4>2, <5>2, <2>7, <2>8
        <5> QED
          BY <5>1, <5>2
      <4> QED
        BY <4>2
    <3>3. /\ x = [pc |-> x.pc, targets |-> x.targets, at |-> x.at, fetch |-> x.fetch,
                  out |-> x.out]
          /\ x.pc = "scan" /\ x.targets = old.targets
      OBVIOUS
    <3> HIDE DEF x
    <3> QED
      BY <3>1, <3>2, <3>3, <2>6, <2>8 DEF QueryShape
  <2>10. Told(x, last')
    <3>1. ASSUME NEW i \in 1..(x.at - 1)
          PROVE  x.out[x.targets[i].key[1]] = last'[x.targets[i].key].list
      <4>1. CASE i = old.at
        BY <4>1, <2>2, <2>8
      <4>2. CASE i # old.at
        <5>1. i \in 1..(old.at - 1) /\ i \in 1..Len(old.targets)
          BY <4>2, <2>2, <2>6
        <5>2. old.targets[i].key[1] # t[1] /\ old.targets[i].key # t
              /\ old.targets[i].key \in Keys /\ old.targets[i].key[1] \in Ids
          BY <5>1, <4>2, <2>2, <2>6
        <5>3. old.out[old.targets[i].key[1]] = last[old.targets[i].key].list
          BY <5>1, <2>1 DEF Told
        <5> QED
          BY <5>2, <5>3, <2>8, <1>3
      <4> QED
        BY <4>1, <4>2
    <3> QED
      BY <3>1 DEF Told
  <2> QED
    BY <1>b, <1>3, <2>5, <2>9, <2>10
<1>4. ASSUME NEW q \in Queries, UseCached(q)
      PROVE  QueryInv'
  <2>1. /\ holder = q /\ holder' = q /\ query[q].at <= Len(query[q].targets)
        /\ Collect(q, entries) /\ last' = last /\ QueryShape(query[q])
    BY <1>4 DEF UseCached, QueryInv
  <2>2. Snapshot(entries[TargetOf(q).key]) = last[TargetOf(q).key].list
    BY <2>1, TargetIsKey, DueIsNeeded DEF CacheInv
  <2> QED
    BY <1>3, <2>1, <2>2
<1>5. ASSUME NEW q \in Queries, FetchOk(q) \/ FetchFails(q)
      PROVE  QueryInv'
  <2>1. /\ holder = q /\ holder' = q /\ query[q].at <= Len(query[q].targets)
        /\ QueryShape(query[q])
    BY <1>5 DEF FetchOk, FetchFails, QueryInv, QueryShape
  <2>2. Collect(q, entries')
    BY <1>5 DEF FetchOk, FetchFails, Collect
  <2>3. CacheInv'
    BY CacheStep, <1>5 DEF CacheNext, cache_vars
  <2>4. Snapshot(entries'[TargetOf(q).key]) = last'[TargetOf(q).key].list
    <3>1. TargetOf(q).key \in Keys
      BY <2>1, TargetIsKey
    <3>2. LastShape(last'[TargetOf(q).key])
          /\ Agree(entries'[TargetOf(q).key], last'[TargetOf(q).key])
      BY <2>3, <3>1 DEF CacheInv
    <3> QED
      BY <3>2, SnapshotAgrees
  <2>5. \A k \in Keys \ {TargetOf(q).key} : last'[k].list = last[k].list
    BY <1>5 DEF FetchOk, FetchFails, CacheInv
  <2> QED
    BY <1>3, <2>1, <2>2, <2>4, <2>5
<1>6. ASSUME NEW q \in Queries, SendFetch(q) \/ FetchAbsent(q) \/ Headers(q)
      PROVE  QueryInv'
  <2>1. /\ holder = q /\ holder' = q /\ query[q].at <= Len(query[q].targets)
        /\ QueryShape(query[q]) /\ last' = last /\ Told(query[q], last)
    BY <1>6 DEF SendFetch, FetchAbsent, Headers, QueryInv, QueryShape
  <2>0. /\ query[q] = [pc |-> query[q].pc, targets |-> query[q].targets,
                       at |-> query[q].at, fetch |-> query[q].fetch, out |-> query[q].out]
        /\ query = [r \in Queries |-> query[r]]
    BY <2>1 DEF QueryShape, QueryInv
  <2>2. PICK f : /\ Becomes(q, [query[q] EXCEPT !.pc = "fetch", !.fetch = f])
                 /\ f.candidates \in Seq(CommonUris \cup {None}) \ {<<>>}
    <3>1. CASE SendFetch(q)
      <4> DEFINE f == [Nothing EXCEPT !.candidates = Tries(TargetOf(q))]
      <4>1. Tries(TargetOf(q)) \in Seq(CommonUris \cup {None}) \ {<<>>}
        BY TriesTyped
      <4>2. Becomes(q, [query[q] EXCEPT !.pc = "fetch", !.fetch = f])
        BY <3>1, <2>0 DEF SendFetch, Becomes
      <4>3. f.candidates = Tries(TargetOf(q))
        BY DEF Nothing
      <4> QED
        BY <4>1, <4>2, <4>3
    <3>2. CASE FetchAbsent(q)
      <4> DEFINE s == query[q].fetch.candidates
                 f == [Nothing EXCEPT !.candidates = Tail(s)]
      <4>1. query[q].pc = "fetch" /\ Len(s) > 1
        BY <3>2 DEF FetchAbsent
      <4>2. s \in Seq(CommonUris \cup {None}) \ {<<>>}
        BY <2>1, <4>1 DEF QueryShape
      <4>3. Tail(s) \in Seq(CommonUris \cup {None}) \ {<<>>}
        BY <4>1, <4>2, TailOf
      <4>4. query'[q] = [query[q] EXCEPT !.fetch = f]
        BY <3>2, <2>0 DEF FetchAbsent
      <4>5. query'[q] = [query[q] EXCEPT !.pc = "fetch", !.fetch = f]
        BY <4>1, <4>4, <2>0
      <4>6. Becomes(q, [query[q] EXCEPT !.pc = "fetch", !.fetch = f])
        BY <3>2, <4>5, <2>0 DEF FetchAbsent, Becomes
      <4>7. f.candidates = Tail(s)
        BY DEF Nothing
      <4> QED
        BY <4>3, <4>6, <4>7
    <3>3. CASE Headers(q)
      <4> DEFINE f == [query[q].fetch EXCEPT !.headers = TRUE]
      <4>1. query[q].pc = "fetch"
        BY <3>3 DEF Headers
      <4>4. query'[q] = [query[q] EXCEPT !.fetch = f]
        BY <3>3, <2>0 DEF Headers
      <4>5. query'[q] = [query[q] EXCEPT !.pc = "fetch", !.fetch = f]
        BY <4>1, <4>4, <2>0
      <4>6. Becomes(q, [query[q] EXCEPT !.pc = "fetch", !.fetch = f])
        BY <3>3, <4>5, <2>0 DEF Headers, Becomes
      <4>7. f.candidates = query[q].fetch.candidates
        OBVIOUS
      <4> QED
        BY <4>1, <4>6, <4>7, <2>1 DEF QueryShape
    <3> QED
      BY <1>6, <3>1, <3>2, <3>3
  <2> DEFINE x == [pc |-> "fetch", targets |-> query[q].targets, at |-> query[q].at,
                   fetch |-> f, out |-> query[q].out]
  <2>3. Becomes(q, x)
    <3>1. ASSUME NEW m, m = [query[q] EXCEPT !.pc = "fetch", !.fetch = f]
          PROVE  m = x
      BY <2>0, <3>1
    <3> QED
      BY <2>2, <3>1
  <2>a. /\ x = [pc |-> x.pc, targets |-> x.targets, at |-> x.at, fetch |-> x.fetch,
                out |-> x.out]
        /\ x.pc = "fetch" /\ x.targets = query[q].targets /\ x.at = query[q].at
        /\ x.fetch = f /\ x.out = query[q].out
    OBVIOUS
  <2>4. QueryShape(x) /\ Told(x, last')
    <3> HIDE DEF x
    <3> QED
      BY <2>1, <2>2, <2>a DEF QueryShape, Told
  <2> QED
    BY <1>b, <2>1, <2>3, <2>4
<1>7. ASSUME NEW q \in Queries, Answer(q) \/ Disconnect(q)
      PROVE  QueryInv'
  <2>1. /\ query' = [query EXCEPT ![q] = IdleQuery] /\ last' = Forget(q)
        /\ holder' = IF holder = q THEN None ELSE holder
    BY <1>7 DEF Answer, Disconnect, QueryInv
  <2>2. /\ (IdleQuery.pc \in {"scan", "fetch"}) <=> (holder' = q)
        /\ \A r \in Queries \ {q} : (holder' = r) <=> (holder = r)
    BY <2>1, CacheAssumption DEF IdleQuery, Fresh
  <2> QED
    BY <1>0, <1>b, <1>c, <1>d, <2>1, <2>2
<1>8. ASSUME TimePasses
      PROVE  QueryInv'
  <2>1. TellsTheSame
    BY <1>8, AgreeOlder DEF TimePasses, CacheInv
  <2>2. ASSUME NEW r \in Queries
        PROVE  /\ QueryShape(query'[r]) /\ Told(query'[r], last')
               /\ query'[r].pc = query[r].pc
    <3> DEFINE old == query[r]
               f == [old.fetch EXCEPT !.waited = Older(@, FetchTimeout)]
    <3>1. QueryShape(old) /\ Told(old, last)
      BY DEF QueryInv
    <3>2. CASE old.pc # "fetch"
      BY <1>8, <1>a, <2>1, <3>2 DEF TimePasses
    <3>3. CASE old.pc = "fetch"
      <4>1. query'[r] = [old EXCEPT !.fetch = f]
        BY <1>8, <3>3 DEF TimePasses
      <4>2. query'[r] = [pc |-> "fetch", targets |-> old.targets, at |-> old.at,
                         fetch |-> f, out |-> old.out]
        BY <4>1, <3>1, <3>3 DEF QueryShape
      <4>3. f.candidates = old.fetch.candidates
        OBVIOUS
      <4>4. QueryShape(query'[r])
        <5> DEFINE x == query'[r]
        <5>1. /\ x.pc = "fetch" /\ x.targets = old.targets /\ x.at = old.at
              /\ x.fetch = f /\ x.out = old.out
              /\ x = [pc |-> x.pc, targets |-> x.targets, at |-> x.at, fetch |-> x.fetch,
                      out |-> x.out]
          BY <4>2
        <5> QED
          BY <3>1, <3>3, <4>3, <5>1, SameProgress DEF QueryShape
      <4>5. Told(query'[r], last')
        <5>1. \A i \in 1..(old.at - 1) : old.targets[i].key \in Keys
          BY <3>1, WalkTargets DEF QueryShape
        <5> QED
          BY <2>1, <3>1, <4>2, <5>1 DEF Told
      <4> QED
        BY <3>3, <4>2, <4>4, <4>5
    <3> QED
      BY <3>2, <3>3
  <2>3. query' = [r \in Queries |-> query'[r]] /\ holder' = holder
    BY <1>8 DEF TimePasses
  <2> QED
    BY <2>2, <2>3 DEF QueryInv
<1>9. CASE UNCHANGED cache_vars
  BY <1>9 DEF cache_vars, QueryInv, Told
<1> QED
  BY <1>1, <1>2, <1>4, <1>5, <1>6, <1>7, <1>8, <1>9 DEF CacheNext, TimedOut

\* The invariant holds at the start and is kept.
THEOREM CacheIsHistory == CacheSpec => []ModelListInv
<1>1. CacheInit => ModelListInv
  <2> SUFFICES ASSUME CacheInit
               PROVE  ModelListInv
    OBVIOUS
  <2>1. CacheInv
    <3>1. /\ DOMAIN entries = Keys
          /\ entries = [k \in Keys |-> entries[k]]
          /\ last = [k \in Keys |-> last[k]]
      BY DEF CacheInit
    <3>2. ASSUME NEW k \in Keys
          PROVE  LastShape(last[k]) /\ Agree(entries[k], last[k])
      <4>1. /\ entries[k] = None
            /\ last[k] = [list |-> None, since_ok |-> TTL, since_failed |-> Backoff,
                          joined |-> {}]
        BY DEF CacheInit
      <4>2. TTL \in 0..TTL /\ Backoff \in 0..Backoff
        BY CacheAssumption
      <4>3. LastShape(last[k])
        BY <4>1, <4>2 DEF LastShape
      <4>4. Agree(entries[k], last[k])
        BY <4>1 DEF Agree
      <4> QED
        BY <4>3, <4>4
    <3> QED
      BY <3>1, <3>2 DEF CacheInv
  <2>2. QueryShape(IdleQuery) /\ Told(IdleQuery, last)
    BY DEF QueryShape, IdleQuery, Fresh, Told
  <2>3. IdleQuery.pc = "idle"
    BY DEF IdleQuery, Fresh
  <2>4. QueryInv
    BY <2>2, <2>3, CacheAssumption DEF CacheInit, QueryInv
  <2> QED
    BY <2>1, <2>4 DEF ModelListInv
<1>2. ModelListInv /\ [CacheNext]_cache_vars => ModelListInv'
  BY CacheStep, QueryStep DEF ModelListInv
<1> QED
  BY <1>1, <1>2, PTL DEF CacheSpec

\* Where the steps of a query come from.
LEMMA OnlySendFetchStarts ==
    ASSUME ModelListInv, [CacheNext]_cache_vars, NEW q \in Queries, query[q].pc = "scan", query' # query
    PROVE  /\ query'[q].pc = "fetch" => SendFetch(q)
           /\ query'[q].pc = "idle" => Answer(q)
           /\ query'[q].pc = "scan" /\ query'[q].at # query[q].at => UseCached(q)
<1>1. holder = q /\ \A r \in Queries : query[r].pc \in {"scan", "fetch"} => r = q
  BY DEF ModelListInv, QueryInv
<1>2. /\ query = [r \in Queries |-> query[r]]
      /\ query[q] = [pc |-> query[q].pc, targets |-> query[q].targets, at |-> query[q].at,
                     fetch |-> query[q].fetch, out |-> query[q].out]
  BY DEF ModelListInv, QueryInv, QueryShape
<1>3. ASSUME NEW r \in Queries, Arrive(r) \/ Disconnect(r)
      PROVE  query'[q] = query[q]
  BY <1>1, <1>2, <1>3 DEF Arrive, Disconnect
<1>4. ASSUME NEW r \in Queries, Lock(r)
      PROVE  FALSE
  BY <1>1, <1>4, CacheAssumption DEF Lock
<1>5. ASSUME NEW r \in Queries,
             FetchOk(r) \/ FetchFails(r) \/ FetchAbsent(r) \/ Headers(r)
      PROVE  FALSE
  BY <1>1, <1>5 DEF FetchOk, FetchFails, FetchAbsent, Headers
<1>6. ASSUME NEW r \in Queries, UseCached(r)
      PROVE  r = q /\ query'[q].pc = "scan"
  BY <1>1, <1>2, <1>6 DEF UseCached, Collect
<1>7. ASSUME NEW r \in Queries, SendFetch(r)
      PROVE  r = q /\ query'[q].pc = "fetch"
  BY <1>1, <1>2, <1>7 DEF SendFetch
<1>8. ASSUME NEW r \in Queries, Answer(r)
      PROVE  r = q /\ query'[q].pc = "idle"
  BY <1>1, <1>2, <1>8 DEF Answer, IdleQuery, Fresh
<1>9. ~TimePasses
  BY DEF TimePasses
<1> QED
  BY <1>3, <1>4, <1>5, <1>6, <1>7, <1>8, <1>9 DEF CacheNext, TimedOut, cache_vars

\* A query fetches a list exactly when it is due.
THEOREM FetchesAreDue == CacheSpec => RefreshesWhenDue
<1>1. ASSUME ModelListInv, [CacheNext]_cache_vars, NEW q \in Queries
      PROVE  /\ Starts(q) => Due(TargetOf(q).key)
             /\ Uses(q) => ~Due(TargetOf(q).key)
  <2>1. ASSUME query[q].pc = "scan", query[q].at <= Len(query[q].targets)
        PROVE  NeedsRefresh(entries[TargetOf(q).key]) <=> Due(TargetOf(q).key)
    <3>1. TargetOf(q).key \in Keys
      BY <1>1, <2>1, TargetIsKey DEF ModelListInv, QueryInv
    <3> QED
      BY <1>1, <3>1, DueIsNeeded DEF ModelListInv, CacheInv
  <2>2. CASE Starts(q)
    <3>1. SendFetch(q)
      BY <1>1, <2>2, OnlySendFetchStarts DEF Starts
    <3> QED
      BY <2>1, <2>2, <3>1 DEF SendFetch, Starts, Uses
  <2>3. CASE Uses(q)
    <3>1. UseCached(q)
      BY <1>1, <2>3, OnlySendFetchStarts DEF Uses
    <3> QED
      BY <2>1, <2>3, <3>1 DEF UseCached, Starts, Uses
  <2> QED
    BY <2>2, <2>3
<1>2. ModelListInv /\ [CacheNext]_cache_vars => [\A q \in Queries :
         /\ Starts(q) => Due(TargetOf(q).key)
         /\ Uses(q) => ~Due(TargetOf(q).key)]_cache_vars
  BY <1>1
<1> QED
  BY <1>2, CacheIsHistory, PTL DEF CacheSpec, RefreshesWhenDue

\* An answer holds, for every target, the last list its endpoint gave.
THEOREM AnswersAreTrue == CacheSpec => AnswersAreTheLatest
<1> DEFINE Right(q) ==
      /\ \A i \in DOMAIN query[q].targets :
           LET k == query[q].targets[i].key IN query[q].out[k[1]] = last[k].list
      /\ \A id \in Ids : query[q].out[id] # None =>
           \E i \in DOMAIN query[q].targets : query[q].targets[i].key[1] = id
<1>1. ASSUME ModelListInv, [CacheNext]_cache_vars, NEW q \in Queries, Answers(q)
      PROVE  Right(q)
  <2>1. Answer(q)
    BY <1>1, OnlySendFetchStarts DEF Answers
  <2>2. QueryShape(query[q]) /\ Told(query[q], last)
    BY <1>1 DEF ModelListInv, QueryInv
  <2>3. /\ query[q].targets \in Seq(Target)
        /\ Len(query[q].targets) \in Nat
    BY <2>2, WalkTargets DEF QueryShape
  <2>4. query[q].at - 1 = Len(query[q].targets)
    BY <2>1, <2>2, <2>3 DEF Answer, QueryShape
  <2>5. DOMAIN query[q].targets = 1..(query[q].at - 1)
    BY <2>3, <2>4
  <2> QED
    BY <2>2, <2>5 DEF QueryShape, Told
<1>2. ModelListInv /\ [CacheNext]_cache_vars => [\A q \in Queries : Answers(q) => Right(q)]_cache_vars
  BY <1>1
<1> QED
  BY <1>2, CacheIsHistory, PTL DEF CacheSpec, AnswersAreTheLatest
=============================================================================
