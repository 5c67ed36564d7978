---------------------------- MODULE PoolFailover ----------------------------
(***************************************************************************)
(* A plan pool of secret-guard (src/pool.rs) and the requests that fail    *)
(* over between its members (dispatch in src/proxy/mod.rs, the pool hop of *)
(* resolve_route in src/provider.rs).                                      *)
(*                                                                         *)
(* Each step below is one critical section or one read of a shared table:  *)
(* a request reads the pool's configuration when it enters, picks a member *)
(* by position, reads the configuration a second time to build its         *)
(* PoolWatch, and marks a position when the upstream answers.  Meanwhile   *)
(* the WebUI may change the member list, disable a provider or reset the   *)
(* pool, and time passes.                                                  *)
(*                                                                         *)
(* An alarm is kept as the number of ticks left until it rings, so that    *)
(* time needs no bound: 0 is an alarm that has rung and that no pick has   *)
(* cleared yet.                                                            *)
(***************************************************************************)
EXTENDS Integers, Sequences, FiniteSets

CONSTANTS
    Providers,      \* ids that may be members of the pool
    MemberLists,    \* member lists the user may configure (duplicates allowed)
    Requests,       \* concurrent requests to the pool
    Hints,          \* resume times, in ticks from now, that a response may carry
    Cooldowns,      \* cooldown_secs a pool may be configured with, in ticks
    Cap             \* RESUME_CAP: 7 days, in ticks

ASSUME ListsAssumption == MemberLists \subseteq Seq(Providers) \ {<<>>}
ASSUME TimeAssumption == Cooldowns \subseteq Nat /\ Cap \in Nat /\ Hints \subseteq Nat

VARIABLES
    members,        \* the configured member list, NotAPool when there is none
    usable,         \* providers that are effective and enabled
    rt,             \* PoolRuntime: member_ids and the slots aligned with them
    req             \* per request: where it is, and what it has read

vars == <<members, usable, rt, req>>

(***************************************************************************)
(* validate rejects a pool without members, so the empty list is free to   *)
(* stand for "this id is not a pool (any more)".                           *)
(***************************************************************************)
NotAPool == <<>>
NoHint == -1
Active == -1
Exhausted(left) == left

(***************************************************************************)
(* The runtime of a pool that has no entry: align turns it into a fresh    *)
(* one, all slots Active, as or_insert_with(fresh) does.                   *)
(***************************************************************************)
NoRuntime == [ids |-> <<>>, slots |-> <<>>]

Idle == [pc |-> "idle", list |-> NotAPool, cands |-> {}, idx |-> 0,
         target |-> 0, watch |-> NotAPool]
-----------------------------------------------------------------------------
(* PoolStates *)

\* Variant: the slots of a changed list are taken over by position alone.
AlignByPosition(r, list) ==
    IF r.ids = list THEN r
    ELSE [ids   |-> list,
          slots |-> [i \in DOMAIN list |-> IF i \in DOMAIN r.ids THEN r.slots[i] ELSE Active]]

Align(r, list) ==
    IF r.ids = list THEN r
    ELSE [ids   |-> list,
          slots |-> [i \in DOMAIN list |->
                       IF i \in DOMAIN r.ids /\ r.ids[i] = list[i]
                         THEN r.slots[i] ELSE Active]]

\* Variant: an alarm that has rung is not noticed.
AvailableUnlessMarked(slot) == slot = Active

Available(slot) == slot = Active \/ slot = 0

\* active_members clears the alarms that have rung ...
Cleared(r) ==
    [r EXCEPT !.slots = [i \in DOMAIN r.slots |->
                           IF Available(r.slots[i]) THEN Active ELSE r.slots[i]]]

\* ... and returns the positions without an alarm; they are tried in list order.
ActiveMembers(r) == {i \in DOMAIN r.slots : r.slots[i] = Active}

Marked(r, i, left) ==
    IF i \in DOMAIN r.slots THEN [r EXCEPT !.slots[i] = Exhausted(left)] ELSE r

\* Variant: the view does not align.
StatusViewUnaligned(list) == {i \in DOMAIN list : ~(i \in DOMAIN rt.slots /\ rt.slots[i] > 0)}

\* member_status: the positions the WebUI shows as active.
StatusView(list) ==
    {i \in DOMAIN list : ~(Align(rt, list).slots[i] > 0)}

\* clamp_resume: the cap wins over the lower bound.
Clamp(t, cooldown) ==
    LET upper == Cap
        lower == IF cooldown < upper THEN cooldown ELSE upper
    IN  IF t < lower THEN lower ELSE IF t > upper THEN upper ELSE t

\* The alarm of detect_and_mark: the parsed time, or now + cooldown.
AlarmFor(hint, cooldown) == Clamp(IF hint = NoHint THEN 0 ELSE hint, cooldown)
-----------------------------------------------------------------------------
Init ==
    /\ members \in MemberLists
    /\ usable = Providers
    /\ rt = NoRuntime
    /\ req = [r \in Requests |-> Idle]

\* dispatch reads the pool entry, then waits for the request body.
Enter(r) ==
    /\ req[r].pc = "idle" /\ members # NotAPool
    /\ req' = [req EXCEPT ![r] = [Idle EXCEPT !.pc = "entered", !.list = members]]
    /\ UNCHANGED <<members, usable, rt>>

\* resolve_route at the pool hop, under the write lock of PoolStates.  With the
\* pool as the entry the list is the one read on entry; behind a router it is
\* read here.
PickFrom(r, list) ==
    LET r1 == Cleared(Align(rt, list))
        cands == ActiveMembers(r1)
    IN  /\ rt' = r1
        /\ req' = [req EXCEPT ![r] =
                     IF cands = {} THEN Idle       \* AllMembersExhausted: a local 503
                     ELSE [Idle EXCEPT !.pc = "picking", !.list = list, !.cands = cands]]
        /\ UNCHANGED <<members, usable>>

Pick(r) ==
    \/ req[r].pc = "entered" /\ PickFrom(r, req[r].list)
    \/ req[r].pc = "idle" /\ members # NotAPool /\ PickFrom(r, members)

\* The candidates are looked up one after the other; one that is missing or
\* disabled is skipped and leaves no mark.
Chosen(q, i) ==
    [q EXCEPT !.pc = "resolved", !.cands = {}, !.idx = i, !.target = q.list[i]]

Skipped(q, i) ==
    IF q.cands = {i} THEN Idle      \* a 503 without a resume time
    ELSE [q EXCEPT !.cands = q.cands \ {i}]

TryCandidate(r) ==
    /\ req[r].pc = "picking"
    /\ \E i \in req[r].cands :
         /\ \A j \in req[r].cands : i <= j
         /\ req' = [req EXCEPT ![r] = IF req[r].list[i] \in usable
                                       THEN Chosen(req[r], i) ELSE Skipped(req[r], i)]
    /\ UNCHANGED <<members, usable, rt>>

\* dispatch reads the pool's configuration again to build the PoolWatch; it
\* gives up the watch when the id is no longer a pool.
BuildWatch(r) ==
    /\ req[r].pc = "resolved"
    /\ req' = [req EXCEPT ![r].pc = "forwarded", ![r].watch = members]
    /\ UNCHANGED <<members, usable, rt>>

\* A response that is no exhaustion signal, a failed send, or a client that has
\* gone: nothing is marked.
Answered(r) ==
    /\ req[r].pc = "forwarded"
    /\ req' = [req EXCEPT ![r] = Idle]
    /\ UNCHANGED <<members, usable, rt>>

\* detect_and_mark: the upstream reported the target's quota window exhausted.
\* The cooldown is the one of the watch's snapshot.
ExhaustionSignal(r) ==
    /\ req[r].pc = "forwarded"
    /\ \E hint \in Hints \cup {NoHint}, cooldown \in Cooldowns :
         rt' = IF req[r].watch = NotAPool THEN rt
               ELSE Marked(Align(rt, req[r].watch), req[r].idx, AlarmFor(hint, cooldown))
    /\ req' = [req EXCEPT ![r] = Idle]
    /\ UNCHANGED <<members, usable>>

\* POST /api/providers/{id}/pool-reset drops the runtime entry.
Reset ==
    /\ members # NotAPool
    /\ rt' = NoRuntime
    /\ UNCHANGED <<members, usable, req>>

\* The WebUI changes or deletes the pool.
Reconfigure ==
    /\ \E list \in MemberLists \cup {NotAPool} : list # members /\ members' = list
    /\ UNCHANGED <<usable, rt, req>>

\* The WebUI disables, deletes, enables or creates a member.
Toggle(p) ==
    /\ usable' = IF p \in usable THEN usable \ {p} ELSE usable \cup {p}
    /\ UNCHANGED <<members, rt, req>>

Tick ==
    /\ \E i \in DOMAIN rt.slots : rt.slots[i] > 0
    /\ rt' = [rt EXCEPT !.slots = [i \in DOMAIN rt.slots |->
                IF rt.slots[i] > 0 THEN rt.slots[i] - 1 ELSE rt.slots[i]]]
    /\ UNCHANGED <<members, usable, req>>

RequestStep(r) ==
    \/ Enter(r) \/ Pick(r) \/ TryCandidate(r)
    \/ BuildWatch(r) \/ Answered(r) \/ ExhaustionSignal(r)

Next ==
    \/ \E r \in Requests : RequestStep(r)
    \/ Reset \/ Reconfigure
    \/ \E p \in Providers : Toggle(p)
    \/ Tick

Spec == Init /\ [][Next]_vars

\* Time passes; nothing else has to happen.
FairSpec == Spec /\ WF_vars(Tick)
-----------------------------------------------------------------------------
(* Types *)

Lists == MemberLists \cup {NotAPool}

\* The slots are aligned with member_ids, position by position.
IsRuntime(r) ==
    /\ r.ids \in Lists
    /\ r.slots \in [DOMAIN r.ids -> Int]
    /\ r = [ids |-> r.ids, slots |-> r.slots]

RequestStates ==
    [pc : {"idle", "entered", "picking", "resolved", "forwarded"}, list : Lists,
     cands : SUBSET Nat, idx : Nat, target : Providers \cup {0}, watch : Lists]

TypeOK ==
    /\ members \in Lists
    /\ usable \subseteq Providers
    /\ IsRuntime(rt)
    /\ req \in [Requests -> RequestStates]
-----------------------------------------------------------------------------
(* Safety *)

\* No member sleeps longer than the cap, whatever the response said and however
\* long the configured cooldown is (POOL-3, clamp_resume in src/pool.rs).
AlarmWithinCap == \A i \in DOMAIN rt.slots : rt.slots[i] \in -1 .. Cap

\* resolve_route indexes pool.members with the positions active_members
\* returned: every one of them must exist in the list the request holds, however
\* the lists of concurrent requests rebuild the shared runtime in between.
CandidatesInBounds ==
    \A r \in Requests : req[r].pc = "picking" =>
        /\ req[r].cands # {}
        /\ req[r].cands \subseteq DOMAIN req[r].list

\* What the WebUI shows as active (member_status aligns a copy under the read
\* lock) is what the next pick with the same list would offer.
StatusAgreesWithPick ==
    \A list \in MemberLists :
        StatusView(list) =
          {i \in DOMAIN list : Cleared(Align(rt, list)).slots[i] = Active}

\* A slot goes under alarm, or its alarm moves further away, only when an
\* exhaustion signal is answered, and only at the position of that request.  An
\* alarm never moves to another member id because a list was reordered, and
\* neither a pick, nor a skipped member, nor a reset arms anything (POOL-1).
Armed(i) ==
    /\ rt'.slots[i] > 0
    /\ ~ /\ i \in DOMAIN rt.ids
         /\ rt.ids[i] = rt'.ids[i]
         /\ rt.slots[i] >= rt'.slots[i]

AnsweredNow(r) == req[r].pc = "forwarded" /\ req'[r].pc = "idle"

AlarmsFollowTheirMember ==
    [][\A i \in DOMAIN rt'.slots : Armed(i) =>
          \E r \in Requests : AnsweredNow(r) /\ req[r].idx = i /\ rt'.ids = req[r].watch]_vars

\* The member under alarm is the one whose upstream sent the signal: the doc of
\* PoolWatch (src/pool.rs) promises a configuration snapshot taken when the
\* request enters, on which a mark lands by position and by id.
MarkHitsTarget ==
    [][\A i \in DOMAIN rt'.slots : Armed(i) =>
          \E r \in Requests : AnsweredNow(r) /\ req[r].target = rt'.ids[i]]_vars

\* Liveness: an alarm rings.  Once the user leaves the member list alone, a member
\* under alarm is offered again sooner or later, however often requests in flight
\* set its alarm anew (POOL-3).
UnderAlarm(p) ==
    LET positions == {i \in DOMAIN rt.ids : rt.ids[i] = p}
    IN  positions # {} /\ \A i \in positions : ~Available(rt.slots[i])

AlarmsRing ==
    <>[][UNCHANGED members]_vars =>
        \A p \in Providers : UnderAlarm(p) ~> ~UnderAlarm(p)
=============================================================================
