----------------------------- MODULE Redaction -----------------------------
(***************************************************************************)
(* redact.rs and its callers: a request of the client leaves with the real *)
(* values of the secrets replaced, the answer comes back with them         *)
(* restored, and what is recorded of the request must let the web views    *)
(* show later what went up.  A text is a sequence of numbers; a request is *)
(* a sequence of leaves [place, text], the strings of the request in the   *)
(* order they are visited.  A secret is [id, value, strategy, mocks], where*)
(* mocks lists the candidates that the seed of its policy gives, by probe. *)
(***************************************************************************)
EXTENDS Naturals, Sequences, SequencesExt, FiniteSets

LOCAL Window == INSTANCE MockWindow WITH Continuation <- {}

CONSTANTS
    Settings,     \* what the configuration file may say, see settings
    Policies,     \* what the table of secrets may hold, sequences of secrets
    Opening,      \* the leaves of every request that are not its messages
    Utterances,   \* what the user may say
    Inventions,   \* what the upstream may say without having been told
    MaxMessages,  \* bound: a request is made while there are fewer messages
    MaxEdits      \* bound: changes of the table

VARIABLES
    settings,     \* [on_probe_exhausted, on_fallback_restore]
    policy,       \* the effective secrets, as effective_raw lists them
    history,      \* the messages as the client keeps them, leaves
    call,         \* the request in flight, or NoCall
    records,      \* the nodes of the conversation, see Ask
    edits

vars == <<settings, policy, history, call, records, edits>>

NoCall == [phase |-> "idle"]

(***************************************************************************)
(* Texts and leaves                                                        *)
(***************************************************************************)
Within(needle, text) == needle # << >> /\ Window!Occurrences(needle, text) # {}

Replace(text, from, to) == Window!ReplaceOne(text, [mock |-> from, real |-> to])

\* str::matches: how often the needle occurs, from the left, without overlaps.
Count(text, needle) == (Len(text) - Len(Replace(text, needle, << >>))) \div Len(needle)

\* The model's name, signatures and the keys of objects are no leaves.
IsLeaf(leaf) == leaf.place # "model"

RequestContains(ir, needle) == \E i \in DOMAIN ir : IsLeaf(ir[i]) /\ Within(needle, ir[i].text)

RequestReplaceAll(ir, from, to) ==
    [i \in DOMAIN ir |->
        IF IsLeaf(ir[i]) THEN [ir[i] EXCEPT !.text = Replace(@, from, to)] ELSE ir[i]]

HitsAt(ir, needle, place) ==
    FoldLeft(LAMBDA n, leaf : n + IF leaf.place = place THEN Count(leaf.text, needle) ELSE 0,
             0, ir)

\* count_hit_locations: taken before the replacement.
HitLocations(ir, needle) ==
    [place \in {"system", "tools", "user", "history", "other"} |-> HitsAt(ir, needle, place)]

(***************************************************************************)
(* Redaction of a request                                                  *)
(***************************************************************************)
\* Faulty variant: an entry as long as the one before it is left out.
HandlingOrderByLength(secrets) ==
    LET longer(i, j) == \/ Len(secrets[i].value) > Len(secrets[j].value)
                        \/ Len(secrets[i].value) = Len(secrets[j].value) /\ i < j
        order == SetToSortSeq({i \in DOMAIN secrets : secrets[i].value # << >>}, longer)
        kept == {k \in DOMAIN order :
                    k = 1 \/ Len(secrets[order[k]].value) # Len(secrets[order[k - 1]].value)}
    IN  [k \in 1 .. Cardinality(kept) |->
            secrets[order[SetToSortSeq(kept, <)[k]]]]

\* The longest value first, the order of the table among equals, and an
\* entry whose value is that of the one before it is left out.
HandlingOrder(secrets) ==
    LET longer(i, j) == \/ Len(secrets[i].value) > Len(secrets[j].value)
                        \/ Len(secrets[i].value) = Len(secrets[j].value) /\ i < j
        order == SetToSortSeq({i \in DOMAIN secrets : secrets[i].value # << >>}, longer)
        kept == {k \in DOMAIN order :
                    k = 1 \/ secrets[order[k]].value # secrets[order[k - 1]].value}
    IN  [k \in 1 .. Cardinality(kept) |->
            secrets[order[SetToSortSeq(kept, <)[k]]]]

\* gen_mock_for_ir: the first candidate that is neither in the request, as it
\* now stands, nor given out; {} when the probes are used up.
GenMock(ir, secret, allocated) ==
    LET free == {c \in DOMAIN secret.mocks :
                    ~RequestContains(ir, secret.mocks[c]) /\ secret.mocks[c] \notin allocated}
    IN  IF free = {} THEN {} ELSE {secret.mocks[CHOOSE c \in free : \A d \in free : c <= d]}

\* 0 is what all placeholders have in common; ids are numbers as well.
PlaceholderFor(id) == <<0, id, 0>>

\* RedactionMap::insert: a mock stands for one value.
Collides(map, real, mock) == \E i \in DOMAIN map : map[i].mock = mock /\ map[i].real # real

\* One value is put in place of another: the map and the request in one.
Put(out, secret, mock, restorable) ==
    [out EXCEPT !.ir = RequestReplaceAll(@, secret.value, mock),
                !.map = Append(@, [real |-> secret.value, mock |-> mock,
                                   restorable |-> restorable,
                                   hits |-> HitLocations(out.ir, secret.value)]),
                !.allocated = IF restorable THEN @ \cup {mock} ELSE @]

\* degrade_on_insert_collision, and probes that are used up: the secret is
\* passed over, or the request is refused.
Degrade(out, onExhausted) ==
    IF onExhausted = "fail_open" THEN out ELSE [out EXCEPT !.refused = TRUE]

Substitute(out, secret, mocks, restorable, onExhausted) ==
    IF \E mock \in mocks : ~Collides(out.map, secret.value, mock)
    THEN Put(out, secret, CHOOSE mock \in mocks : TRUE, restorable)
    ELSE Degrade(out, onExhausted)

\* One secret of the loop.
Handle(out, secret, onExhausted) ==
    IF out.refused \/ ~RequestContains(out.ir, secret.value) THEN out
    ELSE CASE secret.strategy = "reject" -> [out EXCEPT !.refused = TRUE]
           [] secret.strategy = "monitor" ->
                [out EXCEPT !.monitored = Append(@, secret.id)]
           [] secret.strategy = "placeholder" ->
                Substitute(out, secret, {PlaceholderFor(secret.id)}, FALSE, onExhausted)
           [] secret.strategy = "redact" ->
                Substitute(out, secret, GenMock(out.ir, secret, out.allocated), TRUE,
                           onExhausted)

\* redact_ir_inner
Redact(ir, secrets, onExhausted) ==
    FoldLeft(LAMBDA out, secret : Handle(out, secret, onExhausted),
             [ir |-> ir, map |-> << >>, allocated |-> {}, monitored |-> << >>,
              refused |-> FALSE],
             HandlingOrder(secrets))

\* leak_watch: every placeholder of the policy, whether the request has it or not.
LeakWatch(secrets) ==
    {s \in Range(secrets) : s.strategy = "placeholder" /\ s.value # << >>}

(***************************************************************************)
(* What is kept of a request, and what is made of it later                 *)
(***************************************************************************)
\* derive_redactions: the mocks with the first secret of their value.
DeriveRedactions(map, secrets) ==
    {[mock |-> map[i].mock,
      id |-> secrets[CHOOSE k \in DOMAIN secrets :
                        /\ secrets[k].value = map[i].real
                        /\ \A j \in 1 .. k - 1 : secrets[j].value # map[i].real].id] :
        i \in DOMAIN map}

\* Faulty variant: in the order of the table.
RebuildPairsOfTable(redactions, secrets) ==
    LET of(s) == {r.mock : r \in {q \in redactions :
                    \E k \in DOMAIN secrets : secrets[k].id = q.id /\ secrets[k].value = s.value}}
        hit == SelectSeq(secrets, LAMBDA s : of(s) # {})
    IN  [k \in DOMAIN hit |-> [real |-> hit[k].value, mock |-> CHOOSE m \in of(hit[k]) : TRUE]]

\* rebuild_real_to_mock_pairs: in the order in which they were handled.
RebuildPairs(redactions, secrets) ==
    LET of(s) == {r.mock : r \in {q \in redactions :
                    \E k \in DOMAIN secrets : secrets[k].id = q.id /\ secrets[k].value = s.value}}
        hit == SelectSeq(HandlingOrder(secrets), LAMBDA s : of(s) # {})
    IN  [k \in DOMAIN hit |-> [real |-> hit[k].value, mock |-> CHOOSE m \in of(hit[k]) : TRUE]]

\* apply_real_to_mock_messages
ApplyPairs(ir, pairs) == FoldLeft(LAMBDA out, p : RequestReplaceAll(out, p.real, p.mock), ir, pairs)

\* The timeline's view of a node: its messages with the mocks put back.
RebuiltView(record) ==
    ApplyPairs(record.leaves, RebuildPairs(record.redactions, record.policy))

(***************************************************************************)
(* The way back                                                            *)
(***************************************************************************)
LexLess(a, b) == \E i \in DOMAIN a : a[i] < b[i] /\ \A j \in 1 .. i - 1 : a[j] = b[j]

\* Faulty variant: in the order in which the mocks were given out.
OrderedRestorePairsAsGiven(map) == SelectSeq(map, LAMBDA p : p.restorable)

\* ordered_restore_pairs: the longest mock first, without the placeholders.
OrderedRestorePairs(map) ==
    LET before(p, q) == \/ Len(p.mock) > Len(q.mock)
                        \/ Len(p.mock) = Len(q.mock) /\ LexLess(p.mock, q.mock)
    IN  SetToSortSeq({p \in Range(map) : p.restorable}, before)

HasRestorable(map) == \E i \in DOMAIN map : map[i].restorable

Restore(text, map) == Window!RestoreText(text, OrderedRestorePairs(map))

\* detect_response_leaks
DetectLeaks(text, watch) == {s.id : s \in {w \in watch : Within(w.value, text)}}

(***************************************************************************)
(* The conversation                                                        *)
(***************************************************************************)
Init ==
    /\ settings \in Settings
    /\ policy \in Policies
    /\ history = << >>
    /\ call = NoCall
    /\ records = << >>
    /\ edits = 0

\* One request: read, redacted, recorded and sent, by the table as it is now.
\* A client whose request is refused may or may not keep its message.
Ask ==
    /\ call = NoCall
    /\ Len(history) < MaxMessages
    /\ \E text \in Utterances :
        LET said == Append(history, [place |-> "user", text |-> text])
            leaves == Opening \o said
            out == Redact(leaves, policy, settings.on_probe_exhausted)
        IN  IF out.refused
            THEN /\ history' \in {history, said}
                 /\ UNCHANGED <<call, records>>
            ELSE /\ history' = said
                 /\ call' = [phase |-> "sent", ir |-> out.ir, map |-> out.map,
                             watch |-> LeakWatch(policy)]
                 /\ records' = Append(records,
                        [leaves |-> leaves, sent |-> out.ir, policy |-> policy,
                         redactions |-> DeriveRedactions(out.map, policy),
                         reply |-> << >>, alerts |-> {}])
    /\ UNCHANGED <<settings, policy, edits>>

\* What the upstream may say: anything it was told, or something of its own.
Sayings == {call.ir[i].text : i \in DOMAIN call.ir} \cup Inventions

\* The client gets one text; the record keeps the one that came.
Answered(text, came, alerts) ==
    /\ history' = Append(history, [place |-> "history", text |-> text])
    /\ call' = NoCall
    /\ records' = [records EXCEPT ![Len(records)].alerts = alerts,
                                  ![Len(records)].reply = came]
    /\ UNCHANGED <<settings, policy, edits>>

\* Faulty variant: the answer is searched as the client gets it.
AlertsAfterRestore(text) == DetectLeaks(Restore(text, call.map), call.watch)

\* attach_finality: the answer is searched as the upstream gave it.
Alerts(text) == DetectLeaks(text, call.watch)

\* The codec reads the answer.  Without a value to restore it passes as it is.
ReplyParsed ==
    /\ call # NoCall
    /\ \E text \in Sayings : Answered(Restore(text, call.map), text, Alerts(text))

\* restore_via_json_leaf_fallback: JSON that the codec does not know.
ReplyRejected ==
    /\ call # NoCall
    /\ \E text \in Sayings :
        Answered(IF settings.on_fallback_restore = "restore"
                 THEN Restore(text, call.map) ELSE text, text, {})

\* No JSON at all: what came is passed on.
ReplyOpaque ==
    /\ call # NoCall
    /\ \E text \in Sayings : Answered(text, text, {})

\* The upstream fails, or the client gives up; nothing was said.
NoReply ==
    /\ call # NoCall
    /\ call' = NoCall
    /\ UNCHANGED <<settings, policy, history, records, edits>>

\* The table is edited, which no request in flight notices.
EditPolicy ==
    /\ edits < MaxEdits
    /\ edits' = edits + 1
    /\ policy' \in Policies \ {policy}
    /\ UNCHANGED <<settings, history, call, records>>

Next == Ask \/ ReplyParsed \/ ReplyRejected \/ ReplyOpaque \/ NoReply \/ EditPolicy

Spec == Init /\ [][Next]_vars

(***************************************************************************)
(* Properties                                                              *)
(***************************************************************************)
IsTwin(s, secrets) ==
    \E t \in Range(secrets) : t.id # s.id /\ t.value = s.value

\* What a request may not take upstream: the value of a secret that is to be
\* replaced or refused is in none of its leaves, whatever the order of the
\* table, the nesting of the values and the edits; passing a secret over
\* takes an explicit fail_open (RED-4, RED-9).
WireHoldsNoSecret ==
    settings.on_probe_exhausted = "fail_closed" =>
        \A n \in DOMAIN records : \A s \in Range(records[n].policy) :
            s.strategy # "monitor" /\ ~IsTwin(s, records[n].policy) =>
                ~RequestContains(records[n].sent, s.value)

\* RED-6: a leaf that the upstream repeats reaches the client as the client
\* wrote it, mocks of earlier turns included; only placeholders stay.
EchoIsRestored ==
    call # NoCall =>
        LET record == records[Len(records)]
        IN  \A i \in DOMAIN record.leaves :
                (\A m \in DOMAIN call.map :
                    ~call.map[m].restorable =>
                        ~Within(call.map[m].mock, record.sent[i].text)) =>
                    Restore(record.sent[i].text, call.map) = record.leaves[i].text

\* The view that the timeline derives from the client's messages, the recorded
\* mocks and the recorded policy is what went up, leaf by leaf, for ever.
RebuiltViewIsTheWire ==
    \A n \in DOMAIN records : RebuiltView(records[n]) = records[n].sent

\* No mock that is given out early holds a candidate of a later secret.
NoMockWithinAMock(secrets) ==
    \A s, t \in Range(secrets) :
        Len(s.value) < Len(t.value) =>
            \A c \in DOMAIN s.mocks : \A d \in DOMAIN t.mocks : ~Within(s.mocks[c], t.mocks[d])

\* RED-3: as long as the policy stays and no candidate is in the request,
\* what was sent once is sent again unchanged, whatever is added to it.
MocksAreStable ==
    \A n \in DOMAIN records : \A m \in 1 .. n - 1 :
        LET early == records[m]
            late == records[n]
            free == \A s \in Range(late.policy) : \A c \in DOMAIN s.mocks :
                        ~RequestContains(late.leaves, s.mocks[c])
        IN  early.policy = late.policy /\ free /\ NoMockWithinAMock(late.policy) =>
                IsPrefix(early.sent, late.sent)

\* RED-10: an alarm says that the upstream gave a value which nobody told it.
AlarmsAreReal ==
    \A n \in DOMAIN records : \A s \in Range(records[n].policy) :
        s.id \in records[n].alerts /\ ~IsTwin(s, records[n].policy) =>
            /\ Within(s.value, records[n].reply)
            /\ ~RequestContains(records[n].sent, s.value)

\* What the audit counts is what was replaced: a mock that is no part of another
\* stands on the wire as often, and in the same places, as its value was counted.
AuditMatchesTheWire ==
    call # NoCall =>
        \A m \in DOMAIN call.map :
            /\ call.map[m].restorable
            /\ \A o \in DOMAIN call.map \ {m} : ~Within(call.map[m].mock, call.map[o].mock)
            => HitLocations(call.ir, call.map[m].mock) = call.map[m].hits

\* RED-2, as it is stated: a mock was nowhere in the request.
MockIsNewToTheRequest ==
    call # NoCall =>
        \A m \in DOMAIN call.map :
            call.map[m].restorable =>
                ~RequestContains(records[Len(records)].leaves, call.map[m].mock)
=============================================================================
