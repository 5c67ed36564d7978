---------------------------- MODULE MCRedaction ----------------------------
(***************************************************************************)
(* Instances of Redaction.  Values up to 9 belong to the user and to the   *)
(* secrets, those from 20 on to the mocks.                                 *)
(***************************************************************************)
EXTENDS Redaction

secret(id, value, strategy, mocks) ==
    [id |-> id, value |-> value, strategy |-> strategy, mocks |-> mocks]

key   == secret(11, <<1, 2, 3>>, "redact", <<<<22>>, <<24, 25>>>>)
inner == secret(12, <<2>>, "redact", <<<<21, 22, 23>>, <<26>>>>)
mail  == secret(13, <<2, 3>>, "placeholder", << >>)
seen  == secret(14, <<4, 1>>, "monitor", << >>)
never == secret(15, <<5>>, "reject", << >>)

\* Values within values, each way round, and a policy with other mocks.
MCPolicies ==
    {<<inner, key, never>>,
     <<seen, mail, key>>,
     <<secret(12, <<2>>, "redact", <<<<28>>, <<29>>>>), mail>>}

MCSettings ==
    {[on_probe_exhausted |-> e, on_fallback_restore |-> f] :
        e \in {"fail_open", "fail_closed"}, f \in {"withhold", "restore"}}

MCOpening == <<[place |-> "system", text |-> <<9, 2>>], [place |-> "model", text |-> <<2>>]>>

\* A value, one that overlaps it, parts of values, a mock, one to refuse.
MCUtterances == {<<4, 1, 2, 3>>, <<2, 3, 1>>, <<22, 26>>, <<5>>}

\* The upstream knows a value of its own, and a candidate.
MCInventions == {<<2, 3>>, <<26>>}

\* A fixed mock of one secret that is part of the value of another.
MCFixed ==
    {<<secret(11, <<1, 2, 3>>, "redact", <<<<21, 22, 23>>>>),
       secret(12, <<7, 8>>, "redact", <<<<2>>, <<2, 9>>>>)>>}
MCFixedUtterances == {<<1, 2, 3, 7, 8>>}
MCNoOpening == << >>
=============================================================================
