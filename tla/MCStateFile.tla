----------------------------- MODULE MCStateFile -----------------------------
(* The instances of StateFile that TLC checks. *)
EXTENDS StateFile

MCDecisionOps == {"decide", "reset", "capture"}
MCAllOps == MCDecisionOps \cup {"upsert", "delete", "keys", "issue"}
MCUpsertAndIssue == {"upsert", "issue"}

\* A key is issued while no other writer is at work: issue does not take the
\* lock, and what two writers do to each other then is a run of its own.
Issuing(w) == job[w].pc # "idle" /\ "keys" \in DOMAIN job[w].new /\ lock # w
MCIssueAlone ==
    \A w \in Writers : Issuing(w) => \A v \in Writers \ {w} : job[v].pc = "idle"
=============================================================================
