------------------------- MODULE MCConversationDag -------------------------
(***************************************************************************)
(* Instances of ConversationDag: a user message, the answer to it, a       *)
(* second user message and a system prompt.  The user messages share a     *)
(* block, and the prefix hash is small enough to collide.                  *)
(***************************************************************************)
EXTENDS ConversationDag, TLC

CONSTANTS hi, yes, more, sysprompt, x, y, z

MCMessages == {hi, yes, more, sysprompt}

MCContent == (hi :> <<x>>) @@ (yes :> <<y>>) @@ (more :> <<x, z>>) @@ (sysprompt :> <<z>>)

\* A conversation and its next round, the same opening taken up elsewhere,
\* another conversation, and a request without messages.
MCBodies == {<<>>, <<hi>>, <<hi, yes, more>>, <<hi, more>>, <<more>>}

\* The two-request instance: a conversation, its next round, another one.
MCTalk == {<<hi>>, <<hi, yes, more>>, <<more>>}

MCSystems == {<<sysprompt>>}

Code == (hi :> 1) @@ (yes :> 2) @@ (more :> 1) @@ (sysprompt :> 0)

\* Three values: <<hi>>, <<more>> and <<hi, yes, more>> collide.
MCHashes == 0 .. 2

MCCombine == [p \in MCHashes \X MCMessages |-> (p[1] + Code[p[2]]) % 3]

MCSymmetry == Permutations(Requests)
=============================================================================
