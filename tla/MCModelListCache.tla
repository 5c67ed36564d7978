-------------------------- MODULE MCModelListCache --------------------------
(* Instances of ModelListCache.                                            *)
EXTENDS ModelListCache

T(id, egress, stored) == [key |-> <<id, egress>>, stored |-> stored]

(* Routers that reach one provider through two endpoints, and another one. *)
MCWalks == {<<T("a", "openai", None), T("b", "gemini", None)>>,
            <<T("a", "gemini", None)>>}

(* One of the endpoints changes its list.                                  *)
MCLists == [k \in Keys |-> IF k = <<"a", "openai">> THEN {"l1", "l2"} ELSE {"l1"}]

(* A router over four upstreams.                                           *)
MCFourUpstreams == {[i \in 1..4 |-> T(<<"a", "b", "c", "d">>[i], "gemini", None)]}
===============================================================================
