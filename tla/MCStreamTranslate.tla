-------------------------- MODULE MCStreamTranslate --------------------------
(* Instances of StreamTranslate.  A mock "m" "k" stands for "R"; JSON writes *)
(* it with a quote before it.                                                *)
EXTENDS StreamTranslate

AllRoutes == {r \in Protocols \X Protocols \X BOOLEAN : r[1] = r[2] => r[3]}
OpenAiToAnthropic == {<<"anthropic", "openai", FALSE>>}
AnthropicRestored == {<<"anthropic", "anthropic", TRUE>>}
MCTextPairs == <<[mock |-> <<"m", "k">>, real |-> <<"R">>]>>
MCArgsPairs == <<[mock |-> <<"m", "k">>, real |-> <<"q", "R">>]>>
MCPieces == {<<"m">>, <<"k">>}
MCMock == <<"m", "k">>
=============================================================================
