--------------------------- MODULE MCChunkedStream ---------------------------
(* Instances of ChunkedStream.  The byte "q" is the quote and "b" the       *)
(* backslash, so that JSON writes a mock that contains them at more length.  *)
EXTENDS ChunkedStream

Pair(m, r) == [mock |-> m, real |-> r]

OneMock(chars, length) ==
    [raw     |-> <<Pair(<<"m", "q">>, <<"R">>)>>,
     escaped |-> <<Pair(<<"m", "b", "q">>, <<"b", "R">>)>>,
     chars   |-> chars,
     length  |-> length]

\* One mock with a quote, in bodies of every line end and in bodies with
\* characters of two bytes "uv"; and two mocks of different lengths, in longer
\* bodies, where one written in JSON looks like the other one in a text.
MCTables ==
    {OneMock({<<"m">>, <<"q">>, <<"lf">>, <<"cr">>}, 8),
     OneMock({<<"m">>, <<"b">>, <<"q">>, <<"u">>, <<"v">>, <<"lf", "lf">>}, 6),
     [raw     |-> <<Pair(<<"m", "b", "q">>, <<"S">>), Pair(<<"m", "q">>, <<"R">>)>>,
      escaped |-> <<Pair(<<"m", "b", "b", "b", "q">>, <<"S">>), Pair(<<"m", "b", "q">>, <<"R">>)>>,
      chars   |-> {<<"m">>, <<"b">>, <<"q">>, <<"lf", "lf">>},
      length  |-> 9]}

MCBytes == {"m", "q", "b", "u", "v", "lf", "cr"}
MCLeads == {"u"}
MCContinuation == {"v"}
=============================================================================
