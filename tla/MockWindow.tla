----------------------------- MODULE MockWindow -----------------------------
(***************************************************************************)
(* StreamingRestorer of redact.rs: the sliding window through which the    *)
(* deltas of one block pass, so that a mock value that arrives in pieces   *)
(* is restored as if it had come at once.  A text is a sequence of bytes;  *)
(* a replacement pair is [mock |-> text, real |-> text].                   *)
(***************************************************************************)
EXTENDS Naturals, Sequences, SequencesExt

CONSTANT Continuation   \* the bytes that do not begin a character

\* The offsets at which mock occurs in s, overlapping occurrences included.
Occurrences(mock, s) ==
    {i \in 0 .. Len(s) - Len(mock) : SubSeq(s, i + 1, i + Len(mock)) = mock}

\* str::replace: the occurrences are taken from the left and do not overlap.
ReplaceOne(s, pair) ==
    LET width == Len(pair.mock)
        rest[i \in 1 .. Len(s) + 1] ==
            IF i > Len(s) THEN << >>
            ELSE IF i - 1 \in Occurrences(pair.mock, s) THEN pair.real \o rest[i + width]
            ELSE <<s[i]>> \o rest[i + 1]
    IN  rest[1]

\* replace_pairs_inplace: one pair after the other, the longest mock first.
RestoreText(s, pairs) == FoldLeft(ReplaceOne, s, pairs)

LongestMock(pairs) ==
    LET lengths == {Len(pairs[i].mock) : i \in DOMAIN pairs}
    IN  IF lengths = {} THEN 0 ELSE CHOOSE n \in lengths : \A m \in lengths : m <= n

\* new: what is kept back, one byte less than the longest mock of either form.
Hold(pairs) == IF LongestMock(pairs) = 0 THEN 0 ELSE LongestMock(pairs) - 1

IsBoundary(s, n) == n \in {0, Len(s)} \/ s[n + 1] \notin Continuation

\* Where the mocks in s end, those of the other form included.
MockEnds(s, pairs) ==
    UNION {{i + Len(pairs[p].mock) : i \in Occurrences(pairs[p].mock, s)} : p \in DOMAIN pairs}

LastBoundary(s, wanted) ==
    LET cut == CHOOSE n \in wanted : \A m \in wanted : m <= n
        boundaries == {n \in 0 .. cut : IsBoundary(s, n)}
    IN  CHOOSE n \in boundaries : \A m \in boundaries : m <= n

\* Faulty variant: what is kept back ignores the mocks just found in it.
FindSafeEndByHold(s, pairs) ==
    IF Len(s) <= Hold(pairs) THEN 0 ELSE LastBoundary(s, {Len(s) - Hold(pairs)})

\* find_safe_end: all of s up to here may leave.  `pairs` holds both forms.
FindSafeEnd(s, pairs) ==
    IF Hold(pairs) = 0 THEN Len(s)
    ELSE IF Len(s) <= Hold(pairs) THEN 0
    ELSE LastBoundary(s, {Len(s) - Hold(pairs)} \cup MockEnds(s, pairs))

\* push: what leaves, restored by the pairs of its kind, and what stays.
Push(buffer, content, kindPairs, pairs) ==
    LET combined == buffer \o content
        safeEnd == FindSafeEnd(combined, pairs)
    IN  IF pairs = << >> THEN [out |-> content, buffer |-> buffer]
        ELSE [out    |-> RestoreText(SubSeq(combined, 1, safeEnd), kindPairs),
              buffer |-> SubSeq(combined, safeEnd + 1, Len(combined))]

\* flush: the rest of the block.
Flush(buffer, kindPairs) == RestoreText(buffer, kindPairs)
=============================================================================
