---------------------------- MODULE ChunkedStream ----------------------------
(***************************************************************************)
(* The bytes of a streamed answer arrive in chunks that respect neither    *)
(* frames nor mock values.  SseReassembler cuts the frames, the window of  *)
(* MockWindow restores the deltas they carry.  The body here is one block; *)
(* the bytes of a frame that are no line ends are the text of its delta.   *)
(***************************************************************************)
EXTENDS MockWindow

CONSTANTS Bytes,
          Tables,     \* the pairs in use, raw and escaped, with the characters
                      \* of the bodies tried on them and a bound on their length
          Leads,      \* the bytes that begin a character of two bytes
          MaxChunk,   \* bound on the characters of a chunk
          MaxBuf      \* MAX_BUF

ASSUME StreamAssumption == MaxChunk \in Nat /\ \A t \in Tables : t.chars \subseteq Seq(Bytes)

Kinds == {"text", "json"}
LF == "lf"
CR == "cr"

VARIABLES table, kind,   \* which pairs, and whether texts or arguments flow
          body,          \* all bytes that have arrived
          buf, scanned, aborted,   \* SseReassembler
          frames,        \* what it has handed over
          window,        \* StreamingRestorer.buffer
          out,           \* what the client has received
          phase

reassembler == <<buf, scanned, aborted, frames>>
stream_vars == <<table, kind, body, reassembler, window, out, phase>>

AllPairs == table.raw \o table.escaped
KindPairs == IF kind = "json" THEN table.escaped ELSE table.raw

-----------------------------------------------------------------------------
\* The positions (offset, length) at which a terminator can be recognised; a
\* CRLF pair is anchored at its first line feed.
TerminatorAt(s, i) ==
    IF s[i] # LF THEN 0
    ELSE IF i < Len(s) /\ s[i + 1] = LF THEN 2
    ELSE IF i > 1 /\ i + 2 <= Len(s) /\ <<s[i - 1], s[i + 1], s[i + 2]>> = <<CR, CR, LF>> THEN 4
    ELSE 0

\* find_frame_terminator: the end of the first terminator, 0 without one.
FindFrameTerminator(s) ==
    LET ends == {i \in DOMAIN s : TerminatorAt(s, i) # 0}
        first == CHOOSE i \in ends : \A j \in ends : i <= j
    IN  IF ends = {} THEN 0
        ELSE IF TerminatorAt(s, first) = 2 THEN first + 1 ELSE first + 2

SkipTo(s, n) == SubSeq(s, n + 1, Len(s))

\* A character of two bytes has exactly one continuation byte.
IsUtf8(s) ==
    \A i \in DOMAIN s :
        /\ s[i] \in Continuation => i > 1 /\ s[i - 1] \in Leads
        /\ s[i] \in Leads => i < Len(s) /\ s[i + 1] \in Continuation

\* parse_sse_frame: the payload of a frame; one that carries none, or is no
\* text, is skipped.
Payload(frame) == IF IsUtf8(frame) THEN SelectSeq(frame, LAMBDA b : b \notin {LF, CR}) ELSE << >>

\* The frames cut from b when the search begins at `back`, and where it ends.
CutFrom(b, back) ==
    LET loop[consumed \in 0 .. Len(b)] ==
            LET searchFrom == IF back > consumed THEN back ELSE consumed
                rel == FindFrameTerminator(SkipTo(b, searchFrom))
                end == searchFrom + rel
                later == loop[end]
            IN  IF rel = 0 THEN [frames |-> << >>, consumed |-> consumed]
                ELSE [frames   |-> <<SubSeq(b, consumed + 1, end)>> \o later.frames,
                      consumed |-> later.consumed]
    IN  loop[0]

\* Faulty variant: the search resumes at the first byte not scanned yet.
CutWithoutStepBack(b, from) == CutFrom(b, from)

\* The loop of feed over the buffer b.  `from` is scanned, and once a frame is
\* cut scanned is consumed, so that the step back matters to the first search.
Cut(b, from) == CutFrom(b, IF from > 3 THEN from - 3 ELSE 0)

Deltas(fs) == SelectSeq([i \in DOMAIN fs |-> Payload(fs[i])], LAMBDA d : d # << >>)

\* MAX_BUF is about what is left after the frames found have been taken out.
Overflow(grown, left) == Len(left) > MaxBuf

\* The deltas of a feed go through the window one by one.
PushAll(state, deltas) ==
    LET one(w, d) == LET p == Push(w.buffer, d, KindPairs, AllPairs)
                     IN  [buffer |-> p.buffer, out |-> w.out \o p.out]
    IN  FoldLeft(one, state, deltas)

StreamInit ==
    /\ table \in Tables
    /\ kind \in Kinds
    /\ body = << >> /\ buf = << >> /\ scanned = 0 /\ aborted = FALSE
    /\ frames = << >> /\ window = << >> /\ out = << >>
    /\ phase = "open"

\* SseReassembler::feed, then translate_event for what it found.
Feed(chunk) ==
    LET grown == buf \o chunk
        cut == Cut(grown, scanned)
        left == SkipTo(grown, cut.consumed)
        pushed == PushAll([buffer |-> window, out |-> out], Deltas(cut.frames))
    IN  /\ phase = "open"
        /\ Len(body) + Len(chunk) <= table.length
        /\ body' = body \o chunk
        /\ IF aborted
           THEN UNCHANGED <<reassembler, window, out>>
           ELSE /\ aborted' = Overflow(grown, left)
                /\ buf' = (IF aborted' THEN << >> ELSE left)
                /\ scanned' = Len(buf')
                /\ frames' = frames \o cut.frames
                /\ window' = pushed.buffer
                /\ out' = pushed.out
        /\ UNCHANGED <<table, kind, phase>>

\* BlockStop, or the end of a stream that forgot it: the window is flushed.
Finish ==
    /\ phase = "open"
    /\ phase' = "done"
    /\ out' = out \o Flush(window, KindPairs)
    /\ window' = << >>
    /\ UNCHANGED <<table, kind, body, reassembler>>

Chunks == {FlattenSeq(cs) : cs \in UNION {[1 .. n -> table.chars] : n \in 1 .. MaxChunk}}

StreamNext == (\E chunk \in Chunks : Feed(chunk)) \/ Finish
StreamSpec == StreamInit /\ [][StreamNext]_stream_vars
-----------------------------------------------------------------------------
\* Reference: the frames of a body that is there at once.
FramesOf(body0) ==
    LET from[start \in 0 .. Len(body0)] ==
            LET rel == FindFrameTerminator(SkipTo(body0, start))
            IN  IF rel = 0 THEN << >>
                ELSE <<SubSeq(body0, start + 1, start + rel)>> \o from[start + rel]
    IN  from[0]

Restored == RestoreText(FlattenSeq(Deltas(frames)), KindPairs)

\* STR-1, the frames: they are those of the body, however it was cut, up to
\* the point where an overlong frame made the reassembler give up.
FramesIgnoreChunks ==
    IF aborted THEN IsPrefix(frames, FramesOf(body)) ELSE frames = FramesOf(body)

\* STR-1, the text: what the client has, with what a flush would add, is the
\* restoration of all deltas at once; a mock cut by chunks or frames is found.
RestorationIgnoresChunks == out \o Flush(window, KindPairs) = Restored

\* The client never waits for more than a mock could still need: the window
\* keeps back `hold` bytes, and the rest of a character they would cut (three
\* bytes in UTF-8; one here, where characters have two).
WindowIsBounded == Len(window) <= Hold(AllPairs) + 1

\* Giving up is for a frame that is longer than the buffer may be; many short
\* frames in one chunk, or a long quiet stream, are no reason.
OnlyLongFramesAbort ==
    aborted => \E n \in 0 .. Len(body) :
        /\ IsPrefix(FlattenSeq(frames), SubSeq(body, 1, n))
        /\ n - Len(FlattenSeq(frames)) > MaxBuf
        /\ FindFrameTerminator(SubSeq(body, Len(FlattenSeq(frames)) + 1, n)) = 0

\* Doc of find_safe_end: no mock lies across the cut between what leaves and
\* what stays.  Refuted for mocks that overlap each other or themselves.
NoMockAcrossTheCut ==
    \A p \in DOMAIN KindPairs :
        \A i \in Occurrences(KindPairs[p].mock, FlattenSeq(Deltas(frames))) :
            LET cut == Len(FlattenSeq(Deltas(frames))) - Len(window)
            IN  i + Len(KindPairs[p].mock) <= cut \/ i >= cut
=============================================================================
