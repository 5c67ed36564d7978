-------------------------- MODULE StreamTranslate --------------------------
(***************************************************************************)
(* A streamed answer on its way from the upstream, which speaks `egress`,  *)
(* to the client, which speaks `ingress` (translate.rs), with the mocks in *)
(* it restored on the way (StreamingRestorerSet of redact.rs).  The        *)
(* upstream is part of the model: it opens blocks, says pieces of them,    *)
(* and ends, fails or falls silent.  A frame is a feed of its own; frames  *)
(* cut by chunks are the subject of ChunkedStream.                         *)
(***************************************************************************)
EXTENDS StreamScan, MockWindow

CONSTANTS Routes,      \* the <<ingress, egress, restoring>> to try
          TextPairs,   \* the mocks and what they stand for, in texts
          ArgsPairs,   \* the same, the way JSON writes it
          Pieces,      \* what an upstream says at a time
          Name, Trouble,   \* the name of a tool; the text of an error
          ForeignBlocks,   \* blocks without IR: "server_tool_use", "image"
          MaxBlocks, MaxPieces   \* bounds on an answer

Tokens == UNION {Range(piece) : piece \in Pieces}

ASSUME AnswerAssumption ==
    /\ Routes \subseteq Protocols \X Protocols \X BOOLEAN
    /\ Pieces \subseteq Seq(Tokens)
    /\ Name # << >>
    /\ ForeignBlocks \cap (KnownBlocks \cup {"message", "reasoning"}) = {}

VARIABLES route,
          up,     \* the upstream: the answer so far, and how far it is
          tr,     \* StreamTranslate
          scan,   \* StreamScan, which the record is written from
          sent    \* all frames the client has received

vars == <<route, up, tr, scan, sent>>

ingress == route[1]
egress == route[2]
restoring == route[3]
CrossProto == ingress # egress

AllPairs == TextPairs \o ArgsPairs
PairsOf(kind) == IF kind = "args" THEN ArgsPairs ELSE TextPairs
RestoreInline(text) == IF restoring THEN RestoreText(text, TextPairs) ELSE text
-----------------------------------------------------------------------------
\* new_cross_proto, new_same_proto_restore; `start` is start_usage.
NewTranslate == [decode |-> Decode0(egress), encode |-> Encode0(ingress), windows |-> Empty,
                 start |-> << >>, stopped |-> FALSE, pending |-> FALSE,
                 skipped |-> {}, out |-> << >>]

\* emit_ir_event
Take(t, w) == [t EXCEPT !.encode = w.state, !.out = @ \o w.frames]
EmitIrEvent(t, ev) == Take(t, WriteResponseEvent(ingress, ev, t.encode))

\* flush_delta of one block, and the delta that carries its tail.
EmitTail(t, index, kind, tail) ==
    IF tail = << >> THEN t ELSE EmitIrEvent(t, BlockDelta(index, kind, tail))
FlushDelta(t, index) ==
    LET w == t.windows[index]
    IN  IF index \notin DOMAIN t.windows THEN t
        ELSE EmitTail([t EXCEPT !.windows = Drop(@, index)], index, w.kind,
                      Flush(w.buffer, PairsOf(w.kind)))

\* flush_all and tail_events, in the order of the blocks.
FlushEach(t, indices) ==
    LET after[n \in 0 .. Len(indices)] ==
            IF n = 0 THEN t ELSE FlushDelta(after[n - 1], indices[n])
    IN  after[Len(indices)]
EmitFlushAll(t) == FlushEach(t, Ascending(DOMAIN t.windows))

\* restore_delta: the window of the block, which the first delta creates.
BufferOf(t, index) ==
    IF index \in DOMAIN t.windows THEN t.windows[index].buffer ELSE << >>
Pushed(t, ev, p) ==
    [state |-> [t EXCEPT !.windows = Put(@, ev.index, [buffer |-> p.buffer, kind |-> ev.kind])],
     ev    |-> [ev EXCEPT !.text = p.out]]
RestoreDelta(t, ev) ==
    Pushed(t, ev, Push(BufferOf(t, ev.index), ev.text, PairsOf(ev.kind), AllPairs))

\* The usage of the message start is kept, and given to ends without input.
LockUsage(t, ev) ==
    IF ev.type = "message_start" /\ ev.present THEN [t EXCEPT !.start = <<ev.usage>>] ELSE t

\* Faulty variant: an end that tells no input is taken at its word.
NotBackfilled(t, ev) == ev

Backfilled(t, ev) ==
    IF ev.type = "message_delta" /\ ev.usage.input = 0 /\ t.start # << >>
    THEN [ev EXCEPT !.usage.input = t.start[1].input] ELSE ev

\* The guard after the stop: the usage of a late chunk may still pass, across
\* protocols one time only, because the stop follows it.
PassesAfterStop(t, ev) ==
    IF CrossProto THEN ev.type = "message_delta" /\ ~IsZero(ev.usage) /\ t.pending
    ELSE ev.type # "message_stop" /\ (ev.type = "message_delta" => ~IsZero(ev.usage))

\* The name of a tool is restored before the writer sees it for the first time.
RestoredStart(ev) ==
    IF ev.type = "block_start" /\ ev.meta = "tool" THEN [ev EXCEPT !.name = RestoreInline(@)] ELSE ev

\* Faulty variant: the tail of a block waits for the end of the stream.
FlushBeforeTheEnd(t, ev) ==
    IF restoring /\ ev.type = "message_stop" THEN EmitFlushAll(t) ELSE t

\* What is flushed before a stop, and the event restored (restore_event_inplace).
FlushBefore(t, ev) ==
    IF ~restoring THEN t
    ELSE IF ev.type = "block_stop" THEN FlushDelta(t, ev.index)
    ELSE IF ev.type = "message_stop" THEN EmitFlushAll(t)
    ELSE t

IsPlainDelta(ev) == ev.type = "block_delta" /\ ev.kind \in {"text", "args", "reasoning"}
RestoreEvent(t, ev) ==
    IF ~restoring THEN [state |-> t, ev |-> ev]
    ELSE IF IsPlainDelta(ev) THEN RestoreDelta(t, ev)
    ELSE [state |-> t, ev |-> IF ev.type = "error" THEN [ev EXCEPT !.text = RestoreInline(@)] ELSE ev]

\* An empty delta is not written.  A usage that came after the stop is
\* followed by the stop that waited for it.
EmitStopAfter(t) ==
    IF CrossProto /\ t.pending THEN EmitIrEvent([t EXCEPT !.pending = FALSE], MessageStop) ELSE t
EmitRestored(r) ==
    IF IsPlainDelta(r.ev) /\ r.ev.text = << >> THEN r.state
    ELSE EmitStopAfter(EmitIrEvent(r.state, r.ev))
RestoreAndEmit(t, ev) == EmitRestored(RestoreEvent(FlushBefore(t, ev), ev))

\* Across protocols a block that the writer does not start is not stopped; the
\* writer is asked for a start, and asked again when it has one.
Probes(ev) == CrossProto /\ ev.type = "block_start"
SkipOrEmit(t, ev, probe) ==
    IF Probes(ev) /\ probe.frames = << >>
    THEN [t EXCEPT !.encode = probe.state, !.skipped = @ \cup {ev.index}]
    ELSE IF CrossProto /\ ev.type = "block_stop" /\ ev.index \in t.skipped
    THEN IF restoring THEN FlushDelta(t, ev.index) ELSE t
    ELSE RestoreAndEmit(IF Probes(ev) THEN [t EXCEPT !.encode = probe.state] ELSE t, ev)

\* translate_event for one IR event, whose usage and name are set before.
TranslateSet(t, ev) ==
    IF ev.type = "message_stop" /\ CrossProto
    THEN IF t.stopped THEN t ELSE [t EXCEPT !.stopped = TRUE, !.pending = TRUE]
    ELSE IF t.stopped /\ ~PassesAfterStop(t, ev) THEN t
    ELSE SkipOrEmit([t EXCEPT !.stopped = @ \/ ev.type = "message_stop"], ev,
                    WriteResponseEvent(ingress, ev, t.encode))
TranslateEvent(t, ev) == TranslateSet(LockUsage(t, ev), RestoredStart(Backfilled(t, ev)))

\* feed
TranslateEvents(t, read) ==
    LET after[n \in 0 .. Len(read.events)] ==
            IF n = 0 THEN [t EXCEPT !.decode = read.state]
            ELSE TranslateEvent(after[n - 1], read.events[n])
    IN  after[Len(read.events)]
FeedFrame(t, f) == TranslateEvents(t, ReadResponseEvents(egress, f, t.decode))

FeedFrames(t, frames) ==
    LET after[n \in 0 .. Len(frames)] ==
            IF n = 0 THEN t ELSE FeedFrame(after[n - 1], frames[n])
    IN  after[Len(frames)]

\* finish: the tails, the error of an overlong frame, the stop still waiting.
EmitAbort(t, aborted) == IF aborted THEN EmitIrEvent(t, ErrorEvent(<< >>)) ELSE t
EmitDone(t) == IF ingress = "openai" THEN [t EXCEPT !.out = Append(@, Done)] ELSE t

\* Faulty variant: what the windows hold when the stream ends is lost.
FinishWithoutFlush(t, aborted) == EmitDone(EmitStopAfter(EmitAbort(t, aborted)))

FinishStream(t, aborted) == EmitDone(EmitStopAfter(EmitAbort(EmitFlushAll(t), aborted)))
-----------------------------------------------------------------------------
\* The upstream.  A block of its answer is a Block that is open or not; `at` is
\* the index its frames carry.

Usage == [input |-> 3, output |-> 2]
InputOnly == [input |-> 3, output |-> 0]
OutputOnly == [input |-> 0, output |-> 2]

KindsOf(p) ==
    CASE p = "openai" -> {"reasoning", "text", "tool"}
      [] p = "anthropic" -> {"text", "tool", "thinking", "redacted"} \cup ForeignBlocks
      [] p = "responses" -> {"text", "tool", "thinking"} \cup ForeignBlocks

DeltaKindOf(kind) == CASE kind = "tool" -> "args"
                       [] kind \in {"reasoning", "thinking"} -> "reasoning"
                       [] OTHER -> "text"

Redacted == <<Envelope("redacted", << >>, << >>)>>

\* The frames that open a block, the first piece included where there is one.
OpenFrames(kind, at, piece) ==
    LET name == CASE kind = "tool" -> Name [] kind = "redacted" -> Redacted [] OTHER -> << >>
    IN  CASE egress = "openai" /\ kind = "tool" ->
                <<[Chunk EXCEPT !.tools = <<ToolCall(at, Name, piece)>>]>>
          [] egress = "openai" /\ kind = "text" -> <<[Chunk EXCEPT !.content = piece]>>
          [] egress = "openai" /\ kind = "reasoning" -> <<[Chunk EXCEPT !.reasoning = piece]>>
          [] egress = "anthropic" -> <<ContentBlockStart(at, kind, name)>>
          [] egress = "responses" /\ kind = "text" ->
                <<ItemAdded(at, "message", << >>), PartAdded(at, 0, "text")>>
          [] egress = "responses" /\ kind # "text" -> <<ItemAdded(at, kind, name)>>

PieceFrames(b, piece) ==
    CASE egress = "openai" /\ b.kind = "tool" ->
            <<[Chunk EXCEPT !.tools = <<ToolCall(b.at, << >>, piece)>>]>>
      [] egress = "openai" /\ b.kind # "tool" -> OpenFrames(b.kind, b.at, piece)
      [] egress = "anthropic" ->
            <<ContentBlockDelta(b.at, CASE b.kind = "server_tool_use" -> "args"
                                        [] b.kind = "image" -> "other"
                                        [] OTHER -> DeltaKindOf(b.kind), piece)>>
      [] egress = "responses" ->
            <<ItemDelta(b.at, 0, IF b.kind \in ForeignBlocks THEN "code"
                                 ELSE DeltaKindOf(b.kind), piece)>>

\* The frames that close a block; a call may come with its arguments only here.
CloseFrames(b, opaque, late) ==
    LET text == b.text \o late
        kind == IF b.kind = "text" THEN "message" ELSE b.kind
    IN  CASE egress = "anthropic" ->
                (IF opaque = << >> THEN << >> ELSE <<ContentBlockDelta(b.at, "signature", opaque)>>)
                  \o <<ContentBlockStop(b.at)>>
          [] egress = "responses" ->
                <<DeltaDone(b.at, DeltaKindOf(b.kind), text)>>
                  \o (IF b.kind = "text" THEN <<PartDone(b.at, 0, text)>> ELSE << >>)
                  \o <<ItemDone(b.at, Item(kind, b.name, text, opaque))>>

StopFrames(stop, usage, present) ==
    CASE egress = "openai" ->
            <<[Chunk EXCEPT !.finish = stop, !.usage = usage, !.present = present]>>
      [] egress = "anthropic" -> <<AnthropicDelta(stop, usage, present), AnthropicStop>>
      [] egress = "responses" ->
            <<Finished(IF stop = "max_tokens" THEN "incomplete" ELSE "completed",
                       << >>, usage, present)>>

\* The frames go through the translator and through the scan of the record.
Deliver(t) == tr' = [t EXCEPT !.out = << >>] /\ sent' = sent \o t.out
Receive(frames) ==
    /\ Deliver(FeedFrames(tr, frames))
    /\ scan' = ScanFrames(egress, scan, frames)
    /\ UNCHANGED route

Open == {i \in DOMAIN up.blocks : up.blocks[i].open}
Said == FoldLeft(LAMBDA n, b : n + Len(b.text), 0, up.blocks)

Init ==
    /\ route \in Routes
    /\ up = [blocks |-> << >>, stop |-> None, usage |-> NoUsage, present |-> FALSE,
             late |-> FALSE, aborted |-> FALSE, phase |-> "idle"]
    /\ tr = NewTranslate
    /\ scan = NewScan(egress)
    /\ sent = << >>

Begin ==
    /\ up.phase = "idle"
    /\ up' = [up EXCEPT !.phase = "open",
                        !.usage = IF egress = "anthropic" THEN InputOnly ELSE @,
                        !.present = (egress = "anthropic")]
    /\ Receive(CASE egress = "openai" -> <<[Chunk EXCEPT !.role = TRUE]>>
                 [] egress = "anthropic" -> <<AnthropicStart(InputOnly)>>
                 [] egress = "responses" -> <<Created>>)

\* An OpenAI stream has one text and one reasoning; its other blocks, and the
\* calls of a Responses stream, may be open at the same time.
OpenBlock(kind, piece) ==
    LET at == IF egress = "openai"
              THEN Cardinality({i \in DOMAIN up.blocks : up.blocks[i].kind = "tool"})
              ELSE Len(up.blocks)
        name == IF kind = "tool" THEN Name ELSE << >>
        opaque == IF kind = "redacted" THEN Redacted ELSE << >>
    IN  /\ up.phase = "open"
        /\ Len(up.blocks) < MaxBlocks
        /\ Said + Len(piece) <= MaxPieces
        /\ kind \in KindsOf(egress)
        /\ egress = "openai" =>
              kind = "tool" \/ \A i \in DOMAIN up.blocks : up.blocks[i].kind # kind
        /\ egress = "anthropic" => Open = {}
        /\ egress = "responses" => kind = "tool" \/ Open = {}
        /\ piece # << >> <=> egress = "openai" /\ kind # "tool"
        /\ up' = [up EXCEPT !.blocks =
                     Append(@, [kind |-> kind, name |-> name, text |-> piece,
                                opaque |-> opaque, open |-> TRUE, at |-> at])]
        /\ Receive(OpenFrames(kind, at, piece))

Say(i, piece) ==
    /\ up.phase = "open"
    /\ i \in Open
    /\ up.blocks[i].kind # "redacted"
    /\ Said + Len(piece) <= MaxPieces
    /\ up' = [up EXCEPT !.blocks[i].text = @ \o piece]
    /\ Receive(PieceFrames(up.blocks[i], piece))

\* What a provider hides in a block of reasoning, if anything.
Opaques(kind) ==
    IF kind # "thinking" THEN {<< >>}
    ELSE {<< >>, <<Envelope(IF egress = "anthropic" THEN "signature" ELSE "encrypted", << >>, << >>)>>}

CloseBlock(i, opaque, late) ==
    /\ up.phase = "open"
    /\ egress # "openai"
    /\ i \in Open
    /\ opaque \in Opaques(up.blocks[i].kind)
    /\ late # << >> => egress = "responses" /\ up.blocks[i].kind = "tool"
                         /\ up.blocks[i].text = << >> /\ Said + Len(late) <= MaxPieces
    /\ up' = [up EXCEPT !.blocks[i].open = FALSE, !.blocks[i].text = @ \o late,
                        !.blocks[i].opaque = IF up.blocks[i].kind = "thinking" THEN opaque ELSE @]
    /\ Receive(CloseFrames(up.blocks[i], opaque, late))

\* A tool is what an answer that calls one stops for, unless it is cut short.
Stop(stop, present) ==
    /\ up.phase = "open"
    /\ egress # "openai" => Open = {}
    /\ stop \in {"max_tokens",
                 IF \E b \in Range(up.blocks) : b.kind = "tool" THEN "tool_use" ELSE "end_turn"}
    /\ up' = [up EXCEPT !.phase = "stopped", !.stop = stop,
                        !.present = @ \/ present,
                        !.usage = IF present THEN Usage ELSE @]
    /\ Receive(StopFrames(stop, IF ~present THEN NoUsage
                                ELSE IF egress = "anthropic" THEN OutputOnly ELSE Usage, present))

\* The chunk that include_usage asks an OpenAI upstream for.
LateUsage ==
    /\ up.phase = "stopped"
    /\ egress = "openai"
    /\ ~up.present
    /\ up' = [up EXCEPT !.present = TRUE, !.usage = Usage, !.late = TRUE]
    /\ Receive(<<[Chunk EXCEPT !.choices = FALSE, !.usage = Usage, !.present = TRUE]>>)

Fail ==
    /\ up.phase = "open"
    /\ up' = [up EXCEPT !.phase = "failed"]
    /\ Receive(CASE egress = "openai" -> <<[Chunk EXCEPT !.choices = FALSE, !.error = Trouble]>>
                 [] egress = "anthropic" -> <<AnthropicError(Trouble)>>
                 [] egress = "responses" -> <<Failed(Trouble)>>)

\* A frame grows too long; the reassembler ignores what follows.
Overflow ==
    /\ up.phase = "open"
    /\ up' = [up EXCEPT !.phase = "failed", !.aborted = TRUE]
    /\ UNCHANGED <<route, tr, scan, sent>>

\* The connection ends, whatever has been said.
Finish ==
    /\ up.phase # "done"
    /\ up' = [up EXCEPT !.phase = "done"]
    /\ Deliver(FinishStream(tr, up.aborted))
    /\ UNCHANGED <<route, scan>>

Next ==
    \/ Begin
    \/ \E kind \in KindsOf(egress), piece \in Pieces \cup {<< >>} : OpenBlock(kind, piece)
    \/ \E i \in DOMAIN up.blocks, piece \in Pieces : Say(i, piece)
    \/ \E i \in DOMAIN up.blocks : \E opaque \in Opaques(up.blocks[i].kind),
          late \in Pieces \cup {<< >>} : CloseBlock(i, opaque, late)
    \/ \E stop \in StopReasons, present \in BOOLEAN : Stop(stop, present)
    \/ LateUsage
    \/ Fail
    \/ Overflow
    \/ Finish

Spec == Init /\ [][Next]_vars
-----------------------------------------------------------------------------
\* What the upstream said.  Blocks without content, and blocks the IR has no
\* name for, are not part of it.
Meant(restore(_)) ==
    LET part(b) ==
            IF b.kind = "tool" THEN <<Block("tool", restore(b.name), b.text, << >>)>>
            ELSE IF b.kind \in ForeignBlocks \/ b.text \o b.opaque = << >> THEN << >>
            ELSE <<Block(IF b.kind = "text" THEN "text" ELSE "reasoning", << >>, b.text, b.opaque)>>
    IN  FlattenSeq(EachOf(up.blocks, part))

Restored(content) ==
    EachOf(content, LAMBDA b : IF ~restoring THEN b
                               ELSE [b EXCEPT !.text = RestoreText(@, PairsOf(DeltaKindOf(b.kind)))])

\* OpenAI has one text and one reasoning, and nothing opaque.
Merged(content) ==
    LET speech(kind) == FlattenSeq(EachOf(SelectSeq(content, LAMBDA b : b.kind = kind),
                                          LAMBDA b : b.text))
    IN  [text |-> speech("text"), reasoning |-> speech("reasoning"),
         calls |-> SelectSeq(content, LAMBDA b : b.kind = "tool")]

\* A stream that was cut short need not have come to what is opaque.
Visible(content) ==
    SelectSeq(EachOf(content, LAMBDA b : [b EXCEPT !.opaque = << >>]),
              LAMBDA b : b.kind = "tool" \/ b.text # << >>)

SameContent(heard, meant) ==
    IF ingress = "openai" THEN Merged(heard) = Merged(meant)
    ELSE /\ Visible(heard) = Visible(meant)
         /\ up.stop # None => EachOf(heard, Unpack) = meant

Ended == up.phase = "done"
Complete == Ended /\ up.stop # None
MeantByClient == Restored(Meant(RestoreInline))
-----------------------------------------------------------------------------
\* Legal streams.  Before(s, n, P) is about the frames before the nth.
Before(s, n, P(_)) == \E m \in 1 .. n - 1 : P(s[m])
Is(f, event, index) == f.event = event /\ f.index = index
OpenAt(s, n, index, start, stop) ==
    Before(s, n, LAMBDA f : Is(f, start, index)) /\ ~Before(s, n, LAMBDA f : Is(f, stop, index))

AnthropicIsLegal(s) ==
    LET open(n, index) == OpenAt(s, n, index, "content_block_start", "content_block_stop")
        fits(n, f) == Before(s, n, LAMBDA g :
            /\ Is(g, "content_block_start", f.index)
            /\ <<g.block, f.kind>> \in {<<"text", "text">>, <<"tool", "args">>,
                                       <<"thinking", "reasoning">>, <<"thinking", "signature">>})
    IN  \A n \in DOMAIN s : LET f == s[n] IN
            /\ f.event = "message_start" <=> n = 1
            /\ f.event = "content_block_start" =>
                  ~Before(s, n, LAMBDA g : Is(g, "content_block_start", f.index))
            /\ f.event = "content_block_delta" => open(n, f.index) /\ fits(n, f)
            /\ f.event = "content_block_delta" /\ f.kind = "signature" =>
                  s[n + 1] = ContentBlockStop(f.index)
            /\ f.event = "content_block_stop" => open(n, f.index)
            /\ f.event = "message_delta" =>
                  \A m \in 1 .. n : s[m].event = "content_block_start" => ~open(n, s[m].index)
            /\ f.event = "message_stop" =>
                  n = Len(s) /\ Before(s, n, LAMBDA g : g.event = "message_delta")

ResponsesAreLegal(s) ==
    LET open(n, index) == OpenAt(s, n, index, "item_added", "item_done")
        inside == {"part_added", "part_done", "delta", "delta_done", "item_done"}
        fits(n, f) == Before(s, n, LAMBDA g :
            /\ Is(g, "item_added", f.index)
            /\ <<g.kind, f.kind>> \in {<<"message", "text">>, <<"tool", "args">>,
                                      <<"thinking", "reasoning">>})
    IN  \A n \in DOMAIN s : LET f == s[n] IN
            /\ f.event = "created" <=> n = 1
            /\ f.event = "item_added" => ~Before(s, n, LAMBDA g : Is(g, "item_added", f.index))
            /\ f.event \in inside => open(n, f.index)
            /\ f.event \in {"delta", "delta_done"} => fits(n, f)
            /\ f.event = "delta" =>
                  /\ ~Before(s, n, LAMBDA g : Is(g, "delta_done", f.index))
                  /\ f.kind = "text" => Before(s, n, LAMBDA g : Is(g, "part_added", f.index))
            /\ f.event \in {"completed", "incomplete"} =>
                  n = Len(s) /\ \A m \in 1 .. n : s[m].event = "item_added" => ~open(n, s[m].index)

OpenAiIsLegal(s) ==
    LET says(f) == f.event = "chunk" /\ (f.reasoning \o f.content # << >> \/ f.tools # << >>)
        finishes(f) == f.event = "chunk" /\ f.finish # None
    IN  \A n \in DOMAIN s : LET f == s[n] IN
            /\ f.event = "done" <=> n = Len(s)
            /\ f.event = "chunk" => (f.role <=> n = 1)
            /\ says(f) \/ finishes(f) => ~Before(s, n, finishes)
            /\ f.event = "chunk" => \A c \in Range(f.tools) : c.name = << >> =>
                  Before(s, n, LAMBDA g : g.event = "chunk" /\ \E d \in Range(g.tools) :
                                              d.index = c.index /\ d.name # << >>)

IsLegal(p, s) == CASE p = "openai" -> OpenAiIsLegal(s)
                   [] p = "anthropic" -> AnthropicIsLegal(s)
                   [] p = "responses" -> ResponsesAreLegal(s)

\* Whatever the upstream does and wherever it stops, the client gets a stream
\* of its own protocol: what starts is paired, what stops is over.
ClientStreamIsLegal == Ended => IsLegal(ingress, sent)

\* FWD-3 and RED-7 for streams: a client that reads its stream to the end has
\* the texts, reasoning and calls the upstream said, restored, and its hidden
\* parts in a form that comes back as it was when the client sends it back.
ClientHearsTheAnswer == Ended => SameContent(Heard(ingress, sent).content, MeantByClient)

\* The record, written from the upstream's frames as they come, shows at any
\* time the blocks said so far, as the model said them.
RecordShowsWhatIsSaid ==
    /\ Snapshot(scan).content = Meant(LAMBDA name : name)
    /\ Snapshot(scan).usage = up.usage /\ Snapshot(scan).present = up.present

\* The frames of a Responses stream that repeat what was streamed say the same:
\* the done frames of an item, and the last frame, which lists all items.
DoneFramesRepeatTheDeltas ==
    LET streamed(n, index) ==
            FlattenSeq(EachOf(SelectSeq(SubSeq(sent, 1, n), LAMBDA f : Is(f, "delta", index)),
                              LAMBDA f : f.text))
        dones == EachOf(SelectSeq(sent, LAMBDA f : f.event = "item_done"), LAMBDA f : f.item)
    IN  Ended /\ ingress = "responses" => \A n \in DOMAIN sent : LET f == sent[n] IN
            /\ f.event = "delta_done" => f.text = streamed(n, f.index)
            /\ f.event = "item_done" =>
                  /\ f.item.text = streamed(n, f.index)
                  /\ Before(sent, n, LAMBDA g : g = ItemAdded(f.index, f.item.kind, f.item.name))
            /\ f.event \in {"completed", "incomplete"} =>
                  \A item \in Range(f.output) \cup Range(dones) :
                      item \in Range(f.output) /\ item \in Range(dones)

\* FWD-3: the usage total and the stop reason that the end of a stream tells
\* reach the client, wherever its protocol wants them.  Two exceptions: the
\* input that an Anthropic upstream tells only at the start is lost to a
\* Responses client; for stop reasons see StopReasonReachesTheClient.
EndReachesTheClient ==
    Complete => /\ up.usage.output > 0 => Heard(ingress, sent).usage = up.usage
                /\ ~(ingress = "anthropic" /\ up.late) => Heard(ingress, sent).stop = up.stop

\* FWD-3: the stop reason is kept.  Refuted where the usage comes late: the
\* frame that brings it to an Anthropic client says "end_turn".
StopReasonReachesTheClient == Complete => Heard(ingress, sent).stop = up.stop

\* known-limitations.md: blocks the reader does not know are dropped.  Refuted
\* for those whose deltas are of a kind it knows.
EveryDeltaHasItsStart ==
    ingress = "anthropic" => \A n \in DOMAIN sent : sent[n].event = "content_block_delta" =>
        Before(sent, n, LAMBDA f : Is(f, "content_block_start", sent[n].index))

\* An answer that comes whole is played as a stream that says the same.
Response == [content |-> MeantByClient, stop |-> up.stop, usage |-> up.usage, present |-> up.present]
SaysTheSame(heard, resp) ==
    /\ SameContent(heard.content, resp.content)
    /\ heard.stop = resp.stop /\ heard.usage = resp.usage
PlaysTheSame(frames, resp) ==
    IsLegal(ingress, frames) /\ SaysTheSame(Heard(ingress, frames), resp)
SynthesizedStreamSaysTheSame ==
    Complete => PlaysTheSame(SynthesizeSse(ingress, Response), Response)
=============================================================================
