---------------------------- MODULE StreamCodecs ----------------------------
(***************************************************************************)
(* Readers and writers of the streaming wire formats: frames of a protocol *)
(* to IR events (read_response_events) and back (write_response_event).    *)
(* A frame is a record with its event name; texts are sequences of tokens; *)
(* ids, models and time stamps are left out.  A reader or writer returns   *)
(* what it produced together with its next state.                          *)
(***************************************************************************)
EXTENDS Naturals, Sequences, SequencesExt, FiniteSets

Protocols == {"openai", "anthropic", "responses"}
StopReasons == {"end_turn", "tool_use", "max_tokens"}
None == "none"

\* IrUsage: uncached input and output tokens.
NoUsage == [input |-> 0, output |-> 0]
IsZero(usage) == usage = NoUsage

\* IrStreamEvent.  `present` tells whether the wire carried a usage object.
MessageStart(usage, present) == [type |-> "message_start", usage |-> usage, present |-> present]
BlockStart(index, meta, name) ==
    [type |-> "block_start", index |-> index, meta |-> meta, name |-> name]
BlockDelta(index, kind, text) ==
    [type |-> "block_delta", index |-> index, kind |-> kind, text |-> text]
BlockStop(index) == [type |-> "block_stop", index |-> index]
MessageDelta(stop, usage, present) ==
    [type |-> "message_delta", stop |-> stop, usage |-> usage, present |-> present]
MessageStop == [type |-> "message_stop"]
ErrorEvent(text) == [type |-> "error", text |-> text]

\* Metas "text", "tool", "reasoning" (OpenAI), "thinking" (Anthropic, Responses)
\* and "redacted"; deltas "text", "args", "reasoning", "signature", "opaque".
Put(f, k, v) == [j \in DOMAIN f \cup {k} |-> IF j = k THEN v ELSE f[j]]
Drop(f, k) == [j \in DOMAIN f \ {k} |-> f[j]]
Empty == [k \in {} |-> k]

\* SetToSortSeq, stated so that it can be reasoned about: TLC's SortSeq, which
\* that operator takes, has no definition in TLA+.
InOrder(S, less(_, _)) ==
    CHOOSE s \in [1 .. Cardinality(S) -> S] :
        \A i, j \in DOMAIN s : i < j => less(s[i], s[j])
Ascending(S) == InOrder(S, LAMBDA a, b : a < b)
EachOf(s, op(_)) == [i \in DOMAIN s |-> op(s[i])]
Read(events, state) == [events |-> events, state |-> state]
Written(frames, state) == [frames |-> frames, state |-> state]
-----------------------------------------------------------------------------
\* OpenAI.  A chunk may carry reasoning, content, tool calls and an end at once.

Chunk == [event |-> "chunk", role |-> FALSE, choices |-> TRUE, reasoning |-> << >>,
          content |-> << >>, tools |-> << >>, finish |-> None, usage |-> NoUsage,
          present |-> FALSE, error |-> << >>]
ToolCall(index, name, args) == [index |-> index, name |-> name, args |-> args]
Done == [event |-> "done"]

Closed == [open |-> FALSE, index |-> 0]
OpenAiDecode == [started |-> FALSE, text |-> Closed, reasoning |-> Closed, tools |-> Empty]

\* Faulty variant: only the open blocks count.
NextBlockAfterOpenTools(s) == 1 + Cardinality(DOMAIN s.tools)

\* next_free_block_index: one more than the greatest index in use; the index
\* of a text outlives its block.
NextFreeBlockIndex(s) ==
    LET used == {0, s.text.index, s.reasoning.index} \cup {s.tools[t] : t \in DOMAIN s.tools}
    IN  1 + (CHOOSE n \in used : \A m \in used : m <= n)

\* A piece of text or of reasoning; the first one opens the block.
OpenAiText(r, field, meta, text) ==
    LET s == r.state
        index == IF s[field].open THEN s[field].index ELSE NextFreeBlockIndex(s)
        start == IF s[field].open THEN << >> ELSE <<BlockStart(index, meta, << >>)>>
    IN  IF text = << >> THEN r
        ELSE Read(r.events \o start \o <<BlockDelta(index, field, text)>>,
                  [s EXCEPT ![field] = [open |-> TRUE, index |-> index]])

\* process_tool_call_delta: a call begins with its name; arguments without one
\* are lost.
ProcessToolCallDelta(r, call) ==
    LET s == r.state
        begins == call.index \notin DOMAIN s.tools /\ call.name # << >>
        tools == IF begins THEN Put(s.tools, call.index, NextFreeBlockIndex(s)) ELSE s.tools
        start == IF begins
                 THEN <<BlockStart(tools[call.index], "tool", call.name)>> ELSE << >>
        args == IF call.args # << >> /\ call.index \in DOMAIN tools
                THEN <<BlockDelta(tools[call.index], "args", call.args)>> ELSE << >>
    IN  Read(r.events \o start \o args, [s EXCEPT !.tools = tools])

\* close_open_blocks: reasoning, text, then the calls by their wire index.
CloseOpenBlocks(r) ==
    LET s == r.state
        opened(b) == IF b.open THEN <<b.index>> ELSE << >>
        indices == opened(s.reasoning) \o opened(s.text)
                     \o EachOf(Ascending(DOMAIN s.tools), LAMBDA t : s.tools[t])
    IN  Read(r.events \o EachOf(indices, BlockStop),
             [s EXCEPT !.text.open = FALSE, !.reasoning.open = FALSE, !.tools = Empty])

\* read_openai_stream_chunk.  An inline error is not recognised.
ReadOpenAi(f, state) ==
    LET started == Read(IF state.started THEN << >> ELSE <<MessageStart(NoUsage, FALSE)>>,
                        [state EXCEPT !.started = TRUE])
        pieces == FoldLeft(ProcessToolCallDelta,
                      OpenAiText(OpenAiText(started, "reasoning", "reasoning", f.reasoning),
                                 "text", "text", f.content),
                      f.tools)
        closed == CloseOpenBlocks(pieces)
        usage == IF f.present THEN <<MessageDelta(None, f.usage, TRUE)>> ELSE << >>
    IN  IF ~f.choices THEN Read(started.events \o usage, started.state)
        ELSE IF f.finish = None THEN Read(pieces.events \o usage, pieces.state)
        ELSE Read(closed.events \o <<MessageDelta(f.finish, f.usage, f.present), MessageStop>>,
                  closed.state)

\* write_response_event of OpenAiWriter: blocks begin and end implicitly, but
\* for calls; the call's wire index is the block's.
WriteOpenAi(ev) ==
    CASE ev.type = "message_start" -> <<[Chunk EXCEPT !.role = TRUE]>>
      [] ev.type = "block_start" /\ ev.meta = "tool" ->
            <<[Chunk EXCEPT !.tools = <<ToolCall(ev.index, ev.name, << >>)>>]>>
      [] ev.type = "block_delta" /\ ev.kind = "text" -> <<[Chunk EXCEPT !.content = ev.text]>>
      [] ev.type = "block_delta" /\ ev.kind = "reasoning" ->
            <<[Chunk EXCEPT !.reasoning = ev.text]>>
      [] ev.type = "block_delta" /\ ev.kind = "args" ->
            <<[Chunk EXCEPT !.tools = <<ToolCall(ev.index, << >>, ev.text)>>]>>
      [] ev.type = "message_delta" /\ (ev.stop # None \/ ~IsZero(ev.usage)) ->
            <<[Chunk EXCEPT !.choices = (ev.stop # None), !.finish = ev.stop,
                            !.usage = ev.usage, !.present = ~IsZero(ev.usage)]>>
      [] ev.type = "error" -> <<[Chunk EXCEPT !.choices = FALSE, !.error = ev.text]>>
      [] OTHER -> << >>
-----------------------------------------------------------------------------
\* Anthropic.  Frames and events correspond one to one, but for the blocks the
\* reader does not know and for the signatures the writer keeps to the end.

AnthropicStart(usage) == [event |-> "message_start", usage |-> usage]
ContentBlockStart(index, block, name) ==
    [event |-> "content_block_start", index |-> index, block |-> block, name |-> name]
ContentBlockDelta(index, kind, text) ==
    [event |-> "content_block_delta", index |-> index, kind |-> kind, text |-> text]
ContentBlockStop(index) == [event |-> "content_block_stop", index |-> index]
AnthropicDelta(stop, usage, present) ==
    [event |-> "message_delta", stop |-> stop, usage |-> usage, present |-> present]
AnthropicStop == [event |-> "message_stop"]
AnthropicError(text) == [event |-> "error", text |-> text]

KnownBlocks == {"text", "tool", "thinking", "redacted"}

AnthropicDecode == [dropped |-> {}]

ReadAnthropic(f, state) ==
    CASE f.event = "message_start" -> Read(<<MessageStart(f.usage, TRUE)>>, state)
      [] f.event = "content_block_start" /\ f.block \in KnownBlocks ->
            Read(<<BlockStart(f.index, f.block, f.name)>>, state)
      [] f.event = "content_block_start" /\ f.block \notin KnownBlocks ->
            Read(<< >>, [state EXCEPT !.dropped = @ \cup {f.index}])
      [] f.event = "content_block_delta" ->
            Read(IF f.kind = "other" THEN << >> ELSE <<BlockDelta(f.index, f.kind, f.text)>>, state)
      [] f.event = "content_block_stop" ->
            IF f.index \in state.dropped
            THEN Read(<< >>, [state EXCEPT !.dropped = @ \ {f.index}])
            ELSE Read(<<BlockStop(f.index)>>, state)
      [] f.event = "message_delta" ->
            Read(<<MessageDelta(f.stop, IF f.present THEN f.usage ELSE NoUsage, f.present)>>, state)
      [] f.event = "message_stop" -> Read(<<MessageStop>>, state)
      [] f.event = "error" -> Read(<<ErrorEvent(f.text)>>, state)

\* A thinking block under way.  What closes it is a signature of its own, or
\* an envelope (thinking.rs) that holds its text and what another provider
\* wants to see again.
AnthropicEncode == [thinking |-> Empty]
NewThinking == [redacted |-> FALSE, rc |-> FALSE, text |-> << >>,
                opaque |-> << >>, signature |-> << >>]
Envelope(form, text, opaque) == [form |-> form, text |-> text, opaque |-> opaque]

\* Faulty variant: an empty block is packed like any other.
SignatureAlways(acc) ==
    IF acc.signature # << >> THEN acc.signature
    ELSE <<Envelope(IF acc.rc THEN "rc" ELSE "r", acc.text, acc.opaque)>>

\* The signature of a block that stops, none for redacted or empty ones.
SignatureOf(acc) ==
    IF acc.redacted THEN << >>
    ELSE IF acc.signature # << >> THEN acc.signature
    ELSE IF acc.text = << >> /\ acc.opaque = << >> THEN << >>
    ELSE <<Envelope(IF acc.rc THEN "rc" ELSE "r", acc.text, acc.opaque)>>

\* write_stop_reason: without a reason, "end_turn" is written.
WriteAnthropicStop(stop) == IF stop = None THEN "end_turn" ELSE stop

WriteAnthropic(ev, state) ==
    LET known == ev.type \in {"block_start", "block_delta", "block_stop"}
                   /\ ev.index \in DOMAIN state.thinking
        acc == IF known THEN state.thinking[ev.index] ELSE NewThinking
        keep(a) == [state EXCEPT !.thinking = Put(@, ev.index, a)]
        delta == <<ContentBlockDelta(ev.index, ev.kind, ev.text)>>
    IN  CASE ev.type = "message_start" -> Written(<<AnthropicStart(ev.usage)>>, state)
          [] ev.type = "block_start" /\ ev.meta \in {"text", "tool"} ->
                Written(<<ContentBlockStart(ev.index, ev.meta, ev.name)>>, state)
          [] ev.type = "block_start" /\ ev.meta \in {"thinking", "reasoning"} ->
                Written(<<ContentBlockStart(ev.index, "thinking", << >>)>>,
                        keep([acc EXCEPT !.rc = @ \/ ev.meta = "reasoning"]))
          [] ev.type = "block_start" /\ ev.meta = "redacted" ->
                Written(<<ContentBlockStart(ev.index, "redacted", ev.name)>>,
                        keep([acc EXCEPT !.redacted = TRUE]))
          [] ev.type = "block_delta" /\ ev.kind \in {"text", "args"} -> Written(delta, state)
          [] ev.type = "block_delta" /\ ev.kind \notin {"text", "args"} /\ ~known ->
                Written(<< >>, state)
          [] ev.type = "block_delta" /\ ev.kind = "reasoning" /\ known ->
                Written(delta, keep([acc EXCEPT !.text = @ \o ev.text]))
          [] ev.type = "block_delta" /\ ev.kind = "signature" /\ known ->
                Written(<< >>, keep([acc EXCEPT !.signature = @ \o ev.text]))
          [] ev.type = "block_delta" /\ ev.kind = "opaque" /\ known ->
                Written(<< >>, keep([acc EXCEPT !.opaque = ev.text]))
          [] ev.type = "block_stop" ->
                Written((IF known /\ SignatureOf(acc) # << >>
                         THEN <<ContentBlockDelta(ev.index, "signature", SignatureOf(acc))>>
                         ELSE << >>) \o <<ContentBlockStop(ev.index)>>,
                        [state EXCEPT !.thinking = Drop(@, ev.index)])
          [] ev.type = "message_delta" ->
                Written(<<AnthropicDelta(WriteAnthropicStop(ev.stop), ev.usage, TRUE)>>, state)
          [] ev.type = "message_stop" -> Written(<<AnthropicStop>>, state)
          [] ev.type = "error" -> Written(<<AnthropicError(ev.text)>>, state)
-----------------------------------------------------------------------------
\* Responses.  An answer is a list of items; a message has parts.  Done frames
\* repeat what the deltas said, the last frame repeats all items.

Created == [event |-> "created"]
ItemAdded(index, kind, name) ==
    [event |-> "item_added", index |-> index, kind |-> kind, name |-> name]
PartAdded(index, part, kind) ==
    [event |-> "part_added", index |-> index, part |-> part, kind |-> kind]
PartDone(index, part, text) ==
    [event |-> "part_done", index |-> index, part |-> part, text |-> text]
ItemDelta(index, part, kind, text) ==
    [event |-> "delta", index |-> index, part |-> part, kind |-> kind, text |-> text]
DeltaDone(index, kind, text) ==
    [event |-> "delta_done", index |-> index, kind |-> kind, text |-> text]
ItemDone(index, item) == [event |-> "item_done", index |-> index, item |-> item]
Item(kind, name, text, encrypted) ==
    [kind |-> kind, name |-> name, text |-> text, encrypted |-> encrypted]
Finished(event, output, usage, present) ==
    [event |-> event, output |-> output, usage |-> usage, present |-> present]
BareError(text) == [event |-> "error", text |-> text]
Failed(text) == [event |-> "failed", text |-> text]

ResponsesDecode == [started |-> FALSE, items |-> Empty, parts |-> Empty,
                    next |-> 0, sawFunctionCall |-> FALSE]
StreamItem(kind, index) == [kind |-> kind, index |-> index, argsSeen |-> FALSE]

\* stream_item_added: calls and reasoning open a block; a message waits for
\* its parts; an item of another kind is dropped.
StreamItemAdded(f, s) ==
    LET opens == f.kind \in {"tool", "thinking"}
    IN  IF f.index \in DOMAIN s.items THEN Read(<< >>, s)
        ELSE Read(IF opens THEN <<BlockStart(s.next, f.kind, f.name)>> ELSE << >>,
                  [s EXCEPT !.items = Put(@, f.index, StreamItem(f.kind, s.next)),
                            !.next = IF opens THEN @ + 1 ELSE @,
                            !.sawFunctionCall = @ \/ f.kind = "tool"])

\* stream_part_added: a text part of a message opens a block.
StreamPartAdded(f, s) ==
    LET key == <<f.index, f.part>>
    IN  IF f.index \in DOMAIN s.items /\ f.kind = "text" /\ key \notin DOMAIN s.parts
           /\ s.items[f.index].kind = "message"
        THEN Read(<<BlockStart(s.next, "text", << >>)>>,
                  [s EXCEPT !.parts = Put(@, key, s.next), !.next = @ + 1])
        ELSE Read(<< >>, s)

StreamPartDone(f, s) ==
    LET key == <<f.index, f.part>>
    IN  IF key \in DOMAIN s.parts
        THEN Read(<<BlockStop(s.parts[key])>>, [s EXCEPT !.parts = Drop(@, key)])
        ELSE Read(<< >>, s)

\* stream_text_delta, stream_args_delta, stream_reasoning_delta.
StreamDelta(f, s) ==
    LET key == <<f.index, f.part>>
        wanted == [text |-> "message", args |-> "tool", reasoning |-> "thinking"]
    IN  IF f.text = << >> \/ f.kind \notin DOMAIN wanted THEN Read(<< >>, s)
        ELSE IF f.kind = "text" /\ key \in DOMAIN s.parts
        THEN Read(<<BlockDelta(s.parts[key], "text", f.text)>>, s)
        ELSE IF f.kind # "text" /\ f.index \in DOMAIN s.items
                /\ s.items[f.index].kind = wanted[f.kind]
        THEN Read(<<BlockDelta(s.items[f.index].index, f.kind, f.text)>>,
                  [s EXCEPT !.items[f.index].argsSeen = @ \/ f.kind = "args"])
        ELSE Read(<< >>, s)

\* The arguments that were never streamed.
MissingArguments(it, item) == IF it.argsSeen THEN << >> ELSE item.text

\* stream_item_done: a call that streamed no arguments has them here; a
\* reasoning item may bring its encrypted content; parts still open close.
StreamItemDone(f, s) ==
    LET it == s.items[f.index]
        rest == [s EXCEPT !.items = Drop(@, f.index)]
        stale == {k \in DOMAIN s.parts : k[1] = f.index}
        stops == EachOf(InOrder(stale, LAMBDA a, b : a[2] < b[2]),
                        LAMBDA k : BlockStop(s.parts[k]))
        late(kind, text) == IF text = << >> THEN << >> ELSE <<BlockDelta(it.index, kind, text)>>
    IN  IF f.index \notin DOMAIN s.items THEN Read(<< >>, s)
        ELSE CASE it.kind = "tool" ->
                    Read(late("args", MissingArguments(it, f.item)) \o <<BlockStop(it.index)>>, rest)
               [] it.kind = "thinking" ->
                    Read(late("opaque", f.item.encrypted) \o <<BlockStop(it.index)>>, rest)
               [] it.kind = "message" ->
                    Read(stops, [rest EXCEPT !.parts = [k \in DOMAIN @ \ stale |-> @[k]]])
               [] OTHER -> Read(<< >>, rest)

\* stream_finished: a complete answer that called tools waits for their results.
StreamFinished(f, stop) == <<MessageDelta(stop, f.usage, f.present), MessageStop>>

ReadResponses(f, s) ==
    CASE f.event = "created" ->
            Read(IF s.started THEN << >> ELSE <<MessageStart(NoUsage, FALSE)>>,
                 [s EXCEPT !.started = TRUE])
      [] f.event = "item_added" -> StreamItemAdded(f, s)
      [] f.event = "part_added" -> StreamPartAdded(f, s)
      [] f.event = "part_done" -> StreamPartDone(f, s)
      [] f.event = "delta" -> StreamDelta(f, s)
      [] f.event = "item_done" -> StreamItemDone(f, s)
      [] f.event = "completed" ->
            Read(StreamFinished(f, IF s.sawFunctionCall THEN "tool_use" ELSE "end_turn"), s)
      [] f.event = "incomplete" -> Read(StreamFinished(f, "max_tokens"), s)
      [] f.event \in {"failed", "error"} -> Read(<<ErrorEvent(f.text)>>, s)
      [] OTHER -> Read(<< >>, s)

ResponsesEncode == [items |-> Empty, stop |-> None, usage |-> NoUsage, present |-> FALSE]
Accum(kind, name) == [kind |-> kind, name |-> name, text |-> << >>,
                      verbatim |-> << >>, foreign |-> << >>]

\* stream_write_block_start: asked twice by the translator, so what is known
\* is not registered again.
StreamWriteBlockStart(ev, s) ==
    LET kind == [text |-> "message", tool |-> "tool", thinking |-> "thinking",
                 reasoning |-> "thinking", redacted |-> "thinking"][ev.meta]
        fresh == [Accum(kind, IF kind = "tool" THEN ev.name ELSE << >>) EXCEPT
                     !.foreign = IF ev.meta = "redacted"
                                 THEN <<Envelope("redacted", << >>, << >>)>> ELSE << >>]
        items == IF ev.index \in DOMAIN s.items THEN s.items ELSE Put(s.items, ev.index, fresh)
        acc == items[ev.index]
    IN  Written(<<ItemAdded(ev.index, acc.kind, acc.name)>>
                  \o (IF acc.kind = "message" THEN <<PartAdded(ev.index, 0, "text")>> ELSE << >>),
                [s EXCEPT !.items = items])

\* stream_write_block_delta: deltas of a kind that does not fit are dropped;
\* opaque ones wait for the done frame, an encrypted content before a signature.
StreamWriteBlockDelta(ev, s) ==
    LET acc == s.items[ev.index]
        fits == ev.index \in DOMAIN s.items
                  /\ <<ev.kind, acc.kind>> \in
                        {<<"text", "message">>, <<"args", "tool">>, <<"reasoning", "thinking">>}
        hidden == ev.index \in DOMAIN s.items /\ acc.kind = "thinking"
        keep(a) == [s EXCEPT !.items[ev.index] = a]
    IN  IF fits
        THEN Written(<<ItemDelta(ev.index, 0, ev.kind, ev.text)>>,
                     keep([acc EXCEPT !.text = @ \o ev.text]))
        ELSE IF hidden /\ ev.kind = "opaque"
        THEN Written(<< >>, keep([acc EXCEPT !.verbatim = ev.text]))
        ELSE IF hidden /\ ev.kind = "signature" /\ acc.verbatim = << >>
        THEN Written(<< >>, keep([acc EXCEPT !.foreign =
                 IF @ = <<Envelope("redacted", << >>, << >>)>> THEN ev.text ELSE @ \o ev.text]))
        ELSE Written(<< >>, s)

\* completed_item_json: in the done frame of an item and in the last frame.
CompletedItem(acc) ==
    Item(acc.kind, acc.name, acc.text,
         IF acc.verbatim # << >> THEN acc.verbatim
         ELSE IF acc.foreign # << >> THEN <<Envelope("rc", acc.text, acc.foreign)>>
         ELSE << >>)

StreamWriteBlockStop(ev, s) ==
    LET acc == s.items[ev.index]
        kind == [message |-> "text", tool |-> "args", thinking |-> "reasoning"][acc.kind]
    IN  IF ev.index \notin DOMAIN s.items THEN << >>
        ELSE <<DeltaDone(ev.index, kind, acc.text)>>
               \o (IF acc.kind = "message" THEN <<PartDone(ev.index, 0, acc.text)>> ELSE << >>)
               \o <<ItemDone(ev.index, CompletedItem(acc))>>

\* A delta without usage does not wash away what is known.
CachedUsage(ev, s) ==
    IF ev.present \/ ~IsZero(ev.usage) THEN [usage |-> ev.usage, present |-> ev.present]
    ELSE [usage |-> s.usage, present |-> s.present]

\* stream_write_terminal_response, the event named by write_status_and_reason.
StreamWriteTerminal(s) ==
    <<Finished(IF s.stop = "max_tokens" THEN "incomplete" ELSE "completed",
               EachOf(Ascending(DOMAIN s.items), LAMBDA i : CompletedItem(s.items[i])),
               IF s.present THEN s.usage ELSE NoUsage, s.present)>>

WriteResponses(ev, s) ==
    CASE ev.type = "message_start" -> Written(<<Created>>, s)
      [] ev.type = "block_start" -> StreamWriteBlockStart(ev, s)
      [] ev.type = "block_delta" -> StreamWriteBlockDelta(ev, s)
      [] ev.type = "block_stop" -> Written(StreamWriteBlockStop(ev, s), s)
      [] ev.type = "message_delta" ->
            LET cached == CachedUsage(ev, s)
            IN  Written(<< >>, [s EXCEPT !.stop = IF ev.stop = None THEN @ ELSE ev.stop,
                                         !.usage = cached.usage, !.present = cached.present])
      [] ev.type = "message_stop" -> Written(StreamWriteTerminal(s), s)
      [] ev.type = "error" -> Written(<<BareError(ev.text), Failed(ev.text)>>, s)
-----------------------------------------------------------------------------
\* Protocol::reader, Protocol::writer and their initial states.
Decode0(p) == CASE p = "openai" -> OpenAiDecode
                [] p = "anthropic" -> AnthropicDecode
                [] p = "responses" -> ResponsesDecode
Encode0(p) == CASE p = "openai" -> Empty
                [] p = "anthropic" -> AnthropicEncode
                [] p = "responses" -> ResponsesEncode
ReadResponseEvents(p, f, state) == CASE p = "openai" -> ReadOpenAi(f, state)
                                     [] p = "anthropic" -> ReadAnthropic(f, state)
                                     [] p = "responses" -> ReadResponses(f, state)
WriteResponseEvent(p, ev, state) == CASE p = "openai" -> Written(WriteOpenAi(ev), state)
                                      [] p = "anthropic" -> WriteAnthropic(ev, state)
                                      [] p = "responses" -> WriteResponses(ev, state)
=============================================================================
