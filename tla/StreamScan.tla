----------------------------- MODULE StreamScan -----------------------------
(***************************************************************************)
(* Streams and whole answers.  StreamScan (scan.rs) folds the frames of a  *)
(* stream into the answer that the record shows; synthesize_sse (synth.rs) *)
(* plays a whole answer as a stream; thinking.rs unpacks the envelopes of  *)
(* what a client sends back.  An answer is a sequence of blocks.           *)
(***************************************************************************)
EXTENDS StreamCodecs

Block(kind, name, text, opaque) ==
    [kind |-> kind, name |-> name, text |-> text, opaque |-> opaque]

ScanBlock == [meta |-> None, name |-> << >>, text |-> << >>, args |-> << >>,
              reasoning |-> << >>, signature |-> << >>, opaque |-> << >>]
NewScan(p) == [decode |-> Decode0(p), blocks |-> Empty, order |-> << >>,
               usage |-> NoUsage, seen |-> FALSE, stop |-> None]

At(scan, index) == IF index \in DOMAIN scan.blocks THEN scan.blocks[index] ELSE ScanBlock

\* Faulty variant: a usage without a number washes away the one before.
LastNumber(old, new) == new

\* What a number of the last usage does to the one known.
KnownNumber(old, new) == IF new > 0 THEN new ELSE old

\* apply_event.  A block enters the order when it starts, and only once.
ApplyEvent(scan, ev) ==
    CASE ev.type = "message_start" /\ ev.present ->
            [scan EXCEPT !.usage.input = ev.usage.input, !.seen = TRUE]
      [] ev.type = "block_start" ->
            [scan EXCEPT !.order = IF ev.index \in DOMAIN scan.blocks THEN @ ELSE Append(@, ev.index),
                         !.blocks = Put(@, ev.index,
                             [At(scan, ev.index) EXCEPT !.meta = ev.meta, !.name = ev.name])]
      [] ev.type = "block_delta" ->
            [scan EXCEPT !.blocks = Put(@, ev.index,
                [At(scan, ev.index) EXCEPT ![ev.kind] = @ \o ev.text])]
      [] ev.type = "message_delta" ->
            [scan EXCEPT !.stop = IF ev.stop = None THEN @ ELSE ev.stop,
                         !.seen = @ \/ ev.present,
                         !.usage.output = KnownNumber(@, ev.usage.output),
                         !.usage.input = KnownNumber(@, ev.usage.input)]
      [] OTHER -> scan

\* feed, for one frame and for several.
ApplyEvents(scan, read) ==
    LET after[n \in 0 .. Len(read.events)] ==
            IF n = 0 THEN [scan EXCEPT !.decode = read.state]
            ELSE ApplyEvent(after[n - 1], read.events[n])
    IN  after[Len(read.events)]
ScanFrame(p, scan, f) == ApplyEvents(scan, ReadResponseEvents(p, f, scan.decode))

ScanFrames(p, scan, frames) ==
    LET after[n \in 0 .. Len(frames)] ==
            IF n = 0 THEN scan ELSE ScanFrame(p, after[n - 1], frames[n])
    IN  after[Len(frames)]

\* fold_scan_block: none or one block.
FoldScanBlock(b) ==
    LET hidden == IF b.signature # << >> THEN b.signature ELSE b.opaque
    IN  CASE b.meta = "tool" -> <<Block("tool", b.name, b.args, << >>)>>
          [] b.meta \in {"reasoning", "thinking"} ->
                IF b.reasoning = << >> /\ hidden = << >> THEN << >>
                ELSE <<Block("reasoning", << >>, b.reasoning, hidden)>>
          [] b.meta = "redacted" ->
                IF b.name = << >> THEN << >> ELSE <<Block("reasoning", << >>, << >>, b.name)>>
          [] b.meta \in {"text", None} ->
                IF b.text = << >> /\ b.args = << >> THEN << >>
                ELSE <<Block("text", << >>, b.text, << >>)>>

\* snapshot
Snapshot(scan) ==
    [content |-> FlattenSeq(EachOf(scan.order, LAMBDA i : FoldScanBlock(scan.blocks[i]))),
     stop |-> scan.stop, usage |-> scan.usage, present |-> scan.seen]

\* What a reader of the protocol makes of a whole stream.  The last frame of
\* OpenAI's is [DONE], which is no chunk.
Heard(p, frames) ==
    Snapshot(ScanFrames(p, NewScan(p), IF p = "openai" THEN Front(frames) ELSE frames))
-----------------------------------------------------------------------------
\* response_to_events for one block; its opaque decides where it came from.
BlockEvents(index, b) ==
    LET form == IF b.opaque = << >> THEN None ELSE b.opaque[1].form
        delta(kind, text) == IF text = << >> THEN << >> ELSE <<BlockDelta(index, kind, text)>>
        play(meta, deltas) ==
            <<BlockStart(index, meta, IF meta = "redacted" THEN b.opaque ELSE b.name)>>
               \o deltas \o <<BlockStop(index)>>
    IN  CASE b.kind = "text" -> play("text", <<BlockDelta(index, "text", b.text)>>)
          [] b.kind = "tool" -> play("tool", <<BlockDelta(index, "args", b.text)>>)
          [] b.kind = "reasoning" /\ form = None ->
                play("reasoning", <<BlockDelta(index, "reasoning", b.text)>>)
          [] b.kind = "reasoning" /\ form = "redacted" -> play("redacted", << >>)
          [] b.kind = "reasoning" /\ form = "encrypted" ->
                play("thinking", delta("reasoning", b.text) \o delta("opaque", b.opaque))
          [] b.kind = "reasoning" /\ form = "signature" ->
                play("thinking", <<BlockDelta(index, "reasoning", b.text),
                                   BlockDelta(index, "signature", b.opaque)>>)

ResponseToEvents(resp) ==
    <<MessageStart(resp.usage, resp.present \/ ~IsZero(resp.usage))>>
      \o FlattenSeq([i \in DOMAIN resp.content |-> BlockEvents(i - 1, resp.content[i])])
      \o <<MessageDelta(resp.stop, resp.usage, resp.present), MessageStop>>

\* A block whose start the writer skipped is not stopped either.
StopOfSkipped(ev, skipped) == ev.type = "block_stop" /\ ev.index \in skipped

\* synthesize_sse: like the translator, it asks the writer twice for a start.
Play(w, written) == [w EXCEPT !.encode = written.state, !.out = @ \o written.frames]
PlayStart(p, w, ev, probe) ==
    IF probe.frames = << >>
    THEN [w EXCEPT !.encode = probe.state, !.skipped = @ \cup {ev.index}]
    ELSE Play(w, WriteResponseEvent(p, ev, probe.state))
PlayEvent(p, w, ev) ==
    IF ev.type = "block_start" THEN PlayStart(p, w, ev, WriteResponseEvent(p, ev, w.encode))
    ELSE IF StopOfSkipped(ev, w.skipped) THEN w
    ELSE Play(w, WriteResponseEvent(p, ev, w.encode))
PlayAll(p, events) ==
    LET after[n \in 0 .. Len(events)] ==
            IF n = 0 THEN [encode |-> Encode0(p), skipped |-> {}, out |-> << >>]
            ELSE PlayEvent(p, after[n - 1], events[n])
    IN  after[Len(events)].out

SynthesizeSse(p, resp) ==
    PlayAll(p, ResponseToEvents(resp)) \o (IF p = "openai" THEN <<Done>> ELSE << >>)
-----------------------------------------------------------------------------
\* unpack: what the provider reads of a thinking block that a client sends
\* back.  A packed block comes back whole, a genuine opaque with its text.
Unpack(b) ==
    IF b.opaque # << >> /\ b.opaque[1].form \in {"r", "rc"}
    THEN Block("reasoning", << >>, b.opaque[1].text, b.opaque[1].opaque)
    ELSE b
=============================================================================
