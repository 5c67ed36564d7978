------------------------- MODULE StreamRecord_proofs --------------------------
(* What the record of a stream shows (proxy/stream_scan.rs reads what the   *)
(* decoders of codec/*.rs make of the upstream's frames): the snapshot of   *)
(* the scan has the blocks of the answer with what was said in each, for    *)
(* every answer of every upstream protocol.  The invariant is RecordInv: as *)
(* long as the answer is open the decoder's state agrees with the answer so *)
(* far (Carries), and the scanned blocks are those of the answer (ShowsAll).*)
(* One lemma per action of the upstream carries it on.                      *)

EXTENDS StreamTranslate, DataLemmas

-----------------------------------------------------------------------------
(* StreamTranslate: what the scan of the record makes of frames.            *)

\* Two functions that take the same steps agree.
LEMMA SameSteps ==
    ASSUME NEW n \in Nat, NEW f, NEW g, f[0] = g[0],
           \A i \in 1 .. n : f[i - 1] = g[i - 1] => f[i] = g[i]
    PROVE  f[n] = g[n]
<1> DEFINE T == {k \in Nat : k <= n => f[k] = g[k]}
<1>1. 0 \in T
  OBVIOUS
<1>2. ASSUME NEW k \in Nat, k \in T PROVE k + 1 \in T
  <2> SUFFICES ASSUME k + 1 <= n PROVE f[k + 1] = g[k + 1]
    OBVIOUS
  <2>1. f[k] = g[k] /\ k + 1 \in 1 .. n /\ (k + 1) - 1 = k
    BY <1>2
  <2> QED
    BY <2>1
<1>3. n \in T
  <2> HIDE DEF T
  <2>1. Nat \subseteq T
    BY <1>1, <1>2, NatSetInduction
  <2> QED
    BY <2>1
<1> QED
  BY <1>3

\* h takes the scan through the events that were read.
Scans(h, old, read) ==
    /\ Len(read.events) \in Nat
    /\ h = [i \in 0 .. Len(read.events) |-> h[i]]
    /\ h[0] = [old EXCEPT !.decode = read.state]
    /\ \A i \in 1 .. Len(read.events) : h[i] = ApplyEvent(h[i - 1], read.events[i])

\* The fold over the events of a frame ends where such a function ends.
LEMMA ScansTo ==
    ASSUME NEW old, NEW read, NEW h, Scans(h, old, read)
    PROVE  ApplyEvents(old, read) = h[Len(read.events)]
<1> DEFINE n == Len(read.events)
           Value(f, i) == IF i = 0 THEN [old EXCEPT !.decode = read.state]
                          ELSE ApplyEvent(f[i - 1], read.events[i])
           Iterates(f) == f = [i \in 0 .. n |-> Value(f, i)]
<1>1. n \in Nat
  BY DEF Scans
<1>2. ApplyEvents(old, read) = (CHOOSE f : Iterates(f))[n]
  BY DEF ApplyEvents
<1>3. Iterates(h)
  <2>1. ASSUME NEW i \in 0 .. n PROVE h[i] = Value(h, i)
    <3>1. CASE i = 0
      BY <3>1 DEF Scans
    <3>2. CASE i # 0
      <4>1. i \in 1 .. n
        BY <1>1, <3>2
      <4> QED
        BY <3>2, <4>1 DEF Scans
    <3> QED
      BY <3>1, <3>2
  <2>2. h = [i \in 0 .. n |-> h[i]]
    BY DEF Scans
  <2> HIDE DEF Value, n
  <2> QED
    BY <2>1, <2>2
<1>4. PICK f : f = CHOOSE x : Iterates(x)
  OBVIOUS
<1>5. Iterates(f)
  <2> HIDE DEF Iterates
  <2> QED
    BY <1>3, <1>4
<1>6. \A i \in 0 .. n : f[i] = Value(f, i) /\ h[i] = Value(h, i)
  <2> HIDE DEF Value, n
  <2> QED
    BY <1>3, <1>5
<1>7. f[n] = h[n]
  <2>1. f[0] = h[0]
    BY <1>1, <1>6
  <2>2. ASSUME NEW i \in 1 .. n, f[i - 1] = h[i - 1] PROVE f[i] = h[i]
    <3>1. i \in 0 .. n /\ i # 0
      OBVIOUS
    <3>2. f[i] = ApplyEvent(f[i - 1], read.events[i]) /\ h[i] = ApplyEvent(h[i - 1], read.events[i])
      BY <1>6, <3>1
    <3> QED
      BY <2>2, <3>2
  <2> HIDE DEF n
  <2> QED
    BY <1>1, <2>1, <2>2, SameSteps
<1> QED
  BY <1>2, <1>4, <1>7

\* What is read without an event.
LEMMA NoEvent ==
    ASSUME NEW old, NEW state
    PROVE  ApplyEvents(old, Read(<< >>, state)) = [old EXCEPT !.decode = state]
<1> DEFINE read == Read(<< >>, state)
           h == [i \in 0 .. 0 |-> [old EXCEPT !.decode = state]]
<1>1. read.events = << >> /\ read.state = state /\ Len(read.events) = 0
  BY DEF Read
<1> HIDE DEF read
<1>2. h[0] = [old EXCEPT !.decode = state] /\ h = [i \in 0 .. 0 |-> h[i]]
  OBVIOUS
<1> HIDE DEF h
<1>3. Scans(h, old, read)
  BY <1>1, <1>2 DEF Scans
<1>4. ApplyEvents(old, read) = h[Len(read.events)]
  BY <1>3, ScansTo
<1> QED
  BY <1>1, <1>2, <1>4 DEF read

\* A frame of one event.
LEMMA OneEvent ==
    ASSUME NEW old, NEW a, NEW state
    PROVE  ApplyEvents(old, Read(<<a>>, state)) = ApplyEvent([old EXCEPT !.decode = state], a)
<1> DEFINE read == Read(<<a>>, state)
           s == [old EXCEPT !.decode = state]
           h == [i \in 0 .. 1 |-> IF i = 0 THEN s ELSE ApplyEvent(s, a)]
<1>1. read.state = state /\ Len(read.events) = 1 /\ read.events[1] = a
  BY DEF Read
<1> HIDE DEF read
<1>2. h[0] = s /\ h[1] = ApplyEvent(s, a) /\ h = [i \in 0 .. 1 |-> h[i]]
  <2> HIDE DEF s
  <2> QED
    OBVIOUS
<1> HIDE DEF h
<1>3. Scans(h, old, read)
  BY <1>1, <1>2 DEF Scans
<1>4. ApplyEvents(old, read) = h[Len(read.events)]
  BY <1>3, ScansTo
<1> QED
  BY <1>1, <1>2, <1>4 DEF read

\* A frame of two events, one after the other.
LEMMA TwoEvents ==
    ASSUME NEW old, NEW a, NEW b, NEW state
    PROVE  ApplyEvents(old, Read(<<a, b>>, state)) =
             ApplyEvent(ApplyEvent([old EXCEPT !.decode = state], a), b)
<1> DEFINE read == Read(<<a, b>>, state)
           s == [old EXCEPT !.decode = state]
           t == ApplyEvent(s, a)
           h == [i \in 0 .. 2 |-> IF i = 0 THEN s ELSE IF i = 1 THEN t ELSE ApplyEvent(t, b)]
<1>1. read.state = state /\ Len(read.events) = 2 /\ read.events[1] = a /\ read.events[2] = b
  BY DEF Read
<1> HIDE DEF read
<1>2. h[0] = s /\ h[1] = t /\ h[2] = ApplyEvent(t, b) /\ h = [i \in 0 .. 2 |-> h[i]]
  <2> HIDE DEF s, t
  <2> QED
    OBVIOUS
<1> HIDE DEF h
<1>3. Scans(h, old, read)
  <2>1. \A i \in 1 .. 2 : h[i] = ApplyEvent(h[i - 1], read.events[i])
    <3>1. h[1] = ApplyEvent(h[1 - 1], read.events[1])
      BY <1>1, <1>2
    <3> HIDE DEF t
    <3>2. h[2] = ApplyEvent(h[2 - 1], read.events[2])
      BY <1>1, <1>2
    <3> QED
      BY <3>1, <3>2
  <2> QED
    BY <1>1, <1>2, <2>1 DEF Scans
<1>4. ApplyEvents(old, read) = h[Len(read.events)]
  BY <1>3, ScansTo
<1> QED
  BY <1>1, <1>2, <1>4 DEF read

\* Events that change nothing, and two more.
EndsWith(events, n, a, b) ==
    /\ events = [i \in 1 .. n + 2 |-> events[i]]
    /\ events[n + 1] = a /\ events[n + 2] = b

\* Events that change nothing, before two that may.
LEMMA QuietEvents ==
    ASSUME NEW old, NEW n \in Nat, NEW events, NEW a, NEW b, NEW state,
           EndsWith(events, n, a, b),
           \A i \in 1 .. n : ApplyEvent([old EXCEPT !.decode = state], events[i])
                               = [old EXCEPT !.decode = state]
    PROVE  ApplyEvents(old, Read(events, state)) =
             ApplyEvent(ApplyEvent([old EXCEPT !.decode = state], a), b)
<1> DEFINE read == Read(events, state)
           s == [old EXCEPT !.decode = state]
           t == ApplyEvent(s, a)
           h == [i \in 0 .. n + 2 |-> IF i <= n THEN s ELSE IF i = n + 1 THEN t ELSE ApplyEvent(t, b)]
<1>20. events = [i \in 1 .. n + 2 |-> events[i]] /\ events[n + 1] = a /\ events[n + 2] = b
  BY DEF EndsWith
<1>0. Len(events) = n + 2
  <2>1. n + 2 \in Nat
    OBVIOUS
  <2>2. DOMAIN events = 1 .. n + 2
    BY <1>20
  <2>3. events \in Seq({events[i] : i \in 1 .. n + 2})
    BY <1>20, <2>1
  <2> QED
    BY <2>1, <2>2, <2>3
<1>1. read.state = state /\ read.events = events
  BY DEF Read
<1> HIDE DEF read
<1>2. /\ h[0] = s /\ (\A i \in 0 .. n : h[i] = s) /\ h[n + 1] = t /\ h[n + 2] = ApplyEvent(t, b)
      /\ h = [i \in 0 .. n + 2 |-> h[i]]
  <2> HIDE DEF s, t
  <2> QED
    OBVIOUS
<1> HIDE DEF h
<1>3. Scans(h, old, read)
  <2>1. ASSUME NEW i \in 1 .. n + 2 PROVE h[i] = ApplyEvent(h[i - 1], read.events[i])
    <3>1. CASE i <= n
      <4>1. i \in 1 .. n /\ i \in 0 .. n /\ i - 1 \in 0 .. n
        BY <3>1
      <4>2. ApplyEvent(s, events[i]) = s
        BY <4>1
      <4> HIDE DEF s
      <4> QED
        BY <1>1, <1>2, <4>1, <4>2
    <3>2. CASE i = n + 1
      <4>1. i - 1 = n /\ n \in 0 .. n
        BY <3>2
      <4>2. h[i - 1] = s
        BY <1>2, <4>1
      <4> QED
        BY <1>20, <1>1, <1>2, <3>2, <4>2
    <3>3. CASE i = n + 2
      <4>1. i - 1 = n + 1
        BY <3>3
      <4> HIDE DEF t
      <4> QED
        BY <1>20, <1>1, <1>2, <3>3, <4>1
    <3> QED
      BY <3>1, <3>2, <3>3
  <2>2. n + 2 \in Nat
    OBVIOUS
  <2> QED
    BY <1>0, <1>1, <1>2, <2>1, <2>2 DEF Scans
<1>4. ApplyEvents(old, read) = h[Len(read.events)]
  BY <1>3, ScansTo
<1> QED
  BY <1>0, <1>1, <1>2, <1>4 DEF read

\* h takes the scan through the frames that arrive.
Follows(h, p, old, frames) ==
    /\ Len(frames) \in Nat
    /\ h = [i \in 0 .. Len(frames) |-> h[i]]
    /\ h[0] = old
    /\ \A i \in 1 .. Len(frames) : h[i] = ScanFrame(p, h[i - 1], frames[i])

\* The fold over frames ends where such a function ends.
LEMMA FollowsTo ==
    ASSUME NEW p, NEW old, NEW frames, NEW h, Follows(h, p, old, frames)
    PROVE  ScanFrames(p, old, frames) = h[Len(frames)]
<1> DEFINE n == Len(frames)
           Value(f, i) == IF i = 0 THEN old ELSE ScanFrame(p, f[i - 1], frames[i])
           Iterates(f) == f = [i \in 0 .. n |-> Value(f, i)]
<1>1. n \in Nat
  BY DEF Follows
<1>2. ScanFrames(p, old, frames) = (CHOOSE f : Iterates(f))[n]
  BY DEF ScanFrames
<1>3. Iterates(h)
  <2>1. ASSUME NEW i \in 0 .. n PROVE h[i] = Value(h, i)
    <3>1. CASE i = 0
      BY <3>1 DEF Follows
    <3>2. CASE i # 0
      <4>1. i \in 1 .. n
        BY <1>1, <3>2
      <4> QED
        BY <3>2, <4>1 DEF Follows
    <3> QED
      BY <3>1, <3>2
  <2>2. h = [i \in 0 .. n |-> h[i]]
    BY DEF Follows
  <2> HIDE DEF Value, n
  <2> QED
    BY <2>1, <2>2
<1>4. PICK f : f = CHOOSE x : Iterates(x)
  OBVIOUS
<1>5. Iterates(f)
  <2> HIDE DEF Iterates
  <2> QED
    BY <1>3, <1>4
<1>6. \A i \in 0 .. n : f[i] = Value(f, i) /\ h[i] = Value(h, i)
  <2> HIDE DEF Value, n
  <2> QED
    BY <1>3, <1>5
<1>7. f[n] = h[n]
  <2>1. f[0] = h[0]
    BY <1>1, <1>6
  <2>2. ASSUME NEW i \in 1 .. n, f[i - 1] = h[i - 1] PROVE f[i] = h[i]
    <3>1. i \in 0 .. n /\ i # 0
      OBVIOUS
    <3>2. f[i] = ScanFrame(p, f[i - 1], frames[i]) /\ h[i] = ScanFrame(p, h[i - 1], frames[i])
      BY <1>6, <3>1
    <3> QED
      BY <2>2, <3>2
  <2> HIDE DEF n
  <2> QED
    BY <1>1, <2>1, <2>2, SameSteps
<1> QED
  BY <1>2, <1>4, <1>7

\* One frame.
LEMMA OneFrame ==
    ASSUME NEW p, NEW old, NEW f
    PROVE  ScanFrames(p, old, <<f>>) = ScanFrame(p, old, f)
<1> DEFINE fs == <<f>>
           h == [i \in 0 .. 1 |-> IF i = 0 THEN old ELSE ScanFrame(p, old, f)]
<1>1. Len(fs) = 1 /\ fs[1] = f
  OBVIOUS
<1>2. h[0] = old /\ h[1] = ScanFrame(p, old, f) /\ h = [i \in 0 .. 1 |-> h[i]]
  OBVIOUS
<1> HIDE DEF h, fs
<1>3. Follows(h, p, old, fs)
  BY <1>1, <1>2 DEF Follows
<1>4. ScanFrames(p, old, fs) = h[Len(fs)]
  BY <1>3, FollowsTo
<1> QED
  BY <1>1, <1>2, <1>4 DEF fs

\* Two frames, one after the other.
LEMMA TwoFrames ==
    ASSUME NEW p, NEW old, NEW f, NEW g
    PROVE  ScanFrames(p, old, <<f, g>>) = ScanFrame(p, ScanFrame(p, old, f), g)
<1> DEFINE fs == <<f, g>>
           t == ScanFrame(p, old, f)
           h == [i \in 0 .. 2 |-> IF i = 0 THEN old ELSE IF i = 1 THEN t ELSE ScanFrame(p, t, g)]
<1>1. Len(fs) = 2 /\ fs[1] = f /\ fs[2] = g
  OBVIOUS
<1>2. h[0] = old /\ h[1] = t /\ h[2] = ScanFrame(p, t, g) /\ h = [i \in 0 .. 2 |-> h[i]]
  <2> HIDE DEF t
  <2> QED
    OBVIOUS
<1> HIDE DEF h, fs
<1>3. Follows(h, p, old, fs)
  <2>1. \A i \in 1 .. 2 : h[i] = ScanFrame(p, h[i - 1], fs[i])
    <3>1. h[1] = ScanFrame(p, h[1 - 1], fs[1])
      BY <1>1, <1>2
    <3> HIDE DEF t
    <3>2. h[2] = ScanFrame(p, h[2 - 1], fs[2])
      BY <1>1, <1>2
    <3> QED
      BY <3>1, <3>2
  <2> QED
    BY <1>1, <1>2, <2>1 DEF Follows
<1>4. ScanFrames(p, old, fs) = h[Len(fs)]
  BY <1>3, FollowsTo
<1> QED
  BY <1>1, <1>2, <1>4 DEF fs

\* Three frames, one after the other.
LEMMA ThreeFrames ==
    ASSUME NEW p, NEW old, NEW e, NEW f, NEW g
    PROVE  ScanFrames(p, old, <<e, f, g>>) =
             ScanFrame(p, ScanFrame(p, ScanFrame(p, old, e), f), g)
<1> DEFINE fs == <<e, f, g>>
           s == ScanFrame(p, old, e)
           t == ScanFrame(p, s, f)
           h == [i \in 0 .. 3 |-> IF i = 0 THEN old ELSE IF i = 1 THEN s
                                  ELSE IF i = 2 THEN t ELSE ScanFrame(p, t, g)]
<1>1. Len(fs) = 3 /\ fs[1] = e /\ fs[2] = f /\ fs[3] = g
  OBVIOUS
<1>2. /\ h[0] = old /\ h[1] = s /\ h[2] = t /\ h[3] = ScanFrame(p, t, g)
      /\ h = [i \in 0 .. 3 |-> h[i]]
  <2> HIDE DEF s, t
  <2> QED
    OBVIOUS
<1> HIDE DEF h, fs
<1>3. Follows(h, p, old, fs)
  <2>1. \A i \in 1 .. 3 : h[i] = ScanFrame(p, h[i - 1], fs[i])
    <3>1. h[1] = ScanFrame(p, h[1 - 1], fs[1])
      BY <1>1, <1>2
    <3>2. h[2] = ScanFrame(p, h[2 - 1], fs[2])
      <4> HIDE DEF s
      <4> QED
        BY <1>1, <1>2
    <3>3. h[3] = ScanFrame(p, h[3 - 1], fs[3])
      <4> HIDE DEF t
      <4> QED
        BY <1>1, <1>2
    <3> QED
      BY <3>1, <3>2, <3>3
  <2> QED
    BY <1>1, <1>2, <2>1 DEF Follows
<1>4. ScanFrames(p, old, fs) = h[Len(fs)]
  BY <1>3, FollowsTo
<1> QED
  BY <1>1, <1>2, <1>4 DEF fs

\* The tool calls of a chunk, none or one.
LEMMA NoCall ==
    ASSUME NEW r
    PROVE  FoldLeft(ProcessToolCallDelta, r, << >>) = r
<1> DEFINE Value(it, s) == IF s = {} THEN r
                           ELSE ProcessToolCallDelta(it[s \ {Max(s)}], << >>[Max(s)])
           Iterates(it) == it = [s \in SUBSET {} |-> Value(it, s)]
           g == [s \in SUBSET {} |-> r]
<1>1. DOMAIN << >> = {}
  OBVIOUS
<1>2. FoldLeft(ProcessToolCallDelta, r, << >>) = (CHOOSE it : Iterates(it))[{}]
  BY <1>1 DEF FoldLeft, MapThenFoldSet
<1>3. Iterates(g)
  <2>1. \A s \in SUBSET {} : g[s] = Value(g, s)
    OBVIOUS
  <2> HIDE DEF Value
  <2>2. g = [s \in SUBSET {} |-> g[s]]
    OBVIOUS
  <2> HIDE DEF g
  <2> QED
    BY <2>1, <2>2
<1>4. PICK it : it = CHOOSE x : Iterates(x)
  OBVIOUS
<1>5. Iterates(it)
  <2> HIDE DEF Iterates
  <2> QED
    BY <1>3, <1>4
<1>6. it[{}] = Value(it, {})
  <2> HIDE DEF Value
  <2> QED
    BY <1>5
<1> QED
  BY <1>2, <1>4, <1>6

\* The fold over one tool call.
LEMMA OneCall ==
    ASSUME NEW r, NEW call
    PROVE  FoldLeft(ProcessToolCallDelta, r, <<call>>) = ProcessToolCallDelta(r, call)
<1> DEFINE q == ProcessToolCallDelta(r, call)
           one == <<call>>
           Value(it, s) == IF s = {} THEN r
                           ELSE ProcessToolCallDelta(it[s \ {Max(s)}], one[Max(s)])
           Iterates(it) == it = [s \in SUBSET {1} |-> Value(it, s)]
           g == [s \in SUBSET {1} |-> IF s = {} THEN r ELSE q]
<1>1. DOMAIN one = {1} /\ one[1] = call
  OBVIOUS
<1>2. FoldLeft(ProcessToolCallDelta, r, one) = (CHOOSE it : Iterates(it))[{1}]
  BY <1>1 DEF FoldLeft, MapThenFoldSet
<1>3. \A s \in SUBSET {1} : s # {} => s = {1}
  OBVIOUS
<1>4. Max({1}) = 1
  BY MaxIs
<1>5. {1} \ {1} = {} /\ {1} # {} /\ {} \in SUBSET {1} /\ {1} \in SUBSET {1}
  OBVIOUS
<1> HIDE DEF one
<1>6. Iterates(g)
  <2>1. g[{}] = r /\ g[{1}] = q
    BY <1>5
  <2>2. g = [s \in SUBSET {1} |-> g[s]]
    OBVIOUS
  <2> HIDE DEF g
  <2>3. \A s \in SUBSET {1} : g[s] = Value(g, s)
    BY <1>1, <1>3, <1>4, <1>5, <2>1
  <2> HIDE DEF Value
  <2> QED
    BY <2>2, <2>3
<1>7. PICK it : it = CHOOSE x : Iterates(x)
  OBVIOUS
<1>8. Iterates(it)
  <2> HIDE DEF Iterates
  <2> QED
    BY <1>6, <1>7
<1>9. \A s \in SUBSET {1} : it[s] = Value(it, s)
  <2> HIDE DEF Value
  <2> QED
    BY <1>8
<1>10. it[{1}] = q
  <2>1. it[{}] = r
    BY <1>5, <1>9
  <2>2. it[{1}] = ProcessToolCallDelta(it[{1} \ {1}], one[1])
    BY <1>4, <1>5, <1>9
  <2> QED
    BY <1>1, <1>5, <2>1, <2>2
<1> QED
  BY <1>2, <1>7, <1>10 DEF one

-----------------------------------------------------------------------------
(* What an event does to a scan, field by field.                           *)

IsUsage(u) == u = [input |-> u.input, output |-> u.output]

IsScan(s) ==
    /\ s = [decode |-> s.decode, blocks |-> s.blocks, order |-> s.order,
            usage |-> s.usage, seen |-> s.seen, stop |-> s.stop]
    /\ IsUsage(s.usage) /\ s.seen \in BOOLEAN

\* How a scan r differs from the scan s it comes from: the decoder apart, in
\* nothing; by a block that starts; by a piece of a block; by the usage.
SameUsage(r, s) == r.usage = s.usage /\ r.seen = s.seen
SameBlocks(r, s) == r.blocks = s.blocks /\ r.order = s.order
Stays(r, s) == IsScan(r) /\ SameUsage(r, s) /\ SameBlocks(r, s)
Starts(r, s, i, meta, name) ==
    /\ IsScan(r) /\ SameUsage(r, s)
    /\ r.order = IF i \in DOMAIN s.blocks THEN s.order ELSE Append(s.order, i)
    /\ r.blocks = Put(s.blocks, i, [At(s, i) EXCEPT !.meta = meta, !.name = name])
Grown(v, kind, text) == [v EXCEPT ![kind] = @ \o text]
Says(r, s, i, kind, text) ==
    /\ IsScan(r) /\ SameUsage(r, s) /\ r.order = s.order
    /\ r.blocks = Put(s.blocks, i, Grown(At(s, i), kind, text))
Counts(r, s, input, output, present) ==
    /\ IsScan(r) /\ SameBlocks(r, s) /\ r.seen = (s.seen \/ present)
    /\ r.usage = [input |-> input, output |-> output]

\* The record of six fields that a scan is.
LEMMA DecoderSet ==
    ASSUME NEW s, IsScan(s), NEW d
    PROVE  Stays([s EXCEPT !.decode = d], s) /\ [s EXCEPT !.decode = d].decode = d
<1>1. PICK e, b, o, u, n, t : s = [decode |-> e, blocks |-> b, order |-> o,
                                   usage |-> u, seen |-> n, stop |-> t]
  BY DEF IsScan
<1> DEFINE r == [s EXCEPT !.decode = d]
<1>2. r = [decode |-> d, blocks |-> b, order |-> o, usage |-> u, seen |-> n, stop |-> t]
  BY <1>1
<1> HIDE DEF r
<1>3. /\ r.decode = d /\ r.blocks = b /\ r.order = o /\ r.usage = u /\ r.seen = n /\ r.stop = t
      /\ s.blocks = b /\ s.order = o /\ s.usage = u /\ s.seen = n
  BY <1>1, <1>2
<1>4. IsScan(r)
  BY <1>2, <1>3 DEF IsScan
<1> QED
  BY <1>3, <1>4 DEF Stays, SameUsage, SameBlocks, r

\* A block that starts.
LEMMA BlockStarts ==
    ASSUME NEW s, IsScan(s), NEW i, NEW meta, NEW name
    PROVE  /\ Starts(ApplyEvent(s, BlockStart(i, meta, name)), s, i, meta, name)
           /\ ApplyEvent(s, BlockStart(i, meta, name)).decode = s.decode
<1> DEFINE ev == BlockStart(i, meta, name)
           p == Put(s.blocks, i, [At(s, i) EXCEPT !.meta = meta, !.name = name])
           q == IF i \in DOMAIN s.blocks THEN s.order ELSE Append(s.order, i)
           r == ApplyEvent(s, ev)
<1>1. ev.type = "block_start" /\ ev.index = i /\ ev.meta = meta /\ ev.name = name
  BY DEF BlockStart
<1> HIDE DEF ev
<1>2. r = [s EXCEPT !.order = q, !.blocks = p]
  <2>1. ApplyEvent(s, ev) =
          [s EXCEPT !.order = IF ev.index \in DOMAIN s.blocks THEN @ ELSE Append(@, ev.index),
                    !.blocks = Put(@, ev.index,
                       [At(s, ev.index) EXCEPT !.meta = ev.meta, !.name = ev.name])]
    BY <1>1 DEF ApplyEvent
  <2>2. PICK e, b, o, u, n, t : s = [decode |-> e, blocks |-> b, order |-> o,
                                     usage |-> u, seen |-> n, stop |-> t]
    BY DEF IsScan
  <2> QED
    BY <1>1, <2>1, <2>2
<1> HIDE DEF p, q, r
<1>3. PICK e, b, o, u, n, t : s = [decode |-> e, blocks |-> b, order |-> o,
                                   usage |-> u, seen |-> n, stop |-> t]
  BY DEF IsScan
<1>4. r = [decode |-> e, blocks |-> p, order |-> q, usage |-> u, seen |-> n, stop |-> t]
  BY <1>2, <1>3
<1>5. /\ r.decode = e /\ r.blocks = p /\ r.order = q /\ r.usage = u /\ r.seen = n /\ r.stop = t
      /\ s.decode = e /\ s.usage = u /\ s.seen = n
  BY <1>3, <1>4
<1>6. IsScan(r)
  BY <1>4, <1>5 DEF IsScan
<1> QED
  BY <1>5, <1>6 DEF Starts, SameUsage, p, q, r, ev

\* A piece of a block.
LEMMA DeltaArrives ==
    ASSUME NEW s, IsScan(s), NEW i, NEW kind, NEW text
    PROVE  /\ Says(ApplyEvent(s, BlockDelta(i, kind, text)), s, i, kind, text)
           /\ ApplyEvent(s, BlockDelta(i, kind, text)).decode = s.decode
<1> DEFINE ev == BlockDelta(i, kind, text)
           p == Put(s.blocks, i, [At(s, i) EXCEPT ![kind] = @ \o text])
           r == ApplyEvent(s, ev)
<1>1. ev.type = "block_delta" /\ ev.index = i /\ ev.kind = kind /\ ev.text = text
  BY DEF BlockDelta
<1> HIDE DEF ev
<1>2. r = [s EXCEPT !.blocks = p]
  <2>1. ApplyEvent(s, ev) =
          [s EXCEPT !.blocks = Put(@, ev.index, [At(s, ev.index) EXCEPT ![ev.kind] = @ \o ev.text])]
    BY <1>1 DEF ApplyEvent
  <2>2. PICK e, b, o, u, n, t : s = [decode |-> e, blocks |-> b, order |-> o,
                                     usage |-> u, seen |-> n, stop |-> t]
    BY DEF IsScan
  <2> QED
    BY <1>1, <2>1, <2>2
<1> HIDE DEF p, r
<1>3. PICK e, b, o, u, n, t : s = [decode |-> e, blocks |-> b, order |-> o,
                                   usage |-> u, seen |-> n, stop |-> t]
  BY DEF IsScan
<1>4. r = [decode |-> e, blocks |-> p, order |-> o, usage |-> u, seen |-> n, stop |-> t]
  BY <1>2, <1>3
<1>5. /\ r.decode = e /\ r.blocks = p /\ r.order = o /\ r.usage = u /\ r.seen = n /\ r.stop = t
      /\ s.decode = e /\ s.order = o /\ s.usage = u /\ s.seen = n
  BY <1>3, <1>4
<1>6. IsScan(r)
  BY <1>4, <1>5 DEF IsScan
<1> QED
  BY <1>5, <1>6 DEF Says, Grown, SameUsage, p, r, ev

\* Most events do not concern the record.
LEMMA QuietEvent ==
    ASSUME NEW s, NEW i, NEW text, NEW usage
    PROVE  /\ ApplyEvent(s, BlockStop(i)) = s
           /\ ApplyEvent(s, MessageStop) = s
           /\ ApplyEvent(s, ErrorEvent(text)) = s
           /\ ApplyEvent(s, MessageStart(usage, FALSE)) = s
<1>1. ApplyEvent(s, BlockStop(i)) = s
  <2>1. BlockStop(i).type = "block_stop"
    BY DEF BlockStop
  <2> QED
    BY <2>1 DEF ApplyEvent
<1>2. ApplyEvent(s, MessageStop) = s
  <2>1. MessageStop.type = "message_stop"
    BY DEF MessageStop
  <2> QED
    BY <2>1 DEF ApplyEvent
<1>3. ApplyEvent(s, ErrorEvent(text)) = s
  <2>1. ErrorEvent(text).type = "error"
    BY DEF ErrorEvent
  <2> QED
    BY <2>1 DEF ApplyEvent
<1>4. ApplyEvent(s, MessageStart(usage, FALSE)) = s
  <2>1. MessageStart(usage, FALSE).type = "message_start" /\ ~ MessageStart(usage, FALSE).present
    BY DEF MessageStart
  <2> QED
    BY <2>1 DEF ApplyEvent
<1> QED
  BY <1>1, <1>2, <1>3, <1>4

\* The usage that an Anthropic answer starts with.
LEMMA AnswerStarts ==
    ASSUME NEW s, IsScan(s), NEW usage
    PROVE  Counts(ApplyEvent(s, MessageStart(usage, TRUE)), s, usage.input, s.usage.output, TRUE)
<1> DEFINE ev == MessageStart(usage, TRUE)
           x == usage.input
           r == ApplyEvent(s, ev)
<1>1. ev.type = "message_start" /\ ev.present /\ ev.usage = usage
  BY DEF MessageStart
<1> HIDE DEF ev
<1>2. r = [s EXCEPT !.usage.input = x, !.seen = TRUE]
  BY <1>1 DEF ApplyEvent
<1> HIDE DEF r, x
<1>3. PICK e, b, o, v, y, n, t :
        s = [decode |-> e, blocks |-> b, order |-> o,
             usage |-> [input |-> v, output |-> y], seen |-> n, stop |-> t]
  BY DEF IsScan, IsUsage
<1>4. r = [decode |-> e, blocks |-> b, order |-> o,
           usage |-> [input |-> x, output |-> y], seen |-> TRUE, stop |-> t]
  BY <1>2, <1>3
<1>5. /\ r.decode = e /\ r.blocks = b /\ r.order = o /\ r.stop = t
      /\ r.usage = [input |-> x, output |-> y]
      /\ s.blocks = b /\ s.order = o /\ s.usage.output = y
  BY <1>3, <1>4
<1>6. r.seen = TRUE
  BY <1>4
<1>7. IsScan(r)
  <2>1. r = [decode |-> r.decode, blocks |-> r.blocks, order |-> r.order,
             usage |-> r.usage, seen |-> r.seen, stop |-> r.stop]
    BY <1>4
  <2>2. IsUsage(r.usage)
    BY <1>5 DEF IsUsage
  <2> QED
    BY <1>6, <2>1, <2>2 DEF IsScan
<1>8. r.seen = (s.seen \/ TRUE)
  BY <1>6
<1> QED
  BY <1>5, <1>7, <1>8 DEF Counts, SameBlocks, r, x, ev

\* The usage that comes at the end, or alone.
LEMMA UsageArrives ==
    ASSUME NEW s, IsScan(s), NEW stop, NEW usage, NEW present
    PROVE  /\ Counts(ApplyEvent(s, MessageDelta(stop, usage, present)), s,
                     KnownNumber(s.usage.input, usage.input),
                     KnownNumber(s.usage.output, usage.output), present)
           /\ ApplyEvent(s, MessageDelta(stop, usage, present)).decode = s.decode
<1> DEFINE ev == MessageDelta(stop, usage, present)
           x == KnownNumber(s.usage.input, usage.input)
           y == KnownNumber(s.usage.output, usage.output)
           z == IF stop = None THEN s.stop ELSE stop
<1>1. ev.type = "message_delta" /\ ev.present = present /\ ev.usage = usage /\ ev.stop = stop
  BY DEF MessageDelta
<1> HIDE DEF ev
<1> DEFINE r == ApplyEvent(s, ev)
<1>2. r = [s EXCEPT !.stop = IF stop = None THEN @ ELSE stop,
                    !.seen = @ \/ present,
                    !.usage.output = KnownNumber(@, usage.output),
                    !.usage.input = KnownNumber(@, usage.input)]
  BY <1>1 DEF ApplyEvent
<1> HIDE DEF r
<1>3. PICK e, b, o, v, w, n, t :
        s = [decode |-> e, blocks |-> b, order |-> o,
             usage |-> [input |-> v, output |-> w], seen |-> n, stop |-> t]
  BY DEF IsScan, IsUsage
<1>4. s.usage.input = v /\ s.usage.output = w /\ s.seen = n /\ s.stop = t
  BY <1>3
<1>5. r = [decode |-> e, blocks |-> b, order |-> o,
           usage |-> [input |-> x, output |-> y], seen |-> (s.seen \/ present), stop |-> z]
  BY <1>2, <1>3, <1>4
<1> HIDE DEF x, y, z
<1>6. /\ r.decode = e /\ r.blocks = b /\ r.order = o /\ r.stop = z
      /\ r.usage = [input |-> x, output |-> y]
      /\ s.decode = e /\ s.blocks = b /\ s.order = o
  BY <1>3, <1>5
<1>7. r.seen = (s.seen \/ present)
  BY <1>5
<1>8. s.seen \in BOOLEAN
  BY DEF IsScan
<1>9. IsScan(r)
  <2>1. r = [decode |-> r.decode, blocks |-> r.blocks, order |-> r.order,
             usage |-> r.usage, seen |-> r.seen, stop |-> r.stop]
    BY <1>5
  <2>2. IsUsage(r.usage)
    BY <1>6 DEF IsUsage
  <2>3. r.seen \in BOOLEAN
    BY <1>7, <1>8
  <2> QED
    BY <2>1, <2>2, <2>3 DEF IsScan
<1> QED
  BY <1>6, <1>7, <1>9 DEF Counts, SameBlocks, r, x, y, ev

-----------------------------------------------------------------------------
(* Blocks of an answer, and how a scan shows them.                         *)

Hidden == {Envelope(form, << >>, << >>) : form \in {"redacted", "signature", "encrypted"}}

\* A block of an answer in the protocol p.
IsSaid(p, b) ==
    /\ b = [kind |-> b.kind, name |-> b.name, text |-> b.text, opaque |-> b.opaque,
            open |-> b.open, at |-> b.at]
    /\ b.kind \in KindsOf(p) /\ b.text \in Seq(Tokens) /\ b.opaque \in Seq(Hidden)
    /\ b.open \in BOOLEAN /\ b.at \in Nat
    /\ b.name = IF b.kind = "tool" THEN Name ELSE << >>
    /\ b.kind = "redacted" => b.text = << >> /\ b.opaque = Redacted
    /\ b.kind \notin {"redacted", "thinking"} => b.opaque = << >>
    /\ b.open /\ b.kind = "thinking" => b.opaque = << >>

Known(b) == b.kind \notin ForeignBlocks

\* What the scan holds of a block: its opaque part where the protocol brings it.
Shown(p, b) ==
    [meta |-> b.kind,
     name |-> IF b.kind = "redacted" THEN b.opaque ELSE b.name,
     text |-> IF b.kind = "text" THEN b.text ELSE << >>,
     args |-> IF b.kind = "tool" THEN b.text ELSE << >>,
     reasoning |-> IF b.kind \in {"reasoning", "thinking"} THEN b.text ELSE << >>,
     signature |-> IF b.kind = "thinking" /\ p = "anthropic" THEN b.opaque ELSE << >>,
     opaque |-> IF b.kind = "thinking" /\ p = "responses" THEN b.opaque ELSE << >>]

\* What the record says of a block: the part(b) of Meant, with names as they are.
Part(b) ==
    IF b.kind = "tool" THEN <<Block("tool", b.name, b.text, << >>)>>
    ELSE IF b.kind \in ForeignBlocks \/ b.text \o b.opaque = << >> THEN << >>
    ELSE <<Block(IF b.kind = "text" THEN "text" ELSE "reasoning", << >>, b.text, b.opaque)>>

\* c counts the known blocks among the first, and x tells the index of each.
Ranks(B, c, x) ==
    /\ c \in [0 .. Len(B) -> Nat] /\ x \in [1 .. Len(B) -> Nat]
    /\ c[0] = 0
    /\ \A j \in 1 .. Len(B) : c[j] = IF Known(B[j]) THEN c[j - 1] + 1 ELSE c[j - 1]

\* The scan s shows the known blocks of B in their order, and has seen no others start.
Shows(p, s, B, c, x) ==
    /\ Ranks(B, c, x)
    /\ s.order \in Seq(Nat) /\ Len(s.order) = c[Len(B)]
    /\ \A j \in 1 .. Len(B) : Known(B[j]) =>
          /\ s.order[c[j]] = x[j] /\ x[j] \in DOMAIN s.blocks
          /\ s.blocks[x[j]] = Shown(p, B[j])
    /\ \A j, k \in 1 .. Len(B) : Known(B[j]) /\ Known(B[k]) /\ x[j] = x[k] => j = k

\* The ranks never decrease.
LEMMA RanksGrow ==
    ASSUME NEW B, Len(B) \in Nat, NEW c, NEW x, Ranks(B, c, x), NEW k \in 0 .. Len(B), NEW j \in 0 .. k
    PROVE  c[j] <= c[k]
<1> DEFINE T == {n \in Nat : n <= Len(B) => \A i \in 0 .. n : c[i] <= c[n]}
<1>1. 0 \in T
  BY DEF Ranks
<1>2. ASSUME NEW n \in Nat, n \in T PROVE n + 1 \in T
  <2> SUFFICES ASSUME n + 1 <= Len(B), NEW i \in 0 .. n + 1 PROVE c[i] <= c[n + 1]
    OBVIOUS
  <2>1. n + 1 \in 1 .. Len(B) /\ n \in 0 .. Len(B) /\ n + 1 \in 0 .. Len(B) /\ i \in 0 .. Len(B)
    OBVIOUS
  <2>2. c[n] \in Nat /\ c[n + 1] \in Nat /\ c[i] \in Nat
    BY <2>1 DEF Ranks
  <2>3. c[n + 1] = IF Known(B[n + 1]) THEN c[(n + 1) - 1] + 1 ELSE c[(n + 1) - 1]
    BY <2>1 DEF Ranks
  <2>4. (n + 1) - 1 = n
    OBVIOUS
  <2>5. c[n] <= c[n + 1]
    BY <2>2, <2>3, <2>4
  <2>6. CASE i = n + 1
    BY <2>2, <2>6
  <2>7. CASE i # n + 1
    <3>1. i \in 0 .. n
      BY <2>7
    <3>2. c[i] <= c[n]
      BY <1>2, <3>1
    <3> QED
      BY <2>2, <2>5, <3>2
  <2> QED
    BY <2>6, <2>7
<1>3. k \in T
  <2> HIDE DEF T
  <2>1. Nat \subseteq T
    BY <1>1, <1>2, NatSetInduction
  <2> QED
    BY <2>1
<1> QED
  BY <1>3

\* The scan r shows a block more, but nothing of it.
ShowsNoMore(p, r, B, b, c, x) ==
    \E d, y : /\ Shows(p, r, Append(B, b), d, y)
              /\ d[Len(B) + 1] = c[Len(B)]
              /\ \A j \in 1 .. Len(B) : d[j] = c[j] /\ y[j] = x[j]

\* One more block that the readers have no event for.
LEMMA ForeignBlockShows ==
    ASSUME NEW p, NEW s, NEW r, NEW S, NEW B \in Seq(S), NEW b \in S, NEW c, NEW x,
           Shows(p, s, B, c, x), ~ Known(b), SameBlocks(r, s)
    PROVE  ShowsNoMore(p, r, B, b, c, x)
<1> DEFINE n == Len(B)
           D == Append(B, b)
           d == [j \in 0 .. n + 1 |-> IF j = n + 1 THEN c[n] ELSE c[j]]
           y == [j \in 1 .. n + 1 |-> IF j = n + 1 THEN 0 ELSE x[j]]
<1>1. /\ n \in Nat /\ D \in Seq(S) /\ Len(D) = n + 1 /\ D[n + 1] = b
      /\ \A j \in 1 .. n : D[j] = B[j]
  BY AppendPrefixes
<1> HIDE DEF D
<1>2. /\ c \in [0 .. n -> Nat] /\ x \in [1 .. n -> Nat] /\ c[0] = 0
      /\ \A j \in 1 .. n : c[j] = IF Known(B[j]) THEN c[j - 1] + 1 ELSE c[j - 1]
  BY DEF Shows, Ranks
<1> HIDE DEF n
<1>3. d \in [0 .. n + 1 -> Nat] /\ y \in [1 .. n + 1 -> Nat]
  BY <1>1, <1>2
<1>4. /\ d[n + 1] = c[n] /\ (\A j \in 0 .. n : d[j] = c[j]) /\ (\A j \in 1 .. n : y[j] = x[j])
  BY <1>1
<1> HIDE DEF d, y
<1>5. Ranks(D, d, y)
  <2>1. d[0] = 0
    BY <1>1, <1>2, <1>4
  <2>2. ASSUME NEW j \in 1 .. n + 1
        PROVE  d[j] = IF Known(D[j]) THEN d[j - 1] + 1 ELSE d[j - 1]
    <3>1. CASE j = n + 1
      BY <1>1, <1>4, <3>1
    <3>2. CASE j # n + 1
      <4>1. j \in 1 .. n /\ j \in 0 .. n /\ j - 1 \in 0 .. n
        BY <1>1, <3>2
      <4> QED
        BY <1>1, <1>2, <1>4, <4>1
    <3> QED
      BY <3>1, <3>2
  <2> QED
    BY <1>1, <1>3, <2>1, <2>2 DEF Ranks
<1>6. \A j \in 1 .. n + 1 : Known(D[j]) => j \in 1 .. n
  BY <1>1
<1>7. r.order = s.order /\ r.blocks = s.blocks
  BY DEF SameBlocks
<1>8. Shows(p, r, D, d, y)
  <2>1. r.order \in Seq(Nat) /\ Len(r.order) = d[Len(D)]
    BY <1>1, <1>4, <1>7 DEF Shows, n
  <2>2. ASSUME NEW j \in 1 .. n, Known(B[j])
        PROVE  /\ s.order[c[j]] = x[j] /\ x[j] \in DOMAIN s.blocks
               /\ s.blocks[x[j]] = Shown(p, B[j])
    BY <2>2 DEF Shows, n
  <2>3. \A j, k \in 1 .. n : Known(B[j]) /\ Known(B[k]) /\ x[j] = x[k] => j = k
    BY DEF Shows, n
  <2>4. \A j \in 1 .. n : j \in 0 .. n
    OBVIOUS
  <2>5. ASSUME NEW j \in 1 .. n + 1, Known(D[j])
        PROVE  /\ r.order[d[j]] = y[j] /\ y[j] \in DOMAIN r.blocks
               /\ r.blocks[y[j]] = Shown(p, D[j])
    <3>1. j \in 1 .. n /\ j \in 0 .. n
      BY <1>6, <2>4, <2>5
    <3>2. D[j] = B[j] /\ d[j] = c[j] /\ y[j] = x[j]
      BY <1>1, <1>4, <3>1
    <3> QED
      BY <1>7, <2>2, <2>5, <3>1, <3>2
  <2>6. \A j, k \in 1 .. n + 1 : Known(D[j]) /\ Known(D[k]) /\ y[j] = y[k] => j = k
    BY <1>1, <1>4, <1>6, <2>3
  <2> QED
    BY <1>1, <1>5, <2>1, <2>5, <2>6 DEF Shows
<1>9. \A j \in 1 .. n : d[j] = c[j] /\ y[j] = x[j]
  <2>1. \A j \in 1 .. n : j \in 0 .. n
    OBVIOUS
  <2> QED
    BY <1>4, <2>1
<1> QED
  BY <1>4, <1>8, <1>9 DEF ShowsNoMore, D, n


\* The scan r shows one more block, at the index i.
ShowsMore(p, r, B, b, c, x, i) ==
    \E d, y : /\ Shows(p, r, Append(B, b), d, y)
              /\ d[Len(B) + 1] = c[Len(B)] + 1 /\ y[Len(B) + 1] = i
              /\ \A j \in 1 .. Len(B) : d[j] = c[j] /\ y[j] = x[j]

\* One more block, which the scan shows at a new index.
LEMMA NewBlockShows ==
    ASSUME NEW p, NEW s, NEW r, NEW S, NEW B \in Seq(S), NEW b \in S, NEW c, NEW x,
           Shows(p, s, B, c, x), Known(b), NEW i \in Nat, i \notin DOMAIN s.blocks,
           r.order = Append(s.order, i), i \in DOMAIN r.blocks, r.blocks[i] = Shown(p, b),
           \A k \in DOMAIN s.blocks : k \in DOMAIN r.blocks /\ r.blocks[k] = s.blocks[k]
    PROVE  ShowsMore(p, r, B, b, c, x, i)
<1> DEFINE n == Len(B)
           D == Append(B, b)
           d == [j \in 0 .. n + 1 |-> IF j = n + 1 THEN c[n] + 1 ELSE c[j]]
           y == [j \in 1 .. n + 1 |-> IF j = n + 1 THEN i ELSE x[j]]
<1>1. /\ n \in Nat /\ D \in Seq(S) /\ Len(D) = n + 1 /\ D[n + 1] = b
      /\ \A j \in 1 .. n : D[j] = B[j]
  BY AppendPrefixes
<1> HIDE DEF D
<1>2. /\ c \in [0 .. n -> Nat] /\ x \in [1 .. n -> Nat] /\ c[0] = 0
      /\ \A j \in 1 .. n : c[j] = IF Known(B[j]) THEN c[j - 1] + 1 ELSE c[j - 1]
  BY DEF Shows, Ranks
<1>20. Len(s.order) = c[n] /\ s.order \in Seq(Nat)
  BY DEF Shows
<1>21. \A j \in 1 .. n, k \in 0 .. n : j <= k => c[j] <= c[k]
  <2>1. Ranks(B, c, x)
    BY DEF Shows
  <2> TAKE j \in 1 .. n, k \in 0 .. n
  <2> HAVE j <= k
  <2>2. j \in 0 .. k
    OBVIOUS
  <2> QED
    BY <1>1, <2>1, <2>2, RanksGrow
<1> HIDE DEF n
<1>3. d \in [0 .. n + 1 -> Nat] /\ y \in [1 .. n + 1 -> Nat]
  BY <1>1, <1>2
<1>4. /\ d[n + 1] = c[n] + 1 /\ y[n + 1] = i
      /\ (\A j \in 0 .. n : d[j] = c[j]) /\ (\A j \in 1 .. n : y[j] = x[j])
  BY <1>1
<1> HIDE DEF d, y
<1>5. Ranks(D, d, y)
  <2>1. d[0] = 0
    BY <1>1, <1>2, <1>4
  <2>2. ASSUME NEW j \in 1 .. n + 1
        PROVE  d[j] = IF Known(D[j]) THEN d[j - 1] + 1 ELSE d[j - 1]
    <3>1. CASE j = n + 1
      BY <1>1, <1>4, <3>1
    <3>2. CASE j # n + 1
      <4>1. j \in 1 .. n /\ j \in 0 .. n /\ j - 1 \in 0 .. n
        BY <1>1, <3>2
      <4> QED
        BY <1>1, <1>2, <1>4, <4>1
    <3> QED
      BY <3>1, <3>2
  <2> QED
    BY <1>1, <1>3, <2>1, <2>2 DEF Ranks
<1>6. \A j \in 1 .. n + 1 : j \in 1 .. n \/ j = n + 1
  BY <1>1
<1>7. /\ r.order \in Seq(Nat) /\ Len(r.order) = c[n] + 1 /\ r.order[c[n] + 1] = i
      /\ \A k \in 1 .. c[n] : r.order[k] = s.order[k]
  BY <1>20, AppendPrefixes
<1>8. Shows(p, r, D, d, y)
  <2>2. ASSUME NEW j \in 1 .. n, Known(B[j])
        PROVE  /\ s.order[c[j]] = x[j] /\ x[j] \in DOMAIN s.blocks
               /\ s.blocks[x[j]] = Shown(p, B[j])
    BY <2>2 DEF Shows, n
  <2>3. \A j, k \in 1 .. n : Known(B[j]) /\ Known(B[k]) /\ x[j] = x[k] => j = k
    BY DEF Shows, n
  <2>4. \A j \in 1 .. n : j \in 0 .. n /\ j - 1 \in 0 .. n /\ n \in 0 .. n
    BY <1>1
  <2>5. ASSUME NEW j \in 1 .. n + 1, Known(D[j])
        PROVE  /\ r.order[d[j]] = y[j] /\ y[j] \in DOMAIN r.blocks
               /\ r.blocks[y[j]] = Shown(p, D[j])
    <3>1. CASE j \in 1 .. n
      <4>2. D[j] = B[j] /\ d[j] = c[j] /\ y[j] = x[j]
        BY <1>1, <1>4, <2>4, <3>1
      <4>3. Known(B[j])
        BY <2>5, <4>2
      <4>4. c[j] \in 1 .. c[n]
        <5>1. c[j] = c[j - 1] + 1 /\ c[j - 1] \in Nat /\ c[n] \in Nat
          BY <1>2, <2>4, <3>1, <4>3
        <5>2. c[j] <= c[n]
          BY <1>21, <2>4, <3>1
        <5> QED
          BY <5>1, <5>2
      <4>5. r.order[c[j]] = s.order[c[j]]
        BY <1>7, <4>4
      <4>6. r.blocks[x[j]] = s.blocks[x[j]] /\ x[j] \in DOMAIN r.blocks
        BY <2>2, <3>1, <4>3
      <4> QED
        BY <2>2, <3>1, <4>2, <4>3, <4>5, <4>6
    <3>2. CASE j = n + 1
      BY <1>1, <1>4, <1>7, <3>2
    <3> QED
      BY <1>6, <3>1, <3>2
  <2>6. ASSUME NEW j \in 1 .. n + 1, NEW k \in 1 .. n + 1, Known(D[j]), Known(D[k]), y[j] = y[k]
        PROVE  j = k
    <3>1. \A l \in 1 .. n : Known(D[l]) => y[l] # i
      <4> TAKE l \in 1 .. n
      <4> HAVE Known(D[l])
      <4>1. x[l] \in DOMAIN s.blocks
        BY <1>1, <2>2
      <4> QED
        BY <1>4, <4>1
    <3>2. CASE j = n + 1 \/ k = n + 1
      BY <1>4, <1>6, <2>6, <3>1, <3>2
    <3>3. CASE j # n + 1 /\ k # n + 1
      <4>1. j \in 1 .. n /\ k \in 1 .. n
        BY <1>6, <3>3
      <4> QED
        BY <1>1, <1>4, <2>3, <2>6, <4>1
    <3> QED
      BY <3>2, <3>3
  <2>7. \A j, k \in 1 .. n + 1 : Known(D[j]) /\ Known(D[k]) /\ y[j] = y[k] => j = k
    BY <2>6
  <2> QED
    BY <1>1, <1>4, <1>5, <1>7, <2>5, <2>7 DEF Shows
<1>9. \A j \in 1 .. n : d[j] = c[j] /\ y[j] = x[j]
  <2>1. \A j \in 1 .. n : j \in 0 .. n
    OBVIOUS
  <2> QED
    BY <1>4, <2>1
<1> QED
  BY <1>4, <1>8, <1>9 DEF ShowsMore, D, n

\* As many blocks, in the same order, said further.
LEMMA SameRanksShow ==
    ASSUME NEW p, NEW s, NEW r, NEW B, NEW D, NEW c, NEW x,
           Shows(p, s, B, c, x), Len(D) = Len(B), r.order = s.order,
           \A j \in 1 .. Len(B) : Known(D[j]) <=> Known(B[j]),
           \A j \in 1 .. Len(B) : Known(B[j]) =>
              x[j] \in DOMAIN r.blocks /\ r.blocks[x[j]] = Shown(p, D[j])
    PROVE  Shows(p, r, D, c, x)
<1>1. Ranks(D, c, x)
  BY DEF Shows, Ranks
<1>2. ASSUME NEW j \in 1 .. Len(D), Known(D[j])
      PROVE  /\ r.order[c[j]] = x[j] /\ x[j] \in DOMAIN r.blocks
             /\ r.blocks[x[j]] = Shown(p, D[j])
  <2>1. j \in 1 .. Len(B) /\ Known(B[j])
    BY <1>2
  <2> QED
    BY <2>1 DEF Shows
<1>3. ASSUME NEW j \in 1 .. Len(D), NEW k \in 1 .. Len(D), Known(D[j]), Known(D[k]), x[j] = x[k]
      PROVE  j = k
  <2>1. j \in 1 .. Len(B) /\ Known(B[j]) /\ k \in 1 .. Len(B) /\ Known(B[k])
    BY <1>3
  <2> QED
    BY <1>3, <2>1 DEF Shows
<1>4. r.order \in Seq(Nat) /\ Len(r.order) = c[Len(D)]
  BY DEF Shows
<1> QED
  BY <1>1, <1>2, <1>3, <1>4 DEF Shows

-----------------------------------------------------------------------------
(* The content of the record.                                              *)

\* One element more of a prefix.
LEMMA PrefixGrows ==
    ASSUME NEW V, NEW q \in Seq(V), NEW k \in 1 .. Len(q)
    PROVE  /\ SubSeq(q, 1, k) = Append(SubSeq(q, 1, k - 1), q[k])
           /\ q[k] \in V
<1> DEFINE a == SubSeq(q, 1, k)
           b == SubSeq(q, 1, k - 1)
           e == Append(b, q[k])
<1>1. Len(q) \in Nat /\ k \in Nat /\ k - 1 \in Nat /\ q[k] \in V
  OBVIOUS
<1>2. a \in Seq(V) /\ Len(a) = k /\ \A i \in 1 .. k : a[i] = q[i]
  BY <1>1
<1>3. b \in Seq(V) /\ Len(b) = k - 1 /\ \A i \in 1 .. k - 1 : b[i] = q[i]
  BY <1>1
<1> HIDE DEF a, b
<1>4. e \in Seq(V) /\ Len(e) = (k - 1) + 1 /\ e[(k - 1) + 1] = q[k] /\ \A i \in 1 .. k - 1 : e[i] = b[i]
  BY <1>1, <1>3, AppendPrefixes
<1> HIDE DEF e
<1>5. \A i \in 1 .. k : a[i] = e[i]
  <2> TAKE i \in 1 .. k
  <2>1. CASE i = k
    <3>1. (k - 1) + 1 = k
      OBVIOUS
    <3> QED
      BY <1>1, <1>2, <1>4, <2>1, <3>1
  <2>2. CASE i # k
    <3>1. i \in 1 .. k - 1
      BY <2>2
    <3> QED
      BY <1>2, <1>3, <1>4, <3>1
  <2> QED
    BY <2>1, <2>2
<1>6. a = e
  BY <1>1, <1>2, <1>4, <1>5, SeqEqual
<1> QED
  BY <1>1, <1>6 DEF a, b, e


\* Two texts make none when neither does.
LEMMA NothingSaid ==
    ASSUME NEW V, NEW s \in Seq(V), NEW t \in Seq(V)
    PROVE  s \o t = << >> <=> s = << >> /\ t = << >>
<1>1. Len(s) \in Nat /\ Len(t) \in Nat /\ Len(s \o t) = Len(s) + Len(t) /\ s \o t \in Seq(V)
  OBVIOUS
<1>2. \A q \in Seq(V) : q = << >> <=> Len(q) = 0
  OBVIOUS
<1> QED
  BY <1>1, <1>2

AnyBlock == [kind : {"tool", "text", "reasoning"}, name : {Name, << >>},
             text : Seq(Tokens), opaque : Seq(Hidden)]

\* The kinds of blocks, and which of them the readers know.
LEMMA KindsAre ==
    ASSUME NEW p \in Protocols, NEW b, IsSaid(p, b)
    PROVE  /\ Known(b) => b.kind \in {"text", "tool", "reasoning", "thinking", "redacted"}
           /\ b.kind \in {"text", "tool", "reasoning", "thinking", "redacted"} => Known(b)
           /\ p = "openai" => b.kind \in {"text", "tool", "reasoning"}
           /\ p = "anthropic" => b.kind # "reasoning"
           /\ p = "responses" => b.kind \notin {"reasoning", "redacted"}
<1>1. b.kind \in KindsOf(p)
  BY DEF IsSaid
<1>2. CASE p = "openai"
  BY <1>1, <1>2, AnswerAssumption DEF KindsOf, KnownBlocks, Known
<1>3. CASE p = "anthropic"
  BY <1>1, <1>3, AnswerAssumption DEF KindsOf, KnownBlocks, Known
<1>4. CASE p = "responses"
  BY <1>1, <1>4, AnswerAssumption DEF KindsOf, KnownBlocks, Known
<1> QED
  BY <1>2, <1>3, <1>4 DEF Protocols

\* What the record says of a known block is what the block says.
LEMMA ShownPart ==
    ASSUME NEW p \in Protocols, NEW b, IsSaid(p, b)
    PROVE  /\ Known(b) => FoldScanBlock(Shown(p, b)) = Part(b)
           /\ ~ Known(b) => Part(b) = << >>
           /\ Part(b) \in Seq(AnyBlock)
<1>1. /\ b.text \in Seq(Tokens) /\ b.opaque \in Seq(Hidden) /\ b.name \in {Name, << >>}
      /\ b.kind = "redacted" => b.text = << >> /\ b.opaque = Redacted
      /\ b.kind \notin {"redacted", "thinking"} => b.opaque = << >>
  BY DEF IsSaid
<1>2. b.text \o b.opaque = << >> <=> b.text = << >> /\ b.opaque = << >>
  <2>1. b.text \in Seq(Tokens \cup Hidden) /\ b.opaque \in Seq(Tokens \cup Hidden)
    BY <1>1
  <2> QED
    BY <2>1, NothingSaid
<1>3. Part(b) \in Seq(AnyBlock)
  <2>1. \A y \in AnyBlock : <<y>> \in Seq(AnyBlock)
    OBVIOUS
  <2>2. << >> \in Seq(AnyBlock)
    OBVIOUS
  <2>3. Block("tool", b.name, b.text, << >>) \in AnyBlock
    BY <1>1 DEF Block, AnyBlock
  <2>4. Block(IF b.kind = "text" THEN "text" ELSE "reasoning", << >>, b.text, b.opaque) \in AnyBlock
    BY <1>1 DEF Block, AnyBlock
  <2> QED
    BY <2>1, <2>2, <2>3, <2>4 DEF Part
<1>4. ASSUME ~ Known(b) PROVE Part(b) = << >>
  <2>1. b.kind \in ForeignBlocks /\ b.kind # "tool"
    BY <1>4, AnswerAssumption DEF Known, KnownBlocks
  <2> QED
    BY <2>1 DEF Part
<1>5. ASSUME Known(b) PROVE FoldScanBlock(Shown(p, b)) = Part(b)
  <2> DEFINE f == Shown(p, b)
  <2>0. b.kind \notin ForeignBlocks
    BY <1>5 DEF Known
  <2>1. CASE b.kind = "tool"
    <3>1. f.meta = "tool" /\ f.name = b.name /\ f.args = b.text
      BY <2>1 DEF Shown
    <3> HIDE DEF f
    <3>2. FoldScanBlock(f) = <<Block("tool", b.name, b.text, << >>)>>
      BY <3>1 DEF FoldScanBlock, None
    <3> QED
      BY <2>1, <3>2 DEF Part, f
  <2>2. CASE b.kind = "text"
    <3>1. f.meta = "text" /\ f.text = b.text /\ f.args = << >> /\ b.opaque = << >>
      BY <1>1, <2>2 DEF Shown
    <3> HIDE DEF f
    <3>2. FoldScanBlock(f) = IF b.text = << >> THEN << >> ELSE <<Block("text", << >>, b.text, << >>)>>
      BY <3>1 DEF FoldScanBlock, None
    <3> QED
      BY <1>2, <2>0, <2>2, <3>1, <3>2 DEF Part, f
  <2>3. CASE b.kind = "reasoning"
    <3>1. /\ f.meta = "reasoning" /\ f.reasoning = b.text /\ f.signature = << >> /\ f.opaque = << >>
          /\ b.opaque = << >>
      BY <1>1, <2>3 DEF Shown
    <3> HIDE DEF f
    <3>2. FoldScanBlock(f) = IF b.text = << >> THEN << >> ELSE <<Block("reasoning", << >>, b.text, << >>)>>
      BY <3>1 DEF FoldScanBlock, None
    <3> QED
      BY <1>2, <2>0, <2>3, <3>1, <3>2 DEF Part, f
  <2>4. CASE b.kind = "thinking"
    <3>1. f.meta = "thinking" /\ f.reasoning = b.text
      BY <2>4 DEF Shown
    <3>2. (IF f.signature # << >> THEN f.signature ELSE f.opaque) = b.opaque
      <4>1. p \in {"anthropic", "responses"}
        BY <2>4, KindsAre DEF Protocols
      <4> QED
        BY <2>4, <4>1 DEF Shown
    <3> HIDE DEF f
    <3>3. FoldScanBlock(f) = IF b.text = << >> /\ b.opaque = << >> THEN << >>
                             ELSE <<Block("reasoning", << >>, b.text, b.opaque)>>
      BY <3>1, <3>2 DEF FoldScanBlock, None
    <3> QED
      BY <1>2, <2>0, <2>4, <3>3 DEF Part, f
  <2>5. CASE b.kind = "redacted"
    <3>1. f.meta = "redacted" /\ f.name = Redacted /\ Redacted # << >>
      BY <1>1, <2>5 DEF Shown, Redacted
    <3> HIDE DEF f
    <3>2. FoldScanBlock(f) = <<Block("reasoning", << >>, << >>, Redacted)>>
      BY <3>1 DEF FoldScanBlock, None
    <3> QED
      BY <1>1, <1>2, <2>0, <2>5, <3>1, <3>2 DEF Part, f
  <2> QED
    BY <1>5, <2>1, <2>2, <2>3, <2>4, <2>5, KindsAre
<1> QED
  BY <1>3, <1>4, <1>5

\* The content of the record is what the blocks say, one after the other.
LEMMA ContentIsSaid ==
    ASSUME NEW p \in Protocols, NEW s, NEW S, NEW B \in Seq(S), NEW c, NEW x, Shows(p, s, B, c, x),
           \A j \in 1 .. Len(B) : IsSaid(p, B[j])
    PROVE  Snapshot(s).content = FlattenSeq(EachOf(B, Part))
<1> DEFINE n == Len(B)
           V == {FoldScanBlock(s.blocks[i]) : i \in Nat}
           heard == EachOf(s.order, LAMBDA i : FoldScanBlock(s.blocks[i]))
           said == EachOf(B, Part)
           HeardTo(k) == SubSeq(heard, 1, k)
           SaidTo(j) == SubSeq(said, 1, j)
<1>1. Snapshot(s).content = FlattenSeq(heard)
  BY DEF Snapshot
<1>2. n \in Nat /\ DOMAIN B = 1 .. n
  OBVIOUS
<1>3. s.order \in Seq(Nat) /\ Len(s.order) = c[n] /\ Ranks(B, c, x)
  BY DEF Shows
<1>4. c \in [0 .. n -> Nat] /\ c[0] = 0 /\ x \in [1 .. n -> Nat]
  BY <1>3 DEF Ranks
<1>5. /\ heard \in Seq(V) /\ Len(heard) = c[n]
      /\ \A k \in 1 .. c[n] : heard[k] = FoldScanBlock(s.blocks[s.order[k]])
  <2>1. DOMAIN s.order = 1 .. c[n] /\ c[n] \in Nat /\ \A k \in 1 .. c[n] : s.order[k] \in Nat
    BY <1>2, <1>3, <1>4
  <2>2. heard = [k \in 1 .. c[n] |-> FoldScanBlock(s.blocks[s.order[k]])]
    BY <2>1 DEF EachOf
  <2> HIDE DEF heard
  <2>3. \A k \in 1 .. c[n] : heard[k] = FoldScanBlock(s.blocks[s.order[k]]) /\ heard[k] \in V
    BY <2>1, <2>2
  <2> HIDE DEF V
  <2>4. heard \in [1 .. c[n] -> V]
    BY <2>2, <2>3
  <2>5. heard \in Seq(V) /\ Len(heard) = c[n]
    BY <2>1, <2>4
  <2> QED
    BY <2>3, <2>5
<1>6. /\ said \in Seq(Seq(AnyBlock)) /\ Len(said) = n /\ \A j \in 1 .. n : said[j] = Part(B[j])
  <2>1. said = [j \in 1 .. n |-> Part(B[j])]
    BY <1>2 DEF EachOf
  <2>2. \A j \in 1 .. n : Part(B[j]) \in Seq(AnyBlock)
    BY ShownPart
  <2> HIDE DEF said
  <2>3. said \in [1 .. n -> Seq(AnyBlock)] /\ \A j \in 1 .. n : said[j] = Part(B[j])
    BY <2>1, <2>2
  <2> QED
    BY <1>2, <2>3
<1> HIDE DEF heard, said, V
<1> DEFINE T == {j \in Nat : j <= n => /\ HeardTo(c[j]) \in Seq(Seq(AnyBlock))
                                       /\ SaidTo(j) \in Seq(Seq(AnyBlock))
                                       /\ FlattenSeq(HeardTo(c[j])) = FlattenSeq(SaidTo(j))}
<1>7. 0 \in T
  <2>1. SubSeq(heard, 1, 0) = << >> /\ SubSeq(said, 1, 0) = << >>
    BY <1>5, <1>6
  <2>2. c[0] = 0 /\ FlattenSeq(<< >>) = FlattenSeq(<< >>) /\ << >> \in Seq(Seq(AnyBlock))
    BY <1>4
  <2>3. /\ HeardTo(c[0]) = << >> /\ SaidTo(0) = << >>
    BY <2>1, <2>2
  <2> HIDE DEF HeardTo, SaidTo, n
  <2> QED
    BY <2>2, <2>3
<1>8. ASSUME NEW j \in Nat, j \in T PROVE j + 1 \in T
  <2> SUFFICES ASSUME j + 1 <= n
               PROVE  /\ HeardTo(c[j + 1]) \in Seq(Seq(AnyBlock))
                      /\ SaidTo(j + 1) \in Seq(Seq(AnyBlock))
                      /\ FlattenSeq(HeardTo(c[j + 1])) = FlattenSeq(SaidTo(j + 1))
    OBVIOUS
  <2>1. j + 1 \in 1 .. n /\ (j + 1) - 1 = j /\ j \in 0 .. n /\ j + 1 \in 0 .. n /\ n \in 0 .. n
    BY <1>2
  <2>2. /\ HeardTo(c[j]) \in Seq(Seq(AnyBlock)) /\ SaidTo(j) \in Seq(Seq(AnyBlock))
        /\ FlattenSeq(HeardTo(c[j])) = FlattenSeq(SaidTo(j))
    BY <1>8, <2>1
  <2>3. SaidTo(j + 1) = Append(SaidTo(j), said[j + 1]) /\ said[j + 1] = Part(B[j + 1])
    BY <1>6, <2>1, PrefixGrows
  <2>4. IsSaid(p, B[j + 1]) /\ Part(B[j + 1]) \in Seq(AnyBlock)
    BY <2>1, ShownPart
  <2>5. c[j + 1] = IF Known(B[j + 1]) THEN c[j] + 1 ELSE c[j]
    BY <1>3, <2>1 DEF Ranks
  <2>6. c[j] \in Nat /\ c[j + 1] \in Nat /\ c[n] \in Nat /\ c[j + 1] <= c[n]
    <3>1. j + 1 \in 0 .. n /\ n \in 0 .. Len(B)
      BY <2>1
    <3>2. c[j + 1] <= c[n]
      BY <1>2, <1>3, <3>1, RanksGrow
    <3> QED
      BY <1>4, <2>1, <3>2
  <2> HIDE DEF HeardTo, SaidTo, n
  <2>7. /\ SaidTo(j + 1) \in Seq(Seq(AnyBlock))
        /\ FlattenSeq(SaidTo(j + 1)) = FlattenSeq(SaidTo(j)) \o Part(B[j + 1])
        /\ FlattenSeq(SaidTo(j)) \in Seq(AnyBlock)
    <3>1. Append(SaidTo(j), Part(B[j + 1])) \in Seq(Seq(AnyBlock))
      BY <2>2, <2>4
    <3> QED
      BY <2>2, <2>3, <2>4, <3>1, FlattenAppend
  <2>8. CASE Known(B[j + 1])
    <3>1. c[j + 1] \in 1 .. Len(heard) /\ c[j + 1] - 1 = c[j]
      BY <1>5, <2>5, <2>6, <2>8
    <3>2. HeardTo(c[j + 1]) = Append(HeardTo(c[j]), heard[c[j + 1]])
      BY <1>5, <3>1, PrefixGrows DEF HeardTo
    <3>3. heard[c[j + 1]] = Part(B[j + 1])
      <4>1. /\ s.order[c[j + 1]] = x[j + 1] /\ s.blocks[x[j + 1]] = Shown(p, B[j + 1])
        BY <2>1, <2>8 DEF Shows, n
      <4>2. heard[c[j + 1]] = FoldScanBlock(s.blocks[s.order[c[j + 1]]])
        BY <1>5, <3>1
      <4> QED
        BY <2>4, <2>8, <4>1, <4>2, ShownPart
    <3>4. Append(HeardTo(c[j]), Part(B[j + 1])) \in Seq(Seq(AnyBlock))
      BY <2>2, <2>4
    <3>5. FlattenSeq(Append(HeardTo(c[j]), Part(B[j + 1]))) = FlattenSeq(HeardTo(c[j])) \o Part(B[j + 1])
      BY <2>2, <2>4, FlattenAppend
    <3> QED
      BY <2>2, <2>7, <3>2, <3>3, <3>4, <3>5
  <2>9. CASE ~ Known(B[j + 1])
    <3>1. Part(B[j + 1]) = << >> /\ c[j + 1] = c[j]
      BY <2>4, <2>5, <2>9, ShownPart
    <3>2. FlattenSeq(SaidTo(j)) \o << >> = FlattenSeq(SaidTo(j))
      BY <2>7
    <3> QED
      BY <2>2, <2>7, <3>1, <3>2
  <2> QED
    BY <2>8, <2>9
<1>9. FlattenSeq(HeardTo(c[n])) = FlattenSeq(SaidTo(n))
  <2>1. n \in T
    <3> HIDE DEF T
    <3>1. Nat \subseteq T
      BY <1>7, <1>8, NatSetInduction
    <3> QED
      BY <1>2, <3>1
  <2> QED
    BY <1>2, <2>1
<1>10. HeardTo(c[n]) = heard /\ SaidTo(n) = said
  <2>1. SubSeq(heard, 1, Len(heard)) = heard
    BY <1>5
  <2>2. SubSeq(said, 1, Len(said)) = said
    BY <1>6
  <2> QED
    BY <1>5, <1>6, <2>1, <2>2
<1> QED
  BY <1>1, <1>9, <1>10 DEF said

-----------------------------------------------------------------------------
(* What the readers make of the frames of the model: OpenAI.               *)

\* Short sequences put together.
LEMMA EventsAre ==
    ASSUME NEW a, NEW b
    PROVE  /\ << >> \o << >> = << >>
           /\ << >> \o <<a>> = <<a>> /\ <<a>> \o << >> = <<a>>
           /\ <<a>> \o <<b>> = <<a, b>> /\ <<a, b>> \o << >> = <<a, b>>
<1>1. << >> \in Seq({a, b}) /\ <<a>> \in Seq({a, b}) /\ <<b>> \in Seq({a, b}) /\ <<a, b>> \in Seq({a, b})
  OBVIOUS
<1>2. \A s \in Seq({a, b}) : << >> \o s = s /\ s \o << >> = s
  OBVIOUS
<1>3. <<a>> \o <<b>> = <<a, b>>
  <2> DEFINE s == <<a>> \o <<b>>
             t == <<a, b>>
  <2>1. s \in Seq({a, b}) /\ Len(s) = 2 /\ s[1] = a /\ s[2] = b
    BY <1>1
  <2>2. t \in Seq({a, b}) /\ Len(t) = 2 /\ t[1] = a /\ t[2] = b
    OBVIOUS
  <2> HIDE DEF s, t
  <2>3. \A i \in 1 .. Len(s) : s[i] = t[i]
    BY <2>1, <2>2
  <2>4. s = t
    BY <2>1, <2>2, <2>3, SeqEqual
  <2> QED
    BY <2>4 DEF s, t
<1> QED
  BY <1>1, <1>2, <1>3

\* The state of the reader under way.
OpenAiState(d) ==
    /\ d = [started |-> d.started, text |-> d.text, reasoning |-> d.reasoning, tools |-> d.tools]
    /\ d.started = TRUE

\* A chunk with choices, of which it says what is given.
SaysOnly(f, reasoning, content, tools) ==
    /\ f.choices = TRUE /\ f.finish = None /\ f.present = FALSE
    /\ f.reasoning = reasoning /\ f.content = content /\ f.tools = tools

\* What is read of its pieces.
PiecesRead(d, reasoning, content, tools) ==
    FoldLeft(ProcessToolCallDelta,
             OpenAiText(OpenAiText(Read(<< >>, d), "reasoning", "reasoning", reasoning),
                        "text", "text", content),
             tools)

\* A chunk that only says something is read as its pieces are.
LEMMA ChunkOf ==
    ASSUME NEW d, OpenAiState(d), NEW f, NEW reasoning, NEW content, NEW tools,
           SaysOnly(f, reasoning, content, tools),
           NEW events, NEW e, PiecesRead(d, reasoning, content, tools) = Read(events, e)
    PROVE  ReadOpenAi(f, d) = Read(events \o << >>, e)
<1>1. [d EXCEPT !.started = TRUE] = d /\ d.started = TRUE
  BY DEF OpenAiState
<1>2. f.choices = TRUE /\ f.finish = None /\ f.present = FALSE
  BY DEF SaysOnly
<1>3. f.reasoning = reasoning /\ f.content = content /\ f.tools = tools
  BY DEF SaysOnly
<1> DEFINE r == PiecesRead(d, reasoning, content, tools)
<1>4. ReadOpenAi(f, d) = Read(r.events \o << >>, r.state)
  BY <1>1, <1>2, <1>3 DEF ReadOpenAi, PiecesRead
<1>5. r.events = events /\ r.state = e
  BY DEF Read
<1> HIDE DEF r
<1> QED
  BY <1>4, <1>5

\* A text or a reasoning that is not said changes nothing.
LEMMA NoText ==
    ASSUME NEW r, NEW field, NEW meta
    PROVE  OpenAiText(r, field, meta, << >>) = r
  BY DEF OpenAiText

\* A piece of a text or a reasoning that is open ...
LEMMA MoreText ==
    ASSUME NEW d, OpenAiState(d), NEW field \in {"text", "reasoning"}, NEW i,
           d[field] = [open |-> TRUE, index |-> i], NEW text, text # << >>
    PROVE  OpenAiText(Read(<< >>, d), field, field, text) = Read(<<BlockDelta(i, field, text)>>, d)
<1>1. d[field].open /\ d[field].index = i
  OBVIOUS
<1>2. [d EXCEPT ![field] = [open |-> TRUE, index |-> i]] = d
  BY DEF OpenAiState
<1>3. Read(<< >>, d).state = d /\ Read(<< >>, d).events = << >>
  BY DEF Read
<1>4. << >> \o << >> \o <<BlockDelta(i, field, text)>> = <<BlockDelta(i, field, text)>>
  BY EventsAre
<1> QED
  BY <1>1, <1>2, <1>3, <1>4 DEF OpenAiText

\* ... and the first piece of one.
LEMMA FirstText ==
    ASSUME NEW d, OpenAiState(d), NEW field \in {"text", "reasoning"}, d[field] = Closed,
           NEW text, text # << >>, NEW i, i = NextFreeBlockIndex(d)
    PROVE  OpenAiText(Read(<< >>, d), field, field, text) =
             Read(<<BlockStart(i, field, << >>), BlockDelta(i, field, text)>>,
                  [d EXCEPT ![field] = [open |-> TRUE, index |-> i]])
<1>1. ~ d[field].open
  BY DEF Closed
<1>3. Read(<< >>, d).state = d /\ Read(<< >>, d).events = << >>
  BY DEF Read
<1>4. \A a, b : << >> \o <<a>> \o <<b>> = <<a, b>>
  BY EventsAre
<1> QED
  BY <1>1, <1>3, <1>4 DEF OpenAiText

\* A call that begins, and the arguments of one.
LEMMA CallBegins ==
    ASSUME NEW d, OpenAiState(d), NEW at, at \notin DOMAIN d.tools, NEW i, i = NextFreeBlockIndex(d)
    PROVE  ProcessToolCallDelta(Read(<< >>, d), ToolCall(at, Name, << >>)) =
             Read(<<BlockStart(i, "tool", Name)>>, [d EXCEPT !.tools = Put(d.tools, at, i)])
<1> DEFINE call == ToolCall(at, Name, << >>)
           q == Put(d.tools, at, i)
<1>1. call.index = at /\ call.name = Name /\ call.name # << >> /\ call.args = << >>
  BY AnswerAssumption DEF ToolCall
<1>2. q[at] = i
  BY DEF Put
<1>3. Read(<< >>, d).state = d /\ Read(<< >>, d).events = << >>
  BY DEF Read
<1>4. \A a : << >> \o <<a>> \o << >> = <<a>>
  BY EventsAre
<1> HIDE DEF call, q
<1>5. ProcessToolCallDelta(Read(<< >>, d), call) =
        Read(<< >> \o <<BlockStart(q[at], "tool", Name)>> \o << >>, [d EXCEPT !.tools = q])
  BY <1>1, <1>3 DEF ProcessToolCallDelta, q
<1> QED
  BY <1>2, <1>4, <1>5 DEF call, q

\* Arguments of a call that has begun go to its block.
LEMMA CallArguments ==
    ASSUME NEW d, OpenAiState(d), NEW at, at \in DOMAIN d.tools, NEW text
    PROVE  ProcessToolCallDelta(Read(<< >>, d), ToolCall(at, << >>, text)) =
             Read(IF text = << >> THEN << >> ELSE <<BlockDelta(d.tools[at], "args", text)>>, d)
<1> DEFINE call == ToolCall(at, << >>, text)
<1>1. call.index = at /\ call.name = << >> /\ call.args = text
  BY DEF ToolCall
<1>2. [d EXCEPT !.tools = d.tools] = d
  BY DEF OpenAiState
<1>3. Read(<< >>, d).state = d /\ Read(<< >>, d).events = << >>
  BY DEF Read
<1>4. << >> \o << >> = << >> /\ \A a : << >> \o << >> \o <<a>> = <<a>>
  BY EventsAre
<1> HIDE DEF call
<1>5. ProcessToolCallDelta(Read(<< >>, d), call) =
        Read(<< >> \o << >> \o (IF text = << >> THEN << >> ELSE <<BlockDelta(d.tools[at], "args", text)>>),
             [d EXCEPT !.tools = d.tools])
  BY <1>1, <1>3 DEF ProcessToolCallDelta
<1> QED
  BY <1>2, <1>4, <1>5 DEF call

\* The chunks of the model.
LEMMA ChunksAre ==
    ASSUME NEW text, NEW call
    PROVE  /\ SaysOnly([Chunk EXCEPT !.content = text], << >>, text, << >>)
           /\ SaysOnly([Chunk EXCEPT !.reasoning = text], text, << >>, << >>)
           /\ SaysOnly([Chunk EXCEPT !.tools = <<call>>], << >>, << >>, <<call>>)
<1>1. SaysOnly([Chunk EXCEPT !.content = text], << >>, text, << >>)
  BY DEF Chunk, SaysOnly
<1>2. SaysOnly([Chunk EXCEPT !.reasoning = text], text, << >>, << >>)
  BY DEF Chunk, SaysOnly
<1>3. SaysOnly([Chunk EXCEPT !.tools = <<call>>], << >>, << >>, <<call>>)
  BY DEF Chunk, SaysOnly
<1> QED
  BY <1>1, <1>2, <1>3

\* The chunk with a piece of text or of reasoning.
Speech(field, text) ==
    IF field = "text" THEN [Chunk EXCEPT !.content = text] ELSE [Chunk EXCEPT !.reasoning = text]

\* A chunk with text, or with reasoning, and nothing else.
LEMMA ReadSpeech ==
    ASSUME NEW d, OpenAiState(d), NEW field \in {"text", "reasoning"}, NEW text,
           NEW events, NEW e, OpenAiText(Read(<< >>, d), field, field, text) = Read(events, e)
    PROVE  ReadOpenAi(Speech(field, text), d) = Read(events \o << >>, e)
<1> DEFINE r0 == Read(<< >>, d)
           r1 == Read(events, e)
<1> HIDE DEF r0, r1
<1>0. OpenAiText(r0, field, field, text) = r1
  BY DEF r0, r1
<1>1. CASE field = "text"
  <2>1. SaysOnly(Speech(field, text), << >>, text, << >>)
    BY <1>1, ChunksAre DEF Speech
  <2>2. OpenAiText(r0, "reasoning", "reasoning", << >>) = r0
    BY NoText
  <2>3. PiecesRead(d, << >>, text, << >>) = FoldLeft(ProcessToolCallDelta, r1, << >>)
    BY <1>0, <1>1, <2>2 DEF PiecesRead, r0
  <2>4. PiecesRead(d, << >>, text, << >>) = r1
    BY <2>3, NoCall
  <2> DEFINE f == Speech(field, text)
  <2> HIDE DEF f
  <2>5. ReadOpenAi(f, d) = Read(events \o << >>, e)
    BY <2>1, <2>4, ChunkOf DEF r1, f
  <2> QED
    BY <2>5 DEF f
<1>2. CASE field = "reasoning"
  <2>1. SaysOnly(Speech(field, text), text, << >>, << >>)
    BY <1>2, ChunksAre DEF Speech
  <2>2. OpenAiText(r1, "text", "text", << >>) = r1
    BY NoText
  <2>3. PiecesRead(d, text, << >>, << >>) = FoldLeft(ProcessToolCallDelta, r1, << >>)
    BY <1>0, <1>2, <2>2 DEF PiecesRead, r0
  <2>4. PiecesRead(d, text, << >>, << >>) = r1
    BY <2>3, NoCall
  <2> DEFINE f == Speech(field, text)
  <2> HIDE DEF f
  <2>5. ReadOpenAi(f, d) = Read(events \o << >>, e)
    BY <2>1, <2>4, ChunkOf DEF r1, f
  <2> QED
    BY <2>5 DEF f
<1> QED
  BY <1>1, <1>2

\* The chunk with a call.
LEMMA ReadCall ==
    ASSUME NEW d, OpenAiState(d), NEW call,
           NEW events, NEW e, ProcessToolCallDelta(Read(<< >>, d), call) = Read(events, e)
    PROVE  ReadOpenAi([Chunk EXCEPT !.tools = <<call>>], d) = Read(events \o << >>, e)
<1> DEFINE r0 == Read(<< >>, d)
           r1 == Read(events, e)
<1> HIDE DEF r0, r1
<1>0. ProcessToolCallDelta(r0, call) = r1
  BY DEF r0, r1
<1>1. SaysOnly([Chunk EXCEPT !.tools = <<call>>], << >>, << >>, <<call>>)
  BY ChunksAre
<1>2. OpenAiText(r0, "reasoning", "reasoning", << >>) = r0 /\ OpenAiText(r0, "text", "text", << >>) = r0
  BY NoText
<1>3. PiecesRead(d, << >>, << >>, <<call>>) = FoldLeft(ProcessToolCallDelta, r0, <<call>>)
  BY <1>2 DEF PiecesRead, r0
<1>4. PiecesRead(d, << >>, << >>, <<call>>) = r1
  BY <1>0, <1>3, OneCall
<1> DEFINE f == [Chunk EXCEPT !.tools = <<call>>]
           calls == <<call>>
<1>5. SaysOnly(f, << >>, << >>, calls) /\ PiecesRead(d, << >>, << >>, calls) = Read(events, e)
  BY <1>1, <1>4 DEF r1
<1> HIDE DEF f, calls
<1>6. ReadOpenAi(f, d) = Read(events \o << >>, e)
  BY <1>5, ChunkOf
<1> QED
  BY <1>6 DEF f

-----------------------------------------------------------------------------
(* What reading a frame does to the scan.                                  *)

\* g is f with the value v at k.
IsPut(g, f, k, v) ==
    /\ DOMAIN g = DOMAIN f \cup {k} /\ g[k] = v
    /\ \A j \in DOMAIN f : j # k => g[j] = f[j]

\* Put puts.
LEMMA PutIs == ASSUME NEW f, NEW k, NEW v PROVE IsPut(Put(f, k, v), f, k, v)
  BY DEF Put, IsPut

\* Two scans that agree but for their decoders change alike.
LEMMA DecoderApart ==
    ASSUME NEW r, NEW t, NEW s, Stays(t, s), NEW i, NEW meta, NEW name, NEW kind, NEW text,
           NEW input, NEW output, NEW present
    PROVE  /\ Stays(r, t) => Stays(r, s)
           /\ Starts(r, t, i, meta, name) => Starts(r, s, i, meta, name)
           /\ Says(r, t, i, kind, text) => Says(r, s, i, kind, text)
           /\ Counts(r, t, input, output, present) => Counts(r, s, input, output, present)
<1>1. /\ t.blocks = s.blocks /\ t.order = s.order /\ t.usage = s.usage /\ t.seen = s.seen
      /\ At(t, i) = At(s, i)
  BY DEF Stays, SameBlocks, SameUsage, At
<1>2. Stays(r, t) => Stays(r, s)
  BY <1>1 DEF Stays, SameBlocks, SameUsage
<1>3. Starts(r, t, i, meta, name) => Starts(r, s, i, meta, name)
  BY <1>1 DEF Starts, SameUsage
<1>4. Says(r, t, i, kind, text) => Says(r, s, i, kind, text)
  BY <1>1 DEF Says, SameUsage
<1>5. Counts(r, t, input, output, present) => Counts(r, s, input, output, present)
  BY <1>1 DEF Counts, SameBlocks
<1> QED
  BY <1>2, <1>3, <1>4, <1>5

\* A frame without an event, and with one of no concern.
LEMMA ReadNothing ==
    ASSUME NEW p, NEW f, NEW s, IsScan(s), NEW e,
           ReadResponseEvents(p, f, s.decode) = Read(<< >>, e)
    PROVE  Stays(ScanFrame(p, s, f), s) /\ ScanFrame(p, s, f).decode = e
<1>1. ScanFrame(p, s, f) = [s EXCEPT !.decode = e]
  BY NoEvent DEF ScanFrame
<1> QED
  BY <1>1, DecoderSet

\* A frame with an event that changes nothing.
LEMMA ReadQuiet ==
    ASSUME NEW p, NEW f, NEW s, IsScan(s), NEW e, NEW ev, \A t : ApplyEvent(t, ev) = t,
           ReadResponseEvents(p, f, s.decode) = Read(<<ev>>, e)
    PROVE  Stays(ScanFrame(p, s, f), s) /\ ScanFrame(p, s, f).decode = e
<1>1. ScanFrame(p, s, f) = ApplyEvent([s EXCEPT !.decode = e], ev)
  BY OneEvent DEF ScanFrame
<1>2. ScanFrame(p, s, f) = [s EXCEPT !.decode = e]
  BY <1>1
<1> QED
  BY <1>2, DecoderSet

\* r comes from s by a block that starts with its first piece.
Opens(r, s, i, meta, name, kind, text) ==
    \E q : Starts(q, s, i, meta, name) /\ Says(r, q, i, kind, text)

\* A frame that starts a block, that says a piece of one, and that does both.
LEMMA ReadStart ==
    ASSUME NEW p, NEW f, NEW s, IsScan(s), NEW e, NEW i, NEW meta, NEW name,
           ReadResponseEvents(p, f, s.decode) = Read(<<BlockStart(i, meta, name)>>, e)
    PROVE  Starts(ScanFrame(p, s, f), s, i, meta, name) /\ ScanFrame(p, s, f).decode = e
<1> DEFINE t == [s EXCEPT !.decode = e]
<1>1. ScanFrame(p, s, f) = ApplyEvent(t, BlockStart(i, meta, name))
  BY OneEvent DEF ScanFrame
<1>2. Stays(t, s) /\ t.decode = e /\ IsScan(t)
  BY DecoderSet DEF Stays
<1> HIDE DEF t
<1>3. Starts(ScanFrame(p, s, f), t, i, meta, name) /\ ScanFrame(p, s, f).decode = e
  BY <1>1, <1>2, BlockStarts
<1> QED
  BY <1>2, <1>3, DecoderApart

\* A frame with one delta.
LEMMA ReadDelta ==
    ASSUME NEW p, NEW f, NEW s, IsScan(s), NEW e, NEW i, NEW kind, NEW text,
           ReadResponseEvents(p, f, s.decode) = Read(<<BlockDelta(i, kind, text)>>, e)
    PROVE  Says(ScanFrame(p, s, f), s, i, kind, text) /\ ScanFrame(p, s, f).decode = e
<1> DEFINE t == [s EXCEPT !.decode = e]
<1>1. ScanFrame(p, s, f) = ApplyEvent(t, BlockDelta(i, kind, text))
  BY OneEvent DEF ScanFrame
<1>2. Stays(t, s) /\ t.decode = e /\ IsScan(t)
  BY DecoderSet DEF Stays
<1> HIDE DEF t
<1>3. Says(ScanFrame(p, s, f), t, i, kind, text) /\ ScanFrame(p, s, f).decode = e
  BY <1>1, <1>2, DeltaArrives
<1> QED
  BY <1>2, <1>3, DecoderApart

\* A frame that starts a block and says its first piece.
LEMMA ReadFirst ==
    ASSUME NEW p, NEW f, NEW s, IsScan(s), NEW e, NEW i, NEW meta, NEW name, NEW kind, NEW text,
           ReadResponseEvents(p, f, s.decode) =
             Read(<<BlockStart(i, meta, name), BlockDelta(i, kind, text)>>, e)
    PROVE  /\ Opens(ScanFrame(p, s, f), s, i, meta, name, kind, text)
           /\ ScanFrame(p, s, f).decode = e
<1> DEFINE t == [s EXCEPT !.decode = e]
           r == ApplyEvent(t, BlockStart(i, meta, name))
<1>1. ScanFrame(p, s, f) = ApplyEvent(r, BlockDelta(i, kind, text))
  BY TwoEvents DEF ScanFrame
<1>2. Stays(t, s) /\ t.decode = e /\ IsScan(t)
  BY DecoderSet DEF Stays
<1> HIDE DEF t
<1>3. Starts(r, t, i, meta, name) /\ r.decode = e
  BY <1>2, BlockStarts
<1> HIDE DEF r
<1>4. IsScan(r)
  BY <1>3 DEF Starts
<1>5. Says(ScanFrame(p, s, f), r, i, kind, text) /\ ScanFrame(p, s, f).decode = e
  BY <1>1, <1>3, <1>4, DeltaArrives
<1>6. Starts(r, s, i, meta, name)
  BY <1>2, <1>3, DecoderApart
<1> QED
  BY <1>5, <1>6 DEF Opens

\* A frame with usage, alone or before the stop.
TellsUsage(read, stop, usage, present, e) ==
    \/ read = Read(<<MessageDelta(stop, usage, present)>>, e)
    \/ read = Read(<<MessageDelta(stop, usage, present), MessageStop>>, e)

\* A frame that tells the usage.
LEMMA ReadUsage ==
    ASSUME NEW p, NEW f, NEW s, IsScan(s), NEW e, NEW stop, NEW usage, NEW present,
           TellsUsage(ReadResponseEvents(p, f, s.decode), stop, usage, present, e)
    PROVE  /\ Counts(ScanFrame(p, s, f), s, KnownNumber(s.usage.input, usage.input),
                     KnownNumber(s.usage.output, usage.output), present)
           /\ ScanFrame(p, s, f).decode = e
<1> DEFINE t == [s EXCEPT !.decode = e]
           ev == MessageDelta(stop, usage, present)
<1>1. ScanFrame(p, s, f) = ApplyEvent(t, ev)
  <2>1. ScanFrame(p, s, f) \in {ApplyEvent(t, ev), ApplyEvent(ApplyEvent(t, ev), MessageStop)}
    BY OneEvent, TwoEvents DEF ScanFrame, TellsUsage
  <2>2. ApplyEvent(ApplyEvent(t, ev), MessageStop) = ApplyEvent(t, ev)
    BY QuietEvent
  <2> QED
    BY <2>1, <2>2
<1>2. Stays(t, s) /\ IsScan(t) /\ t.decode = e
  BY DecoderSet DEF Stays
<1>3. t.usage = s.usage
  BY <1>2 DEF Stays, SameUsage
<1> HIDE DEF t
<1>4. PICK x, y : x = KnownNumber(s.usage.input, usage.input) /\ y = KnownNumber(s.usage.output, usage.output)
  OBVIOUS
<1>5. PICK r : r = ApplyEvent(t, ev)
  OBVIOUS
<1>6. Counts(r, t, x, y, present) /\ r.decode = e
  BY <1>2, <1>3, <1>4, <1>5, UsageArrives
<1> HIDE DEF ev
<1>7. Counts(r, s, x, y, present)
  BY <1>2, <1>6, DecoderApart
<1> QED
  BY <1>1, <1>4, <1>5, <1>6, <1>7

-----------------------------------------------------------------------------
(* What that does to the blocks the scan shows.                            *)

\* A block changes, and the others do not.
LEMMA ChangeShows ==
    ASSUME NEW p, NEW s, NEW r, NEW S, NEW B \in Seq(S), NEW c, NEW x, Shows(p, s, B, c, x),
           NEW j \in 1 .. Len(B), NEW b, r.order = s.order, Known(b) <=> Known(B[j]),
           \A k \in 1 .. Len(B) : k # j /\ Known(B[k]) =>
              x[k] \in DOMAIN r.blocks /\ r.blocks[x[k]] = s.blocks[x[k]],
           Known(b) => x[j] \in DOMAIN r.blocks /\ r.blocks[x[j]] = Shown(p, b)
    PROVE  Shows(p, r, [B EXCEPT ![j] = b], c, x)
<1> DEFINE D == [B EXCEPT ![j] = b]
<1>1. /\ Len(D) = Len(B) /\ D[j] = b
      /\ \A k \in 1 .. Len(B) : k # j => D[k] = B[k]
  OBVIOUS
<1> HIDE DEF D
<1>2. ASSUME NEW k \in 1 .. Len(B) PROVE Known(D[k]) <=> Known(B[k])
  BY <1>1
<1>3. ASSUME NEW k \in 1 .. Len(B), Known(B[k])
      PROVE  x[k] \in DOMAIN r.blocks /\ r.blocks[x[k]] = Shown(p, D[k])
  <2>1. CASE k = j
    BY <1>1, <1>3, <2>1
  <2>2. CASE k # j
    <3>1. s.blocks[x[k]] = Shown(p, B[k])
      BY <1>3 DEF Shows
    <3> QED
      BY <1>1, <1>3, <2>2, <3>1
  <2> QED
    BY <2>1, <2>2
<1> QED
  BY <1>1, <1>2, <1>3, SameRanksShow DEF D

\* The field of the scan that a piece of a block belongs to.
FieldOf(kind) == IF kind = "tool" THEN "args" ELSE IF kind = "text" THEN "text" ELSE "reasoning"

\* A block of the scan, a field of which grows.
BlockOf(m, n, t, a, r, g, o) ==
    [meta |-> m, name |-> n, text |-> t, args |-> a, reasoning |-> r, signature |-> g, opaque |-> o]

\* Each field of a scanned block by itself.
LEMMA FieldGrows ==
    ASSUME NEW m, NEW n, NEW t, NEW a, NEW r, NEW g, NEW o, NEW more
    PROVE  LET v == BlockOf(m, n, t, a, r, g, o)
           IN  /\ Grown(v, "text", more) = BlockOf(m, n, t \o more, a, r, g, o)
               /\ Grown(v, "args", more) = BlockOf(m, n, t, a \o more, r, g, o)
               /\ Grown(v, "reasoning", more) = BlockOf(m, n, t, a, r \o more, g, o)
               /\ Grown(v, "signature", more) = BlockOf(m, n, t, a, r, g \o more, o)
               /\ Grown(v, "opaque", more) = BlockOf(m, n, t, a, r, g, o \o more)
<1> DEFINE v == BlockOf(m, n, t, a, r, g, o)
           t1 == t \o more
           a1 == a \o more
           r1 == r \o more
           g1 == g \o more
           o1 == o \o more
<1>1. /\ v["text"] = t /\ v["args"] = a /\ v["reasoning"] = r /\ v["signature"] = g /\ v["opaque"] = o
  BY DEF BlockOf
<1>2. /\ Grown(v, "text", more) = [v EXCEPT !["text"] = t1]
      /\ Grown(v, "args", more) = [v EXCEPT !["args"] = a1]
      /\ Grown(v, "reasoning", more) = [v EXCEPT !["reasoning"] = r1]
      /\ Grown(v, "signature", more) = [v EXCEPT !["signature"] = g1]
      /\ Grown(v, "opaque", more) = [v EXCEPT !["opaque"] = o1]
  BY <1>1 DEF Grown
<1> HIDE DEF t1, a1, r1, g1, o1
<1>3. [v EXCEPT !["text"] = t1] = BlockOf(m, n, t1, a, r, g, o)
  BY DEF BlockOf
<1>4. [v EXCEPT !["args"] = a1] = BlockOf(m, n, t, a1, r, g, o)
  BY DEF BlockOf
<1>5. [v EXCEPT !["reasoning"] = r1] = BlockOf(m, n, t, a, r1, g, o)
  BY DEF BlockOf
<1>6. [v EXCEPT !["signature"] = g1] = BlockOf(m, n, t, a, r, g1, o)
  BY DEF BlockOf
<1>7. [v EXCEPT !["opaque"] = o1] = BlockOf(m, n, t, a, r, g, o1)
  BY DEF BlockOf
<1> HIDE DEF v
<1>8. /\ Grown(v, "text", more) = BlockOf(m, n, t1, a, r, g, o)
      /\ Grown(v, "args", more) = BlockOf(m, n, t, a1, r, g, o)
      /\ Grown(v, "reasoning", more) = BlockOf(m, n, t, a, r1, g, o)
      /\ Grown(v, "signature", more) = BlockOf(m, n, t, a, r, g1, o)
      /\ Grown(v, "opaque", more) = BlockOf(m, n, t, a, r, g, o1)
  BY <1>2, <1>3, <1>4, <1>5, <1>6, <1>7
<1> QED
  BY <1>8 DEF v, t1, a1, r1, g1, o1

\* The block b is a, of which one more piece was said.
Longer(a, b, text) ==
    /\ a.kind \in {"text", "tool", "reasoning", "thinking"}
    /\ b.kind = a.kind /\ b.name = a.name /\ b.opaque = a.opaque
    /\ b.text = a.text \o text

\* What is shown of a block grows as the block does.
LEMMA ShownGrows ==
    ASSUME NEW p, NEW a, NEW b, NEW text, Longer(a, b, text)
    PROVE  Grown(Shown(p, a), FieldOf(b.kind), text) = Shown(p, b) /\ (Known(b) <=> Known(a))
<1>1. PICK g, u, v : g = Shown(p, a) /\ u = a.text /\ v = Grown(g, FieldOf(b.kind), text)
  OBVIOUS
<1>2. v = Shown(p, b)
  <2>1. CASE b.kind = "text"
    <3>1. g = BlockOf("text", b.name, u, << >>, << >>, << >>, << >>)
      BY <1>1, <2>1 DEF Shown, BlockOf, Longer
    <3>2. Shown(p, b) = BlockOf("text", b.name, u \o text, << >>, << >>, << >>, << >>)
      BY <1>1, <2>1 DEF Shown, BlockOf, Longer
    <3>3. v = Grown(g, "text", text)
      BY <1>1, <2>1 DEF FieldOf
    <3> QED
      BY <3>1, <3>2, <3>3, FieldGrows
  <2>2. CASE b.kind = "tool"
    <3>1. g = BlockOf("tool", b.name, << >>, u, << >>, << >>, << >>)
      BY <1>1, <2>2 DEF Shown, BlockOf, Longer
    <3>2. Shown(p, b) = BlockOf("tool", b.name, << >>, u \o text, << >>, << >>, << >>)
      BY <1>1, <2>2 DEF Shown, BlockOf, Longer
    <3>3. v = Grown(g, "args", text)
      BY <1>1, <2>2 DEF FieldOf
    <3> QED
      BY <3>1, <3>2, <3>3, FieldGrows
  <2>3. CASE b.kind \in {"reasoning", "thinking"}
    <3>0. PICK e, w : /\ e = IF b.kind = "thinking" /\ p = "anthropic" THEN b.opaque ELSE << >>
                      /\ w = IF b.kind = "thinking" /\ p = "responses" THEN b.opaque ELSE << >>
      OBVIOUS
    <3>1. g = BlockOf(b.kind, b.name, << >>, << >>, u, e, w)
      BY <1>1, <2>3, <3>0 DEF Shown, BlockOf, Longer
    <3>2. Shown(p, b) = BlockOf(b.kind, b.name, << >>, << >>, u \o text, e, w)
      BY <1>1, <2>3, <3>0 DEF Shown, BlockOf, Longer
    <3>3. v = Grown(g, "reasoning", text)
      BY <1>1, <2>3 DEF FieldOf
    <3> QED
      BY <3>1, <3>2, <3>3, FieldGrows
  <2> QED
    BY <2>1, <2>2, <2>3 DEF Longer
<1> QED
  BY <1>1, <1>2 DEF Known, Longer

\* D is B, in which the jth block has become b.
Becomes(D, B, j, b) == D = [B EXCEPT ![j] = b]

\* The block b is a with more in a field.
Grows(p, a, b, field, text) ==
    Grown(Shown(p, a), field, text) = Shown(p, b) /\ (Known(b) <=> Known(a))

\* What a block grows by is shown of it.
LEMMA GrowthShows ==
    ASSUME NEW p, NEW s, NEW r, NEW S, NEW B \in Seq(S), NEW c, NEW x, Shows(p, s, B, c, x),
           NEW j \in 1 .. Len(B), Known(B[j]), NEW b, NEW field, NEW text,
           Grows(p, B[j], b, field, text), Says(r, s, x[j], field, text), NEW D, Becomes(D, B, j, b)
    PROVE  Shows(p, r, D, c, x) /\ DOMAIN r.blocks = DOMAIN s.blocks
<1>1. /\ x[j] \in DOMAIN s.blocks /\ s.blocks[x[j]] = Shown(p, B[j])
      /\ \A k \in 1 .. Len(B) : Known(B[k]) => x[k] \in DOMAIN s.blocks
      /\ \A k \in 1 .. Len(B) : k # j /\ Known(B[k]) => x[k] # x[j]
  BY DEF Shows
<1>2. PICK v : v = Grown(Shown(p, B[j]), field, text)
  OBVIOUS
<1>3. r.order = s.order /\ r.blocks = Put(s.blocks, x[j], v)
  BY <1>1, <1>2 DEF Says, At
<1>4. v = Shown(p, b) /\ (Known(b) <=> Known(B[j]))
  BY <1>2 DEF Grows
<1>5. /\ DOMAIN r.blocks = DOMAIN s.blocks \cup {x[j]} /\ r.blocks[x[j]] = Shown(p, b)
      /\ \A i \in DOMAIN s.blocks : i # x[j] => r.blocks[i] = s.blocks[i]
  <2>1. IsPut(r.blocks, s.blocks, x[j], v)
    BY <1>3, PutIs
  <2> QED
    BY <1>4, <2>1 DEF IsPut
<1>6. \A k \in 1 .. Len(B) : k # j /\ Known(B[k]) =>
         x[k] \in DOMAIN r.blocks /\ r.blocks[x[k]] = s.blocks[x[k]]
  BY <1>1, <1>5
<1>7. Shows(p, r, [B EXCEPT ![j] = b], c, x)
  BY <1>1, <1>3, <1>4, <1>5, <1>6, ChangeShows
<1> QED
  BY <1>1, <1>5, <1>7 DEF Becomes

\* What is said of a block is shown of it.
LEMMA PieceShows ==
    ASSUME NEW p, NEW s, NEW r, NEW S, NEW B \in Seq(S), NEW c, NEW x, Shows(p, s, B, c, x),
           NEW j \in 1 .. Len(B), Known(B[j]), NEW b, NEW text, Longer(B[j], b, text),
           Says(r, s, x[j], FieldOf(b.kind), text), NEW D, Becomes(D, B, j, b)
    PROVE  Shows(p, r, D, c, x) /\ DOMAIN r.blocks = DOMAIN s.blocks
<1>1. PICK field : field = FieldOf(b.kind)
  OBVIOUS
<1>2. Grows(p, B[j], b, field, text)
  BY <1>1, ShownGrows DEF Grows
<1>3. Says(r, s, x[j], field, text)
  BY <1>1
<1> QED
  BY <1>2, <1>3, GrowthShows

\* A block before anything is said of it, and the name it starts with.
Fresh(b, name) ==
    /\ Known(b) /\ b.text = << >> /\ (b.kind = "redacted" \/ b.opaque = << >>)
    /\ name = IF b.kind = "redacted" THEN b.opaque ELSE b.name

\* A scanned block of which only the start is known shows a block that starts.
LEMMA FreshShown ==
    ASSUME NEW p, NEW b, NEW name, Fresh(b, name)
    PROVE  [ScanBlock EXCEPT !.meta = b.kind, !.name = name] = Shown(p, b)
<1>1. PICK m, v : m = b.kind /\ v = [ScanBlock EXCEPT !.meta = b.kind, !.name = name]
  OBVIOUS
<1>2. v = [meta |-> m, name |-> name, text |-> << >>, args |-> << >>,
           reasoning |-> << >>, signature |-> << >>, opaque |-> << >>]
  BY <1>1 DEF ScanBlock
<1>3. Shown(p, b) = [meta |-> m, name |-> name, text |-> << >>, args |-> << >>,
                     reasoning |-> << >>, signature |-> << >>, opaque |-> << >>]
  BY <1>1 DEF Shown, Fresh
<1> QED
  BY <1>1, <1>2, <1>3

\* A block that starts is shown with what it starts with ...
LEMMA StartShows ==
    ASSUME NEW p, NEW s, NEW r, NEW S, NEW B \in Seq(S), NEW b \in S, NEW c, NEW x,
           Shows(p, s, B, c, x), NEW name, Fresh(b, name), NEW i \in Nat, i \notin DOMAIN s.blocks,
           Starts(r, s, i, b.kind, name)
    PROVE  DOMAIN r.blocks = DOMAIN s.blocks \cup {i} /\ ShowsMore(p, r, B, b, c, x, i)
<1>1. PICK v : v = [ScanBlock EXCEPT !.meta = b.kind, !.name = name]
  OBVIOUS
<1>2. r.order = Append(s.order, i) /\ r.blocks = Put(s.blocks, i, v)
  BY <1>1 DEF Starts, At
<1>3. v = Shown(p, b)
  BY <1>1, FreshShown
<1>4. /\ DOMAIN r.blocks = DOMAIN s.blocks \cup {i} /\ r.blocks[i] = Shown(p, b)
      /\ \A k \in DOMAIN s.blocks : k # i => r.blocks[k] = s.blocks[k]
  <2>1. IsPut(r.blocks, s.blocks, i, v)
    BY <1>2, PutIs
  <2> QED
    BY <1>3, <2>1 DEF IsPut
<1>5. /\ i \in DOMAIN r.blocks /\ Known(b)
      /\ \A k \in DOMAIN s.blocks : k \in DOMAIN r.blocks /\ r.blocks[k] = s.blocks[k]
  BY <1>4 DEF Fresh
<1>6. ShowsMore(p, r, B, b, c, x, i)
  BY <1>2, <1>4, <1>5, NewBlockShows
<1> QED
  BY <1>4, <1>6

\* ... and with its first piece, when that comes with it.
LEMMA FirstPieceShows ==
    ASSUME NEW p, NEW s, NEW r, NEW S, NEW B \in Seq(S), NEW b \in S, NEW c, NEW x,
           Shows(p, s, B, c, x), Known(b), NEW a, NEW name, Fresh(a, name), NEW text,
           Longer(a, b, text), NEW i \in Nat, i \notin DOMAIN s.blocks,
           NEW kind, kind = a.kind, NEW field, field = FieldOf(b.kind),
           Opens(r, s, i, kind, name, field, text)
    PROVE  DOMAIN r.blocks = DOMAIN s.blocks \cup {i} /\ ShowsMore(p, r, B, b, c, x, i)
<1>1. PICK q : Starts(q, s, i, a.kind, name) /\ Says(r, q, i, FieldOf(b.kind), text)
  BY DEF Opens
<1>2. PICK u, v : /\ u = [ScanBlock EXCEPT !.meta = a.kind, !.name = name]
                  /\ v = Grown(u, FieldOf(b.kind), text)
  OBVIOUS
<1>3. u = Shown(p, a)
  BY <1>2, FreshShown
<1>4. v = Shown(p, b)
  BY <1>2, <1>3, ShownGrows
<1>5. q.order = Append(s.order, i) /\ q.blocks = Put(s.blocks, i, u)
  BY <1>1, <1>2 DEF Starts, At
<1>6. /\ DOMAIN q.blocks = DOMAIN s.blocks \cup {i} /\ q.blocks[i] = u
      /\ \A k \in DOMAIN s.blocks : k # i => q.blocks[k] = s.blocks[k]
  <2>1. IsPut(q.blocks, s.blocks, i, u)
    BY <1>5, PutIs
  <2> QED
    BY <2>1 DEF IsPut
<1>7. r.order = q.order /\ r.blocks = Put(q.blocks, i, v)
  BY <1>1, <1>2, <1>6 DEF Says, At
<1>8. /\ DOMAIN r.blocks = DOMAIN q.blocks \cup {i} /\ r.blocks[i] = v
      /\ \A k \in DOMAIN q.blocks : k # i => r.blocks[k] = q.blocks[k]
  <2>1. IsPut(r.blocks, q.blocks, i, v)
    BY <1>7, PutIs
  <2> QED
    BY <2>1 DEF IsPut
<1>9. /\ i \in DOMAIN r.blocks /\ r.order = Append(s.order, i) /\ r.blocks[i] = Shown(p, b)
      /\ \A k \in DOMAIN s.blocks : k \in DOMAIN r.blocks /\ r.blocks[k] = s.blocks[k]
  BY <1>4, <1>5, <1>6, <1>7, <1>8
<1>10. ShowsMore(p, r, B, b, c, x, i)
  BY <1>9, NewBlockShows
<1> QED
  BY <1>6, <1>8, <1>10

-----------------------------------------------------------------------------
(* OpenAI: the decoder agrees with the answer so far.                      *)

Calls(B) == {j \in DOMAIN B : B[j].kind = "tool"}

DecoderAgrees(d, B) ==
    /\ OpenAiState(d)
    /\ \A field \in {"text", "reasoning"} :
          /\ \A j \in 1 .. Len(B) : B[j].kind = field => d[field] = [open |-> TRUE, index |-> j]
          /\ (\A j \in 1 .. Len(B) : B[j].kind # field) => d[field] = Closed
    /\ DOMAIN d.tools = 0 .. Cardinality(Calls(B)) - 1
    /\ \A j \in Calls(B) : B[j].at \in DOMAIN d.tools /\ d.tools[B[j].at] = j
    /\ \A t \in DOMAIN d.tools : d.tools[t] \in 1 .. Len(B)

OpenAiAgrees(s, B, x) ==
    /\ DecoderAgrees(s.decode, B)
    /\ \A j \in 1 .. Len(B) : x[j] = j
    /\ DOMAIN s.blocks \subseteq 1 .. Len(B)

OpenAiShows(s, B) == \E c, x : Shows("openai", s, B, c, x) /\ OpenAiAgrees(s, B, x)

\* The calls among one more block.
LEMMA CallsGrow ==
    ASSUME NEW S, NEW B \in Seq(S), NEW b \in S
    PROVE  /\ IsFiniteSet(Calls(B)) /\ Cardinality(Calls(B)) \in Nat
           /\ b.kind # "tool" => Calls(Append(B, b)) = Calls(B)
           /\ b.kind = "tool" => /\ Calls(Append(B, b)) = Calls(B) \cup {Len(B) + 1}
                                 /\ Cardinality(Calls(Append(B, b))) = Cardinality(Calls(B)) + 1
<1> DEFINE n == Len(B)
           D == Append(B, b)
<1>1. /\ n \in Nat /\ D \in Seq(S) /\ Len(D) = n + 1 /\ D[n + 1] = b
      /\ \A j \in 1 .. n : D[j] = B[j]
  BY AppendPrefixes
<1>2. DOMAIN B = 1 .. n /\ DOMAIN D = 1 .. n + 1 /\ 1 .. n + 1 = (1 .. n) \cup {n + 1} /\ n + 1 \notin 1 .. n
  BY <1>1
<1> HIDE DEF n, D
<1>3. IsFiniteSet(Calls(B)) /\ Cardinality(Calls(B)) \in Nat
  <2>1. IsFiniteSet(1 .. n)
    BY <1>1, FS_Interval
  <2>2. Calls(B) \subseteq 1 .. n
    BY <1>2 DEF Calls
  <2>3. IsFiniteSet(Calls(B))
    BY <2>1, <2>2, FS_Subset
  <2> QED
    BY <2>3, FS_CardinalityType
<1>4. ASSUME b.kind # "tool" PROVE Calls(D) = Calls(B)
  BY <1>1, <1>2, <1>4 DEF Calls
<1>5. ASSUME b.kind = "tool"
      PROVE  Calls(D) = Calls(B) \cup {n + 1} /\ Cardinality(Calls(D)) = Cardinality(Calls(B)) + 1
  <2>1. Calls(D) = Calls(B) \cup {n + 1}
    BY <1>1, <1>2, <1>5 DEF Calls
  <2>2. n + 1 \notin Calls(B)
    BY <1>2 DEF Calls
  <2> QED
    BY <1>3, <2>1, <2>2, FS_AddElement
<1> QED
  BY <1>3, <1>4, <1>5 DEF n, D

\* The next block has the next index.
LEMMA FreeIndex ==
    ASSUME NEW S, NEW B \in Seq(S), NEW s, NEW x, OpenAiAgrees(s, B, x),
           \A j \in 1 .. Len(B) : B[j].kind \in {"text", "tool", "reasoning"}
    PROVE  NextFreeBlockIndex(s.decode) = Len(B) + 1
<1> DEFINE n == Len(B)
           d == s.decode
           used == {0, d.text.index, d.reasoning.index} \cup {d.tools[t] : t \in DOMAIN d.tools}
<1>1. n \in Nat /\ DOMAIN B = 1 .. n
  OBVIOUS
<1>2. d.text = d["text"] /\ d.reasoning = d["reasoning"]
  BY DEF OpenAiAgrees, DecoderAgrees, OpenAiState
<1>3. ASSUME NEW field \in {"text", "reasoning"}
      PROVE  /\ d[field].index \in 0 .. n
             /\ \A j \in 1 .. n : B[j].kind = field => d[field].index = j
  <2>1. \A j \in 1 .. n : B[j].kind = field => d[field].index = j
    <3> TAKE j \in 1 .. n
    <3> HAVE B[j].kind = field
    <3>1. d[field] = [open |-> TRUE, index |-> j]
      BY DEF OpenAiAgrees, DecoderAgrees
    <3> QED
      BY <3>1
  <2>2. CASE \A j \in 1 .. n : B[j].kind # field
    <3>1. d[field] = Closed
      BY <2>2 DEF OpenAiAgrees, DecoderAgrees
    <3> QED
      BY <1>1, <2>1, <3>1 DEF Closed
  <2>3. CASE \E j \in 1 .. n : B[j].kind = field
    BY <1>1, <2>1, <2>3
  <2> QED
    BY <2>1, <2>2, <2>3
<1>4. ASSUME NEW u \in used PROVE u \in Nat /\ u <= n
  <2>1. u \in 0 .. n
    <3>1. \A t \in DOMAIN d.tools : d.tools[t] \in 1 .. n
      BY DEF OpenAiAgrees, DecoderAgrees
    <3>2. d.text.index \in 0 .. n /\ d.reasoning.index \in 0 .. n
      BY <1>2, <1>3
    <3> QED
      BY <1>1, <3>1, <3>2
  <2> QED
    BY <1>1, <2>1
<1>5. n \in used
  <2>1. CASE n = 0
    BY <2>1
  <2>2. CASE n # 0
    <3>1. n \in 1 .. n
      BY <1>1, <2>2
    <3>2. CASE B[n].kind = "text"
      BY <1>2, <1>3, <3>1, <3>2
    <3>3. CASE B[n].kind = "reasoning"
      BY <1>2, <1>3, <3>1, <3>3
    <3>4. CASE B[n].kind = "tool"
      <4>1. n \in Calls(B)
        BY <1>1, <3>1, <3>4 DEF Calls
      <4>2. B[n].at \in DOMAIN d.tools /\ d.tools[B[n].at] = n
        BY <4>1 DEF OpenAiAgrees, DecoderAgrees
      <4> QED
        BY <4>2
    <3> QED
      BY <3>1, <3>2, <3>3, <3>4
  <2> QED
    BY <2>1, <2>2
<1>6. NextFreeBlockIndex(d) = 1 + (CHOOSE m \in used : \A k \in used : k <= m)
  BY DEF NextFreeBlockIndex
<1> HIDE DEF used, n
<1>7. PICK m : m = CHOOSE y \in used : \A k \in used : k <= y
  OBVIOUS
<1>8. m \in used /\ \A k \in used : k <= m
  BY <1>4, <1>5, <1>7
<1>9. m = n
  BY <1>1, <1>4, <1>5, <1>8
<1>10. NextFreeBlockIndex(d) = 1 + m
  BY <1>6, <1>7
<1>11. 1 + m = n + 1
  BY <1>1, <1>9
<1> QED
  BY <1>10, <1>11 DEF n

\* The answer of the model in OpenAI's protocol.
OpenAiAnswer(B) ==
    /\ \A j \in 1 .. Len(B) : IsSaid("openai", B[j])
    /\ \A j, k \in 1 .. Len(B) : B[j].kind = B[k].kind /\ B[j].kind # "tool" => j = k

\* The blocks of an OpenAI answer are all shown.
LEMMA OpenAiKinds ==
    ASSUME NEW B, OpenAiAnswer(B), NEW j \in 1 .. Len(B)
    PROVE  B[j].kind \in {"text", "tool", "reasoning"} /\ Known(B[j])
<1>1. IsSaid("openai", B[j]) /\ "openai" \in Protocols
  BY DEF OpenAiAnswer, Protocols
<1> QED
  BY <1>1, KindsAre


\* r comes from s by the frame f, and the usage is as before.
Reads(r, p, s, f) == r = ScanFrame(p, s, f)
Goes(r, s) == IsScan(r) /\ SameUsage(r, s)

\* The reader's state with another text or reasoning.
OnlyField(e, d, field, v) ==
    /\ OpenAiState(e) /\ e[field] = v /\ e.tools = d.tools
    /\ \A other \in {"text", "reasoning"} : other # field => e[other] = d[other]

\* One field of the decoder is set.
LEMMA FieldSet ==
    ASSUME NEW d, OpenAiState(d), NEW field \in {"text", "reasoning"}, NEW v,
           NEW e, e = [d EXCEPT ![field] = v]
    PROVE  OnlyField(e, d, field, v)
<1>1. PICK t, g, l : d = [started |-> TRUE, text |-> t, reasoning |-> g, tools |-> l]
  BY DEF OpenAiState
<1>2. CASE field = "text"
  <2>1. e = [started |-> TRUE, text |-> v, reasoning |-> g, tools |-> l]
    BY <1>1, <1>2
  <2>2. /\ e.started = TRUE /\ e.text = v /\ e.reasoning = g /\ e.tools = l
        /\ d.text = t /\ d.reasoning = g /\ d.tools = l
    BY <1>1, <2>1
  <2>3. OpenAiState(e)
    BY <2>1, <2>2 DEF OpenAiState
  <2> QED
    BY <1>2, <2>2, <2>3 DEF OnlyField
<1>3. CASE field = "reasoning"
  <2>1. e = [started |-> TRUE, text |-> t, reasoning |-> v, tools |-> l]
    BY <1>1, <1>3
  <2>2. /\ e.started = TRUE /\ e.text = t /\ e.reasoning = v /\ e.tools = l
        /\ d.text = t /\ d.reasoning = g /\ d.tools = l
    BY <1>1, <2>1
  <2>3. OpenAiState(e)
    BY <2>1, <2>2 DEF OpenAiState
  <2> QED
    BY <1>3, <2>2, <2>3 DEF OnlyField
<1> QED
  BY <1>2, <1>3

\* The first piece of a text or a reasoning.
LEMMA OpenAiOpensText ==
    ASSUME NEW S, NEW B \in Seq(S), NEW b \in S, OpenAiAnswer(B), NEW s, IsScan(s), OpenAiShows(s, B),
           IsSaid("openai", b), b.kind \in {"text", "reasoning"}, b.text # << >>,
           \A j \in 1 .. Len(B) : B[j].kind # b.kind,
           NEW r, Reads(r, "openai", s, Speech(b.kind, b.text))
    PROVE  Goes(r, s) /\ OpenAiShows(r, Append(B, b))
<1>1. PICK c, x : Shows("openai", s, B, c, x) /\ OpenAiAgrees(s, B, x)
  BY DEF OpenAiShows
<1>2. PICK n, i, D, d, field, two, e :
        /\ n = Len(B) /\ i = n + 1 /\ D = Append(B, b) /\ d = s.decode /\ field = b.kind
        /\ two = <<BlockStart(i, field, << >>), BlockDelta(i, field, b.text)>>
        /\ e = [d EXCEPT ![field] = [open |-> TRUE, index |-> i]]
  OBVIOUS
<1>3. /\ n \in Nat /\ i \in Nat /\ D \in Seq(S) /\ Len(D) = n + 1 /\ D[i] = b
      /\ \A j \in 1 .. n : D[j] = B[j]
      /\ \A j \in 1 .. n + 1 : j \in 1 .. n \/ j = i
  BY <1>2, AppendPrefixes
<1>4. b.name = << >> /\ b.opaque = << >> /\ "openai" \in Protocols /\ b.text \in Seq(Tokens)
  BY DEF IsSaid, Protocols
<1>5. Known(b)
  BY <1>4, KindsAre
<1>6. i = NextFreeBlockIndex(d)
  <2>1. \A j \in 1 .. Len(B) : B[j].kind \in {"text", "tool", "reasoning"}
    BY OpenAiKinds
  <2> QED
    BY <1>1, <1>2, <2>1, FreeIndex
<1>7. OpenAiState(d) /\ d[field] = Closed
  BY <1>1, <1>2 DEF OpenAiAgrees, DecoderAgrees
<1>8. ReadOpenAi(Speech(field, b.text), d) = Read(two, e)
  <2>1. OpenAiText(Read(<< >>, d), field, field, b.text) = Read(two, e)
    BY <1>2, <1>6, <1>7, FirstText
  <2>2. two \o << >> = two
    BY <1>2, EventsAre
  <2>3. ReadOpenAi(Speech(field, b.text), d) = Read(two \o << >>, e)
    BY <1>2, <1>7, <2>1, ReadSpeech
  <2> QED
    BY <2>2, <2>3
<1>9. Opens(r, s, i, field, << >>, field, b.text) /\ r.decode = e
  <2>1. ReadResponseEvents("openai", Speech(field, b.text), s.decode) =
          Read(<<BlockStart(i, field, << >>), BlockDelta(i, field, b.text)>>, e)
    BY <1>2, <1>8 DEF ReadResponseEvents
  <2> QED
    BY <1>2, <2>1, ReadFirst DEF Reads
<1>10. Goes(r, s)
  BY <1>9 DEF Opens, Goes, Starts, Says, SameUsage
<1>11. DOMAIN s.blocks \subseteq 1 .. n /\ i \notin DOMAIN s.blocks
  BY <1>1, <1>2, <1>3 DEF OpenAiAgrees, DecoderAgrees
<1>12. DOMAIN r.blocks = DOMAIN s.blocks \cup {i} /\ ShowsMore("openai", r, B, b, c, x, i)
  <2>1. PICK a, text, name : /\ name = << >> /\ a = [kind |-> b.kind, name |-> << >>, text |-> << >>, opaque |-> << >>]
                             /\ text = b.text /\ text \in Seq(Tokens)
    BY <1>4
  <2>2. a.kind = field /\ a.name = << >> /\ a.text = << >> /\ a.opaque = << >>
    BY <1>2, <2>1
  <2>3. Fresh(a, name)
    BY <1>2, <2>1, <1>5, <2>2 DEF Fresh, Known
  <2>4. Longer(a, b, text)
    <3>1. << >> \o text = text
      BY <2>1
    <3> QED
      BY <1>2, <1>4, <2>1, <2>2, <3>1 DEF Longer
  <2>5. Opens(r, s, i, a.kind, name, FieldOf(b.kind), text)
    <3>1. FieldOf(b.kind) = field
      BY <1>2 DEF FieldOf
    <3> QED
      BY <1>9, <2>1, <2>2, <3>1
  <2>6. i \in Nat
    BY <1>3
  <2>7. i \notin DOMAIN s.blocks
    BY <1>11
  <2>8. Shows("openai", s, B, c, x)
    BY <1>1
  <2> QED
    BY <1>5, <2>3, <2>4, <2>5, <2>6, <2>7, <2>8, FirstPieceShows
<1>13. PICK c2, y : Shows("openai", r, D, c2, y) /\ y[i] = i /\ \A j \in 1 .. n : y[j] = x[j]
  BY <1>2, <1>12 DEF ShowsMore
<1>14. /\ OpenAiState(e) /\ e[field] = [open |-> TRUE, index |-> i] /\ e.tools = d.tools
       /\ \A other \in {"text", "reasoning"} : other # field => e[other] = d[other]
  <2>1. PICK v : v = [open |-> TRUE, index |-> i]
    OBVIOUS
  <2>2. e = [d EXCEPT ![field] = v] /\ field \in {"text", "reasoning"}
    BY <1>2, <2>1
  <2>3. OnlyField(e, d, field, v)
    BY <1>7, <2>2, FieldSet
  <2> QED
    BY <2>1, <2>3 DEF OnlyField
<1>15. ASSUME NEW other \in {"text", "reasoning"}
       PROVE  /\ \A j \in 1 .. n + 1 : D[j].kind = other => e[other] = [open |-> TRUE, index |-> j]
              /\ (\A j \in 1 .. n + 1 : D[j].kind # other) => e[other] = Closed
  <2>1. CASE other = field
    <3>1. \A j \in 1 .. n + 1 : D[j].kind = field => j = i
      BY <1>2, <1>3
    <3>2. D[i].kind = field /\ i \in 1 .. n + 1
      BY <1>2, <1>3
    <3> QED
      BY <1>14, <2>1, <3>1, <3>2
  <2>2. CASE other # field
    <3>1. \A j \in 1 .. n + 1 : D[j].kind = other => j \in 1 .. n /\ B[j].kind = other
      BY <1>2, <1>3, <2>2
    <3>2. (\A j \in 1 .. n + 1 : D[j].kind # other) => \A j \in 1 .. n : B[j].kind # other
      BY <1>3
    <3>3. e[other] = d[other]
      BY <1>14, <2>2
    <3>4. /\ \A j \in 1 .. n : B[j].kind = other => d[other] = [open |-> TRUE, index |-> j]
          /\ (\A j \in 1 .. n : B[j].kind # other) => d[other] = Closed
      BY <1>1, <1>2 DEF OpenAiAgrees, DecoderAgrees
    <3> QED
      BY <3>1, <3>2, <3>3, <3>4
  <2> QED
    BY <2>1, <2>2
<1>16. Calls(D) = Calls(B)
  BY <1>2, CallsGrow
<1>17. /\ DOMAIN e.tools = 0 .. Cardinality(Calls(D)) - 1
       /\ \A j \in Calls(D) : D[j].at \in DOMAIN e.tools /\ e.tools[D[j].at] = j
       /\ \A t \in DOMAIN e.tools : e.tools[t] \in 1 .. n + 1
  <2>1. \A j \in Calls(B) : D[j] = B[j]
    BY <1>3, <1>2 DEF Calls
  <2>2. /\ DOMAIN d.tools = 0 .. Cardinality(Calls(B)) - 1
        /\ \A j \in Calls(B) : B[j].at \in DOMAIN d.tools /\ d.tools[B[j].at] = j
        /\ \A t \in DOMAIN d.tools : d.tools[t] \in 1 .. n
    BY <1>1, <1>2 DEF OpenAiAgrees, DecoderAgrees
  <2>3. \A t \in 1 .. n : t \in 1 .. n + 1
    BY <1>3
  <2> QED
    BY <1>14, <1>16, <2>1, <2>2, <2>3
<1>18. \A j \in 1 .. n + 1 : y[j] = j
  <2>1. \A j \in 1 .. n : x[j] = j
    BY <1>1, <1>2 DEF OpenAiAgrees, DecoderAgrees
  <2> QED
    BY <1>3, <1>13, <2>1
<1>19. DOMAIN r.blocks \subseteq 1 .. n + 1
  BY <1>2, <1>3, <1>11, <1>12
<1>20. OpenAiAgrees(r, D, y)
  <2>1. r.decode = e /\ Len(D) = n + 1
    BY <1>3, <1>9
  <2>2. \A other \in {"text", "reasoning"} :
          /\ \A j \in 1 .. n + 1 : D[j].kind = other => e[other] = [open |-> TRUE, index |-> j]
          /\ (\A j \in 1 .. n + 1 : D[j].kind # other) => e[other] = Closed
    BY <1>15
  <2>3. DecoderAgrees(e, D)
    BY <1>14, <1>17, <2>1, <2>2 DEF DecoderAgrees
  <2> QED
    BY <1>18, <1>19, <2>1, <2>3 DEF OpenAiAgrees
<1> QED
  BY <1>2, <1>10, <1>13, <1>20 DEF OpenAiShows

\* The reader's state with other calls.
OnlyTools(e, d, T) ==
    /\ OpenAiState(e) /\ e.tools = T
    /\ \A field \in {"text", "reasoning"} : e[field] = d[field]

\* The calls of the decoder are set.
LEMMA ToolsSet ==
    ASSUME NEW d, OpenAiState(d), NEW T, NEW e, e = [d EXCEPT !.tools = T]
    PROVE  OnlyTools(e, d, T)
<1>1. PICK t, g, l : d = [started |-> TRUE, text |-> t, reasoning |-> g, tools |-> l]
  BY DEF OpenAiState
<1>2. e = [started |-> TRUE, text |-> t, reasoning |-> g, tools |-> T]
  BY <1>1
<1>3. /\ e.started = TRUE /\ e.text = t /\ e.reasoning = g /\ e.tools = T
      /\ d.text = t /\ d.reasoning = g
  BY <1>1, <1>2
<1>4. OpenAiState(e)
  BY <1>2, <1>3 DEF OpenAiState
<1>5. e["text"] = d["text"] /\ e["reasoning"] = d["reasoning"]
  BY <1>3
<1> QED
  BY <1>3, <1>4, <1>5 DEF OnlyTools

\* A call that begins.
CallChunk(at, name, text) == [Chunk EXCEPT !.tools = <<ToolCall(at, name, text)>>]

\* A call that opens with its name.
LEMMA OpenAiOpensCall ==
    ASSUME NEW S, NEW B \in Seq(S), NEW b \in S, OpenAiAnswer(B), NEW s, IsScan(s), OpenAiShows(s, B),
           IsSaid("openai", b), b.kind = "tool", b.text = << >>, b.at = Cardinality(Calls(B)),
           NEW r, Reads(r, "openai", s, CallChunk(b.at, Name, << >>))
    PROVE  Goes(r, s) /\ OpenAiShows(r, Append(B, b))
<1>1. PICK c, x : Shows("openai", s, B, c, x) /\ OpenAiAgrees(s, B, x)
  BY DEF OpenAiShows
<1>2. PICK n, i, D, d, at, call, T, e :
        /\ n = Len(B) /\ i = n + 1 /\ D = Append(B, b) /\ d = s.decode /\ at = b.at
        /\ call = ToolCall(at, Name, << >>) /\ T = Put(d.tools, at, i)
        /\ e = [d EXCEPT !.tools = T]
  OBVIOUS
<1>3. /\ n \in Nat /\ D \in Seq(S) /\ Len(D) = n + 1 /\ D[i] = b
      /\ \A j \in 1 .. n : D[j] = B[j]
      /\ \A j \in 1 .. n + 1 : j \in 1 .. n \/ j = i
  BY <1>2, AppendPrefixes
<1>4. b.name = Name /\ b.opaque = << >> /\ "openai" \in Protocols
  BY DEF IsSaid, Protocols
<1>5. Known(b)
  BY <1>4, KindsAre
<1>6. i = NextFreeBlockIndex(d)
  <2>1. \A j \in 1 .. Len(B) : B[j].kind \in {"text", "tool", "reasoning"}
    BY OpenAiKinds
  <2> QED
    BY <1>1, <1>2, <2>1, FreeIndex
<1>7. DecoderAgrees(d, B) /\ OpenAiState(d)
  BY <1>1, <1>2 DEF OpenAiAgrees, DecoderAgrees
<1>8. IsFiniteSet(Calls(B)) /\ Cardinality(Calls(B)) \in Nat
  BY CallsGrow
<1>9. at = Cardinality(Calls(B)) /\ at \in Nat
  BY <1>2, <1>8
<1>10. DOMAIN d.tools = 0 .. at - 1 /\ at \notin DOMAIN d.tools
  BY <1>7, <1>9 DEF DecoderAgrees
<1>11. ReadOpenAi(CallChunk(at, Name, << >>), d) = Read(<<BlockStart(i, "tool", Name)>>, e)
  <2>1. PICK one : one = <<BlockStart(i, "tool", Name)>>
    OBVIOUS
  <2>2. ProcessToolCallDelta(Read(<< >>, d), call) = Read(one, e)
    <3>1. ProcessToolCallDelta(Read(<< >>, d), ToolCall(at, Name, << >>)) =
            Read(<<BlockStart(i, "tool", Name)>>, [d EXCEPT !.tools = Put(d.tools, at, i)])
      BY <1>6, <1>7, <1>10, CallBegins
    <3>2. call = ToolCall(at, Name, << >>) /\ e = [d EXCEPT !.tools = Put(d.tools, at, i)]
      BY <1>2
    <3> QED
      BY <2>1, <3>1, <3>2
  <2>3. one \o << >> = one
    BY <2>1, EventsAre
  <2>4. ReadOpenAi([Chunk EXCEPT !.tools = <<call>>], d) = Read(one \o << >>, e)
    BY <1>7, <2>2, ReadCall
  <2> QED
    BY <1>2, <2>1, <2>3, <2>4 DEF CallChunk
<1>12. Starts(r, s, i, "tool", Name) /\ r.decode = e
  <2>1. ReadResponseEvents("openai", CallChunk(at, Name, << >>), s.decode) =
          Read(<<BlockStart(i, "tool", Name)>>, e)
    BY <1>2, <1>11 DEF ReadResponseEvents
  <2> QED
    BY <1>2, <2>1, ReadStart DEF Reads
<1>13. Goes(r, s)
  BY <1>12 DEF Goes, Starts, SameUsage
<1>14. DOMAIN s.blocks \subseteq 1 .. n /\ i \notin DOMAIN s.blocks
  BY <1>1, <1>2, <1>3 DEF OpenAiAgrees
<1>15. i \in Nat
  BY <1>2, <1>3
<1>16. DOMAIN r.blocks = DOMAIN s.blocks \cup {i} /\ ShowsMore("openai", r, B, b, c, x, i)
  <2>1. Fresh(b, Name)
    BY <1>4, <1>5 DEF Fresh
  <2>2. Starts(r, s, i, b.kind, Name)
    BY <1>12
  <2>3. Shows("openai", s, B, c, x) /\ i \notin DOMAIN s.blocks
    BY <1>1, <1>14
  <2> QED
    BY <1>15, <2>1, <2>2, <2>3, StartShows
<1>17. PICK c2, y : Shows("openai", r, D, c2, y) /\ y[i] = i /\ \A j \in 1 .. n : y[j] = x[j]
  BY <1>2, <1>16 DEF ShowsMore
<1>18. /\ OpenAiState(e) /\ e.tools = T
       /\ \A field \in {"text", "reasoning"} : e[field] = d[field]
  <2>1. OnlyTools(e, d, T)
    BY <1>2, <1>7, ToolsSet
  <2> QED
    BY <2>1 DEF OnlyTools
<1>19. \A field \in {"text", "reasoning"} :
          /\ \A j \in 1 .. n + 1 : D[j].kind = field => e[field] = [open |-> TRUE, index |-> j]
          /\ (\A j \in 1 .. n + 1 : D[j].kind # field) => e[field] = Closed
  <2> TAKE field \in {"text", "reasoning"}
  <2>1. \A j \in 1 .. n + 1 : D[j].kind = field => j \in 1 .. n /\ B[j].kind = field
    BY <1>3
  <2>2. (\A j \in 1 .. n + 1 : D[j].kind # field) => \A j \in 1 .. n : B[j].kind # field
    BY <1>3
  <2>3. /\ \A j \in 1 .. n : B[j].kind = field => d[field] = [open |-> TRUE, index |-> j]
        /\ (\A j \in 1 .. n : B[j].kind # field) => d[field] = Closed
    BY <1>2, <1>7 DEF DecoderAgrees
  <2> QED
    BY <1>18, <2>1, <2>2, <2>3
<1>20. Calls(D) = Calls(B) \cup {i} /\ Cardinality(Calls(D)) = at + 1
  BY <1>2, <1>9, CallsGrow
<1>21. /\ DOMAIN T = DOMAIN d.tools \cup {at} /\ T[at] = i
       /\ \A t \in DOMAIN d.tools : t # at => T[t] = d.tools[t]
  <2>1. IsPut(T, d.tools, at, i)
    BY <1>2, PutIs
  <2> QED
    BY <2>1 DEF IsPut
<1>22. DOMAIN T = 0 .. Cardinality(Calls(D)) - 1
  BY <1>9, <1>10, <1>20, <1>21
<1>23. ASSUME NEW j \in Calls(D) PROVE D[j].at \in DOMAIN T /\ T[D[j].at] = j
  <2>1. CASE j \in Calls(B)
    <3>1. D[j] = B[j]
      BY <1>2, <1>3, <2>1 DEF Calls
    <3>2. B[j].at \in DOMAIN d.tools /\ d.tools[B[j].at] = j
      BY <1>7, <2>1 DEF DecoderAgrees
    <3> QED
      BY <1>10, <1>21, <3>1, <3>2
  <2>2. CASE j = i
    BY <1>2, <1>3, <1>21, <2>2
  <2> QED
    BY <1>20, <1>23, <2>1, <2>2
<1>24. ASSUME NEW t \in DOMAIN T PROVE T[t] \in 1 .. n + 1
  <2>1. CASE t = at
    BY <1>2, <1>3, <1>21, <2>1
  <2>2. CASE t # at
    <3>1. t \in DOMAIN d.tools
      BY <1>21, <1>24, <2>2
    <3>2. d.tools[t] \in 1 .. n
      BY <1>2, <1>7, <3>1 DEF DecoderAgrees
    <3> QED
      BY <1>3, <1>21, <2>2, <3>1, <3>2
  <2> QED
    BY <2>1, <2>2
<1>25. DecoderAgrees(e, D)
  <2>1. Len(D) = n + 1
    BY <1>3
  <2>2. \A j \in Calls(D) : D[j].at \in DOMAIN T /\ T[D[j].at] = j
    BY <1>23
  <2>3. \A t \in DOMAIN T : T[t] \in 1 .. n + 1
    BY <1>24
  <2> QED
    BY <1>18, <1>19, <1>22, <2>1, <2>2, <2>3 DEF DecoderAgrees
<1>26. \A j \in 1 .. n + 1 : y[j] = j
  <2>1. \A j \in 1 .. n : x[j] = j
    BY <1>1, <1>2 DEF OpenAiAgrees
  <2> QED
    BY <1>3, <1>17, <2>1
<1>27. DOMAIN r.blocks \subseteq 1 .. n + 1
  BY <1>2, <1>3, <1>14, <1>16
<1>28. OpenAiAgrees(r, D, y)
  <2>1. Len(D) = n + 1
    BY <1>3
  <2> QED
    BY <1>12, <1>25, <1>26, <1>27, <2>1 DEF OpenAiAgrees
<1> QED
  BY <1>2, <1>13, <1>17, <1>28 DEF OpenAiShows

\* A block of which the scan shows nothing else.
Alike(a, b) ==
    /\ b.kind = a.kind
    /\ Known(a) => b.name = a.name /\ b.text = a.text /\ b.opaque = a.opaque

\* A block that changes in nothing that is shown.
LEMMA AlikeShows ==
    ASSUME NEW p, NEW s, NEW r, NEW S, NEW B \in Seq(S), NEW c, NEW x, Shows(p, s, B, c, x),
           SameBlocks(r, s), NEW j \in 1 .. Len(B), NEW b, Alike(B[j], b),
           NEW D, Becomes(D, B, j, b)
    PROVE  Shows(p, r, D, c, x)
<1>1. r.order = s.order /\ r.blocks = s.blocks
  BY DEF SameBlocks
<1>2. Known(b) <=> Known(B[j])
  BY DEF Known, Alike
<1>3. \A k \in 1 .. Len(B) : Known(B[k]) => x[k] \in DOMAIN s.blocks /\ s.blocks[x[k]] = Shown(p, B[k])
  BY DEF Shows
<1>4. Known(B[j]) => Shown(p, b) = Shown(p, B[j])
  BY DEF Shown, Alike
<1>5. Shows(p, r, [B EXCEPT ![j] = b], c, x)
  BY <1>1, <1>2, <1>3, <1>4, ChangeShows
<1> QED
  BY <1>5 DEF Becomes

\* As far as the reader is concerned, D is the answer B.
SameAnswer(D, B) ==
    /\ Len(D) = Len(B) /\ DOMAIN D = DOMAIN B /\ DOMAIN B = 1 .. Len(B)
    /\ \A j \in 1 .. Len(B) : D[j].kind = B[j].kind /\ D[j].at = B[j].at

\* The decoder agrees with an answer whose kinds and indices are the same.
LEMMA StillAgrees ==
    ASSUME NEW d, NEW B, NEW D, SameAnswer(D, B), DecoderAgrees(d, B)
    PROVE  DecoderAgrees(d, D)
<1>1. Calls(D) = Calls(B)
  BY DEF Calls, SameAnswer
<1>2. Calls(B) \subseteq 1 .. Len(B)
  BY DEF Calls, SameAnswer
<1> QED
  BY <1>1, <1>2 DEF DecoderAgrees, SameAnswer

\* A piece that adds nothing.
LEMMA NoPiece ==
    ASSUME NEW a, NEW b, NEW text, Longer(a, b, text), text = << >>, a.text \in Seq(Tokens)
    PROVE  Alike(a, b)
<1>1. PICK u : u = a.text /\ u \in Seq(Tokens)
  OBVIOUS
<1>2. u \o << >> = u
  BY <1>1
<1> QED
  BY <1>1, <1>2 DEF Longer, Alike

\* The chunk with a piece of the jth block.
PieceChunk(a, text) ==
    IF a.kind = "tool" THEN CallChunk(a.at, << >>, text) ELSE Speech(a.kind, text)

PieceEvents(j, a, text) ==
    IF text = << >> THEN << >> ELSE <<BlockDelta(j, FieldOf(a.kind), text)>>

\* What is read of it: nothing, if it is empty, and else a delta.
LEMMA ReadPiece ==
    ASSUME NEW B, NEW d, DecoderAgrees(d, B), NEW j \in 1 .. Len(B), NEW a, a = B[j], NEW text,
           DOMAIN B = 1 .. Len(B), a.kind \in {"text", "tool", "reasoning"}
    PROVE  ReadOpenAi(PieceChunk(a, text), d) =
             Read(PieceEvents(j, a, text), d)
<1>1. OpenAiState(d)
  BY DEF DecoderAgrees
<1>2. PICK events : /\ events = PieceEvents(j, a, text)
                    /\ events = IF text = << >> THEN << >>
                                ELSE <<BlockDelta(j, FieldOf(a.kind), text)>>
  BY DEF PieceEvents
<1>3. events \o << >> = events
  BY <1>2, EventsAre
<1>4. CASE a.kind = "tool"
  <2>1. j \in Calls(B)
    BY <1>4 DEF Calls
  <2>2. a.at \in DOMAIN d.tools /\ d.tools[a.at] = j
    BY <2>1 DEF DecoderAgrees
  <2>3. PICK call : call = ToolCall(a.at, << >>, text)
    OBVIOUS
  <2>4. ProcessToolCallDelta(Read(<< >>, d), call) = Read(events, d)
    <3>1. ProcessToolCallDelta(Read(<< >>, d), ToolCall(a.at, << >>, text)) =
            Read(IF text = << >> THEN << >> ELSE <<BlockDelta(d.tools[a.at], "args", text)>>, d)
      BY <1>1, <2>2, CallArguments
    <3> QED
      BY <1>2, <1>4, <2>2, <2>3, <3>1 DEF FieldOf
  <2>5. ReadOpenAi([Chunk EXCEPT !.tools = <<call>>], d) = Read(events \o << >>, d)
    BY <1>1, <2>4, ReadCall
  <2> QED
    BY <1>2, <1>3, <1>4, <2>3, <2>5 DEF PieceChunk, CallChunk
<1>5. CASE a.kind \in {"text", "reasoning"}
  <2>1. PICK field : field = a.kind /\ field \in {"text", "reasoning"}
    BY <1>5
  <2>2. d[field] = [open |-> TRUE, index |-> j] /\ FieldOf(a.kind) = field
    BY <2>1 DEF DecoderAgrees, FieldOf
  <2>3. OpenAiText(Read(<< >>, d), field, field, text) = Read(events, d)
    <3>1. CASE text = << >>
      BY <1>2, <3>1, NoText
    <3>2. CASE text # << >>
      <4>1. OpenAiText(Read(<< >>, d), field, field, text) = Read(<<BlockDelta(j, field, text)>>, d)
        BY <1>1, <2>1, <2>2, <3>2, MoreText
      <4> QED
        BY <1>2, <2>2, <3>2, <4>1
    <3> QED
      BY <3>1, <3>2
  <2>4. ReadOpenAi(Speech(field, text), d) = Read(events \o << >>, d)
    BY <1>1, <2>1, <2>3, ReadSpeech
  <2> QED
    BY <1>2, <1>3, <1>5, <2>1, <2>4 DEF PieceChunk
<1> QED
  BY <1>4, <1>5

\* A piece of a block that is open.
LEMMA OpenAiSays ==
    ASSUME NEW S, NEW B \in Seq(S), OpenAiAnswer(B), NEW s, IsScan(s), OpenAiShows(s, B),
           NEW j \in 1 .. Len(B), NEW text, NEW b, Longer(B[j], b, text), b.at = B[j].at,
           NEW r, Reads(r, "openai", s, PieceChunk(B[j], text)), NEW D, Becomes(D, B, j, b)
    PROVE  Goes(r, s) /\ OpenAiShows(r, D)
<1>1. PICK c, x : Shows("openai", s, B, c, x) /\ OpenAiAgrees(s, B, x)
  BY DEF OpenAiShows
<1>2. PICK d, a : d = s.decode /\ a = B[j]
  OBVIOUS
<1>3. DecoderAgrees(d, B) /\ x[j] = j /\ DOMAIN B = 1 .. Len(B)
  BY <1>1, <1>2 DEF OpenAiAgrees
<1>4. a.kind \in {"text", "tool", "reasoning"} /\ Known(a) /\ a.text \in Seq(Tokens) /\ a.kind = b.kind
  <2>1. IsSaid("openai", a)
    BY <1>2 DEF OpenAiAnswer
  <2> QED
    BY <1>2, <2>1, OpenAiKinds DEF IsSaid, Longer
<1>5. ReadOpenAi(PieceChunk(a, text), d) = Read(PieceEvents(j, a, text), d)
  BY <1>2, <1>3, <1>4, ReadPiece
<1>6. ReadResponseEvents("openai", PieceChunk(a, text), s.decode) = Read(PieceEvents(j, a, text), d)
  BY <1>2, <1>5 DEF ReadResponseEvents
<1>7. /\ IsScan(r) /\ SameUsage(r, s) /\ r.decode = d /\ DOMAIN r.blocks = DOMAIN s.blocks
      /\ Shows("openai", r, D, c, x)
  <2>1. CASE text = << >>
    <3>1. ReadResponseEvents("openai", PieceChunk(a, text), s.decode) = Read(<< >>, d)
      BY <1>6, <2>1 DEF PieceEvents
    <3>2. Stays(r, s) /\ r.decode = d
      BY <1>2, <3>1, ReadNothing DEF Reads
    <3>3. Alike(B[j], b)
      BY <1>2, <1>4, <2>1, NoPiece
    <3>4. SameBlocks(r, s)
      BY <3>2 DEF Stays
    <3>5. Shows("openai", s, B, c, x)
      BY <1>1
    <3>6. Shows("openai", r, D, c, x)
      BY <3>3, <3>4, <3>5, AlikeShows
    <3> QED
      BY <3>2, <3>6 DEF Stays, SameBlocks
  <2>2. CASE text # << >>
    <3>1. ReadResponseEvents("openai", PieceChunk(a, text), s.decode) =
            Read(<<BlockDelta(j, FieldOf(a.kind), text)>>, d)
      BY <1>6, <2>2 DEF PieceEvents
    <3>2. Says(r, s, j, FieldOf(a.kind), text) /\ r.decode = d
      BY <1>2, <3>1, ReadDelta DEF Reads
    <3>3. Known(B[j])
      BY <1>2, <1>4
    <3>4. Says(r, s, x[j], FieldOf(b.kind), text)
      BY <1>3, <1>4, <3>2
    <3>5. Shows("openai", s, B, c, x)
      BY <1>1
    <3>6. Shows("openai", r, D, c, x) /\ DOMAIN r.blocks = DOMAIN s.blocks
      BY <3>3, <3>4, <3>5, PieceShows
    <3> QED
      BY <3>2, <3>6 DEF Says
  <2> QED
    BY <2>1, <2>2
<1>8. SameAnswer(D, B)
  BY <1>3 DEF SameAnswer, Longer, Becomes
<1>9. DecoderAgrees(d, D)
  BY <1>3, <1>8, StillAgrees
<1>10. OpenAiAgrees(r, D, x)
  <2>1. Len(D) = Len(B)
    BY <1>8 DEF SameAnswer
  <2> QED
    BY <1>1, <1>7, <1>9, <2>1 DEF OpenAiAgrees
<1> QED
  BY <1>7, <1>10 DEF OpenAiShows, Goes

\* The answer begins with a chunk that says nothing.
LEMMA OpenAiBegins ==
    ASSUME NEW s, s = NewScan("openai"), NEW f, f = [Chunk EXCEPT !.role = TRUE],
           NEW r, Reads(r, "openai", s, f)
    PROVE  Goes(r, s) /\ OpenAiShows(r, << >>)
<1>1. PICK d, e : /\ d = OpenAiDecode /\ e = [d EXCEPT !.started = TRUE]
  OBVIOUS
<1>2. s.decode = d /\ IsScan(s) /\ s.blocks = Empty /\ s.order = << >>
  <2>1. s = [decode |-> d, blocks |-> Empty, order |-> << >>,
             usage |-> NoUsage, seen |-> FALSE, stop |-> None]
    BY <1>1 DEF NewScan, Decode0
  <2>2. /\ s.decode = d /\ s.blocks = Empty /\ s.order = << >> /\ s.usage = NoUsage
        /\ s.seen = FALSE /\ s.stop = None
    BY <2>1
  <2>3. IsUsage(NoUsage)
    BY DEF IsUsage, NoUsage
  <2>4. IsScan(s)
    BY <2>1, <2>2, <2>3 DEF IsScan
  <2> QED
    BY <2>2, <2>4
<1>3. /\ e = [started |-> TRUE, text |-> Closed, reasoning |-> Closed, tools |-> Empty]
      /\ d.started = FALSE
  BY <1>1 DEF OpenAiDecode
<1>4. OpenAiState(e) /\ e["text"] = Closed /\ e["reasoning"] = Closed /\ e.tools = Empty
  BY <1>3 DEF OpenAiState
<1>5. ReadOpenAi(f, d) = Read(<<MessageStart(NoUsage, FALSE)>>, e)
  <2>1. /\ f.choices = TRUE /\ f.finish = None /\ f.present = FALSE
        /\ f.reasoning = << >> /\ f.content = << >> /\ f.tools = << >>
    BY DEF Chunk
  <2>2. PICK one, m : one = Read(<<m>>, e) /\ m = MessageStart(NoUsage, FALSE)
    OBVIOUS
  <2>3. Read(IF d.started THEN << >> ELSE <<MessageStart(NoUsage, FALSE)>>, e) = one
    BY <1>3, <2>2
  <2>4. ReadOpenAi(f, d) = Read(one.events \o << >>, one.state)
    <3>1. OpenAiText(OpenAiText(one, "reasoning", "reasoning", << >>), "text", "text", << >>) = one
      BY NoText
    <3>2. FoldLeft(ProcessToolCallDelta, one, << >>) = one
      BY NoCall
    <3> QED
      BY <1>1, <2>1, <2>3, <3>1, <3>2 DEF ReadOpenAi
  <2>5. one.events = <<m>> /\ one.state = e
    BY <2>2 DEF Read
  <2>6. <<m>> \o << >> = <<m>>
    BY EventsAre
  <2> QED
    BY <2>2, <2>4, <2>5, <2>6
<1>6. Stays(r, s) /\ r.decode = e
  <2>1. PICK m : m = MessageStart(NoUsage, FALSE)
    OBVIOUS
  <2>2. \A t : ApplyEvent(t, m) = t
    BY <2>1, QuietEvent
  <2>3. ReadResponseEvents("openai", f, s.decode) = Read(<<m>>, e)
    BY <1>2, <1>5, <2>1 DEF ReadResponseEvents
  <2> QED
    BY <1>2, <2>2, <2>3, ReadQuiet DEF Reads
<1>7. PICK c, x : c = [j \in 0 .. 0 |-> 0] /\ x = [j \in 1 .. 0 |-> 0]
  OBVIOUS
<1>8. Shows("openai", r, << >>, c, x)
  <2>1. Len(<< >>) = 0 /\ 1 .. 0 = {} /\ c[0] = 0
    BY <1>7
  <2>2. Ranks(<< >>, c, x)
    BY <1>7, <2>1 DEF Ranks
  <2>3. r.order = << >>
    BY <1>2, <1>6 DEF Stays, SameBlocks
  <2> QED
    BY <2>1, <2>2, <2>3 DEF Shows
<1>9. OpenAiAgrees(r, << >>, x)
  <2>1. Len(<< >>) = 0 /\ 1 .. 0 = {}
    OBVIOUS
  <2>2. Calls(<< >>) = {} /\ Cardinality({}) = 0
    BY FS_EmptySet DEF Calls
  <2>3. DOMAIN Empty = {} /\ 0 .. 0 - 1 = {}
    BY DEF Empty
  <2>4. DecoderAgrees(e, << >>)
    BY <1>4, <2>1, <2>2, <2>3 DEF DecoderAgrees
  <2>5. DOMAIN r.blocks = {}
    BY <1>2, <1>6, <2>3 DEF Stays, SameBlocks
  <2> QED
    BY <1>6, <2>1, <2>4, <2>5 DEF OpenAiAgrees
<1> QED
  BY <1>6, <1>8, <1>9 DEF Goes, Stays, OpenAiShows

\* The calls in their order.
LEMMA CallsInOrder ==
    ASSUME NEW n \in Nat
    PROVE  Ascending(0 .. n - 1) \in [1 .. n -> 0 .. n - 1]
<1> DEFINE S == 0 .. n - 1
           In(s) == s \in [1 .. Cardinality(S) -> S] /\ \A i, j \in DOMAIN s : i < j => s[i] < s[j]
           g == [i \in 1 .. n |-> i - 1]
<1>1. Cardinality(S) = n
  <2>1. 0 \in Int /\ n - 1 \in Int
    OBVIOUS
  <2> QED
    BY <2>1, FS_Interval
<1>2. In(g)
  BY <1>1
<1>3. Ascending(S) = CHOOSE s : In(s)
  BY DEF Ascending, InOrder
<1>4. In(Ascending(S))
  <2> HIDE DEF In, S, g
  <2> QED
    BY <1>2, <1>3
<1> QED
  BY <1>1, <1>4

\* Events of blocks that stop.
Stops == {BlockStop(i) : i \in Nat}

\* The last chunk: the blocks stop, and then the answer.
StopChunk(stop, usage, present) ==
    [Chunk EXCEPT !.finish = stop, !.usage = usage, !.present = present]
\* The end of an OpenAI answer stops its blocks, which the scan does not mind.
LEMMA BlocksClose ==
    ASSUME NEW d, NEW S, NEW B \in Seq(S), DecoderAgrees(d, B)
    PROVE  \E q, e : q \in Seq(Stops) /\ OpenAiState(e) /\ CloseOpenBlocks(Read(<< >>, d)) = Read(q, e)
<1> DEFINE opened(b) == IF b.open THEN <<b.index>> ELSE << >>
           n == Cardinality(Calls(B))
           calls == EachOf(Ascending(DOMAIN d.tools), LAMBDA t : d.tools[t])
           indices == opened(d.reasoning) \o opened(d.text) \o calls
           q == EachOf(indices, BlockStop)
           e == [d EXCEPT !.text.open = FALSE, !.reasoning.open = FALSE, !.tools = Empty]
<1>1. n \in Nat /\ DOMAIN d.tools = 0 .. n - 1 /\ \A t \in 0 .. n - 1 : d.tools[t] \in 1 .. Len(B)
  <2>1. PICK T : B \in Seq(T) /\ 0 \in T
    <3>1. B \in Seq(S \cup {0})
      OBVIOUS
    <3> QED
      BY <3>1
  <2>2. n \in Nat
    BY <2>1, CallsGrow
  <2> QED
    BY <2>2 DEF DecoderAgrees
<1>2. calls \in Seq(Nat)
  <2>1. PICK s : s = Ascending(0 .. n - 1) /\ s \in [1 .. n -> 0 .. n - 1]
    <3> HIDE DEF n
    <3> QED
      BY <1>1, CallsInOrder
  <2>2. calls = [i \in 1 .. n |-> d.tools[s[i]]]
    BY <1>1, <2>1 DEF EachOf
  <2>3. \A i \in 1 .. n : d.tools[s[i]] \in Nat
    <3> HIDE DEF n
    <3> QED
      BY <1>1, <2>1
  <2> HIDE DEF calls, n
  <2>4. calls \in [1 .. n -> Nat]
    BY <2>2, <2>3
  <2> QED
    BY <1>1, <2>4
<1>3. \A field \in {"text", "reasoning"} : opened(d[field]) \in Seq(Nat)
  <2> TAKE field \in {"text", "reasoning"}
  <2>1. CASE \A j \in 1 .. Len(B) : B[j].kind # field
    <3>1. d[field] = Closed
      BY <2>1 DEF DecoderAgrees
    <3> QED
      BY <3>1 DEF Closed
  <2>2. CASE \E j \in 1 .. Len(B) : B[j].kind = field
    <3>1. PICK j \in 1 .. Len(B) : d[field] = [open |-> TRUE, index |-> j]
      BY <2>2 DEF DecoderAgrees
    <3>2. j \in Nat /\ opened(d[field]) = <<j>>
      BY <3>1
    <3> QED
      BY <3>2
  <2> QED
    BY <2>1, <2>2
<1>4. indices \in Seq(Nat)
  <2>1. opened(d.text) \in Seq(Nat) /\ opened(d.reasoning) \in Seq(Nat)
    BY <1>3
  <2> HIDE DEF opened, calls
  <2> QED
    BY <1>2, <2>1
<1>5. q \in Seq(Stops)
  <2> HIDE DEF indices
  <2>1. Len(indices) \in Nat /\ DOMAIN indices = 1 .. Len(indices)
    BY <1>4
  <2>2. \A i \in 1 .. Len(indices) : BlockStop(indices[i]) \in Stops
    BY <1>4 DEF Stops
  <2>3. q = [i \in 1 .. Len(indices) |-> BlockStop(indices[i])]
    BY <2>1 DEF EachOf
  <2> HIDE DEF q
  <2>4. q \in [1 .. Len(indices) -> Stops]
    BY <2>2, <2>3
  <2> QED
    BY <2>1, <2>4
<1>6. OpenAiState(e)
  <2>1. PICK t, g, l : d = [started |-> TRUE, text |-> t, reasoning |-> g, tools |-> l]
    BY DEF OpenAiState, DecoderAgrees
  <2>2. PICK u, v : u = [t EXCEPT !.open = FALSE] /\ v = [g EXCEPT !.open = FALSE]
    OBVIOUS
  <2>20. d.text = t /\ d.reasoning = g
    BY <2>1
  <2>21. e = [d EXCEPT !.text = u, !.reasoning = v, !.tools = Empty]
    BY <2>1, <2>2, <2>20
  <2> HIDE DEF e
  <2>3. e = [started |-> TRUE, text |-> u, reasoning |-> v, tools |-> Empty]
    BY <2>1, <2>21
  <2> QED
    BY <2>3 DEF OpenAiState
<1>7. CloseOpenBlocks(Read(<< >>, d)) = Read(q, e)
  <2>1. CloseOpenBlocks(Read(<< >>, d)) = Read(<< >> \o q, e)
    BY DEF CloseOpenBlocks, Read
  <2>2. << >> \o q = q
    <3> HIDE DEF q
    <3> QED
      BY <1>5
  <2> QED
    BY <2>1, <2>2
<1> QED
  <2> HIDE DEF q, e
  <2> QED
    BY <1>5, <1>6, <1>7

\* A frame under which blocks stop, and then the answer.
LEMMA ReadEnd ==
    ASSUME NEW p, NEW f, NEW s, IsScan(s), NEW e, NEW stop, NEW usage, NEW present,
           NEW q \in Seq(Stops),
           ReadResponseEvents(p, f, s.decode) =
             Read(q \o <<MessageDelta(stop, usage, present), MessageStop>>, e)
    PROVE  /\ Counts(ScanFrame(p, s, f), s, KnownNumber(s.usage.input, usage.input),
                     KnownNumber(s.usage.output, usage.output), present)
           /\ ScanFrame(p, s, f).decode = e
<1>1. PICK a, b, n, two, events, t :
        /\ a = MessageDelta(stop, usage, present) /\ b = MessageStop /\ n = Len(q)
        /\ two = <<a, b>> /\ events = q \o two /\ t = [s EXCEPT !.decode = e]
  OBVIOUS
<1>2. /\ n \in Nat /\ events = [i \in 1 .. n + 2 |-> events[i]]
      /\ events[n + 1] = a /\ events[n + 2] = b /\ \A i \in 1 .. n : events[i] = q[i] /\ q[i] \in Stops
  <2>1. q \in Seq(Stops \cup {a, b}) /\ two \in Seq(Stops \cup {a, b}) /\ Len(two) = 2
    BY <1>1
  <2>2. two[1] = a /\ two[2] = b
    BY <1>1
  <2>3. n \in Nat /\ Len(events) = n + 2 /\ events \in Seq(Stops \cup {a, b})
    BY <1>1, <2>1
  <2>4. events = [i \in 1 .. n + 2 |-> events[i]]
    BY <2>3
  <2>5. \A i \in 1 .. n : events[i] = q[i] /\ q[i] \in Stops
    BY <1>1, <2>1
  <2>6. events[n + 1] = a
    <3>1. n + 1 \in 1 .. n + 2 /\ ~ (n + 1 <= n) /\ (n + 1) - n = 1
      BY <2>3
    <3> QED
      BY <1>1, <2>1, <2>2, <2>3, <3>1
  <2>7. events[n + 2] = b
    <3>1. n + 2 \in 1 .. n + 2 /\ ~ (n + 2 <= n) /\ (n + 2) - n = 2
      BY <2>3
    <3> QED
      BY <1>1, <2>1, <2>2, <2>3, <3>1
  <2> QED
    BY <2>3, <2>4, <2>5, <2>6, <2>7
<1>3. \A i \in 1 .. n : ApplyEvent([s EXCEPT !.decode = e], events[i]) = [s EXCEPT !.decode = e]
  <2> TAKE i \in 1 .. n
  <2>1. PICK k \in Nat : events[i] = BlockStop(k)
    BY <1>2 DEF Stops
  <2> QED
    BY <2>1, QuietEvent
<1>4. ApplyEvents(s, Read(events, e)) = ApplyEvent(ApplyEvent([s EXCEPT !.decode = e], a), b)
  <2>1. EndsWith(events, n, a, b)
    BY <1>2 DEF EndsWith
  <2>2. n \in Nat
    BY <1>2
  <2> QED
    BY <1>3, <2>1, <2>2, QuietEvents
<1>5. ScanFrame(p, s, f) = ApplyEvent(t, a)
  <2>1. ScanFrame(p, s, f) = ApplyEvents(s, Read(events, e))
    BY <1>1 DEF ScanFrame
  <2>2. \A u : ApplyEvent(u, b) = u
    BY <1>1, QuietEvent
  <2> QED
    BY <1>1, <1>4, <2>1, <2>2
<1>6. Stays(t, s) /\ IsScan(t) /\ t.decode = e
  BY <1>1, DecoderSet DEF Stays
<1>7. PICK x, y : x = KnownNumber(s.usage.input, usage.input) /\ y = KnownNumber(s.usage.output, usage.output)
  OBVIOUS
<1>8. t.usage = s.usage
  BY <1>6 DEF Stays, SameUsage
<1>9. PICK r : r = ApplyEvent(t, a)
  OBVIOUS
<1>10. Counts(r, t, x, y, present) /\ r.decode = e
  <2>1. PICK u : u = MessageDelta(stop, usage, present)
    OBVIOUS
  <2>2. /\ Counts(ApplyEvent(t, u), t, KnownNumber(t.usage.input, usage.input),
                  KnownNumber(t.usage.output, usage.output), present)
        /\ ApplyEvent(t, u).decode = t.decode
    <3>1. IsScan(t)
      BY <1>6
    <3> QED
      BY <2>1, <3>1, UsageArrives
  <2>3. u = a
    BY <1>1, <2>1
  <2> QED
    BY <1>6, <1>7, <1>8, <1>9, <2>2, <2>3
<1>11. Counts(r, s, x, y, present)
  BY <1>6, <1>10, DecoderApart
<1> QED
  BY <1>5, <1>7, <1>9, <1>10, <1>11

\* The last chunk of OpenAI.
LEMMA ReadStopChunk ==
    ASSUME NEW d, NEW S, NEW B \in Seq(S), DecoderAgrees(d, B), NEW stop, stop # None,
           NEW usage, NEW present
    PROVE  \E q, e :
              /\ q \in Seq(Stops) /\ OpenAiState(e)
              /\ ReadOpenAi(StopChunk(stop, usage, present), d) =
                   Read(q \o <<MessageDelta(stop, usage, present), MessageStop>>, e)
<1>1. PICK q, e : /\ q \in Seq(Stops) /\ OpenAiState(e)
                   /\ CloseOpenBlocks(Read(<< >>, d)) = Read(q, e)
  BY BlocksClose
<1>2. PICK f : f = StopChunk(stop, usage, present)
  OBVIOUS
<1>3. /\ f.choices = TRUE /\ f.finish = stop /\ f.present = present /\ f.usage = usage
      /\ f.reasoning = << >> /\ f.content = << >> /\ f.tools = << >>
  BY <1>2 DEF StopChunk, Chunk
<1>4. [d EXCEPT !.started = TRUE] = d /\ d.started = TRUE
  BY DEF OpenAiState, DecoderAgrees
<1>5. PICK one : one = Read(<< >>, d)
  OBVIOUS
<1>6. PICK closed : closed = CloseOpenBlocks(one)
  OBVIOUS
<1>7. ReadOpenAi(f, d) = Read(closed.events \o <<MessageDelta(stop, usage, present), MessageStop>>,
                              closed.state)
  <2>1. Read(IF d.started THEN << >> ELSE <<MessageStart(NoUsage, FALSE)>>,
             [d EXCEPT !.started = TRUE]) = one
    BY <1>4, <1>5
  <2>2. OpenAiText(OpenAiText(one, "reasoning", "reasoning", << >>), "text", "text", << >>) = one
    BY NoText
  <2>3. FoldLeft(ProcessToolCallDelta, one, << >>) = one
    BY NoCall
  <2> QED
    BY <1>3, <1>6, <2>1, <2>2, <2>3 DEF ReadOpenAi
<1>8. closed.events = q /\ closed.state = e
  BY <1>1, <1>5, <1>6 DEF Read
<1> QED
  BY <1>1, <1>2, <1>7, <1>8

\* What the scan shows of the blocks it shows still.
LEMMA StillShows ==
    ASSUME NEW p, NEW s, NEW r, NEW B, NEW c, NEW x, Shows(p, s, B, c, x), SameBlocks(r, s)
    PROVE  Shows(p, r, B, c, x)
  BY DEF Shows, SameBlocks

\* After the stop the scan shows the answer, and the reader has started.
OpenAiEnded(s, B) == OpenAiState(s.decode) /\ \E c, x : Shows("openai", s, B, c, x)

\* The usage as the upstream tells it: all of it or nothing.
ToldUsage(present) == IF present THEN Usage ELSE NoUsage
Tells(usage, present) == present \in BOOLEAN /\ usage = ToldUsage(present)
Gains(r, s, present) == IsScan(r) /\ r.usage = ToldUsage(present) /\ r.seen = present

\* A scan that knows no usage has the one it is told.
LEMMA UsageGained ==
    ASSUME NEW r, NEW s, s.usage = NoUsage, s.seen = FALSE, NEW present,
           NEW usage, Tells(usage, present),
           Counts(r, s, KnownNumber(s.usage.input, usage.input),
                  KnownNumber(s.usage.output, usage.output), present)
    PROVE  Gains(r, s, present) /\ SameBlocks(r, s)
<1>1. s.usage.input = 0 /\ s.usage.output = 0
  BY DEF NoUsage
<1>2. CASE present
  <2>1. usage.input = 3 /\ usage.output = 2
    BY <1>2 DEF Tells, ToldUsage, Usage
  <2>2. KnownNumber(0, 3) = 3 /\ KnownNumber(0, 2) = 2
    BY DEF KnownNumber
  <2>3. r.usage = Usage
    BY <1>1, <2>1, <2>2 DEF Counts, Usage
  <2> QED
    BY <1>2, <2>3 DEF Counts, Gains, ToldUsage
<1>3. CASE ~ present
  <2>1. usage.input = 0 /\ usage.output = 0
    BY <1>3 DEF Tells, ToldUsage, NoUsage
  <2>2. KnownNumber(0, 0) = 0
    BY DEF KnownNumber
  <2>3. r.usage = NoUsage
    BY <1>1, <2>1, <2>2 DEF Counts, NoUsage
  <2> QED
    BY <1>3, <2>3 DEF Counts, Gains, Tells, ToldUsage
<1> QED
  BY <1>2, <1>3

\* A frame that tells the usage of an answer without one.
Untold(s) == IsScan(s) /\ s.usage = NoUsage /\ s.seen = FALSE
Hears(r, s, present, e) == Gains(r, s, present) /\ SameBlocks(r, s) /\ r.decode = e

\* The same of a frame.
LEMMA UsageTold ==
    ASSUME NEW p, NEW f, NEW s, Untold(s), NEW e, NEW stop,
           NEW present, NEW usage, Tells(usage, present),
           TellsUsage(ReadResponseEvents(p, f, s.decode), stop, usage, present, e),
           NEW r, Reads(r, p, s, f)
    PROVE  Hears(r, s, present, e)
<1>1. /\ Counts(ScanFrame(p, s, f), s, KnownNumber(s.usage.input, usage.input),
                KnownNumber(s.usage.output, usage.output), present)
      /\ ScanFrame(p, s, f).decode = e
  BY ReadUsage DEF Untold
<1>2. Counts(r, s, KnownNumber(s.usage.input, usage.input),
             KnownNumber(s.usage.output, usage.output), present)
  BY <1>1 DEF Reads
<1>3. Gains(r, s, present) /\ SameBlocks(r, s)
  BY <1>2, UsageGained DEF Untold
<1> QED
  BY <1>1, <1>3 DEF Reads, Hears

\* The last chunk, and the usage that comes after it.
LEMMA OpenAiStops ==
    ASSUME NEW S, NEW B \in Seq(S), NEW s, OpenAiShows(s, B), Untold(s), NEW stop, stop # None, NEW present \in BOOLEAN,
           NEW r, Reads(r, "openai", s, StopChunk(stop, ToldUsage(present), present))
    PROVE  Gains(r, s, present) /\ OpenAiEnded(r, B)
<1>1. PICK c, x : Shows("openai", s, B, c, x) /\ DecoderAgrees(s.decode, B)
  BY DEF OpenAiShows, OpenAiAgrees
<1>2. PICK usage : usage = ToldUsage(present)
  OBVIOUS
<1>3. PICK f : f = StopChunk(stop, usage, present)
  OBVIOUS
<1>4. PICK q, e :
        /\ q \in Seq(Stops) /\ OpenAiState(e)
        /\ ReadOpenAi(f, s.decode) = Read(q \o <<MessageDelta(stop, usage, present), MessageStop>>, e)
  BY <1>1, <1>3, ReadStopChunk
<1>5. ReadResponseEvents("openai", f, s.decode) =
        Read(q \o <<MessageDelta(stop, usage, present), MessageStop>>, e)
  BY <1>4 DEF ReadResponseEvents
<1>6. /\ Counts(r, s, KnownNumber(s.usage.input, usage.input),
                KnownNumber(s.usage.output, usage.output), present)
      /\ r.decode = e
  <2>1. r = ScanFrame("openai", s, f)
    BY <1>2, <1>3 DEF Reads
  <2> QED
    BY <1>4, <1>5, <2>1, ReadEnd DEF Untold
<1>7. Gains(r, s, present) /\ SameBlocks(r, s)
  <2>1. Tells(usage, present)
    BY <1>2 DEF Tells
  <2> QED
    BY <1>6, <2>1, UsageGained DEF Untold
<1> QED
  BY <1>1, <1>4, <1>6, <1>7, StillShows DEF OpenAiEnded

\* The chunk with the usage alone, after the end.
LEMMA OpenAiLateUsage ==
    ASSUME NEW B, NEW s, OpenAiEnded(s, B), Untold(s),
           NEW r, Reads(r, "openai", s, [Chunk EXCEPT !.choices = FALSE, !.usage = Usage,
                                                      !.present = TRUE])
    PROVE  Gains(r, s, TRUE) /\ OpenAiEnded(r, B)
<1>1. PICK f, d : /\ f = [Chunk EXCEPT !.choices = FALSE, !.usage = Usage, !.present = TRUE]
                  /\ d = s.decode
  OBVIOUS
<1>2. f.choices = FALSE /\ f.present = TRUE /\ f.usage = Usage
  BY <1>1 DEF Chunk
<1>3. [d EXCEPT !.started = TRUE] = d /\ d.started = TRUE
  BY <1>1 DEF OpenAiState, OpenAiEnded
<1>4. ReadOpenAi(f, d) = Read(<<MessageDelta(None, Usage, TRUE)>>, d)
  <2>1. PICK one, m : one = Read(<< >>, d) /\ m = MessageDelta(None, Usage, TRUE)
    OBVIOUS
  <2>2. ReadOpenAi(f, d) = Read(one.events \o <<m>>, one.state)
    BY <1>2, <1>3, <2>1 DEF ReadOpenAi
  <2>3. one.events = << >> /\ one.state = d
    BY <2>1 DEF Read
  <2>4. << >> \o <<m>> = <<m>>
    BY EventsAre
  <2> QED
    BY <2>1, <2>2, <2>3, <2>4
<1>5. PICK usage, present, none, p :
        /\ usage = Usage /\ present = TRUE /\ Tells(usage, present)
        /\ none = None /\ p = "openai"
  BY DEF Tells, ToldUsage
<1>6. TellsUsage(ReadResponseEvents(p, f, s.decode), none, usage, present, d)
  BY <1>1, <1>4, <1>5 DEF ReadResponseEvents, TellsUsage
<1>7. Hears(r, s, present, d)
  <2>1. Reads(r, p, s, f)
    BY <1>1, <1>5
  <2>2. Tells(usage, present)
    BY <1>5
  <2>3. Untold(s)
    OBVIOUS
  <2> QED
    BY <1>6, <2>1, <2>2, <2>3, UsageTold, Zenon
<1>8. PICK c, x : Shows("openai", s, B, c, x)
  BY DEF OpenAiEnded
<1> QED
  BY <1>1, <1>3, <1>5, <1>7, <1>8, StillShows DEF OpenAiEnded, Hears

\* An error, which the reader does not recognise.
LEMMA OpenAiFails ==
    ASSUME NEW B, NEW s, IsScan(s), OpenAiShows(s, B), NEW text,
           NEW r, Reads(r, "openai", s, [Chunk EXCEPT !.choices = FALSE, !.error = text])
    PROVE  Stays(r, s)
<1>1. PICK f, d : f = [Chunk EXCEPT !.choices = FALSE, !.error = text] /\ d = s.decode
  OBVIOUS
<1>2. f.choices = FALSE /\ f.present = FALSE
  BY <1>1 DEF Chunk
<1>3. [d EXCEPT !.started = TRUE] = d /\ d.started = TRUE
  <2>1. OpenAiState(d)
    BY <1>1 DEF OpenAiShows, OpenAiAgrees, DecoderAgrees
  <2> QED
    BY <2>1 DEF OpenAiState
<1>4. ReadOpenAi(f, d) = Read(<< >>, d)
  <2>1. PICK one : one = Read(<< >>, d)
    OBVIOUS
  <2>2. ReadOpenAi(f, d) = Read(one.events \o << >>, one.state)
    BY <1>2, <1>3, <2>1 DEF ReadOpenAi
  <2>3. one.events = << >> /\ one.state = d
    BY <2>1 DEF Read
  <2> QED
    BY <2>2, <2>3, EventsAre
<1>5. ReadResponseEvents("openai", f, s.decode) = Read(<< >>, d)
  BY <1>1, <1>4 DEF ReadResponseEvents
<1> QED
  BY <1>1, <1>5, ReadNothing DEF Reads

-----------------------------------------------------------------------------
(* What the readers make of the frames of the model: Anthropic.            *)

\* The start of a block the reader knows.
LEMMA AnthropicKnown ==
    ASSUME NEW i, NEW block \in KnownBlocks, NEW name, NEW d
    PROVE  ReadAnthropic(ContentBlockStart(i, block, name), d) = Read(<<BlockStart(i, block, name)>>, d)
<1>1. PICK f : f = ContentBlockStart(i, block, name)
  OBVIOUS
<1>2. f.event = "content_block_start" /\ f.block = block /\ f.index = i /\ f.name = name
  BY <1>1 DEF ContentBlockStart
<1> QED
  BY <1>1, <1>2 DEF ReadAnthropic

\* The start of a block the reader does not know.
LEMMA AnthropicForeign ==
    ASSUME NEW i, NEW block, block \notin KnownBlocks, NEW name, NEW d
    PROVE  \E e : ReadAnthropic(ContentBlockStart(i, block, name), d) = Read(<< >>, e)
<1>1. PICK f : f = ContentBlockStart(i, block, name)
  OBVIOUS
<1>2. f.event = "content_block_start" /\ f.block = block
  BY <1>1 DEF ContentBlockStart
<1> QED
  BY <1>1, <1>2 DEF ReadAnthropic

\* A delta; one of a kind the reader does not know is dropped.
LEMMA AnthropicPiece ==
    ASSUME NEW i, NEW kind, NEW text, NEW d
    PROVE  ReadAnthropic(ContentBlockDelta(i, kind, text), d) =
             Read(IF kind = "other" THEN << >> ELSE <<BlockDelta(i, kind, text)>>, d)
<1>1. PICK f : f = ContentBlockDelta(i, kind, text)
  OBVIOUS
<1>2. f.event = "content_block_delta" /\ f.index = i /\ f.kind = kind /\ f.text = text
  BY <1>1 DEF ContentBlockDelta
<1> QED
  BY <1>1, <1>2 DEF ReadAnthropic

\* The end of a block.
LEMMA AnthropicClose ==
    ASSUME NEW i, NEW d
    PROVE  \E e : ReadAnthropic(ContentBlockStop(i), d) \in {Read(<< >>, e), Read(<<BlockStop(i)>>, e)}
<1>1. PICK f : f = ContentBlockStop(i)
  OBVIOUS
<1>2. f.event = "content_block_stop" /\ f.index = i
  BY <1>1 DEF ContentBlockStop
<1>3. CASE i \in d.dropped
  BY <1>1, <1>2, <1>3 DEF ReadAnthropic
<1>4. CASE i \notin d.dropped
  BY <1>1, <1>2, <1>4 DEF ReadAnthropic
<1> QED
  BY <1>3, <1>4

\* The start of a message.
LEMMA AnthropicBegin ==
    ASSUME NEW usage, NEW d
    PROVE  ReadAnthropic(AnthropicStart(usage), d) = Read(<<MessageStart(usage, TRUE)>>, d)
<1>1. PICK f : f = AnthropicStart(usage)
  OBVIOUS
<1>2. f.event = "message_start" /\ f.usage = usage
  BY <1>1 DEF AnthropicStart
<1> QED
  BY <1>1, <1>2 DEF ReadAnthropic

\* The delta of a message, with its usage.
LEMMA AnthropicUsage ==
    ASSUME NEW stop, NEW usage, NEW present, NEW d
    PROVE  ReadAnthropic(AnthropicDelta(stop, usage, present), d) =
             Read(<<MessageDelta(stop, IF present THEN usage ELSE NoUsage, present)>>, d)
<1>1. PICK f : f = AnthropicDelta(stop, usage, present)
  OBVIOUS
<1>2. f.event = "message_delta" /\ f.stop = stop /\ f.usage = usage /\ f.present = present
  BY <1>1 DEF AnthropicDelta
<1> QED
  BY <1>1, <1>2 DEF ReadAnthropic

\* The end of a message.
LEMMA AnthropicEnd ==
    ASSUME NEW d
    PROVE  ReadAnthropic(AnthropicStop, d) = Read(<<MessageStop>>, d)
  BY DEF ReadAnthropic, AnthropicStop

\* An error.
LEMMA AnthropicTrouble ==
    ASSUME NEW text, NEW d
    PROVE  ReadAnthropic(AnthropicError(text), d) = Read(<<ErrorEvent(text)>>, d)
<1>1. PICK f : f = AnthropicError(text)
  OBVIOUS
<1>2. f.event = "error" /\ f.text = text
  BY <1>1 DEF AnthropicError
<1> QED
  BY <1>1, <1>2 DEF ReadAnthropic

\* The scan shows the blocks of an answer at the indices they say.
AnthropicAnswer(B) == \A j \in 1 .. Len(B) : IsSaid("anthropic", B[j]) /\ B[j].at = j - 1
AnthropicAgrees(s, B, x) ==
    /\ \A j \in 1 .. Len(B) : Known(B[j]) => x[j] = j - 1
    /\ DOMAIN s.blocks \subseteq 0 .. Len(B) - 1
AnthropicShows(s, B) == \E c, x : Shows("anthropic", s, B, c, x) /\ AnthropicAgrees(s, B, x)

\* The name a block starts with.
StartName(b) == IF b.kind = "redacted" THEN b.opaque ELSE b.name

\* A frame that starts a block.
LEMMA AnthropicOpens ==
    ASSUME NEW S, NEW B \in Seq(S), NEW b \in S, NEW s, IsScan(s), AnthropicShows(s, B),
           IsSaid("anthropic", b), b.text = << >>, b.at = Len(B), b.open = TRUE,
           NEW r, Reads(r, "anthropic", s, ContentBlockStart(b.at, b.kind, StartName(b)))
    PROVE  Goes(r, s) /\ AnthropicShows(r, Append(B, b))
<1>1. PICK c, x : Shows("anthropic", s, B, c, x) /\ AnthropicAgrees(s, B, x)
  BY DEF AnthropicShows
<1>2. PICK n, D, d, f, name : /\ n = Len(B) /\ D = Append(B, b) /\ d = s.decode
                              /\ name = StartName(b) /\ f = ContentBlockStart(b.at, b.kind, name)
  OBVIOUS
<1>3. /\ n \in Nat /\ D \in Seq(S) /\ Len(D) = n + 1 /\ D[n + 1] = b
      /\ \A j \in 1 .. n : D[j] = B[j]
      /\ \A j \in 1 .. n + 1 : j \in 1 .. n \/ j = n + 1
  BY <1>2, AppendPrefixes
<1>4. "anthropic" \in Protocols
  BY DEF Protocols
<1>5. Known(b) <=> b.kind \in KnownBlocks
  BY <1>4, KindsAre DEF KnownBlocks
<1>6. DOMAIN s.blocks \subseteq 0 .. n - 1 /\ n \notin DOMAIN s.blocks
      /\ \A j \in 1 .. n : Known(B[j]) => x[j] = j - 1
  BY <1>1, <1>2, <1>3 DEF AnthropicAgrees
<1>7. CASE Known(b)
  <2>1. ReadResponseEvents("anthropic", f, s.decode) = Read(<<BlockStart(n, b.kind, name)>>, d)
    <3>1. PICK k : k = b.kind /\ k \in KnownBlocks
      BY <1>5, <1>7
    <3>2. ReadAnthropic(ContentBlockStart(n, k, name), d) = Read(<<BlockStart(n, k, name)>>, d)
      BY <3>1, AnthropicKnown
    <3>3. f = ContentBlockStart(n, k, name)
      BY <1>2, <3>1
    <3> QED
      BY <1>2, <3>1, <3>2, <3>3 DEF ReadResponseEvents
  <2>2. Starts(r, s, n, b.kind, name)
    BY <1>2, <2>1, ReadStart DEF Reads
  <2>3. DOMAIN r.blocks = DOMAIN s.blocks \cup {n} /\ ShowsMore("anthropic", r, B, b, c, x, n)
    <3>1. Fresh(b, name)
      BY <1>2, <1>7 DEF Fresh, IsSaid, StartName
    <3>2. Shows("anthropic", s, B, c, x) /\ n \notin DOMAIN s.blocks
      BY <1>1, <1>6
    <3>3. n \in Nat
      BY <1>3
    <3> QED
      BY <2>2, <3>1, <3>2, <3>3, StartShows
  <2>4. PICK c2, y : Shows("anthropic", r, D, c2, y) /\ y[n + 1] = n /\ \A j \in 1 .. n : y[j] = x[j]
    BY <1>2, <2>3 DEF ShowsMore
  <2>5. AnthropicAgrees(r, D, y)
    <3>2. \A j \in 1 .. n + 1 : Known(D[j]) => y[j] = j - 1
      <4>1. ASSUME NEW j \in 1 .. n, Known(D[j]) PROVE y[j] = j - 1
        BY <1>3, <1>6, <2>4, <4>1
      <4>2. y[n + 1] = (n + 1) - 1
        BY <1>3, <2>4
      <4> QED
        BY <1>3, <4>1, <4>2
    <3>3. DOMAIN r.blocks \subseteq 0 .. (n + 1) - 1
      BY <1>3, <1>6, <2>3
    <3> QED
      BY <1>3, <3>2, <3>3 DEF AnthropicAgrees
  <2> QED
    BY <1>2, <2>2, <2>4, <2>5 DEF Goes, Starts, SameUsage, AnthropicShows
<1>8. CASE ~ Known(b)
  <2>1. PICK e : ReadResponseEvents("anthropic", f, s.decode) = Read(<< >>, e)
    <3>1. PICK k : k = b.kind /\ k \notin KnownBlocks
      BY <1>5, <1>8
    <3>2. PICK e : ReadAnthropic(ContentBlockStart(n, k, name), d) = Read(<< >>, e)
      BY <3>1, AnthropicForeign
    <3>3. f = ContentBlockStart(n, k, name)
      BY <1>2, <3>1
    <3> QED
      BY <1>2, <3>2, <3>3 DEF ReadResponseEvents
  <2>2. Stays(r, s)
    BY <1>2, <2>1, ReadNothing DEF Reads
  <2>3. SameBlocks(r, s) /\ Shows("anthropic", s, B, c, x)
    BY <1>1, <2>2 DEF Stays
  <2>4. PICK c2, y : Shows("anthropic", r, D, c2, y) /\ \A j \in 1 .. n : y[j] = x[j]
    <3>1. ShowsNoMore("anthropic", r, B, b, c, x)
      <4>1. Shows("anthropic", s, B, c, x) /\ SameBlocks(r, s)
        BY <2>3
      <4> QED
        BY <1>8, <4>1, ForeignBlockShows
    <3> QED
      BY <1>2, <3>1 DEF ShowsNoMore
  <2>5. AnthropicAgrees(r, D, y)
    <3>1. r.blocks = s.blocks
      BY <2>3 DEF SameBlocks
    <3>2. \A j \in 1 .. n + 1 : Known(D[j]) => y[j] = j - 1
      BY <1>3, <1>6, <1>8, <2>4
    <3>3. DOMAIN r.blocks \subseteq 0 .. (n + 1) - 1
      BY <1>3, <1>6, <3>1
    <3> QED
      BY <1>3, <3>2, <3>3 DEF AnthropicAgrees
  <2> QED
    BY <1>2, <2>2, <2>4, <2>5 DEF Goes, Stays, AnthropicShows
<1> QED
  BY <1>7, <1>8

\* A frame with a piece of a block.
LEMMA AnthropicAgreesStill ==
    ASSUME NEW s, NEW r, NEW B, NEW D, NEW x, AnthropicAgrees(s, B, x), SameAnswer(D, B),
           DOMAIN r.blocks \subseteq 0 .. Len(B) - 1
    PROVE  AnthropicAgrees(r, D, x)
  BY DEF AnthropicAgrees, SameAnswer, Known

\* An answer with one block changed has the same kinds and indices.
LEMMA OneChanges ==
    ASSUME NEW S, NEW B \in Seq(S), NEW j \in 1 .. Len(B), NEW b, b.kind = B[j].kind, b.at = B[j].at,
           NEW D, Becomes(D, B, j, b)
    PROVE  SameAnswer(D, B)
<1>1. /\ D = [B EXCEPT ![j] = b] /\ DOMAIN B = 1 .. Len(B)
  BY DEF Becomes
<1>2. Len(D) = Len(B) /\ DOMAIN D = DOMAIN B
  BY <1>1
<1>3. \A k \in 1 .. Len(B) : D[k] = IF k = j THEN b ELSE B[k]
  BY <1>1
<1> QED
  BY <1>1, <1>2, <1>3 DEF SameAnswer

\* A delta that makes a block grow by what it says.
LEMMA AnthropicGrows ==
    ASSUME NEW S, NEW B \in Seq(S), AnthropicAnswer(B), NEW s, IsScan(s), AnthropicShows(s, B),
           NEW j \in 1 .. Len(B), Known(B[j]), NEW b, b.kind = B[j].kind, b.at = B[j].at,
           NEW field, field # "other", NEW text, Grows("anthropic", B[j], b, field, text),
           NEW r, Reads(r, "anthropic", s, ContentBlockDelta(B[j].at, field, text)),
           NEW D, Becomes(D, B, j, b)
    PROVE  Goes(r, s) /\ AnthropicShows(r, D)
<1>1. PICK c, x : Shows("anthropic", s, B, c, x) /\ AnthropicAgrees(s, B, x)
  BY DEF AnthropicShows
<1>2. PICK i, d : i = B[j].at /\ d = s.decode
  OBVIOUS
<1>3. i = x[j]
  BY <1>1, <1>2 DEF AnthropicAnswer, AnthropicAgrees
<1>4. ReadAnthropic(ContentBlockDelta(i, field, text), d) = Read(<<BlockDelta(i, field, text)>>, d)
  BY AnthropicPiece
<1>5. ReadResponseEvents("anthropic", ContentBlockDelta(i, field, text), s.decode) =
        Read(<<BlockDelta(i, field, text)>>, d)
  BY <1>2, <1>4 DEF ReadResponseEvents
<1>6. Says(r, s, x[j], field, text)
  BY <1>2, <1>3, <1>5, ReadDelta DEF Reads
<1>7. Shows("anthropic", r, D, c, x) /\ DOMAIN r.blocks = DOMAIN s.blocks
  <2>1. Shows("anthropic", s, B, c, x)
    BY <1>1
  <2> QED
    BY <1>6, <2>1, GrowthShows
<1>8. SameAnswer(D, B)
  BY OneChanges
<1>9. AnthropicAgrees(r, D, x)
  <2>1. DOMAIN r.blocks \subseteq 0 .. Len(B) - 1 /\ AnthropicAgrees(s, B, x)
    BY <1>1, <1>7 DEF AnthropicAgrees
  <2> QED
    BY <1>8, <2>1, AnthropicAgreesStill
<1> QED
  BY <1>6, <1>7, <1>9 DEF Goes, Says, AnthropicShows

\* A frame that shows nothing of the jth block, which is not closed in vain.
LEMMA AnthropicKeeps ==
    ASSUME NEW S, NEW B \in Seq(S), NEW s, IsScan(s), AnthropicShows(s, B), NEW r, Stays(r, s),
           NEW j \in 1 .. Len(B), NEW b, Alike(B[j], b), b.at = B[j].at,
           NEW D, Becomes(D, B, j, b)
    PROVE  Goes(r, s) /\ AnthropicShows(r, D)
<1>1. PICK c, x : Shows("anthropic", s, B, c, x) /\ AnthropicAgrees(s, B, x)
  BY DEF AnthropicShows
<1>2. SameBlocks(r, s) /\ SameUsage(r, s) /\ IsScan(r)
  BY DEF Stays
<1>3. Shows("anthropic", r, D, c, x)
  BY <1>1, <1>2, AlikeShows
<1>4. b.kind = B[j].kind
  BY DEF Alike
<1>5. SameAnswer(D, B)
  BY <1>4, OneChanges
<1>6. AnthropicAgrees(r, D, x)
  <2>1. DOMAIN r.blocks \subseteq 0 .. Len(B) - 1 /\ AnthropicAgrees(s, B, x)
    BY <1>1, <1>2 DEF AnthropicAgrees, SameBlocks
  <2> QED
    BY <1>5, <2>1, AnthropicAgreesStill
<1> QED
  BY <1>2, <1>3, <1>6 DEF Goes, AnthropicShows

\* A delta of a block whose start was dropped: the scan keeps it aside.
LEMMA AnthropicMumbles ==
    ASSUME NEW S, NEW B \in Seq(S), AnthropicAnswer(B), NEW s, IsScan(s), AnthropicShows(s, B),
           NEW j \in 1 .. Len(B), ~ Known(B[j]), NEW b, b.kind = B[j].kind, b.at = B[j].at,
           NEW kind, NEW text,
           NEW r, Reads(r, "anthropic", s, ContentBlockDelta(B[j].at, kind, text)),
           NEW D, Becomes(D, B, j, b)
    PROVE  Goes(r, s) /\ AnthropicShows(r, D)
<1>1. PICK c, x : Shows("anthropic", s, B, c, x) /\ AnthropicAgrees(s, B, x)
  BY DEF AnthropicShows
<1>2. PICK i, d : i = B[j].at /\ d = s.decode
  OBVIOUS
<1>3. i = j - 1
  BY <1>2 DEF AnthropicAnswer
<1>4. ReadResponseEvents("anthropic", ContentBlockDelta(i, kind, text), s.decode) =
        Read(IF kind = "other" THEN << >> ELSE <<BlockDelta(i, kind, text)>>, d)
  BY <1>2, AnthropicPiece DEF ReadResponseEvents
<1>5. CASE kind = "other"
  <2>1. ReadResponseEvents("anthropic", ContentBlockDelta(i, kind, text), s.decode) = Read(<< >>, d)
    BY <1>4, <1>5
  <2>2. Stays(r, s)
    BY <1>2, <2>1, ReadNothing DEF Reads
  <2>3. Alike(B[j], b)
    BY DEF Alike
  <2> QED
    BY <2>2, <2>3, AnthropicKeeps
<1>6. CASE kind # "other"
  <2>1. ReadResponseEvents("anthropic", ContentBlockDelta(i, kind, text), s.decode) =
          Read(<<BlockDelta(i, kind, text)>>, d)
    BY <1>4, <1>6
  <2>2. Says(r, s, i, kind, text)
    BY <1>2, <2>1, ReadDelta DEF Reads
  <2>3. PICK v : IsPut(r.blocks, s.blocks, i, v)
    BY <2>2, PutIs DEF Says
  <2>4. /\ DOMAIN r.blocks = DOMAIN s.blocks \cup {i} /\ r.order = s.order
        /\ \A k \in DOMAIN s.blocks : k # i => r.blocks[k] = s.blocks[k]
    BY <2>2, <2>3 DEF IsPut, Says
  <2>5. ASSUME NEW k \in 1 .. Len(B), k # j, Known(B[k])
        PROVE  x[k] \in DOMAIN r.blocks /\ r.blocks[x[k]] = s.blocks[x[k]]
    <3>1. x[k] = k - 1 /\ x[k] \in DOMAIN s.blocks
      BY <1>1, <2>5 DEF Shows, AnthropicAgrees
    <3>2. k - 1 # i
      BY <1>3, <2>5
    <3> QED
      BY <2>4, <3>1, <3>2
  <2>6. ~ Known(b)
    BY DEF Known
  <2>7. Shows("anthropic", r, [B EXCEPT ![j] = b], c, x)
    <3>1. Known(b) <=> Known(B[j])
      BY <2>6
    <3>2. \A k \in 1 .. Len(B) : k # j /\ Known(B[k]) =>
             x[k] \in DOMAIN r.blocks /\ r.blocks[x[k]] = s.blocks[x[k]]
      BY <2>5
    <3>3. Known(b) => x[j] \in DOMAIN r.blocks /\ r.blocks[x[j]] = Shown("anthropic", b)
      BY <2>6
    <3>4. Shows("anthropic", s, B, c, x) /\ r.order = s.order
      BY <1>1, <2>4
    <3> QED
      BY <3>1, <3>2, <3>3, <3>4, ChangeShows
  <2>8. SameAnswer(D, B)
    BY OneChanges
  <2>9. AnthropicAgrees(r, D, x)
    <3>1. i \in 0 .. Len(B) - 1
      BY <1>3
    <3>2. DOMAIN r.blocks \subseteq 0 .. Len(B) - 1 /\ AnthropicAgrees(s, B, x)
      BY <1>1, <2>4, <3>1 DEF AnthropicAgrees
    <3> QED
      BY <2>8, <3>2, AnthropicAgreesStill
  <2> QED
    BY <2>2, <2>7, <2>9 DEF Goes, Says, AnthropicShows, Becomes
<1> QED
  BY <1>5, <1>6

\* The block b is a, after one more piece; and a when it is closed.
Extended(a, b, text) ==
    /\ b.kind = a.kind /\ b.name = a.name /\ b.opaque = a.opaque /\ b.at = a.at
    /\ b.text = a.text \o text
ClosedAs(a, b, opaque, text) ==
    /\ b.kind = a.kind /\ b.name = a.name /\ b.at = a.at
    /\ b.text = a.text \o text
    /\ b.opaque = IF a.kind = "thinking" THEN opaque ELSE a.opaque

\* The kind of delta that an Anthropic upstream says a piece with.
SaidKind(kind) ==
    CASE kind = "server_tool_use" -> "args"
      [] kind = "image" -> "other"
      [] OTHER -> DeltaKindOf(kind)

\* The kinds of delta that pieces of the known blocks are said with.
LEMMA SaidKindIs ==
    ASSUME NEW kind
    PROVE  /\ kind = "text" => SaidKind(kind) = "text" /\ FieldOf(kind) = "text"
           /\ kind = "tool" => SaidKind(kind) = "args" /\ FieldOf(kind) = "args"
           /\ kind = "thinking" => SaidKind(kind) = "reasoning" /\ FieldOf(kind) = "reasoning"
  BY DEF SaidKind, DeltaKindOf, FieldOf

\* A piece of any block but a redacted one.
LEMMA AnthropicSays ==
    ASSUME NEW S, NEW B \in Seq(S), AnthropicAnswer(B), NEW s, IsScan(s), AnthropicShows(s, B),
           NEW j \in 1 .. Len(B), B[j].kind # "redacted", NEW text, NEW b, Extended(B[j], b, text),
           NEW r, Reads(r, "anthropic", s, ContentBlockDelta(B[j].at, SaidKind(B[j].kind), text)),
           NEW D, Becomes(D, B, j, b)
    PROVE  Goes(r, s) /\ AnthropicShows(r, D)
<1>1. b.kind = B[j].kind /\ b.at = B[j].at
  BY DEF Extended
<1>2. CASE ~ Known(B[j])
  BY <1>1, <1>2, AnthropicMumbles
<1>3. CASE Known(B[j])
  <2>1. B[j].kind \in {"text", "tool", "thinking"}
    <3>1. IsSaid("anthropic", B[j]) /\ "anthropic" \in Protocols
      BY DEF AnthropicAnswer, Protocols
    <3> QED
      BY <1>3, <3>1, KindsAre
  <2>2. PICK field : field = FieldOf(b.kind)
    OBVIOUS
  <2>3. field = SaidKind(B[j].kind) /\ field # "other"
    BY <1>1, <2>1, <2>2, SaidKindIs
  <2>4. Longer(B[j], b, text)
    BY <2>1 DEF Longer, Extended
  <2>5. Grows("anthropic", B[j], b, field, text)
    BY <2>2, <2>4, ShownGrows DEF Grows
  <2>6. Reads(r, "anthropic", s, ContentBlockDelta(B[j].at, field, text))
    BY <2>3
  <2> QED
    BY <1>1, <1>3, <2>3, <2>5, <2>6, AnthropicGrows
<1> QED
  BY <1>2, <1>3

\* What a provider hides in a block that is open becomes the hidden part of it.
LEMMA HiddenGrows ==
    ASSUME NEW p, NEW a, NEW b, NEW opaque \in Seq(Hidden), ClosedAs(a, b, opaque, << >>),
           a.kind = "thinking", a.opaque = << >>, a.text \in Seq(Tokens), NEW field,
           \/ p = "anthropic" /\ field = "signature"
           \/ p = "responses" /\ field = "opaque"
    PROVE  Grows(p, a, b, field, opaque)
<1>1. PICK g, t, n : g = Shown(p, a) /\ t = a.text /\ n = a.name
  OBVIOUS
<1>2. << >> \o opaque = opaque /\ t \o << >> = t
  BY <1>1
<1>3. b.kind = "thinking" /\ b.name = n /\ b.text = t /\ b.opaque = opaque
  BY <1>1, <1>2 DEF ClosedAs
<1>4. PICK e : e = << >> /\ a.opaque = e
  OBVIOUS
<1>5. PICK w : w = e \o opaque /\ w = opaque
  BY <1>2, <1>4
<1>9. PICK v : v = BlockOf("thinking", n, e, e, t, e, e)
  OBVIOUS
<1>6. Known(b) <=> Known(a)
  BY <1>3 DEF Known
<1>7. CASE p = "anthropic" /\ field = "signature"
  <2>1. g = v
    BY <1>1, <1>4, <1>7, <1>9 DEF Shown, BlockOf
  <2>2. Shown(p, b) = BlockOf("thinking", n, e, e, t, w, e)
    BY <1>3, <1>4, <1>5, <1>7 DEF Shown, BlockOf
  <2>3. Grown(v, "signature", opaque) = BlockOf("thinking", n, e, e, t, e \o opaque, e)
    BY <1>9, FieldGrows
  <2> QED
    BY <1>1, <1>5, <1>6, <1>7, <2>1, <2>2, <2>3 DEF Grows
<1>8. CASE p = "responses" /\ field = "opaque"
  <2>1. g = v
    BY <1>1, <1>4, <1>8, <1>9 DEF Shown, BlockOf
  <2>2. Shown(p, b) = BlockOf("thinking", n, e, e, t, e, w)
    BY <1>3, <1>4, <1>5, <1>8 DEF Shown, BlockOf
  <2>3. Grown(v, "opaque", opaque) = BlockOf("thinking", n, e, e, t, e, e \o opaque)
    BY <1>9, FieldGrows
  <2> QED
    BY <1>1, <1>5, <1>6, <1>8, <2>1, <2>2, <2>3 DEF Grows
<1> QED
  BY <1>7, <1>8

\* A block that closes without a word more.
LEMMA FinishedAlike ==
    ASSUME NEW p, NEW a, NEW b, IsSaid(p, a), a.open = TRUE, ClosedAs(a, b, << >>, << >>)
    PROVE  Alike(a, b)
<1>1. PICK t : t = a.text /\ t \in Seq(Tokens)
  BY DEF IsSaid
<1>2. t \o << >> = t
  BY <1>1
<1>3. a.kind = "thinking" => a.opaque = << >>
  BY DEF IsSaid
<1> QED
  BY <1>1, <1>2, <1>3 DEF ClosedAs, Alike

\* The end of a block changes nothing.
LEMMA AnthropicStops ==
    ASSUME NEW s, IsScan(s), NEW i, NEW r, Reads(r, "anthropic", s, ContentBlockStop(i))
    PROVE  Stays(r, s)
<1>1. PICK d : d = s.decode
  OBVIOUS
<1>2. PICK e : ReadAnthropic(ContentBlockStop(i), d) \in {Read(<< >>, e), Read(<<BlockStop(i)>>, e)}
  BY AnthropicClose
<1>3. CASE ReadAnthropic(ContentBlockStop(i), d) = Read(<< >>, e)
  <2>1. ReadResponseEvents("anthropic", ContentBlockStop(i), s.decode) = Read(<< >>, e)
    BY <1>1, <1>3 DEF ReadResponseEvents
  <2> QED
    BY <2>1, ReadNothing DEF Reads
<1>4. CASE ReadAnthropic(ContentBlockStop(i), d) = Read(<<BlockStop(i)>>, e)
  <2>1. PICK ev : ev = BlockStop(i) /\ \A t : ApplyEvent(t, ev) = t
    <3>1. \A t : ApplyEvent(t, BlockStop(i)) = t
      BY QuietEvent
    <3> QED
      BY <3>1
  <2>2. ReadResponseEvents("anthropic", ContentBlockStop(i), s.decode) = Read(<<ev>>, e)
    BY <1>1, <1>4, <2>1 DEF ReadResponseEvents
  <2> QED
    BY <2>1, <2>2, ReadQuiet DEF Reads
<1> QED
  BY <1>2, <1>3, <1>4

\* A block that closes, with a signature before where there is one.
LEMMA AnthropicCloses ==
    ASSUME NEW S, NEW B \in Seq(S), AnthropicAnswer(B), NEW s, IsScan(s), AnthropicShows(s, B),
           NEW j \in 1 .. Len(B), B[j].open = TRUE, NEW opaque \in Seq(Hidden),
           opaque # << >> => B[j].kind = "thinking",
           NEW b, ClosedAs(B[j], b, opaque, << >>), NEW D, Becomes(D, B, j, b),
           NEW q, IF opaque = << >> THEN q = s
                  ELSE Reads(q, "anthropic", s, ContentBlockDelta(B[j].at, "signature", opaque)),
           NEW r, Reads(r, "anthropic", q, ContentBlockStop(B[j].at))
    PROVE  Goes(r, s) /\ AnthropicShows(r, D)
<1>1. IsSaid("anthropic", B[j])
  BY DEF AnthropicAnswer
<1>2. CASE opaque = << >>
  <2>1. Reads(r, "anthropic", s, ContentBlockStop(B[j].at))
    BY <1>2
  <2>2. Stays(r, s)
    BY <2>1, AnthropicStops
  <2>3. Alike(B[j], b) /\ b.at = B[j].at
    <3>1. ClosedAs(B[j], b, << >>, << >>)
      BY <1>2
    <3> QED
      BY <1>1, <3>1, FinishedAlike DEF ClosedAs
  <2> QED
    BY <2>2, <2>3, AnthropicKeeps
<1>3. CASE opaque # << >>
  <2>1. B[j].kind = "thinking" /\ B[j].opaque = << >> /\ B[j].text \in Seq(Tokens)
    BY <1>1, <1>3 DEF IsSaid
  <2>2. PICK p, field : p = "anthropic" /\ field = "signature" /\ field # "other"
    OBVIOUS
  <2>3. Grows("anthropic", B[j], b, field, opaque)
    <3>1. Grows(p, B[j], b, field, opaque)
      BY <2>1, <2>2, HiddenGrows
    <3> QED
      BY <2>2, <3>1
  <2>4. Known(B[j])
    <3>1. "anthropic" \in Protocols
      BY DEF Protocols
    <3> QED
      BY <1>1, <2>1, <3>1, KindsAre
  <2>5. Reads(q, "anthropic", s, ContentBlockDelta(B[j].at, field, opaque))
    BY <1>3, <2>2
  <2>6. b.kind = B[j].kind /\ b.at = B[j].at
    BY DEF ClosedAs
  <2>7. Goes(q, s) /\ AnthropicShows(q, D)
    BY <2>2, <2>3, <2>4, <2>5, <2>6, AnthropicGrows
  <2>8. Stays(r, q)
    BY <2>7, AnthropicStops DEF Goes
  <2>9. PICK c, x : Shows("anthropic", q, D, c, x) /\ AnthropicAgrees(q, D, x)
    BY <2>7 DEF AnthropicShows
  <2>10. Shows("anthropic", r, D, c, x) /\ AnthropicAgrees(r, D, x)
    BY <2>8, <2>9, StillShows DEF Stays, SameBlocks, AnthropicAgrees
  <2> QED
    BY <2>7, <2>8, <2>10 DEF Goes, Stays, SameUsage, AnthropicShows
<1> QED
  BY <1>2, <1>3

\* A scan before the first frame, and what it shows: nothing.
Pristine(s, d) ==
    /\ Untold(s) /\ s.decode = d /\ s.blocks = Empty /\ s.order = << >>

\* A new scan knows nothing.
LEMMA NewScanIs ==
    ASSUME NEW p, NEW s, s = NewScan(p)
    PROVE  Pristine(s, Decode0(p))
<1>1. PICK d : d = Decode0(p)
  OBVIOUS
<1>2. s = [decode |-> d, blocks |-> Empty, order |-> << >>,
           usage |-> NoUsage, seen |-> FALSE, stop |-> None]
  BY <1>1 DEF NewScan
<1>3. /\ s.decode = d /\ s.blocks = Empty /\ s.order = << >> /\ s.usage = NoUsage
      /\ s.seen = FALSE /\ s.stop = None
  BY <1>2
<1>4. IsUsage(NoUsage)
  BY DEF IsUsage, NoUsage
<1>5. IsScan(s)
  BY <1>2, <1>3, <1>4 DEF IsScan
<1> QED
  BY <1>1, <1>3, <1>5 DEF Pristine, Untold

\* A scan without blocks shows the empty answer.
LEMMA NothingShown ==
    ASSUME NEW p, NEW s, s.order = << >>, NEW c, NEW x,
           c = [j \in 0 .. 0 |-> 0], x = [j \in 1 .. 0 |-> 0]
    PROVE  Shows(p, s, << >>, c, x)
<1>1. Len(<< >>) = 0 /\ 1 .. 0 = {} /\ c[0] = 0
  OBVIOUS
<1>2. Ranks(<< >>, c, x)
  BY <1>1 DEF Ranks
<1> QED
  BY <1>1, <1>2 DEF Shows

\* The answer of Anthropic begins with the input it took.
LEMMA AnthropicBegins ==
    ASSUME NEW s, Pristine(s, AnthropicDecode),
           NEW r, Reads(r, "anthropic", s, AnthropicStart(InputOnly))
    PROVE  IsScan(r) /\ r.usage = InputOnly /\ r.seen = TRUE /\ AnthropicShows(r, << >>)
<1>1. PICK d, u, t : d = s.decode /\ u = InputOnly /\ t = [s EXCEPT !.decode = d]
  OBVIOUS
<1>2. PICK ev : ev = MessageStart(u, TRUE)
  OBVIOUS
<1>3. ReadAnthropic(AnthropicStart(u), d) = Read(<<ev>>, d)
  BY <1>2, AnthropicBegin
<1>4. r = ApplyEvent(t, ev)
  BY <1>1, <1>3, OneEvent DEF Reads, ScanFrame, ReadResponseEvents
<1>5. Stays(t, s) /\ IsScan(t)
  BY <1>1, DecoderSet DEF Pristine, Untold, Stays
<1>6. t.usage = NoUsage /\ SameBlocks(t, s)
  BY <1>5 DEF Stays, SameUsage, Pristine, Untold
<1>7. Counts(r, t, u.input, t.usage.output, TRUE)
  BY <1>2, <1>4, <1>5, AnswerStarts
<1>8. u.input = 3 /\ t.usage.output = 0
  BY <1>1, <1>6 DEF InputOnly, NoUsage
<1>9. IsScan(r) /\ r.usage = InputOnly /\ r.seen = TRUE /\ SameBlocks(r, s)
  BY <1>6, <1>7, <1>8 DEF Counts, InputOnly, SameBlocks
<1>10. PICK c, x : c = [j \in 0 .. 0 |-> 0] /\ x = [j \in 1 .. 0 |-> 0]
  OBVIOUS
<1>11. Shows("anthropic", r, << >>, c, x)
  <2>1. r.order = << >>
    BY <1>9 DEF SameBlocks, Pristine
  <2> QED
    BY <1>10, <2>1, NothingShown
<1>12. AnthropicAgrees(r, << >>, x)
  <2>1. DOMAIN r.blocks = {} /\ Len(<< >>) = 0 /\ 1 .. 0 = {}
    BY <1>9 DEF SameBlocks, Pristine, Empty
  <2> QED
    BY <2>1 DEF AnthropicAgrees
<1> QED
  BY <1>9, <1>11, <1>12 DEF AnthropicShows

\* It ends with the output it made, if that is told.
AnthropicTells(present) == IF present THEN OutputOnly ELSE NoUsage
AnthropicTold(r, present) ==
    IsScan(r) /\ r.seen = TRUE /\ r.usage = IF present THEN Usage ELSE InputOnly

\* The two frames that end an Anthropic answer.
LEMMA AnthropicStopsAll ==
    ASSUME NEW B, NEW s, IsScan(s), AnthropicShows(s, B), s.usage = InputOnly, s.seen = TRUE,
           NEW stop, NEW present \in BOOLEAN, NEW usage, usage = AnthropicTells(present),
           NEW q, Reads(q, "anthropic", s, AnthropicDelta(stop, usage, present)),
           NEW r, Reads(r, "anthropic", q, AnthropicStop)
    PROVE  AnthropicTold(r, present) /\ AnthropicShows(r, B)
<1>1. PICK d, u : d = s.decode /\ u = AnthropicTells(present)
  OBVIOUS
<1>2. u = IF present THEN usage ELSE NoUsage
  BY <1>1 DEF AnthropicTells
<1>3. ReadAnthropic(AnthropicDelta(stop, usage, present), d) = Read(<<MessageDelta(stop, u, present)>>, d)
  BY <1>2, AnthropicUsage
<1>4. TellsUsage(ReadResponseEvents("anthropic", AnthropicDelta(stop, usage, present), s.decode),
                 stop, u, present, d)
  BY <1>1, <1>3 DEF TellsUsage, ReadResponseEvents
<1>5. PICK i, o : i = KnownNumber(s.usage.input, u.input) /\ o = KnownNumber(s.usage.output, u.output)
  OBVIOUS
<1>6. Counts(q, s, i, o, present)
  BY <1>4, <1>5, ReadUsage DEF Reads
<1>7. q.usage = IF present THEN Usage ELSE InputOnly
  <2>1. s.usage.input = 3 /\ s.usage.output = 0
    BY DEF InputOnly
  <2>2. CASE present
    <3>1. u.input = 0 /\ u.output = 2
      BY <1>1, <2>2 DEF AnthropicTells, OutputOnly
    <3>2. i = 3 /\ o = 2
      BY <1>5, <2>1, <3>1 DEF KnownNumber
    <3> QED
      BY <1>6, <2>2, <3>2 DEF Counts, Usage
  <2>3. CASE ~ present
    <3>1. u.input = 0 /\ u.output = 0
      BY <1>1, <2>3 DEF AnthropicTells, NoUsage
    <3>2. i = 3 /\ o = 0
      BY <1>5, <2>1, <3>1 DEF KnownNumber
    <3> QED
      BY <1>6, <2>3, <3>2 DEF Counts, InputOnly
  <2> QED
    BY <2>2, <2>3
<1>8. Stays(r, q)
  <2>1. PICK ev : ev = MessageStop /\ \A t : ApplyEvent(t, ev) = t
    <3>1. \A t : ApplyEvent(t, MessageStop) = t
      BY QuietEvent
    <3> QED
      BY <3>1
  <2>2. ReadResponseEvents("anthropic", AnthropicStop, q.decode) = Read(<<ev>>, q.decode)
    BY <2>1, AnthropicEnd DEF ReadResponseEvents
  <2>3. IsScan(q)
    BY <1>6 DEF Counts
  <2> QED
    BY <2>1, <2>2, <2>3, ReadQuiet DEF Reads
<1>9. SameBlocks(r, s) /\ r.usage = q.usage /\ r.seen = TRUE /\ IsScan(r)
  BY <1>6, <1>8 DEF Counts, Stays, SameBlocks, SameUsage
<1>10. PICK c, x : Shows("anthropic", s, B, c, x) /\ AnthropicAgrees(s, B, x)
  BY DEF AnthropicShows
<1>11. Shows("anthropic", r, B, c, x) /\ AnthropicAgrees(r, B, x)
  BY <1>9, <1>10, StillShows DEF SameBlocks, AnthropicAgrees
<1> QED
  BY <1>7, <1>9, <1>11 DEF AnthropicTold, AnthropicShows

\* An error changes nothing.
LEMMA AnthropicFails ==
    ASSUME NEW s, IsScan(s), NEW text, NEW r, Reads(r, "anthropic", s, AnthropicError(text))
    PROVE  Stays(r, s)
<1>1. PICK ev : ev = ErrorEvent(text) /\ \A t : ApplyEvent(t, ev) = t
  <2>1. \A t : ApplyEvent(t, ErrorEvent(text)) = t
    BY QuietEvent
  <2> QED
    BY <2>1
<1>2. ReadResponseEvents("anthropic", AnthropicError(text), s.decode) = Read(<<ev>>, s.decode)
  BY <1>1, AnthropicTrouble DEF ReadResponseEvents
<1> QED
  BY <1>1, <1>2, ReadQuiet DEF Reads

-----------------------------------------------------------------------------
(* What the readers make of the frames of the model: Responses.            *)

ResponsesState(d) ==
    d = [started |-> d.started, items |-> d.items, parts |-> d.parts, next |-> d.next,
         sawFunctionCall |-> d.sawFunctionCall]

\* The reader's state with other items, parts and next index.
Holds(e, items, parts, next) ==
    ResponsesState(e) /\ e.items = items /\ e.parts = parts /\ e.next = next

StateOf(a, i, p, n, w) ==
    [started |-> a, items |-> i, parts |-> p, next |-> n, sawFunctionCall |-> w]

\* The parts of such a state.
LEMMA StateIs ==
    ASSUME NEW a, NEW i, NEW p, NEW n, NEW w
    PROVE  Holds(StateOf(a, i, p, n, w), i, p, n)
  BY DEF Holds, ResponsesState, StateOf

\* The updates that the reader makes to its state.
LEMMA StatesSet ==
    ASSUME NEW d, ResponsesState(d), NEW items, NEW parts, NEW next, NEW saw
    PROVE  /\ Holds([d EXCEPT !.items = items, !.next = next, !.sawFunctionCall = saw],
                    items, d.parts, next)
           /\ Holds([d EXCEPT !.parts = parts, !.next = next], d.items, parts, next)
           /\ Holds([d EXCEPT !.items = items], items, d.parts, d.next)
           /\ Holds([d EXCEPT !.parts = parts], d.items, parts, d.next)
           /\ Holds([[d EXCEPT !.items = items] EXCEPT !.parts = parts], items, parts, d.next)
<1>1. PICK a, i, p, n, w : d = StateOf(a, i, p, n, w)
  BY DEF ResponsesState, StateOf
<1>2. d.parts = p /\ d.items = i /\ d.next = n
  BY <1>1, StateIs DEF Holds
<1>3. PICK e, g, h : /\ e = [d EXCEPT !.items = items] /\ g = [d EXCEPT !.parts = parts]
                     /\ h = [e EXCEPT !.next = next]
  OBVIOUS
<1>4. e = StateOf(a, items, p, n, w)
  BY <1>1, <1>3 DEF StateOf
<1>20. g = StateOf(a, i, parts, n, w)
  BY <1>1, <1>3 DEF StateOf
<1>5. h = StateOf(a, items, p, next, w)
  <2>1. [e EXCEPT !.next = next] = StateOf(a, items, p, next, w)
    BY <1>4 DEF StateOf
  <2> QED
    BY <1>3, <2>1
<1>6. [h EXCEPT !.sawFunctionCall = saw] = StateOf(a, items, p, next, saw)
  BY <1>5 DEF StateOf
<1>7. [g EXCEPT !.next = next] = StateOf(a, i, parts, next, w)
  BY <1>20 DEF StateOf
<1>8. [e EXCEPT !.parts = parts] = StateOf(a, items, parts, n, w)
  BY <1>4 DEF StateOf
<1>9. [d EXCEPT !.items = items, !.next = next, !.sawFunctionCall = saw] =
        [[[d EXCEPT !.items = items] EXCEPT !.next = next] EXCEPT !.sawFunctionCall = saw]
  OBVIOUS
<1>10. [d EXCEPT !.parts = parts, !.next = next] = [[d EXCEPT !.parts = parts] EXCEPT !.next = next]
  OBVIOUS
<1> QED
  BY <1>2, <1>3, <1>4, <1>20, <1>6, <1>7, <1>8, <1>9, <1>10, StateIs

\* An item that is new: a call or a reasoning, or another.
LEMMA ItemStarts ==
    ASSUME NEW d, ResponsesState(d), NEW i, i \notin DOMAIN d.items, NEW kind \in {"tool", "thinking"},
           NEW name
    PROVE  \E e : /\ ReadResponses(ItemAdded(i, kind, name), d) = Read(<<BlockStart(d.next, kind, name)>>, e)
                  /\ Holds(e, Put(d.items, i, StreamItem(kind, d.next)), d.parts, d.next + 1)
<1>1. PICK f : f = ItemAdded(i, kind, name)
  OBVIOUS
<1>2. f.event = "item_added" /\ f.index = i /\ f.kind = kind /\ f.name = name
  BY <1>1 DEF ItemAdded
<1>3. ReadResponses(f, d) = StreamItemAdded(f, d)
  BY <1>2 DEF ReadResponses
<1>4. PICK items, next, saw : /\ items = Put(d.items, i, StreamItem(kind, d.next)) /\ next = d.next + 1
                              /\ saw = (d.sawFunctionCall \/ kind = "tool")
  OBVIOUS
<1>5. StreamItemAdded(f, d) =
        Read(<<BlockStart(d.next, kind, name)>>,
             [d EXCEPT !.items = items, !.next = next, !.sawFunctionCall = saw])
  BY <1>2, <1>4 DEF StreamItemAdded
<1>6. Holds([d EXCEPT !.items = items, !.next = next, !.sawFunctionCall = saw], items, d.parts, next)
  BY StatesSet
<1> QED
  BY <1>1, <1>3, <1>4, <1>5, <1>6

\* An item whose first part or delta is still to come, or never comes.
LEMMA ItemWaits ==
    ASSUME NEW d, ResponsesState(d), NEW i, i \notin DOMAIN d.items,
           NEW kind, kind \notin {"tool", "thinking"}, NEW name
    PROVE  \E e : /\ ReadResponses(ItemAdded(i, kind, name), d) = Read(<< >>, e)
                  /\ Holds(e, Put(d.items, i, StreamItem(kind, d.next)), d.parts, d.next)
<1>1. PICK f : f = ItemAdded(i, kind, name)
  OBVIOUS
<1>2. f.event = "item_added" /\ f.index = i /\ f.kind = kind /\ f.name = name
  BY <1>1 DEF ItemAdded
<1>3. ReadResponses(f, d) = StreamItemAdded(f, d)
  BY <1>2 DEF ReadResponses
<1>4. PICK items, next, saw : /\ items = Put(d.items, i, StreamItem(kind, d.next)) /\ next = d.next
                              /\ saw = (d.sawFunctionCall \/ kind = "tool")
  OBVIOUS
<1>5. StreamItemAdded(f, d) =
        Read(<< >>, [d EXCEPT !.items = items, !.next = next, !.sawFunctionCall = saw])
  BY <1>2, <1>4 DEF StreamItemAdded
<1>6. Holds([d EXCEPT !.items = items, !.next = next, !.sawFunctionCall = saw], items, d.parts, next)
  BY StatesSet
<1> QED
  BY <1>1, <1>3, <1>4, <1>5, <1>6

\* The part of a message, when it comes and when it is done.
LEMMA PartStarts ==
    ASSUME NEW d, ResponsesState(d), NEW i, i \in DOMAIN d.items, d.items[i].kind = "message",
           <<i, 0>> \notin DOMAIN d.parts
    PROVE  \E e : /\ ReadResponses(PartAdded(i, 0, "text"), d) =
                       Read(<<BlockStart(d.next, "text", << >>)>>, e)
                  /\ Holds(e, d.items, Put(d.parts, <<i, 0>>, d.next), d.next + 1)
<1>1. PICK f : f = PartAdded(i, 0, "text")
  OBVIOUS
<1>2. f.event = "part_added" /\ f.index = i /\ f.part = 0 /\ f.kind = "text"
  BY <1>1 DEF PartAdded
<1>3. ReadResponses(f, d) = StreamPartAdded(f, d)
  BY <1>2 DEF ReadResponses
<1>4. PICK parts, next : parts = Put(d.parts, <<i, 0>>, d.next) /\ next = d.next + 1
  OBVIOUS
<1>5. StreamPartAdded(f, d) =
        Read(<<BlockStart(d.next, "text", << >>)>>, [d EXCEPT !.parts = parts, !.next = next])
  BY <1>2, <1>4 DEF StreamPartAdded
<1>6. Holds([d EXCEPT !.parts = parts, !.next = next], d.items, parts, next)
  BY StatesSet
<1> QED
  BY <1>1, <1>3, <1>4, <1>5, <1>6

\* The end of a part of text.
LEMMA PartStops ==
    ASSUME NEW d, ResponsesState(d), NEW i, NEW text, <<i, 0>> \in DOMAIN d.parts
    PROVE  \E e : /\ ReadResponses(PartDone(i, 0, text), d) = Read(<<BlockStop(d.parts[<<i, 0>>])>>, e)
                  /\ Holds(e, d.items, Drop(d.parts, <<i, 0>>), d.next)
<1>1. PICK f : f = PartDone(i, 0, text)
  OBVIOUS
<1>2. f.event = "part_done" /\ f.index = i /\ f.part = 0
  BY <1>1 DEF PartDone
<1>3. ReadResponses(f, d) = StreamPartDone(f, d)
  BY <1>2 DEF ReadResponses
<1>4. PICK parts : parts = Drop(d.parts, <<i, 0>>)
  OBVIOUS
<1>5. StreamPartDone(f, d) = Read(<<BlockStop(d.parts[<<i, 0>>])>>, [d EXCEPT !.parts = parts])
  BY <1>2, <1>4 DEF StreamPartDone
<1>6. Holds([d EXCEPT !.parts = parts], d.items, parts, d.next)
  BY StatesSet
<1> QED
  BY <1>1, <1>3, <1>4, <1>5, <1>6

\* A frame that repeats what was streamed, and others of no concern.
LEMMA ResponsesQuiet ==
    ASSUME NEW i, NEW kind, NEW text, NEW d
    PROVE  ReadResponses(DeltaDone(i, kind, text), d) = Read(<< >>, d)
<1>1. PICK f : f = DeltaDone(i, kind, text)
  OBVIOUS
<1>2. f.event = "delta_done"
  BY <1>1 DEF DeltaDone
<1> QED
  BY <1>1, <1>2 DEF ReadResponses

\* A failed response.
LEMMA ResponsesTrouble ==
    ASSUME NEW text, NEW d
    PROVE  ReadResponses(Failed(text), d) = Read(<<ErrorEvent(text)>>, d)
<1>1. PICK f : f = Failed(text)
  OBVIOUS
<1>2. f.event = "failed" /\ f.text = text
  BY <1>1 DEF Failed
<1> QED
  BY <1>1, <1>2 DEF ReadResponses

\* A response that is created.
LEMMA ResponsesBegin ==
    ASSUME NEW e, e = [ResponsesDecode EXCEPT !.started = TRUE]
    PROVE  /\ ReadResponses(Created, ResponsesDecode) = Read(<<MessageStart(NoUsage, FALSE)>>, e)
           /\ Holds(e, Empty, Empty, 0)
<1>1. ResponsesDecode.started = FALSE /\ e = StateOf(TRUE, Empty, Empty, 0, FALSE)
  BY DEF ResponsesDecode, StateOf
<1>2. ReadResponses(Created, ResponsesDecode) = Read(<<MessageStart(NoUsage, FALSE)>>, e)
  BY <1>1 DEF ReadResponses, Created
<1>3. PICK g : g = StateOf(TRUE, Empty, Empty, 0, FALSE) /\ Holds(g, Empty, Empty, 0)
  BY StateIs
<1> QED
  BY <1>1, <1>2, <1>3

\* A response that is completed or incomplete, with its usage.
LEMMA ResponsesUsage ==
    ASSUME NEW event \in {"completed", "incomplete"}, NEW output, NEW usage, NEW present, NEW d
    PROVE  \E stop : ReadResponses(Finished(event, output, usage, present), d) =
                       Read(<<MessageDelta(stop, usage, present), MessageStop>>, d)
<1>1. PICK f : f = Finished(event, output, usage, present)
  OBVIOUS
<1>2. f.event = event /\ f.usage = usage /\ f.present = present
  BY <1>1 DEF Finished
<1>3. CASE event = "completed"
  BY <1>1, <1>2, <1>3 DEF ReadResponses, StreamFinished
<1>4. CASE event = "incomplete"
  BY <1>1, <1>2, <1>4 DEF ReadResponses, StreamFinished
<1> QED
  BY <1>3, <1>4

\* An item of the reader's state.
ItemOf(kind, index, seen) == [kind |-> kind, index |-> index, argsSeen |-> seen]

\* The state e with another item i than d has.
Renews(e, d, i, it) ==
    /\ ResponsesState(e) /\ IsPut(e.items, d.items, i, it)
    /\ e.parts = d.parts /\ e.next = d.next

\* Deltas: of nothing or of an item the reader does not know, of a part, and of
\* a call or a reasoning.
LEMMA NoItemDelta ==
    ASSUME NEW i, NEW kind, NEW text, text = << >> \/ kind = "code", NEW d
    PROVE  ReadResponses(ItemDelta(i, 0, kind, text), d) = Read(<< >>, d)
<1>1. PICK f : f = ItemDelta(i, 0, kind, text)
  OBVIOUS
<1>2. f.event = "delta" /\ f.kind = kind /\ f.text = text
  BY <1>1 DEF ItemDelta
<1>3. ReadResponses(f, d) = StreamDelta(f, d)
  BY <1>2 DEF ReadResponses
<1>4. StreamDelta(f, d) = Read(<< >>, d)
  BY <1>2 DEF StreamDelta
<1> QED
  BY <1>1, <1>3, <1>4

\* A delta of a text goes to the part that is open.
LEMMA TextDelta ==
    ASSUME NEW i, NEW text, text # << >>, NEW d, <<i, 0>> \in DOMAIN d.parts
    PROVE  ReadResponses(ItemDelta(i, 0, "text", text), d) =
             Read(<<BlockDelta(d.parts[<<i, 0>>], "text", text)>>, d)
<1>1. PICK f : f = ItemDelta(i, 0, "text", text)
  OBVIOUS
<1>2. f.event = "delta" /\ f.index = i /\ f.part = 0 /\ f.kind = "text" /\ f.text = text
  BY <1>1 DEF ItemDelta
<1>3. ReadResponses(f, d) = StreamDelta(f, d)
  BY <1>2 DEF ReadResponses
<1>4. StreamDelta(f, d) = Read(<<BlockDelta(d.parts[<<i, 0>>], "text", text)>>, d)
  BY <1>2 DEF StreamDelta
<1> QED
  BY <1>1, <1>3, <1>4

\* The kind of item that a kind of delta is meant for.
Wanted(kind, wanted) ==
    \/ kind = "args" /\ wanted = "tool"
    \/ kind = "reasoning" /\ wanted = "thinking"

\* A delta of a call or of reasoning goes to its item.
LEMMA ItemGrows ==
    ASSUME NEW d, ResponsesState(d), NEW i, i \in DOMAIN d.items, NEW item, NEW index, NEW seen,
           d.items[i] = ItemOf(item, index, seen), NEW kind, Wanted(kind, item),
           NEW text, text # << >>
    PROVE  \E e : /\ ReadResponses(ItemDelta(i, 0, kind, text), d) =
                       Read(<<BlockDelta(index, kind, text)>>, e)
                  /\ Renews(e, d, i, ItemOf(item, index, seen \/ kind = "args"))
<1>1. PICK f : f = ItemDelta(i, 0, kind, text)
  OBVIOUS
<1>2. f.event = "delta" /\ f.index = i /\ f.part = 0 /\ f.kind = kind /\ f.text = text
  BY <1>1 DEF ItemDelta
<1>3. ReadResponses(f, d) = StreamDelta(f, d)
  BY <1>2 DEF ReadResponses
<1>4. PICK it, v, items : /\ it = d.items[i]
                          /\ v = [it EXCEPT !.argsSeen = @ \/ kind = "args"]
                          /\ items = [d.items EXCEPT ![i] = v]
  OBVIOUS
<1>5. it = ItemOf(item, index, seen) /\ it.kind = item /\ it.index = index /\ it.argsSeen = seen
  BY <1>4 DEF ItemOf
<1>6. v = ItemOf(item, index, seen \/ kind = "args")
  BY <1>4, <1>5 DEF ItemOf
<1>7. PICK e : e = [d EXCEPT !.items = items]
  OBVIOUS
<1>8. StreamDelta(f, d) = Read(<<BlockDelta(index, kind, text)>>, e)
  <2>1. [d EXCEPT !.items[i].argsSeen = @ \/ kind = "args"] = e
    BY <1>4, <1>7
  <2>2. CASE kind = "args"
    BY <1>2, <1>4, <1>5, <2>1, <2>2 DEF StreamDelta, Wanted
  <2>3. CASE kind = "reasoning"
    BY <1>2, <1>4, <1>5, <2>1, <2>3 DEF StreamDelta, Wanted
  <2> QED
    BY <2>2, <2>3 DEF Wanted
<1>9. Holds(e, items, d.parts, d.next)
  BY <1>7, StatesSet
<1>10. IsPut(items, d.items, i, v)
  BY <1>4 DEF IsPut
<1>11. Renews(e, d, i, v)
  BY <1>9, <1>10 DEF Holds, Renews
<1> QED
  BY <1>1, <1>3, <1>6, <1>8, <1>11

\* The state e without the item i of d.
Without(e, d, i) ==
    /\ ResponsesState(e) /\ e.items = Drop(d.items, i) /\ e.next = d.next
    /\ DOMAIN e.parts = DOMAIN d.parts /\ \A k \in DOMAIN d.parts : e.parts[k] = d.parts[k]

\* What comes late of a block, and its stop.
LateEvents(index, kind, text) ==
    IF text = << >> THEN <<BlockStop(index)>> ELSE <<BlockDelta(index, kind, text), BlockStop(index)>>

\* What the reader makes of an item that is done.
LEMMA LateEventsAre ==
    ASSUME NEW index, NEW kind, NEW text
    PROVE  (IF text = << >> THEN << >> ELSE <<BlockDelta(index, kind, text)>>) \o <<BlockStop(index)>>
             = LateEvents(index, kind, text)
<1>1. CASE text = << >>
  BY <1>1, EventsAre DEF LateEvents
<1>2. CASE text # << >>
  BY <1>2, EventsAre DEF LateEvents
<1> QED
  BY <1>1, <1>2

\* An item that is dropped.
LEMMA ItemGone ==
    ASSUME NEW d, ResponsesState(d), NEW i, NEW e, e = [d EXCEPT !.items = Drop(@, i)]
    PROVE  Without(e, d, i)
<1>1. Holds(e, Drop(d.items, i), d.parts, d.next)
  BY StatesSet
<1> QED
  BY <1>1 DEF Holds, Without

\* An item that is done: a call, a reasoning, a message whose part is done, and
\* an item the reader does not know.
IsMissing(late, seen, item) == seen \in BOOLEAN /\ late = IF seen THEN << >> ELSE item.text

\* A call that is done says its arguments if no delta said them.
LEMMA CallDone ==
    ASSUME NEW d, ResponsesState(d), NEW i, i \in DOMAIN d.items, NEW index, NEW seen,
           d.items[i] = ItemOf("tool", index, seen), NEW item, NEW late, IsMissing(late, seen, item)
    PROVE  \E e : /\ ReadResponses(ItemDone(i, item), d) = Read(LateEvents(index, "args", late), e)
                  /\ Without(e, d, i)
<1>1. PICK f : f = ItemDone(i, item)
  OBVIOUS
<1>2. f.event = "item_done" /\ f.index = i /\ f.item = item
  BY <1>1 DEF ItemDone
<1>3. ReadResponses(f, d) = StreamItemDone(f, d)
  BY <1>2 DEF ReadResponses
<1>4. PICK it, e : it = d.items[i] /\ e = [d EXCEPT !.items = Drop(@, i)]
  OBVIOUS
<1>5. it.kind = "tool" /\ it.index = index /\ it.argsSeen = seen
  BY <1>4 DEF ItemOf
<1>6. MissingArguments(it, item) = late
  BY <1>5 DEF MissingArguments, IsMissing
<1>7. StreamItemDone(f, d) =
        Read((IF late = << >> THEN << >> ELSE <<BlockDelta(index, "args", late)>>)
                \o <<BlockStop(index)>>, e)
  BY <1>2, <1>4, <1>5, <1>6 DEF StreamItemDone
<1>8. Without(e, d, i)
  BY <1>4, ItemGone
<1> QED
  BY <1>1, <1>3, <1>7, <1>8, LateEventsAre

\* Reasoning that is done says what is encrypted of it.
LEMMA ReasoningDone ==
    ASSUME NEW d, ResponsesState(d), NEW i, i \in DOMAIN d.items, NEW index, NEW seen,
           d.items[i] = ItemOf("thinking", index, seen), NEW item
    PROVE  \E e : /\ ReadResponses(ItemDone(i, item), d) =
                       Read(LateEvents(index, "opaque", item.encrypted), e)
                  /\ Without(e, d, i)
<1>1. PICK f : f = ItemDone(i, item)
  OBVIOUS
<1>2. f.event = "item_done" /\ f.index = i /\ f.item = item
  BY <1>1 DEF ItemDone
<1>3. ReadResponses(f, d) = StreamItemDone(f, d)
  BY <1>2 DEF ReadResponses
<1>4. PICK it, e, late : it = d.items[i] /\ e = [d EXCEPT !.items = Drop(@, i)] /\ late = item.encrypted
  OBVIOUS
<1>5. it.kind = "thinking" /\ it.index = index
  BY <1>4 DEF ItemOf
<1>6. StreamItemDone(f, d) =
        Read((IF late = << >> THEN << >> ELSE <<BlockDelta(index, "opaque", late)>>)
                \o <<BlockStop(index)>>, e)
  BY <1>2, <1>4, <1>5 DEF StreamItemDone
<1>7. Without(e, d, i)
  BY <1>4, ItemGone
<1> QED
  BY <1>1, <1>3, <1>4, <1>6, <1>7, LateEventsAre

\* An item of an unknown kind that is done.
LEMMA UnknownDone ==
    ASSUME NEW d, ResponsesState(d), NEW i, i \in DOMAIN d.items,
           d.items[i].kind \notin {"tool", "thinking", "message"}, NEW item
    PROVE  \E e : ReadResponses(ItemDone(i, item), d) = Read(<< >>, e) /\ Without(e, d, i)
<1>1. PICK f : f = ItemDone(i, item)
  OBVIOUS
<1>2. f.event = "item_done" /\ f.index = i /\ f.item = item
  BY <1>1 DEF ItemDone
<1>3. ReadResponses(f, d) = StreamItemDone(f, d)
  BY <1>2 DEF ReadResponses
<1>4. PICK it, e : it = d.items[i] /\ e = [d EXCEPT !.items = Drop(@, i)]
  OBVIOUS
<1>5. StreamItemDone(f, d) = Read(<< >>, e)
  BY <1>2, <1>4 DEF StreamItemDone
<1>6. Without(e, d, i)
  BY <1>4, ItemGone
<1> QED
  BY <1>1, <1>3, <1>5, <1>6

\* A message that is done, its part being closed.
LEMMA MessageDone ==
    ASSUME NEW d, ResponsesState(d), NEW i, i \in DOMAIN d.items, d.items[i].kind = "message",
           \A k \in DOMAIN d.parts : k[1] # i, NEW item
    PROVE  \E e : ReadResponses(ItemDone(i, item), d) = Read(<< >>, e) /\ Without(e, d, i)
<1>1. PICK f : f = ItemDone(i, item)
  OBVIOUS
<1>2. f.event = "item_done" /\ f.index = i /\ f.item = item
  BY <1>1 DEF ItemDone
<1>3. ReadResponses(f, d) = StreamItemDone(f, d)
  BY <1>2 DEF ReadResponses
<1> DEFINE Less(a, b) == a[2] < b[2]
           stale == {k \in DOMAIN d.parts : k[1] = i}
           parts == [k \in DOMAIN d.parts \ stale |-> d.parts[k]]
           sorted == InOrder(stale, LAMBDA a, b : a[2] < b[2])
           stops == EachOf(sorted, LAMBDA k : BlockStop(d.parts[k]))
<1>4. PICK it, g : it = d.items[i] /\ g = [d EXCEPT !.items = Drop(@, i)]
  OBVIOUS
<1>5. PICK e : e = [g EXCEPT !.parts = [k \in DOMAIN @ \ stale |-> @[k]]]
  OBVIOUS
<1>6. StreamItemDone(f, d) = Read(stops, e)
  BY <1>2, <1>4, <1>5 DEF StreamItemDone
<1>7. stale = {}
  OBVIOUS
<1>8. stops = << >>
  <2>1. sorted \in [1 .. 0 -> {}]
    <3> DEFINE In(s) == s \in [1 .. 0 -> {}] /\ \A a, b \in DOMAIN s : a < b => s[a][2] < s[b][2]
               h == [a \in 1 .. 0 |-> a]
    <3>1. Cardinality({}) = 0
      BY FS_EmptySet
    <3>2. sorted = CHOOSE s : In(s)
      BY <1>7, <3>1 DEF InOrder
    <3>3. In(h)
      OBVIOUS
    <3>4. In(CHOOSE s : In(s))
      <4> HIDE DEF In, h
      <4> QED
        BY <3>3
    <3> QED
      BY <3>2, <3>4
  <2>2. DOMAIN sorted = {}
    BY <2>1
  <2> HIDE DEF sorted
  <2> QED
    BY <2>2 DEF EachOf
<1>9. Without(e, d, i)
  <2>1. Holds(g, Drop(d.items, i), d.parts, d.next)
    BY <1>4, StatesSet
  <2>2. e = [g EXCEPT !.parts = parts]
    BY <1>5, <2>1 DEF Holds
  <2>3. Holds(e, g.items, parts, g.next)
    <3>1. ResponsesState(g)
      BY <2>1 DEF Holds
    <3>2. Holds([g EXCEPT !.parts = parts], g.items, parts, g.next)
      <4> HIDE DEF parts
      <4> QED
        BY <3>1, StatesSet
    <3> QED
      BY <2>2, <3>2
  <2>4. DOMAIN parts = DOMAIN d.parts /\ \A k \in DOMAIN d.parts : parts[k] = d.parts[k]
    BY <1>7
  <2> HIDE DEF parts
  <2> QED
    BY <2>1, <2>3, <2>4 DEF Holds, Without
<1> QED
  BY <1>1, <1>3, <1>6, <1>8, <1>9

\* What a block that stops has late, the scan shows.
SaysLate(r, s, index, kind, text) ==
    IF text = << >> THEN Stays(r, s) ELSE Says(r, s, index, kind, text)

\* A frame that says the rest of a block and stops it.
LEMMA ReadLate ==
    ASSUME NEW p, NEW f, NEW s, IsScan(s), NEW e, NEW index, NEW kind, NEW text,
           ReadResponseEvents(p, f, s.decode) = Read(LateEvents(index, kind, text), e)
    PROVE  SaysLate(ScanFrame(p, s, f), s, index, kind, text) /\ ScanFrame(p, s, f).decode = e
<1>1. PICK stop : stop = BlockStop(index) /\ \A t : ApplyEvent(t, stop) = t
  <2>1. \A t : ApplyEvent(t, BlockStop(index)) = t
    BY QuietEvent
  <2> QED
    BY <2>1
<1>2. CASE text = << >>
  <2>1. ReadResponseEvents(p, f, s.decode) = Read(<<stop>>, e)
    BY <1>1, <1>2 DEF LateEvents
  <2>2. Stays(ScanFrame(p, s, f), s) /\ ScanFrame(p, s, f).decode = e
    BY <1>1, <2>1, ReadQuiet
  <2> QED
    BY <1>2, <2>2 DEF SaysLate
<1>3. CASE text # << >>
  <2>1. PICK ev, t : ev = BlockDelta(index, kind, text) /\ t = [s EXCEPT !.decode = e]
    OBVIOUS
  <2>2. ReadResponseEvents(p, f, s.decode) = Read(<<ev, stop>>, e)
    BY <1>1, <1>3, <2>1 DEF LateEvents
  <2>3. ScanFrame(p, s, f) = ApplyEvent(ApplyEvent(t, ev), stop)
    BY <2>1, <2>2, TwoEvents DEF ScanFrame
  <2>4. ScanFrame(p, s, f) = ApplyEvent(t, ev)
    BY <1>1, <2>3
  <2>5. Stays(t, s) /\ t.decode = e /\ IsScan(t)
    BY <2>1, DecoderSet DEF Stays
  <2>6. Says(ScanFrame(p, s, f), t, index, kind, text) /\ ScanFrame(p, s, f).decode = e
    <3>1. Says(ApplyEvent(t, BlockDelta(index, kind, text)), t, index, kind, text)
          /\ ApplyEvent(t, BlockDelta(index, kind, text)).decode = t.decode
      BY <2>5, DeltaArrives
    <3> QED
      BY <2>1, <2>4, <2>5, <3>1
  <2>7. Says(ScanFrame(p, s, f), s, index, kind, text)
    BY <2>5, <2>6, DecoderApart
  <2> QED
    BY <1>3, <2>6, <2>7 DEF SaysLate
<1> QED
  BY <1>2, <1>3

-----------------------------------------------------------------------------
(* Responses: the reader agrees with the answer so far.                    *)

WireKind(kind) == IF kind = "text" THEN "message" ELSE kind

\* The item of the jth block, and the part of a text, as long as it is open.
ItemFits(it, b, index) ==
    /\ it = ItemOf(it.kind, it.index, it.argsSeen)
    /\ it.kind = WireKind(b.kind)
    /\ b.kind \in {"tool", "thinking"} => it.index = index
    /\ b.kind = "tool" => it.argsSeen = (b.text # << >>)
Fits(d, b, j, index) ==
    /\ j - 1 \in DOMAIN d.items /\ ItemFits(d.items[j - 1], b, index)
    /\ b.kind = "text" => <<j - 1, 0>> \in DOMAIN d.parts /\ d.parts[<<j - 1, 0>>] = index

\* The item of a block.
LEMMA ItemOfFits ==
    ASSUME NEW b, NEW kind, kind = WireKind(b.kind), NEW i, NEW seen,
           b.kind = "tool" => seen = (b.text # << >>), NEW index,
           b.kind \in {"tool", "thinking"} => i = index
    PROVE  ItemFits(ItemOf(kind, i, seen), b, index)
<1>1. PICK it : it = ItemOf(kind, i, seen)
  OBVIOUS
<1>2. it.kind = kind /\ it.index = i /\ it.argsSeen = seen
  BY <1>1 DEF ItemOf
<1>3. ItemFits(it, b, index)
  BY <1>1, <1>2 DEF ItemFits
<1> QED
  BY <1>1, <1>3

ResponsesDecoder(d, B, x) ==
    /\ ResponsesState(d)
    /\ DOMAIN d.items \subseteq 0 .. Len(B) - 1
    /\ DOMAIN d.parts \subseteq {<<i, 0>> : i \in 0 .. Len(B) - 1}
    /\ \A j \in 1 .. Len(B) : B[j].open => Fits(d, B[j], j, x[j])

\* At most the ith item of d, and its part, differ in e.
Only(e, d, i) ==
    /\ ResponsesState(e)
    /\ DOMAIN e.items \subseteq DOMAIN d.items \cup {i}
    /\ DOMAIN e.parts \subseteq DOMAIN d.parts \cup {<<i, 0>>}
    /\ \A k \in DOMAIN d.items : k # i => k \in DOMAIN e.items /\ e.items[k] = d.items[k]
    /\ \A k \in DOMAIN d.parts : k # <<i, 0>> => k \in DOMAIN e.parts /\ e.parts[k] = d.parts[k]

\* The answer D is B, with the jth block new or changed.
Differs(D, B, j, y, x) ==
    /\ Len(B) \in Nat /\ Len(D) \in Nat /\ Len(B) <= Len(D) /\ j \in 1 .. Len(D)
    /\ \A k \in 1 .. Len(D) : k # j => k \in 1 .. Len(B) /\ D[k] = B[k] /\ y[k] = x[k]

\* The decoder fits an answer if it does at the block that differs.
LEMMA OthersFit ==
    ASSUME NEW d, NEW e, NEW B, NEW D, NEW x, NEW y, NEW j, ResponsesDecoder(d, B, x),
           Differs(D, B, j, y, x), Only(e, d, j - 1), D[j].open => Fits(e, D[j], j, y[j])
    PROVE  ResponsesDecoder(e, D, y)
<1>1. j \in 1 .. Len(D) /\ j - 1 \in 0 .. Len(D) - 1 /\ 0 .. Len(B) - 1 \subseteq 0 .. Len(D) - 1
  BY DEF Differs
<1>2. DOMAIN e.items \subseteq 0 .. Len(D) - 1
  BY <1>1 DEF ResponsesDecoder, Only
<1>3. DOMAIN e.parts \subseteq {<<i, 0>> : i \in 0 .. Len(D) - 1}
  BY <1>1 DEF ResponsesDecoder, Only
<1>4. ASSUME NEW k \in 1 .. Len(D), D[k].open PROVE Fits(e, D[k], k, y[k])
  <2>1. CASE k = j
    BY <1>4, <2>1
  <2>2. CASE k # j
    <3>1. k \in 1 .. Len(B) /\ D[k] = B[k] /\ y[k] = x[k] /\ k - 1 # j - 1
      BY <1>1, <2>2 DEF Differs
    <3>2. Fits(d, B[k], k, x[k])
      BY <1>4, <3>1 DEF ResponsesDecoder
    <3>3. <<k - 1, 0>> # <<j - 1, 0>>
      BY <3>1
    <3>4. k - 1 \in DOMAIN e.items /\ e.items[k - 1] = d.items[k - 1]
      BY <3>1, <3>2 DEF Fits, Only
    <3>5. B[k].kind = "text" =>
            <<k - 1, 0>> \in DOMAIN e.parts /\ e.parts[<<k - 1, 0>>] = d.parts[<<k - 1, 0>>]
      BY <3>2, <3>3 DEF Fits, Only
    <3> QED
      BY <3>1, <3>2, <3>4, <3>5 DEF Fits
  <2> QED
    BY <2>1, <2>2
<1> QED
  BY <1>2, <1>3, <1>4 DEF ResponsesDecoder, Only

\* A block more, and a block changed.
LEMMA OneMoreDiffers ==
    ASSUME NEW S, NEW B \in Seq(S), NEW b \in S, NEW x, NEW y,
           \A k \in 1 .. Len(B) : y[k] = x[k]
    PROVE  Differs(Append(B, b), B, Len(B) + 1, y, x)
<1>1. PICK n, D : n = Len(B) /\ D = Append(B, b)
  OBVIOUS
<1>2. /\ n \in Nat /\ D \in Seq(S) /\ Len(D) = n + 1 /\ D[n + 1] = b
      /\ \A j \in 1 .. n : D[j] = B[j]
  BY <1>1, AppendPrefixes
<1>3. \A k \in 1 .. n + 1 : k # n + 1 => k \in 1 .. n
  BY <1>2
<1>4. Differs(D, B, n + 1, y, x)
  BY <1>1, <1>2, <1>3 DEF Differs
<1> QED
  BY <1>1, <1>4

\* An answer with one block changed differs at that block only.
LEMMA OneChangedDiffers ==
    ASSUME NEW S, NEW B \in Seq(S), NEW j \in 1 .. Len(B), NEW b, NEW D, Becomes(D, B, j, b), NEW x
    PROVE  Differs(D, B, j, x, x) /\ D[j] = b
<1>1. DOMAIN B = 1 .. Len(B) /\ Len(B) \in Nat
  OBVIOUS
<1>2. Len(D) = Len(B)
  BY <1>1 DEF Becomes
<1>3. \A k \in 1 .. Len(B) : D[k] = IF k = j THEN b ELSE B[k]
  BY <1>1 DEF Becomes
<1> QED
  BY <1>1, <1>2, <1>3 DEF Differs

\* The scan shows the known blocks at the indices the reader gave them.
ResponsesAnswer(B) == \A j \in 1 .. Len(B) : IsSaid("responses", B[j]) /\ B[j].at = j - 1
ResponsesAgrees(s, B, c, x) ==
    /\ ResponsesDecoder(s.decode, B, x)
    /\ s.decode.next = c[Len(B)] /\ DOMAIN s.blocks \subseteq 0 .. c[Len(B)] - 1
ResponsesShows(s, B) ==
    \E c, x : Shows("responses", s, B, c, x) /\ ResponsesAgrees(s, B, c, x)

\* The next index is not in use.
LEMMA NextIsFree ==
    ASSUME NEW s, NEW S, NEW B \in Seq(S), NEW c, NEW x, Shows("responses", s, B, c, x),
           ResponsesAgrees(s, B, c, x), NEW i, i = s.decode.next
    PROVE  i \in Nat /\ i = c[Len(B)] /\ i \notin DOMAIN s.blocks
<1>1. c[Len(B)] \in Nat
  <2>1. Len(B) \in 0 .. Len(B)
    OBVIOUS
  <2> QED
    BY <2>1 DEF Shows, Ranks
<1> QED
  BY <1>1 DEF ResponsesAgrees

\* A new item, of which the scan shows a block.
LEMMA ResponsesOpensItem ==
    ASSUME NEW S, NEW B \in Seq(S), NEW b \in S, NEW s, IsScan(s), ResponsesShows(s, B),
           IsSaid("responses", b), b.text = << >>, b.at = Len(B), b.kind \in {"tool", "thinking"},
           b.open = TRUE, NEW r, Reads(r, "responses", s, ItemAdded(b.at, b.kind, b.name))
    PROVE  Goes(r, s) /\ ResponsesShows(r, Append(B, b))
<1>1. PICK c, x : Shows("responses", s, B, c, x) /\ ResponsesAgrees(s, B, c, x)
  BY DEF ResponsesShows
<1>2. PICK n, D, d, kind, name, i : /\ n = Len(B) /\ D = Append(B, b) /\ d = s.decode
                                    /\ kind = b.kind /\ name = b.name /\ i = d.next
  OBVIOUS
<1>3. /\ n \in Nat /\ D \in Seq(S) /\ Len(D) = n + 1 /\ D[n + 1] = b
  BY <1>2, AppendPrefixes
<1>4. ResponsesDecoder(d, B, x) /\ ResponsesState(d) /\ n \notin DOMAIN d.items
  BY <1>1, <1>2, <1>3 DEF ResponsesAgrees, ResponsesDecoder
<1>5. i \in Nat /\ i = c[n] /\ i \notin DOMAIN s.blocks /\ DOMAIN s.blocks \subseteq 0 .. i - 1
  <2>1. i = s.decode.next /\ Shows("responses", s, B, c, x) /\ ResponsesAgrees(s, B, c, x)
    BY <1>1, <1>2
  <2>2. i \in Nat /\ i = c[Len(B)] /\ i \notin DOMAIN s.blocks
    BY <2>1, NextIsFree
  <2> QED
    BY <1>1, <1>2, <2>2 DEF ResponsesAgrees
<1>6. PICK it : it = StreamItem(kind, i) /\ it = ItemOf(kind, i, FALSE)
  BY DEF StreamItem, ItemOf
<1>7. kind \in {"tool", "thinking"}
  BY <1>2
<1>8. PICK e : /\ ReadResponses(ItemAdded(n, kind, name), d) = Read(<<BlockStart(i, kind, name)>>, e)
               /\ Holds(e, Put(d.items, n, it), d.parts, i + 1)
  <2>1. \E e : /\ ReadResponses(ItemAdded(n, kind, name), d) =
                     Read(<<BlockStart(d.next, kind, name)>>, e)
               /\ Holds(e, Put(d.items, n, StreamItem(kind, d.next)), d.parts, d.next + 1)
    <3>1. n \notin DOMAIN d.items /\ ResponsesState(d)
      BY <1>4
    <3> QED
      BY <1>7, <3>1, ItemStarts
  <2> QED
    BY <1>2, <1>6, <2>1
<1>9. ReadResponseEvents("responses", ItemAdded(n, kind, name), s.decode) =
        Read(<<BlockStart(i, kind, name)>>, e)
  BY <1>2, <1>8 DEF ReadResponseEvents
<1>10. Starts(r, s, i, b.kind, name) /\ r.decode = e
  BY <1>2, <1>9, ReadStart DEF Reads
<1>11. DOMAIN r.blocks = DOMAIN s.blocks \cup {i} /\ ShowsMore("responses", r, B, b, c, x, i)
  <2>1. Known(b)
    <3>1. "responses" \in Protocols
      BY DEF Protocols
    <3> QED
      BY <3>1, KindsAre
  <2>2. Fresh(b, name)
    BY <1>2, <2>1 DEF Fresh, IsSaid
  <2>3. Shows("responses", s, B, c, x) /\ i \notin DOMAIN s.blocks /\ i \in Nat
    BY <1>1, <1>5
  <2> QED
    BY <1>10, <2>2, <2>3, StartShows
<1>12. PICK c2, y : /\ Shows("responses", r, D, c2, y) /\ y[n + 1] = i /\ c2[n + 1] = i + 1
                    /\ \A j \in 1 .. n : y[j] = x[j]
  BY <1>2, <1>5, <1>11 DEF ShowsMore
<1>13. IsPut(e.items, d.items, n, it) /\ e.parts = d.parts /\ e.next = i + 1 /\ ResponsesState(e)
  BY <1>8, PutIs DEF Holds
<1>14. ResponsesDecoder(e, D, y)
  <2>1. Differs(D, B, n + 1, y, x)
    BY <1>2, <1>12, OneMoreDiffers
  <2>2. (n + 1) - 1 = n
    BY <1>3
  <2>3. Only(e, d, n)
    BY <1>13 DEF Only, IsPut
  <2>4. Fits(e, D[n + 1], n + 1, y[n + 1])
    <3>1. n \in DOMAIN e.items /\ e.items[n] = it
      BY <1>13 DEF IsPut
    <3>2. ItemFits(it, b, i)
      <4>1. kind = WireKind(b.kind) /\ (b.kind = "tool" => FALSE = (b.text # << >>))
        BY <1>2, <1>7 DEF WireKind
      <4>2. ItemFits(ItemOf(kind, i, FALSE), b, i)
        BY <4>1, ItemOfFits
      <4> QED
        BY <1>6, <4>2
    <3> QED
      BY <1>2, <1>3, <1>7, <1>12, <2>2, <3>1, <3>2 DEF Fits
  <2> QED
    BY <1>4, <2>1, <2>2, <2>3, <2>4, OthersFit
<1>15. ResponsesAgrees(r, D, c2, y)
  <2>1. DOMAIN r.blocks \subseteq 0 .. (i + 1) - 1
    BY <1>5, <1>11
  <2> QED
    BY <1>3, <1>10, <1>12, <1>13, <1>14, <2>1 DEF ResponsesAgrees
<1> QED
  BY <1>2, <1>10, <1>12, <1>15 DEF Goes, Starts, SameUsage, ResponsesShows

\* A new item that the reader does not know.
LEMMA ResponsesOpensUnknown ==
    ASSUME NEW S, NEW B \in Seq(S), NEW b \in S, NEW s, IsScan(s), ResponsesShows(s, B),
           ~ Known(b), b.at = Len(B), NEW r,
           Reads(r, "responses", s, ItemAdded(b.at, b.kind, << >>))
    PROVE  Goes(r, s) /\ ResponsesShows(r, Append(B, b))
<1>1. PICK c, x : Shows("responses", s, B, c, x) /\ ResponsesAgrees(s, B, c, x)
  BY DEF ResponsesShows
<1>2. PICK n, D, d, kind, i : /\ n = Len(B) /\ D = Append(B, b) /\ d = s.decode
                              /\ kind = b.kind /\ i = d.next
  OBVIOUS
<1>3. /\ n \in Nat /\ D \in Seq(S) /\ Len(D) = n + 1 /\ D[n + 1] = b
  BY <1>2, AppendPrefixes
<1>4. ResponsesDecoder(d, B, x) /\ ResponsesState(d) /\ n \notin DOMAIN d.items
  BY <1>1, <1>2, <1>3 DEF ResponsesAgrees, ResponsesDecoder
<1>5. i = c[n] /\ DOMAIN s.blocks \subseteq 0 .. i - 1
  BY <1>1, <1>2 DEF ResponsesAgrees
<1>6. PICK it : it = StreamItem(kind, i) /\ it = ItemOf(kind, i, FALSE)
  BY DEF StreamItem, ItemOf
<1>7. kind \notin {"tool", "thinking", "text", "message"}
  BY <1>2, AnswerAssumption DEF Known, KnownBlocks
<1>8. PICK e : /\ ReadResponses(ItemAdded(n, kind, << >>), d) = Read(<< >>, e)
               /\ Holds(e, Put(d.items, n, it), d.parts, i)
  <2>1. kind \notin {"tool", "thinking"}
    BY <1>7
  <2>2. PICK name : name = << >>
    OBVIOUS
  <2>3. \E e : /\ ReadResponses(ItemAdded(n, kind, name), d) = Read(<< >>, e)
               /\ Holds(e, Put(d.items, n, StreamItem(kind, d.next)), d.parts, d.next)
    BY <1>4, <2>1, ItemWaits
  <2> QED
    BY <1>2, <1>6, <2>2, <2>3
<1>9. ReadResponseEvents("responses", ItemAdded(n, kind, << >>), s.decode) = Read(<< >>, e)
  BY <1>2, <1>8 DEF ReadResponseEvents
<1>10. Stays(r, s) /\ r.decode = e
  BY <1>2, <1>9, ReadNothing DEF Reads
<1>11. SameBlocks(r, s) /\ ShowsNoMore("responses", r, B, b, c, x)
  <2>1. SameBlocks(r, s) /\ Shows("responses", s, B, c, x)
    BY <1>1, <1>10 DEF Stays
  <2> QED
    BY <2>1, ForeignBlockShows
<1>12. PICK c2, y : /\ Shows("responses", r, D, c2, y) /\ c2[n + 1] = i
                    /\ \A j \in 1 .. n : y[j] = x[j]
  BY <1>2, <1>5, <1>11 DEF ShowsNoMore
<1>13. IsPut(e.items, d.items, n, it) /\ e.parts = d.parts /\ e.next = i /\ ResponsesState(e)
  BY <1>8, PutIs DEF Holds
<1>14. ResponsesDecoder(e, D, y)
  <2>1. Differs(D, B, n + 1, y, x)
    BY <1>2, <1>12, OneMoreDiffers
  <2>2. (n + 1) - 1 = n
    BY <1>3
  <2>3. Only(e, d, n)
    BY <1>13 DEF Only, IsPut
  <2>4. Fits(e, D[n + 1], n + 1, y[n + 1])
    <3>1. n \in DOMAIN e.items /\ e.items[n] = it
      BY <1>13 DEF IsPut
    <3>2. ItemFits(it, b, y[n + 1])
      <4>1. /\ kind = WireKind(b.kind) /\ (b.kind = "tool" => FALSE = (b.text # << >>))
            /\ b.kind \notin {"tool", "thinking"}
        BY <1>2, <1>7 DEF WireKind
      <4>2. ItemFits(ItemOf(kind, i, FALSE), b, y[n + 1])
        BY <4>1, ItemOfFits
      <4> QED
        BY <1>6, <4>2
    <3> QED
      BY <1>2, <1>3, <1>7, <2>2, <3>1, <3>2 DEF Fits
  <2> QED
    BY <1>4, <2>1, <2>2, <2>3, <2>4, OthersFit
<1>15. ResponsesAgrees(r, D, c2, y)
  <2>1. DOMAIN r.blocks \subseteq 0 .. i - 1
    BY <1>5, <1>11 DEF SameBlocks
  <2> QED
    BY <1>3, <1>10, <1>12, <1>13, <1>14, <2>1 DEF ResponsesAgrees
<1> QED
  BY <1>2, <1>10, <1>12, <1>15 DEF Goes, Stays, ResponsesShows

\* A message and its part, which the scan shows as a text.
LEMMA ResponsesOpensText ==
    ASSUME NEW S, NEW B \in Seq(S), NEW b \in S, NEW s, IsScan(s), ResponsesShows(s, B),
           IsSaid("responses", b), b.text = << >>, b.at = Len(B), b.kind = "text", b.open = TRUE,
           NEW q, Reads(q, "responses", s, ItemAdded(b.at, "message", << >>)),
           NEW r, Reads(r, "responses", q, PartAdded(b.at, 0, "text"))
    PROVE  Goes(r, s) /\ ResponsesShows(r, Append(B, b))
<1>1. PICK c, x : Shows("responses", s, B, c, x) /\ ResponsesAgrees(s, B, c, x)
  BY DEF ResponsesShows
<1>2. PICK n, D, d, i, name : /\ n = Len(B) /\ D = Append(B, b) /\ d = s.decode /\ i = d.next
                              /\ name = << >>
  OBVIOUS
<1>3. /\ n \in Nat /\ D \in Seq(S) /\ Len(D) = n + 1 /\ D[n + 1] = b
  BY <1>2, AppendPrefixes
<1>4. /\ ResponsesDecoder(d, B, x) /\ ResponsesState(d) /\ n \notin DOMAIN d.items
      /\ <<n, 0>> \notin DOMAIN d.parts
  <2>1. ResponsesDecoder(d, B, x)
    BY <1>1, <1>2 DEF ResponsesAgrees
  <2>2. <<n, 0>> \notin {<<k, 0>> : k \in 0 .. n - 1}
    BY <1>3
  <2> QED
    BY <1>2, <1>3, <2>1, <2>2 DEF ResponsesDecoder
<1>5. i \in Nat /\ i = c[n] /\ i \notin DOMAIN s.blocks /\ DOMAIN s.blocks \subseteq 0 .. i - 1
  <2>1. i = s.decode.next /\ Shows("responses", s, B, c, x) /\ ResponsesAgrees(s, B, c, x)
    BY <1>1, <1>2
  <2>2. i \in Nat /\ i = c[Len(B)] /\ i \notin DOMAIN s.blocks
    BY <2>1, NextIsFree
  <2> QED
    BY <1>1, <1>2, <2>2 DEF ResponsesAgrees
<1>6. PICK kind, it : kind = "message" /\ it = StreamItem(kind, i) /\ it = ItemOf(kind, i, FALSE)
  BY DEF StreamItem, ItemOf
<1>7. PICK g : /\ ReadResponses(ItemAdded(n, kind, name), d) = Read(<< >>, g)
               /\ Holds(g, Put(d.items, n, it), d.parts, i)
  <2>1. kind \notin {"tool", "thinking"}
    BY <1>6
  <2>3. \E e : /\ ReadResponses(ItemAdded(n, kind, name), d) = Read(<< >>, e)
               /\ Holds(e, Put(d.items, n, StreamItem(kind, d.next)), d.parts, d.next)
    BY <1>4, <2>1, ItemWaits
  <2> QED
    BY <1>2, <1>6, <2>3
<1>8. Stays(q, s) /\ q.decode = g
  <2>1. ReadResponseEvents("responses", ItemAdded(n, kind, name), s.decode) = Read(<< >>, g)
    BY <1>2, <1>7 DEF ReadResponseEvents
  <2> QED
    BY <1>2, <1>6, <2>1, ReadNothing DEF Reads
<1>9. IsPut(g.items, d.items, n, it) /\ g.parts = d.parts /\ g.next = i /\ ResponsesState(g)
  BY <1>7, PutIs DEF Holds
<1>10. n \in DOMAIN g.items /\ g.items[n].kind = "message" /\ <<n, 0>> \notin DOMAIN g.parts
  <2>1. it.kind = "message"
    BY <1>6 DEF ItemOf
  <2> QED
    BY <1>4, <1>9, <2>1 DEF IsPut
<1>11. PICK e : /\ ReadResponses(PartAdded(n, 0, "text"), g) = Read(<<BlockStart(g.next, "text", << >>)>>, e)
                /\ Holds(e, g.items, Put(g.parts, <<n, 0>>, g.next), g.next + 1)
  BY <1>9, <1>10, PartStarts
<1>12. Starts(r, q, i, "text", << >>) /\ r.decode = e
  <2>1. ReadResponseEvents("responses", PartAdded(n, 0, "text"), q.decode) =
          Read(<<BlockStart(i, "text", << >>)>>, e)
    BY <1>8, <1>9, <1>11 DEF ReadResponseEvents
  <2>2. IsScan(q)
    BY <1>8 DEF Stays
  <2> QED
    BY <1>2, <2>1, <2>2, ReadStart DEF Reads
<1>13. Starts(r, s, i, b.kind, name)
  <2>1. PICK meta : meta = b.kind /\ Starts(r, q, i, meta, name)
    BY <1>2, <1>12
  <2>2. Starts(r, s, i, meta, name)
    BY <1>8, <2>1, DecoderApart
  <2> QED
    BY <2>1, <2>2
<1>14. DOMAIN r.blocks = DOMAIN s.blocks \cup {i} /\ ShowsMore("responses", r, B, b, c, x, i)
  <2>1. Known(b)
    <3>1. "responses" \in Protocols
      BY DEF Protocols
    <3> QED
      BY <3>1, KindsAre
  <2>2. Fresh(b, name)
    BY <1>2, <2>1 DEF Fresh, IsSaid
  <2>3. Shows("responses", s, B, c, x) /\ i \notin DOMAIN s.blocks /\ i \in Nat
    BY <1>1, <1>5
  <2> QED
    BY <1>13, <2>2, <2>3, StartShows
<1>15. PICK c2, y : /\ Shows("responses", r, D, c2, y) /\ y[n + 1] = i /\ c2[n + 1] = i + 1
                    /\ \A j \in 1 .. n : y[j] = x[j]
  BY <1>2, <1>5, <1>14 DEF ShowsMore
<1>16. IsPut(e.parts, d.parts, <<n, 0>>, i) /\ e.items = g.items /\ e.next = i + 1 /\ ResponsesState(e)
  BY <1>9, <1>11, PutIs DEF Holds
<1>17. ResponsesDecoder(e, D, y)
  <2>1. Differs(D, B, n + 1, y, x)
    BY <1>2, <1>15, OneMoreDiffers
  <2>2. (n + 1) - 1 = n
    BY <1>3
  <2>3. Only(e, d, n)
    BY <1>9, <1>16 DEF Only, IsPut
  <2>4. Fits(e, D[n + 1], n + 1, y[n + 1])
    <3>1. n \in DOMAIN e.items /\ e.items[n] = it
      BY <1>9, <1>16 DEF IsPut
    <3>2. ItemFits(it, b, i)
      <4>1. /\ kind = WireKind(b.kind) /\ (b.kind = "tool" => FALSE = (b.text # << >>))
            /\ b.kind \notin {"tool", "thinking"}
        BY <1>6 DEF WireKind
      <4>2. ItemFits(ItemOf(kind, i, FALSE), b, i)
        BY <4>1, ItemOfFits
      <4> QED
        BY <1>6, <4>2
    <3>3. <<n, 0>> \in DOMAIN e.parts /\ e.parts[<<n, 0>>] = i
      BY <1>16 DEF IsPut
    <3> QED
      BY <1>3, <1>15, <2>2, <3>1, <3>2, <3>3 DEF Fits
  <2> QED
    BY <1>4, <2>1, <2>2, <2>3, <2>4, OthersFit
<1>18. ResponsesAgrees(r, D, c2, y)
  <2>1. DOMAIN r.blocks \subseteq 0 .. (i + 1) - 1
    BY <1>5, <1>14
  <2> QED
    BY <1>3, <1>12, <1>15, <1>16, <1>17, <2>1 DEF ResponsesAgrees
<1> QED
  BY <1>2, <1>13, <1>15, <1>18 DEF Goes, Starts, SameUsage, ResponsesShows

\* What is said of the jth block, and what the reader has of it then.
LEMMA ResponsesChanges ==
    ASSUME NEW S, NEW B \in Seq(S), NEW s, NEW c, NEW x, Shows("responses", s, B, c, x),
           ResponsesAgrees(s, B, c, x), NEW r, NEW j \in 1 .. Len(B), NEW b,
           NEW D, Becomes(D, B, j, b), Shows("responses", r, D, c, x), IsScan(r), SameUsage(r, s),
           DOMAIN r.blocks = DOMAIN s.blocks, Only(r.decode, s.decode, j - 1),
           r.decode.next = s.decode.next, b.open => Fits(r.decode, b, j, x[j])
    PROVE  Goes(r, s) /\ ResponsesShows(r, D)
<1>1. Differs(D, B, j, x, x) /\ D[j] = b
  BY OneChangedDiffers
<1>2. Len(D) = Len(B)
  <2>1. DOMAIN B = 1 .. Len(B) /\ Len(B) \in Nat
    OBVIOUS
  <2> QED
    BY <2>1 DEF Becomes
<1>3. ResponsesDecoder(r.decode, D, x)
  BY <1>1, OthersFit DEF ResponsesAgrees
<1>4. ResponsesAgrees(r, D, c, x)
  BY <1>2, <1>3 DEF ResponsesAgrees
<1> QED
  BY <1>4 DEF Goes, ResponsesShows

\* A frame that concerns the jth block, of which the scan shows nothing new.
LEMMA ResponsesKeeps ==
    ASSUME NEW S, NEW B \in Seq(S), NEW s, NEW c, NEW x, Shows("responses", s, B, c, x),
           ResponsesAgrees(s, B, c, x), NEW r, Stays(r, s), NEW j \in 1 .. Len(B),
           NEW b, Alike(B[j], b), NEW D, Becomes(D, B, j, b), Only(r.decode, s.decode, j - 1),
           r.decode.next = s.decode.next, b.open => Fits(r.decode, b, j, x[j])
    PROVE  Goes(r, s) /\ ResponsesShows(r, D)
<1>1. SameBlocks(r, s) /\ SameUsage(r, s) /\ IsScan(r)
  BY DEF Stays
<1>2. Shows("responses", r, D, c, x)
  BY <1>1, AlikeShows
<1>3. DOMAIN r.blocks = DOMAIN s.blocks
  BY <1>1 DEF SameBlocks
<1> QED
  BY <1>1, <1>2, <1>3, ResponsesChanges

\* The block fits still, when the reader's state is as before ...
LEMMA FitsStill ==
    ASSUME NEW d, NEW a, NEW b, NEW j, NEW index, Fits(d, a, j, index), b.kind = a.kind,
           a.kind = "tool" => ((b.text # << >>) <=> (a.text # << >>))
    PROVE  Fits(d, b, j, index)
<1>1. PICK it : it = d.items[j - 1] /\ ItemFits(it, a, index)
  BY DEF Fits
<1>2. ItemFits(it, b, index)
  BY <1>1 DEF ItemFits
<1> QED
  BY <1>1, <1>2 DEF Fits

\* ... and when its item was renewed.
LEMMA FitsAgain ==
    ASSUME NEW d, NEW e, NEW b, NEW j, NEW index, NEW it, Renews(e, d, j - 1, it),
           ItemFits(it, b, index), b.kind # "text"
    PROVE  Fits(e, b, j, index)
<1>1. j - 1 \in DOMAIN e.items /\ e.items[j - 1] = it
  BY DEF Renews, IsPut
<1> QED
  BY <1>1 DEF Fits

\* A state that has changed at one item at most.
LEMMA OnlyIs ==
    ASSUME NEW d, ResponsesState(d), NEW i, NEW e, NEW it, e = d \/ Renews(e, d, i, it)
    PROVE  Only(e, d, i)
<1>1. CASE e = d
  BY <1>1 DEF Only
<1>2. CASE Renews(e, d, i, it)
  BY <1>2 DEF Only, Renews, IsPut
<1> QED
  BY <1>1, <1>2

\* The jth item as the reader has it.
LEMMA ItemOfBlock ==
    ASSUME NEW d, NEW a, NEW j, NEW index, Fits(d, a, j, index), a.kind \in {"tool", "thinking"}
    PROVE  /\ j - 1 \in DOMAIN d.items
           /\ \E seen : /\ d.items[j - 1] = ItemOf(a.kind, index, seen)
                        /\ a.kind = "tool" => seen = (a.text # << >>)
<1>1. PICK it : it = d.items[j - 1] /\ ItemFits(it, a, index)
  BY DEF Fits
<1>2. it.kind = a.kind /\ it.index = index /\ it = ItemOf(it.kind, it.index, it.argsSeen)
  BY <1>1 DEF ItemFits, WireKind
<1>3. a.kind = "tool" => it.argsSeen = (a.text # << >>)
  BY <1>1 DEF ItemFits
<1> QED
  BY <1>1, <1>2, <1>3 DEF Fits

\* The kind of delta that a Responses upstream says a piece with.
PieceKind(kind) == IF kind \in ForeignBlocks THEN "code" ELSE DeltaKindOf(kind)

\* The kinds of delta that pieces of the known items are said with.
LEMMA PieceKindIs ==
    ASSUME NEW b, Known(b)
    PROVE  /\ b.kind = "text" => PieceKind(b.kind) = "text" /\ FieldOf(b.kind) = "text"
           /\ b.kind = "tool" => PieceKind(b.kind) = "args" /\ FieldOf(b.kind) = "args"
           /\ b.kind = "thinking" => PieceKind(b.kind) = "reasoning" /\ FieldOf(b.kind) = "reasoning"
  BY DEF Known, PieceKind, DeltaKindOf, FieldOf

\* A frame that shows nothing of the jth block, which stays open.
LEMMA ResponsesMumbles ==
    ASSUME NEW S, NEW B \in Seq(S), NEW s, IsScan(s), NEW c, NEW x, Shows("responses", s, B, c, x),
           ResponsesAgrees(s, B, c, x), NEW j \in 1 .. Len(B), B[j].open,
           NEW b, Alike(B[j], b), B[j].kind = "tool" => b.text = B[j].text,
           NEW D, Becomes(D, B, j, b),
           NEW f, ReadResponses(f, s.decode) = Read(<< >>, s.decode),
           NEW r, Reads(r, "responses", s, f)
    PROVE  Goes(r, s) /\ ResponsesShows(r, D)
<1>1. PICK d : d = s.decode
  OBVIOUS
<1>2. ReadResponseEvents("responses", f, s.decode) = Read(<< >>, d)
  BY <1>1 DEF ReadResponseEvents
<1>3. Stays(r, s) /\ r.decode = d
  BY <1>2, ReadNothing DEF Reads
<1>4. ResponsesState(d) /\ Fits(d, B[j], j, x[j])
  BY <1>1 DEF ResponsesAgrees, ResponsesDecoder
<1>5. Only(d, d, j - 1)
  BY <1>4, OnlyIs
<1>6. Fits(d, b, j, x[j])
  BY <1>4, FitsStill DEF Alike
<1>7. Only(r.decode, s.decode, j - 1) /\ r.decode.next = s.decode.next
      /\ (b.open => Fits(r.decode, b, j, x[j]))
  BY <1>1, <1>3, <1>5, <1>6
<1> QED
  BY <1>3, <1>7, ResponsesKeeps

\* A piece of any item.
LEMMA ResponsesSays ==
    ASSUME NEW S, NEW B \in Seq(S), ResponsesAnswer(B), NEW s, IsScan(s), ResponsesShows(s, B),
           NEW j \in 1 .. Len(B), B[j].open, NEW text \in Seq(Tokens), NEW b, Extended(B[j], b, text),
           NEW r, Reads(r, "responses", s, ItemDelta(B[j].at, 0, PieceKind(B[j].kind), text)),
           NEW D, Becomes(D, B, j, b)
    PROVE  Goes(r, s) /\ ResponsesShows(r, D)
<1>1. PICK c, x : Shows("responses", s, B, c, x) /\ ResponsesAgrees(s, B, c, x)
  BY DEF ResponsesShows
<1>2. PICK a, d, i, kind, f : /\ a = B[j] /\ d = s.decode /\ i = j - 1 /\ kind = PieceKind(a.kind)
                              /\ f = ItemDelta(i, 0, kind, text)
  OBVIOUS
<1>3. /\ IsSaid("responses", a) /\ a.at = i /\ Extended(a, b, text) /\ b.kind = a.kind
      /\ Reads(r, "responses", s, f) /\ a.text \in Seq(Tokens)
  BY <1>2 DEF ResponsesAnswer, Extended, IsSaid
<1>4. ResponsesState(d) /\ Fits(d, a, j, x[j]) /\ i \in DOMAIN d.items
  BY <1>1, <1>2 DEF ResponsesAgrees, ResponsesDecoder, Fits
<1>5. Known(a) => a.kind \in {"text", "tool", "thinking"}
  <2>1. "responses" \in Protocols
    BY DEF Protocols
  <2> QED
    BY <1>3, <2>1, KindsAre
<1>6. CASE text = << >> \/ ~ Known(a)
  <2>1. text = << >> \/ kind = "code"
    BY <1>2, <1>6 DEF PieceKind, Known
  <2>2. ReadResponses(f, d) = Read(<< >>, d)
    BY <1>2, <2>1, NoItemDelta
  <2>3. Known(a) => b.name = a.name /\ b.text = a.text /\ b.opaque = a.opaque
    <3>1. a.text \o << >> = a.text
      BY <1>3
    <3> QED
      BY <1>3, <1>6, <3>1 DEF Extended
  <2>4. Alike(B[j], b) /\ (B[j].kind = "tool" => b.text = B[j].text)
    <3>1. a.kind = "tool" => Known(a)
      <4>1. "responses" \in Protocols
        BY DEF Protocols
      <4> QED
        BY <1>3, <4>1, KindsAre
    <3> QED
      BY <1>2, <1>3, <2>3, <3>1 DEF Alike
  <2>5. ReadResponses(f, s.decode) = Read(<< >>, s.decode) /\ B[j].open
    BY <1>2, <2>2
  <2> QED
    BY <1>1, <1>3, <2>4, <2>5, ResponsesMumbles
<1>7. CASE text # << >> /\ Known(a)
  <2>1. /\ Known(B[j]) /\ Longer(B[j], b, text)
        /\ a.kind \in {"text", "tool", "thinking"}
    BY <1>2, <1>3, <1>5, <1>7 DEF Longer, Extended
  <2>2. \E e, it : /\ ReadResponses(f, d) = Read(<<BlockDelta(x[j], FieldOf(b.kind), text)>>, e)
                   /\ Only(e, d, i) /\ e.next = d.next /\ Fits(e, b, j, x[j])
    <3>1. CASE a.kind = "text"
      <4>1. kind = "text" /\ FieldOf(b.kind) = "text"
        BY <1>2, <1>3, <1>7, <3>1, PieceKindIs
      <4>2. <<i, 0>> \in DOMAIN d.parts /\ d.parts[<<i, 0>>] = x[j]
        BY <1>2, <1>4, <3>1 DEF Fits
      <4>3. ReadResponses(ItemDelta(i, 0, "text", text), d) = Read(<<BlockDelta(x[j], "text", text)>>, d)
        BY <1>7, <4>2, TextDelta
      <4>4. ReadResponses(f, d) = Read(<<BlockDelta(x[j], FieldOf(b.kind), text)>>, d)
        BY <1>2, <4>1, <4>3
      <4>5. Only(d, d, i)
        BY <1>4, OnlyIs
      <4>6. Fits(d, b, j, x[j])
        BY <1>3, <1>4, <3>1, FitsStill
      <4> QED
        BY <4>4, <4>5, <4>6
    <3>2. CASE a.kind \in {"tool", "thinking"}
      <4>1. kind = FieldOf(b.kind) /\ Wanted(kind, a.kind) /\ (a.kind = "tool" => kind = "args")
        BY <1>2, <1>3, <1>7, <3>2, PieceKindIs DEF Wanted
      <4>2. PICK seen : /\ d.items[i] = ItemOf(a.kind, x[j], seen)
                        /\ a.kind = "tool" => seen = (a.text # << >>)
        BY <1>2, <1>4, <3>2, ItemOfBlock
      <4>3. PICK e : /\ ReadResponses(ItemDelta(i, 0, kind, text), d) =
                          Read(<<BlockDelta(x[j], kind, text)>>, e)
                     /\ Renews(e, d, i, ItemOf(a.kind, x[j], seen \/ kind = "args"))
        BY <1>4, <1>7, <4>1, <4>2, ItemGrows
      <4>4. PICK it, more : /\ it = ItemOf(a.kind, x[j], more) /\ Renews(e, d, i, it)
                            /\ more = (seen \/ kind = "args")
        BY <4>3
      <4>5. Only(e, d, i)
        BY <1>4, <4>4, OnlyIs
      <4>6. Fits(e, b, j, x[j])
        <5>1. b.text # << >>
          <6>1. a.text \o text # << >>
            BY <1>3, <1>7, NothingSaid
          <6> QED
            BY <1>3, <6>1 DEF Extended
        <5>2. a.kind = WireKind(b.kind) /\ (b.kind = "tool" => more = (b.text # << >>))
          <6>1. b.kind = "tool" => more = TRUE
            BY <1>3, <4>1, <4>4
          <6> QED
            BY <1>3, <3>2, <5>1, <6>1 DEF WireKind
        <5>3. ItemFits(ItemOf(a.kind, x[j], more), b, x[j])
          BY <5>2, ItemOfFits
        <5>4. ItemFits(it, b, x[j]) /\ b.kind # "text" /\ Renews(e, d, j - 1, it)
          BY <1>2, <1>3, <3>2, <4>4, <5>3
        <5> QED
          BY <5>4, FitsAgain
      <4>7. e.next = d.next
        BY <4>4 DEF Renews
      <4> QED
        BY <1>2, <4>1, <4>3, <4>5, <4>6, <4>7
    <3> QED
      BY <2>1, <3>1, <3>2
  <2>3. PICK e : /\ ReadResponses(f, d) = Read(<<BlockDelta(x[j], FieldOf(b.kind), text)>>, e)
                 /\ Only(e, d, i) /\ e.next = d.next /\ Fits(e, b, j, x[j])
    BY <2>2
  <2>4. ReadResponseEvents("responses", f, s.decode) = Read(<<BlockDelta(x[j], FieldOf(b.kind), text)>>, e)
    BY <1>2, <2>3 DEF ReadResponseEvents
  <2>5. Says(r, s, x[j], FieldOf(b.kind), text) /\ r.decode = e
    BY <1>3, <2>4, ReadDelta DEF Reads
  <2>6. Shows("responses", r, D, c, x) /\ DOMAIN r.blocks = DOMAIN s.blocks
    <3>1. Shows("responses", s, B, c, x)
      BY <1>1
    <3> QED
      BY <2>1, <2>5, <3>1, PieceShows
  <2>7. /\ IsScan(r) /\ SameUsage(r, s) /\ Only(r.decode, s.decode, j - 1)
        /\ r.decode.next = s.decode.next /\ (b.open => Fits(r.decode, b, j, x[j]))
    BY <1>2, <2>3, <2>5 DEF Says
  <2> QED
    BY <1>1, <2>6, <2>7, ResponsesChanges
<1> QED
  BY <1>6, <1>7

\* r comes from s by frames that end the item i: something may come late.
Closing(r, s, i, index, kind, text) ==
    /\ SaysLate(r, s, index, kind, text)
    /\ Only(r.decode, s.decode, i) /\ r.decode.next = s.decode.next

LateKind(kind) == IF kind = "tool" THEN "args" ELSE "opaque"
LatePart(kind, opaque, late) ==
    IF kind = "tool" THEN late ELSE IF kind = "thinking" THEN opaque ELSE << >>

\* A state without one item has changed at that item only.
LEMMA WithoutOnly ==
    ASSUME NEW d, NEW i, NEW e, Without(e, d, i)
    PROVE  Only(e, d, i) /\ e.next = d.next
  BY DEF Without, Only, Drop

\* The frame that repeats the deltas.
LEMMA DeltaDoneStays ==
    ASSUME NEW s, IsScan(s), NEW i, NEW kind, NEW text,
           NEW q, Reads(q, "responses", s, DeltaDone(i, kind, text))
    PROVE  Stays(q, s) /\ q.decode = s.decode
<1>1. PICK d : d = s.decode
  OBVIOUS
<1>2. ReadResponseEvents("responses", DeltaDone(i, kind, text), s.decode) = Read(<< >>, d)
  BY <1>1, ResponsesQuiet DEF ReadResponseEvents
<1> QED
  BY <1>1, <1>2, ReadNothing DEF Reads

\* The frame that ends an item which is not a message.
LEMMA ItemCloses ==
    ASSUME NEW s, IsScan(s), NEW a, NEW j, NEW index, ResponsesState(s.decode),
           Fits(s.decode, a, j, index), a.kind # "text", a.kind # "message", NEW opaque, NEW late,
           late # << >> => a.text = << >>, << >> \o late = late,
           NEW item, item.text = a.text \o late, item.encrypted = opaque,
           NEW r, Reads(r, "responses", s, ItemDone(j - 1, item))
    PROVE  Closing(r, s, j - 1, index, LateKind(a.kind), LatePart(a.kind, opaque, late))
<1>1. PICK d, i : d = s.decode /\ i = j - 1
  OBVIOUS
<1>2. i \in DOMAIN d.items /\ ResponsesState(d) /\ Reads(r, "responses", s, ItemDone(i, item))
  BY <1>1 DEF Fits
<1>3. PICK kind, text : kind = LateKind(a.kind) /\ text = LatePart(a.kind, opaque, late)
  OBVIOUS
<1>4. CASE a.kind \in {"tool", "thinking"}
  <2>1. \E e : /\ ReadResponses(ItemDone(i, item), d) = Read(LateEvents(index, kind, text), e)
               /\ Without(e, d, i)
    <3>1. PICK seen : /\ d.items[i] = ItemOf(a.kind, index, seen)
                      /\ a.kind = "tool" => seen = (a.text # << >>)
      BY <1>1, <1>4, ItemOfBlock
    <3>2. CASE a.kind = "tool"
      <4>1. kind = "args" /\ text = late
        BY <1>3, <3>2 DEF LateKind, LatePart
      <4>2. PICK n : n \in BOOLEAN /\ n = (a.text # << >>) /\ d.items[i] = ItemOf("tool", index, n)
        BY <3>1, <3>2
      <4>3. IsMissing(text, n, item)
        BY <4>1, <4>2 DEF IsMissing
      <4>4. \E e : /\ ReadResponses(ItemDone(i, item), d) = Read(LateEvents(index, "args", text), e)
                   /\ Without(e, d, i)
        <5>1. ResponsesState(d) /\ i \in DOMAIN d.items /\ d.items[i] = ItemOf("tool", index, n)
          BY <1>2, <4>2
        <5> QED
          BY <4>3, <5>1, CallDone
      <4> QED
        BY <4>1, <4>4
    <3>3. CASE a.kind = "thinking"
      <4>1. kind = "opaque" /\ text = item.encrypted
        BY <1>3, <3>3 DEF LateKind, LatePart
      <4>2. \E e : /\ ReadResponses(ItemDone(i, item), d) =
                        Read(LateEvents(index, "opaque", item.encrypted), e)
                   /\ Without(e, d, i)
        <5>1. d.items[i] = ItemOf("thinking", index, seen)
          BY <3>1, <3>3
        <5> QED
          BY <1>2, <5>1, ReasoningDone
      <4> QED
        BY <4>1, <4>2
    <3> QED
      BY <1>4, <3>2, <3>3
  <2>2. PICK e : /\ ReadResponses(ItemDone(i, item), d) = Read(LateEvents(index, kind, text), e)
                 /\ Without(e, d, i)
    BY <2>1
  <2>3. ReadResponseEvents("responses", ItemDone(i, item), s.decode) =
          Read(LateEvents(index, kind, text), e)
    BY <1>1, <2>2 DEF ReadResponseEvents
  <2>4. SaysLate(r, s, index, kind, text) /\ r.decode = e
    BY <1>2, <2>3, ReadLate DEF Reads
  <2>5. Only(e, d, i) /\ e.next = d.next
    BY <2>2, WithoutOnly
  <2> QED
    BY <1>1, <1>3, <2>4, <2>5 DEF Closing
<1>5. CASE a.kind \notin {"tool", "thinking"}
  <2>1. d.items[i].kind \notin {"tool", "thinking", "message"}
    <3>1. d.items[i].kind = WireKind(a.kind)
      BY <1>1 DEF Fits, ItemFits
    <3> QED
      BY <1>5, <3>1 DEF WireKind
  <2>2. PICK e : ReadResponses(ItemDone(i, item), d) = Read(<< >>, e) /\ Without(e, d, i)
    BY <1>2, <2>1, UnknownDone
  <2>3. ReadResponseEvents("responses", ItemDone(i, item), s.decode) = Read(<< >>, e)
    BY <1>1, <2>2 DEF ReadResponseEvents
  <2>4. Stays(r, s) /\ r.decode = e
    BY <1>2, <2>3, ReadNothing DEF Reads
  <2>5. Only(e, d, i) /\ e.next = d.next
    BY <2>2, WithoutOnly
  <2>6. text = << >>
    BY <1>3, <1>5 DEF LatePart
  <2> QED
    BY <1>1, <1>3, <2>4, <2>5, <2>6 DEF Closing, SaysLate
<1> QED
  BY <1>4, <1>5

\* The frames that end a message and its part.
LEMMA MessageCloses ==
    ASSUME NEW s, IsScan(s), NEW B, NEW x, ResponsesDecoder(s.decode, B, x),
           NEW a, NEW j, NEW index, Fits(s.decode, a, j, index), a.kind = "text", NEW opaque,
           NEW text, NEW q, Reads(q, "responses", s, PartDone(j - 1, 0, text)),
           NEW item, NEW r, Reads(r, "responses", q, ItemDone(j - 1, item))
    PROVE  Closing(r, s, j - 1, index, LateKind(a.kind), LatePart(a.kind, opaque, << >>))
<1>1. PICK d, i : d = s.decode /\ i = j - 1
  OBVIOUS
<1>2. /\ i \in DOMAIN d.items /\ ResponsesState(d) /\ <<i, 0>> \in DOMAIN d.parts
      /\ d.items[i].kind = "message"
      /\ \A k \in DOMAIN d.parts : \E n \in 0 .. Len(B) - 1 : k = <<n, 0>>
  BY <1>1 DEF Fits, ItemFits, WireKind, ResponsesDecoder
<1>3. PICK e : /\ ReadResponses(PartDone(i, 0, text), d) = Read(<<BlockStop(d.parts[<<i, 0>>])>>, e)
               /\ Holds(e, d.items, Drop(d.parts, <<i, 0>>), d.next)
  BY <1>2, PartStops
<1>4. Stays(q, s) /\ q.decode = e
  <2>1. PICK ev : ev = BlockStop(d.parts[<<i, 0>>]) /\ \A t : ApplyEvent(t, ev) = t
    <3>1. \A t : ApplyEvent(t, BlockStop(d.parts[<<i, 0>>])) = t
      BY QuietEvent
    <3> QED
      BY <3>1
  <2>2. ReadResponseEvents("responses", PartDone(i, 0, text), s.decode) = Read(<<ev>>, e)
    BY <1>1, <1>3, <2>1 DEF ReadResponseEvents
  <2> QED
    BY <1>1, <2>1, <2>2, ReadQuiet DEF Reads
<1>5. /\ ResponsesState(e) /\ e.items = d.items /\ e.next = d.next
      /\ e.parts = Drop(d.parts, <<i, 0>>)
  BY <1>3 DEF Holds
<1>6. \A k \in DOMAIN e.parts : k[1] # i
  <2> TAKE k \in DOMAIN e.parts
  <2>1. k \in DOMAIN d.parts /\ k # <<i, 0>>
    BY <1>5 DEF Drop
  <2>2. PICK n : k = <<n, 0>>
    BY <1>2, <2>1
  <2> QED
    BY <2>1, <2>2
<1>7. PICK g : ReadResponses(ItemDone(i, item), e) = Read(<< >>, g) /\ Without(g, e, i)
  BY <1>2, <1>5, <1>6, MessageDone
<1>8. Stays(r, q) /\ r.decode = g
  <2>1. ReadResponseEvents("responses", ItemDone(i, item), q.decode) = Read(<< >>, g)
    BY <1>4, <1>7 DEF ReadResponseEvents
  <2>2. IsScan(q)
    BY <1>4 DEF Stays
  <2> QED
    BY <1>1, <2>1, <2>2, ReadNothing DEF Reads
<1>9. Stays(r, s)
  BY <1>4, <1>8 DEF Stays, SameUsage, SameBlocks
<1>10. Only(g, d, i) /\ g.next = d.next
  BY <1>5, <1>7 DEF Without, Only, Drop
<1>11. LatePart(a.kind, opaque, << >>) = << >>
  BY DEF LatePart
<1> QED
  BY <1>1, <1>8, <1>9, <1>10, <1>11 DEF Closing, SaysLate

\* What comes late is the rest of the block.
LEMMA LateShows ==
    ASSUME NEW S, NEW B \in Seq(S), NEW s, IsScan(s), NEW c, NEW x, Shows("responses", s, B, c, x),
           ResponsesAgrees(s, B, c, x), NEW j \in 1 .. Len(B), NEW b, b.open = FALSE,
           NEW D, Becomes(D, B, j, b), NEW kind, NEW text, NEW r,
           Closing(r, s, j - 1, x[j], kind, text),
           \/ text = << >> /\ Alike(B[j], b)
           \/ text # << >> /\ Known(B[j]) /\ Grows("responses", B[j], b, kind, text)
    PROVE  Goes(r, s) /\ ResponsesShows(r, D)
<1>1. Only(r.decode, s.decode, j - 1) /\ r.decode.next = s.decode.next
      /\ (b.open => Fits(r.decode, b, j, x[j]))
  BY DEF Closing
<1>2. CASE text = << >> /\ Alike(B[j], b)
  <2>1. Stays(r, s)
    BY <1>2 DEF Closing, SaysLate
  <2> QED
    BY <1>1, <1>2, <2>1, ResponsesKeeps
<1>3. CASE text # << >> /\ Known(B[j]) /\ Grows("responses", B[j], b, kind, text)
  <2>1. Says(r, s, x[j], kind, text)
    BY <1>3 DEF Closing, SaysLate
  <2>2. Shows("responses", r, D, c, x) /\ DOMAIN r.blocks = DOMAIN s.blocks
    BY <1>3, <2>1, GrowthShows
  <2>3. IsScan(r) /\ SameUsage(r, s)
    BY <2>1 DEF Says
  <2> QED
    BY <1>1, <2>2, <2>3, ResponsesChanges
<1> QED
  BY <1>2, <1>3

\* The frames that close the block a of the item i.
ClosedBy(r, s, a, i, opaque, late) ==
    \E kind, text, item, q, t :
        /\ item.text = a.text \o late /\ item.encrypted = opaque
        /\ Reads(q, "responses", s, DeltaDone(i, kind, text))
        /\ IF a.kind = "text" THEN Reads(t, "responses", q, PartDone(i, 0, text)) ELSE t = q
        /\ Reads(r, "responses", t, ItemDone(i, item))

\* An item that closes, with what comes late.
LEMMA ResponsesCloses ==
    ASSUME NEW S, NEW B \in Seq(S), ResponsesAnswer(B), NEW s, IsScan(s), ResponsesShows(s, B),
           NEW j \in 1 .. Len(B), B[j].open = TRUE, NEW opaque \in Seq(Hidden),
           opaque # << >> => B[j].kind = "thinking", NEW late \in Seq(Tokens),
           late # << >> => B[j].kind = "tool" /\ B[j].text = << >>,
           NEW b, ClosedAs(B[j], b, opaque, late), b.open = FALSE, NEW D, Becomes(D, B, j, b),
           NEW r, ClosedBy(r, s, B[j], j - 1, opaque, late)
    PROVE  Goes(r, s) /\ ResponsesShows(r, D)
<1>10. PICK kind, text, item, q, t :
         /\ item.text = B[j].text \o late /\ item.encrypted = opaque
         /\ Reads(q, "responses", s, DeltaDone(j - 1, kind, text))
         /\ IF B[j].kind = "text" THEN Reads(t, "responses", q, PartDone(j - 1, 0, text)) ELSE t = q
         /\ Reads(r, "responses", t, ItemDone(j - 1, item))
  BY DEF ClosedBy
<1>1. PICK c, x : Shows("responses", s, B, c, x) /\ ResponsesAgrees(s, B, c, x)
  BY DEF ResponsesShows
<1>2. PICK a, more, field : /\ a = B[j] /\ more = LatePart(a.kind, opaque, late)
                            /\ field = LateKind(a.kind)
  OBVIOUS
<1>3. IsSaid("responses", a) /\ a.open = TRUE /\ ClosedAs(a, b, opaque, late)
  BY <1>2 DEF ResponsesAnswer
<1>4. Stays(q, s) /\ q.decode = s.decode /\ IsScan(q)
  BY <1>10, DeltaDoneStays DEF Stays
<1>5. ResponsesDecoder(q.decode, B, x) /\ ResponsesState(q.decode) /\ Fits(q.decode, a, j, x[j])
  BY <1>1, <1>2, <1>3, <1>4 DEF ResponsesAgrees, ResponsesDecoder
<1>6. << >> \o late = late
  OBVIOUS
<1>7. Closing(r, q, j - 1, x[j], field, more)
  <2>1. CASE a.kind = "text"
    <3>1. Reads(t, "responses", q, PartDone(j - 1, 0, text))
      BY <1>2, <1>10, <2>1
    <3>2. Closing(r, q, j - 1, x[j], LateKind(a.kind), LatePart(a.kind, opaque, << >>))
      BY <1>4, <1>5, <1>10, <2>1, <3>1, MessageCloses
    <3>3. late = << >>
      BY <1>2, <2>1
    <3> QED
      BY <1>2, <3>2, <3>3
  <2>2. CASE a.kind # "text"
    <3>1. Reads(r, "responses", q, ItemDone(j - 1, item))
      BY <1>2, <1>10, <2>2
    <3>2. a.kind # "message"
      BY <1>3, AnswerAssumption DEF IsSaid, KindsOf
    <3>3. item.text = a.text \o late /\ (late # << >> => a.text = << >>)
      BY <1>2, <1>10
    <3>4. Closing(r, q, j - 1, x[j], LateKind(a.kind), LatePart(a.kind, opaque, late))
      BY <1>4, <1>5, <1>6, <1>10, <2>2, <3>1, <3>2, <3>3, ItemCloses
    <3> QED
      BY <1>2, <3>4
  <2> QED
    BY <2>1, <2>2
<1>8. Closing(r, s, j - 1, x[j], field, more)
  <2>1. SaysLate(r, s, x[j], field, more)
    <3>1. SaysLate(r, q, x[j], field, more)
      BY <1>7 DEF Closing
    <3>2. CASE more = << >>
      BY <1>4, <3>1, <3>2 DEF SaysLate, Stays, SameUsage, SameBlocks
    <3>3. CASE more # << >>
      <4>1. Says(r, q, x[j], field, more)
        BY <3>1, <3>3 DEF SaysLate
      <4>2. PICK i : i = x[j]
        OBVIOUS
      <4>3. Says(r, q, i, field, more)
        BY <4>1, <4>2
      <4>4. Says(r, s, i, field, more)
        BY <1>4, <4>3, DecoderApart
      <4> QED
        BY <3>3, <4>2, <4>4 DEF SaysLate
    <3> QED
      BY <3>2, <3>3
  <2> QED
    BY <1>4, <1>7, <2>1 DEF Closing
<1>9. \/ more = << >> /\ Alike(B[j], b)
      \/ more # << >> /\ Known(B[j]) /\ Grows("responses", B[j], b, field, more)
  <2>1. Known(a) <=> a.kind \in {"text", "tool", "thinking"}
    <3>1. "responses" \in Protocols
      BY DEF Protocols
    <3> QED
      BY <1>3, <3>1, KindsAre
  <2>2. CASE a.kind = "tool"
    <3>1. more = late /\ field = "args" /\ FieldOf(b.kind) = "args" /\ b.opaque = a.opaque
      BY <1>2, <1>3, <2>2 DEF LatePart, LateKind, FieldOf, ClosedAs
    <3>2. Longer(a, b, late)
      BY <1>3, <2>2, <3>1 DEF Longer, ClosedAs
    <3>3. Grows("responses", a, b, field, more)
      BY <3>1, <3>2, ShownGrows DEF Grows
    <3>4. late = << >> => Alike(a, b)
      <4>1. a.text \in Seq(Tokens)
        BY <1>3 DEF IsSaid
      <4> QED
        BY <3>2, <4>1, NoPiece
    <3> QED
      BY <1>2, <2>1, <2>2, <3>1, <3>3, <3>4
  <2>3. CASE a.kind = "thinking" /\ opaque # << >>
    <3>1. more = opaque /\ field = "opaque" /\ late = << >>
      BY <1>2, <2>3 DEF LatePart, LateKind
    <3>2. ClosedAs(a, b, opaque, << >>) /\ a.opaque = << >> /\ a.text \in Seq(Tokens)
      BY <1>3, <2>3, <3>1 DEF IsSaid
    <3>3. PICK p, f : p = "responses" /\ f = "opaque"
      OBVIOUS
    <3>4. Grows(p, a, b, f, opaque)
      BY <2>3, <3>2, <3>3, HiddenGrows
    <3> QED
      BY <1>2, <2>1, <2>3, <3>1, <3>3, <3>4
  <2>4. CASE a.kind # "tool" /\ opaque = << >>
    <3>1. more = << >> /\ late = << >>
      BY <1>2, <2>4 DEF LatePart
    <3>2. ClosedAs(a, b, << >>, << >>)
      BY <1>3, <2>4, <3>1
    <3>3. Alike(a, b)
      BY <1>3, <3>2, FinishedAlike
    <3> QED
      BY <1>2, <3>1, <3>3
  <2> QED
    BY <1>2, <2>2, <2>3, <2>4
<1> QED
  BY <1>1, <1>8, <1>9, LateShows

-----------------------------------------------------------------------------
(* Responses: the first frame, the last, and an error.                     *)

\* A response that is created shows the empty answer.
LEMMA ResponsesBegins ==
    ASSUME NEW s, Pristine(s, ResponsesDecode), NEW r, Reads(r, "responses", s, Created)
    PROVE  Goes(r, s) /\ ResponsesShows(r, << >>)
<1>1. PICK d, e : d = ResponsesDecode /\ e = [ResponsesDecode EXCEPT !.started = TRUE]
  OBVIOUS
<1>2. /\ ReadResponses(Created, ResponsesDecode) = Read(<<MessageStart(NoUsage, FALSE)>>, e)
      /\ Holds(e, Empty, Empty, 0)
  BY <1>1, ResponsesBegin
<1>3. IsScan(s) /\ s.decode = d /\ s.blocks = Empty /\ s.order = << >>
  BY <1>1 DEF Pristine, Untold
<1>4. PICK ev : ev = MessageStart(NoUsage, FALSE) /\ \A t : ApplyEvent(t, ev) = t
  <2>1. \A t : ApplyEvent(t, MessageStart(NoUsage, FALSE)) = t
    BY QuietEvent
  <2> QED
    BY <2>1
<1>5. ReadResponseEvents("responses", Created, s.decode) = Read(<<ev>>, e)
  BY <1>1, <1>2, <1>3, <1>4 DEF ReadResponseEvents
<1>6. Stays(r, s) /\ r.decode = e
  BY <1>3, <1>4, <1>5, ReadQuiet DEF Reads
<1>7. PICK c, x : c = [j \in 0 .. 0 |-> 0] /\ x = [j \in 1 .. 0 |-> 0]
  OBVIOUS
<1>8. Shows("responses", r, << >>, c, x)
  <2>1. r.order = << >>
    BY <1>3, <1>6 DEF Stays, SameBlocks
  <2> QED
    BY <1>7, <2>1, NothingShown
<1>9. ResponsesAgrees(r, << >>, c, x)
  <2>1. Len(<< >>) = 0 /\ 1 .. 0 = {} /\ 0 .. 0 - 1 = {} /\ DOMAIN Empty = {}
    BY DEF Empty
  <2>2. c[0] = 0
    BY <1>7
  <2>3. ResponsesState(e) /\ e.items = Empty /\ e.parts = Empty /\ e.next = 0
    BY <1>2 DEF Holds
  <2>4. ResponsesDecoder(e, << >>, x)
    BY <2>1, <2>3 DEF ResponsesDecoder
  <2>5. DOMAIN r.blocks = {}
    BY <1>3, <1>6, <2>1 DEF Stays, SameBlocks
  <2> QED
    BY <1>6, <2>1, <2>2, <2>3, <2>4, <2>5 DEF ResponsesAgrees
<1> QED
  BY <1>6, <1>8, <1>9 DEF Goes, Stays, ResponsesShows

\* What a scan with the same blocks and the same reader shows.
LEMMA ResponsesShowsStill ==
    ASSUME NEW s, NEW B, ResponsesShows(s, B), NEW r, SameBlocks(r, s), r.decode = s.decode
    PROVE  ResponsesShows(r, B)
<1>1. PICK c, x : Shows("responses", s, B, c, x) /\ ResponsesAgrees(s, B, c, x)
  BY DEF ResponsesShows
<1>2. Shows("responses", r, B, c, x)
  BY <1>1, StillShows
<1>3. ResponsesAgrees(r, B, c, x)
  BY <1>1 DEF ResponsesAgrees, SameBlocks
<1> QED
  BY <1>2, <1>3 DEF ResponsesShows

\* The frame that ends a Responses answer.
LEMMA ResponsesStops ==
    ASSUME NEW B, NEW s, ResponsesShows(s, B), Untold(s), NEW event \in {"completed", "incomplete"},
           NEW output, NEW present \in BOOLEAN,
           NEW r, Reads(r, "responses", s, Finished(event, output, ToldUsage(present), present))
    PROVE  Gains(r, s, present) /\ ResponsesShows(r, B)
<1>1. PICK usage, d, f : /\ usage = ToldUsage(present) /\ d = s.decode
                         /\ f = Finished(event, output, usage, present)
  OBVIOUS
<1>2. PICK stop : ReadResponses(f, d) = Read(<<MessageDelta(stop, usage, present), MessageStop>>, d)
  BY <1>1, ResponsesUsage
<1>3. PICK p : p = "responses"
  OBVIOUS
<1>4. TellsUsage(ReadResponseEvents(p, f, s.decode), stop, usage, present, d)
  BY <1>1, <1>2, <1>3 DEF ReadResponseEvents, TellsUsage
<1>5. Reads(r, p, s, f) /\ Tells(usage, present)
  BY <1>1, <1>3 DEF Tells
<1>6. Hears(r, s, present, d)
  BY <1>4, <1>5, UsageTold, Zenon
<1> QED
  BY <1>1, <1>6, ResponsesShowsStill DEF Hears

\* A failed response changes nothing.
LEMMA ResponsesFails ==
    ASSUME NEW s, IsScan(s), NEW text, NEW r, Reads(r, "responses", s, Failed(text))
    PROVE  Stays(r, s)
<1>1. PICK ev : ev = ErrorEvent(text) /\ \A t : ApplyEvent(t, ev) = t
  <2>1. \A t : ApplyEvent(t, ErrorEvent(text)) = t
    BY QuietEvent
  <2> QED
    BY <2>1
<1>2. PICK d : d = s.decode
  OBVIOUS
<1>3. ReadResponseEvents("responses", Failed(text), s.decode) = Read(<<ev>>, d)
  BY <1>1, <1>2, ResponsesTrouble DEF ReadResponseEvents
<1> QED
  BY <1>1, <1>3, ReadQuiet DEF Reads

-----------------------------------------------------------------------------
(* The answer so far, and the scan that carries it, in any protocol.       *)

Answer(p, B) ==
    /\ \A j \in 1 .. Len(B) : IsSaid(p, B[j])
    /\ p = "openai" => \A j, k \in 1 .. Len(B) : B[j].kind = B[k].kind /\ B[j].kind # "tool" => j = k
    /\ p # "openai" => \A j \in 1 .. Len(B) : B[j].at = j - 1
ShowsAnswer(p, s, B) ==
    /\ p = "openai" => OpenAiShows(s, B)
    /\ p = "anthropic" => AnthropicShows(s, B)
    /\ p = "responses" => ResponsesShows(s, B)
StartUsage(p) == IF p = "anthropic" THEN InputOnly ELSE NoUsage
Started(p, s) == IsScan(s) /\ s.usage = StartUsage(p) /\ s.seen = (p = "anthropic")
Carries(p, s, B) == Started(p, s) /\ Answer(p, B) /\ ShowsAnswer(p, s, B)

\* The answer in the terms of each protocol.
LEMMA AnswerIs ==
    ASSUME NEW p, NEW B, Answer(p, B)
    PROVE  /\ p = "openai" => OpenAiAnswer(B)
           /\ p = "anthropic" => AnthropicAnswer(B)
           /\ p = "responses" => ResponsesAnswer(B)
  BY DEF Answer, OpenAiAnswer, AnthropicAnswer, ResponsesAnswer

\* The usage of an answer that goes on stays as it is.
LEMMA StartedGoes ==
    ASSUME NEW p, NEW s, Started(p, s), NEW r, Goes(r, s)
    PROVE  Started(p, r)
  BY DEF Started, Goes, SameUsage

\* An answer with a block more, and with a block changed.
LEMMA AnswerGrows ==
    ASSUME NEW p, NEW S, NEW B \in Seq(S), Answer(p, B), NEW b \in S, IsSaid(p, b),
           p = "openai" => b.kind = "tool" \/ \A j \in 1 .. Len(B) : B[j].kind # b.kind,
           p # "openai" => b.at = Len(B)
    PROVE  Answer(p, Append(B, b))
<1>1. PICK n, D : n = Len(B) /\ D = Append(B, b)
  OBVIOUS
<1>2. /\ n \in Nat /\ Len(D) = n + 1 /\ D[n + 1] = b /\ \A j \in 1 .. n : D[j] = B[j]
  BY <1>1, AppendPrefixes
<1>3. \A j \in 1 .. n + 1 : j = n + 1 \/ j \in 1 .. n
  BY <1>2
<1>4. \A j \in 1 .. n + 1 : IsSaid(p, D[j])
  BY <1>1, <1>2, <1>3 DEF Answer
<1>5. p = "openai" =>
        \A j, k \in 1 .. n + 1 : D[j].kind = D[k].kind /\ D[j].kind # "tool" => j = k
  BY <1>1, <1>2, <1>3 DEF Answer
<1>6. p # "openai" => \A j \in 1 .. n + 1 : D[j].at = j - 1
  <2>1. (n + 1) - 1 = n
    BY <1>2
  <2> QED
    BY <1>1, <1>2, <1>3, <2>1 DEF Answer
<1>7. Answer(p, D)
  BY <1>2, <1>4, <1>5, <1>6 DEF Answer
<1> QED
  BY <1>1, <1>7

\* The same of a block that changes but for its kind and its index.
LEMMA AnswerChanges ==
    ASSUME NEW p, NEW S, NEW B \in Seq(S), Answer(p, B), NEW j \in 1 .. Len(B), NEW b, IsSaid(p, b),
           b.kind = B[j].kind, b.at = B[j].at, NEW D, Becomes(D, B, j, b)
    PROVE  Answer(p, D)
<1>1. Len(D) = Len(B) /\ \A k \in 1 .. Len(B) : D[k] = IF k = j THEN b ELSE B[k]
  <2>1. DOMAIN B = 1 .. Len(B) /\ Len(B) \in Nat
    OBVIOUS
  <2> QED
    BY <2>1 DEF Becomes
<1>2. \A k \in 1 .. Len(B) : IsSaid(p, D[k]) /\ D[k].kind = B[k].kind /\ D[k].at = B[k].at
  BY <1>1 DEF Answer
<1> QED
  BY <1>1, <1>2 DEF Answer

\* The first frame of an answer.
FirstFrame(p) ==
    CASE p = "openai" -> [Chunk EXCEPT !.role = TRUE]
      [] p = "anthropic" -> AnthropicStart(InputOnly)
      [] p = "responses" -> Created

\* After the first frame the scan carries the empty answer.
LEMMA FirstCarries ==
    ASSUME NEW p \in Protocols, NEW s, s = NewScan(p), NEW r, Reads(r, p, s, FirstFrame(p))
    PROVE  Carries(p, r, << >>)
<1>1. Answer(p, << >>)
  <2>1. Len(<< >>) = 0 /\ 1 .. 0 = {}
    OBVIOUS
  <2> QED
    BY <2>1 DEF Answer
<1>2. Pristine(s, Decode0(p))
  BY NewScanIs
<1>3. CASE p = "openai"
  <2>1. PICK f : f = FirstFrame(p) /\ f = [Chunk EXCEPT !.role = TRUE] /\ Reads(r, "openai", s, f)
    BY <1>3 DEF FirstFrame
  <2>2. Goes(r, s) /\ OpenAiShows(r, << >>)
    BY <1>3, <2>1, OpenAiBegins
  <2>3. Started(p, r)
    BY <1>2, <1>3, <2>2 DEF Pristine, Untold, Goes, SameUsage, Started, StartUsage
  <2> QED
    BY <1>1, <1>3, <2>2, <2>3 DEF Carries, ShowsAnswer
<1>4. CASE p = "anthropic"
  <2>1. Pristine(s, AnthropicDecode) /\ Reads(r, "anthropic", s, AnthropicStart(InputOnly))
    BY <1>2, <1>4 DEF Decode0, FirstFrame
  <2>2. IsScan(r) /\ r.usage = InputOnly /\ r.seen = TRUE /\ AnthropicShows(r, << >>)
    BY <2>1, AnthropicBegins
  <2> QED
    BY <1>1, <1>4, <2>2 DEF Carries, ShowsAnswer, Started, StartUsage
<1>5. CASE p = "responses"
  <2>1. Pristine(s, ResponsesDecode) /\ Reads(r, "responses", s, Created)
    BY <1>2, <1>5 DEF Decode0, FirstFrame
  <2>2. Goes(r, s) /\ ResponsesShows(r, << >>)
    BY <2>1, ResponsesBegins
  <2>3. Started(p, r)
    BY <1>2, <1>5, <2>2 DEF Pristine, Untold, Goes, SameUsage, Started, StartUsage
  <2> QED
    BY <1>1, <1>5, <2>2, <2>3 DEF Carries, ShowsAnswer
<1> QED
  BY <1>3, <1>4, <1>5 DEF Protocols

-----------------------------------------------------------------------------
(* The frames of the upstream, and what the scan carries after them.       *)

\* The frames that open a block.
LEMMA OpenFramesAre ==
    ASSUME NEW kind, NEW at, NEW piece
    PROVE  /\ egress = "openai" /\ kind = "tool" =>
                OpenFrames(kind, at, piece) = <<CallChunk(at, Name, piece)>>
           /\ egress = "openai" /\ kind \in {"text", "reasoning"} =>
                OpenFrames(kind, at, piece) = <<Speech(kind, piece)>>
           /\ egress = "anthropic" =>
                OpenFrames(kind, at, piece) =
                  <<ContentBlockStart(at, kind, IF kind = "tool" THEN Name
                                                ELSE IF kind = "redacted" THEN Redacted ELSE << >>)>>
           /\ egress = "responses" /\ kind = "text" =>
                OpenFrames(kind, at, piece) = <<ItemAdded(at, "message", << >>), PartAdded(at, 0, "text")>>
           /\ egress = "responses" /\ kind = "tool" =>
                OpenFrames(kind, at, piece) = <<ItemAdded(at, kind, Name)>>
           /\ egress = "responses" /\ kind \notin {"text", "tool", "redacted"} =>
                OpenFrames(kind, at, piece) = <<ItemAdded(at, kind, << >>)>>
<1> DEFINE name == CASE kind = "tool" -> Name [] kind = "redacted" -> Redacted [] OTHER -> << >>
<1>1. /\ kind = "tool" => name = Name
      /\ kind = "redacted" => name = Redacted
      /\ kind \notin {"tool", "redacted"} => name = << >>
  OBVIOUS
<1>2. OpenFrames(kind, at, piece) =
        CASE egress = "openai" /\ kind = "tool" ->
                <<[Chunk EXCEPT !.tools = <<ToolCall(at, Name, piece)>>]>>
          [] egress = "openai" /\ kind = "text" -> <<[Chunk EXCEPT !.content = piece]>>
          [] egress = "openai" /\ kind = "reasoning" -> <<[Chunk EXCEPT !.reasoning = piece]>>
          [] egress = "anthropic" -> <<ContentBlockStart(at, kind, name)>>
          [] egress = "responses" /\ kind = "text" ->
                <<ItemAdded(at, "message", << >>), PartAdded(at, 0, "text")>>
          [] egress = "responses" /\ kind # "text" -> <<ItemAdded(at, kind, name)>>
  BY DEF OpenFrames
<1> HIDE DEF name
<1>3. egress = "openai" /\ kind = "tool" => OpenFrames(kind, at, piece) = <<CallChunk(at, Name, piece)>>
  BY <1>2 DEF CallChunk
<1>4. egress = "openai" /\ kind = "text" => OpenFrames(kind, at, piece) = <<Speech(kind, piece)>>
  BY <1>2 DEF Speech
<1>5. egress = "openai" /\ kind = "reasoning" => OpenFrames(kind, at, piece) = <<Speech(kind, piece)>>
  BY <1>2 DEF Speech
<1>6. egress = "anthropic" => OpenFrames(kind, at, piece) = <<ContentBlockStart(at, kind, name)>>
  BY <1>2
<1>7. egress = "responses" /\ kind = "text" =>
        OpenFrames(kind, at, piece) = <<ItemAdded(at, "message", << >>), PartAdded(at, 0, "text")>>
  BY <1>2
<1>8. egress = "responses" /\ kind # "text" => OpenFrames(kind, at, piece) = <<ItemAdded(at, kind, name)>>
  BY <1>2
<1>9. name = IF kind = "tool" THEN Name ELSE IF kind = "redacted" THEN Redacted ELSE << >>
  BY <1>1
<1> QED
  BY <1>1, <1>3, <1>4, <1>5, <1>6, <1>7, <1>8, <1>9

\* A block that opens.
Opening(p, B, b) ==
    /\ IsSaid(p, b) /\ b.open = TRUE
    /\ b.at = IF p = "openai" THEN Cardinality(Calls(B)) ELSE Len(B)
    /\ p = "openai" => b.kind = "tool" \/ \A j \in 1 .. Len(B) : B[j].kind # b.kind
    /\ b.text # << >> <=> p = "openai" /\ b.kind # "tool"

\* After the frames of a block that opens the scan carries the answer with it.
LEMMA OpenCarries ==
    ASSUME NEW p \in Protocols, egress = p, NEW S, NEW B \in Seq(S), NEW b \in S, Opening(p, B, b),
           NEW s, Carries(p, s, B), NEW r, r = ScanFrames(p, s, OpenFrames(b.kind, b.at, b.text))
    PROVE  Carries(p, r, Append(B, b))
<1>1. PICK D : D = Append(B, b)
  OBVIOUS
<1>2. Answer(p, D)
  BY <1>1, AnswerGrows DEF Carries, Opening
<1>3. Started(p, s) /\ Answer(p, B) /\ ShowsAnswer(p, s, B) /\ IsScan(s)
  BY DEF Carries, Started
<1>4. IsSaid(p, b) /\ b.open = TRUE
  BY DEF Opening
<1>5. Goes(r, s) /\ ShowsAnswer(p, r, D)
  <2>1. CASE p = "openai"
    <3>1. OpenAiAnswer(B) /\ OpenAiShows(s, B) /\ IsSaid("openai", b)
      BY <1>3, <1>4, <2>1, AnswerIs DEF ShowsAnswer
    <3>2. CASE b.kind = "tool"
      <4>1. b.text = << >> /\ b.at = Cardinality(Calls(B))
        BY <2>1, <3>2 DEF Opening
      <4>2. OpenFrames(b.kind, b.at, b.text) = <<CallChunk(b.at, Name, << >>)>>
        BY <2>1, <3>2, <4>1, OpenFramesAre
      <4>3. Reads(r, "openai", s, CallChunk(b.at, Name, << >>))
        BY <2>1, <4>2, OneFrame DEF Reads
      <4>4. Goes(r, s) /\ OpenAiShows(r, Append(B, b))
        BY <1>3, <3>1, <3>2, <4>1, <4>3, OpenAiOpensCall
      <4> QED
        BY <1>1, <2>1, <4>4 DEF ShowsAnswer
    <3>3. CASE b.kind # "tool"
      <4>1. b.text # << >> /\ \A j \in 1 .. Len(B) : B[j].kind # b.kind
        BY <2>1, <3>3 DEF Opening
      <4>2. b.kind \in {"text", "reasoning"}
        <5>1. b.kind \in {"text", "tool", "reasoning"}
          BY <1>4, <2>1, KindsAre
        <5> QED
          BY <3>3, <5>1
      <4>3. OpenFrames(b.kind, b.at, b.text) = <<Speech(b.kind, b.text)>>
        BY <2>1, <4>2, OpenFramesAre
      <4>4. Reads(r, "openai", s, Speech(b.kind, b.text))
        BY <2>1, <4>3, OneFrame DEF Reads
      <4>5. Goes(r, s) /\ OpenAiShows(r, Append(B, b))
        BY <1>3, <3>1, <4>1, <4>2, <4>4, OpenAiOpensText
      <4> QED
        BY <1>1, <2>1, <4>5 DEF ShowsAnswer
    <3> QED
      BY <3>2, <3>3
  <2>2. CASE p = "anthropic"
    <3>1. AnthropicShows(s, B) /\ IsSaid("anthropic", b) /\ b.text = << >> /\ b.at = Len(B)
      BY <1>3, <1>4, <2>2 DEF ShowsAnswer, Opening
    <3>2. PICK name : name = IF b.kind = "tool" THEN Name
                             ELSE IF b.kind = "redacted" THEN Redacted ELSE << >>
      OBVIOUS
    <3>3. name = StartName(b)
      BY <1>4, <3>2 DEF StartName, IsSaid
    <3>4. OpenFrames(b.kind, b.at, b.text) = <<ContentBlockStart(b.at, b.kind, name)>>
      BY <2>2, <3>2, OpenFramesAre
    <3>5. Reads(r, "anthropic", s, ContentBlockStart(b.at, b.kind, StartName(b)))
      BY <2>2, <3>3, <3>4, OneFrame DEF Reads
    <3>6. Goes(r, s) /\ AnthropicShows(r, Append(B, b))
      BY <1>3, <1>4, <3>1, <3>5, AnthropicOpens
    <3> QED
      BY <1>1, <2>2, <3>6 DEF ShowsAnswer
  <2>3. CASE p = "responses"
    <3>1. ResponsesShows(s, B) /\ IsSaid("responses", b) /\ b.text = << >> /\ b.at = Len(B)
      BY <1>3, <1>4, <2>3 DEF ShowsAnswer, Opening
    <3>2. b.kind \notin {"reasoning", "redacted"}
      BY <1>4, <2>3, KindsAre
    <3>3. CASE b.kind = "text"
      <4>1. OpenFrames(b.kind, b.at, b.text) =
              <<ItemAdded(b.at, "message", << >>), PartAdded(b.at, 0, "text")>>
        BY <2>3, <3>3, OpenFramesAre
      <4>2. PICK q : q = ScanFrame("responses", s, ItemAdded(b.at, "message", << >>))
        OBVIOUS
      <4>3. /\ Reads(q, "responses", s, ItemAdded(b.at, "message", << >>))
            /\ Reads(r, "responses", q, PartAdded(b.at, 0, "text"))
        BY <2>3, <4>1, <4>2, TwoFrames DEF Reads
      <4>4. Goes(r, s) /\ ResponsesShows(r, Append(B, b))
        BY <1>3, <1>4, <3>1, <3>3, <4>3, ResponsesOpensText
      <4> QED
        BY <1>1, <2>3, <4>4 DEF ShowsAnswer
    <3>4. CASE b.kind \in {"tool", "thinking"}
      <4>1. OpenFrames(b.kind, b.at, b.text) = <<ItemAdded(b.at, b.kind, b.name)>>
        <5>1. b.name = IF b.kind = "tool" THEN Name ELSE << >>
          BY <1>4 DEF IsSaid
        <5>2. CASE b.kind = "tool"
          BY <2>3, <5>1, <5>2, OpenFramesAre
        <5>3. CASE b.kind = "thinking"
          BY <2>3, <5>1, <5>3, OpenFramesAre
        <5> QED
          BY <3>4, <5>2, <5>3
      <4>2. Reads(r, "responses", s, ItemAdded(b.at, b.kind, b.name))
        BY <2>3, <4>1, OneFrame DEF Reads
      <4>3. Goes(r, s) /\ ResponsesShows(r, Append(B, b))
        BY <1>3, <1>4, <3>1, <3>4, <4>2, ResponsesOpensItem
      <4> QED
        BY <1>1, <2>3, <4>3 DEF ShowsAnswer
    <3>5. CASE b.kind \notin {"text", "tool", "thinking"}
      <4>1. ~ Known(b)
        BY <1>4, <3>2, <3>5, KindsAre
      <4>2. OpenFrames(b.kind, b.at, b.text) = <<ItemAdded(b.at, b.kind, << >>)>>
        BY <2>3, <3>2, <3>5, OpenFramesAre
      <4>3. Reads(r, "responses", s, ItemAdded(b.at, b.kind, << >>))
        BY <2>3, <4>2, OneFrame DEF Reads
      <4>4. Goes(r, s) /\ ResponsesShows(r, Append(B, b))
        BY <1>3, <3>1, <4>1, <4>3, ResponsesOpensUnknown
      <4> QED
        BY <1>1, <2>3, <4>4 DEF ShowsAnswer
    <3> QED
      BY <3>3, <3>4, <3>5
  <2> QED
    BY <2>1, <2>2, <2>3 DEF Protocols
<1> QED
  BY <1>1, <1>2, <1>3, <1>5, StartedGoes DEF Carries

\* The frame of a piece.
LEMMA PieceFramesAre ==
    ASSUME NEW b, NEW piece
    PROVE  /\ egress = "openai" /\ b.kind \in {"text", "tool", "reasoning"} =>
                PieceFrames(b, piece) = <<PieceChunk(b, piece)>>
           /\ egress = "anthropic" =>
                PieceFrames(b, piece) = <<ContentBlockDelta(b.at, SaidKind(b.kind), piece)>>
           /\ egress = "responses" =>
                PieceFrames(b, piece) = <<ItemDelta(b.at, 0, PieceKind(b.kind), piece)>>
<1>1. egress = "openai" /\ b.kind = "tool" => PieceFrames(b, piece) = <<PieceChunk(b, piece)>>
  BY DEF PieceFrames, PieceChunk, CallChunk
<1>2. egress = "openai" /\ b.kind \in {"text", "reasoning"} =>
        PieceFrames(b, piece) = <<PieceChunk(b, piece)>>
  <2>1. egress = "openai" /\ b.kind \in {"text", "reasoning"} =>
          PieceFrames(b, piece) = OpenFrames(b.kind, b.at, piece)
    BY DEF PieceFrames
  <2> QED
    BY <2>1, OpenFramesAre DEF PieceChunk
<1>3. egress = "anthropic" =>
        PieceFrames(b, piece) = <<ContentBlockDelta(b.at, SaidKind(b.kind), piece)>>
  BY DEF PieceFrames, SaidKind
<1>4. egress = "responses" =>
        PieceFrames(b, piece) = <<ItemDelta(b.at, 0, PieceKind(b.kind), piece)>>
  BY DEF PieceFrames, PieceKind
<1> QED
  BY <1>1, <1>2, <1>3, <1>4

\* A piece of a block.
LEMMA PieceCarries ==
    ASSUME NEW p \in Protocols, egress = p, NEW S, NEW B \in Seq(S), NEW j \in 1 .. Len(B),
           B[j].open = TRUE, B[j].kind # "redacted", NEW text \in Seq(Tokens),
           NEW b, IsSaid(p, b), Extended(B[j], b, text), NEW D, Becomes(D, B, j, b),
           NEW s, Carries(p, s, B), NEW r, r = ScanFrames(p, s, PieceFrames(B[j], text))
    PROVE  Carries(p, r, D)
<1>1. PICK a : a = B[j]
  OBVIOUS
<1>2. b.kind = a.kind /\ b.at = a.at
  BY <1>1 DEF Extended
<1>3. Answer(p, D)
  BY <1>1, <1>2, AnswerChanges DEF Carries
<1>4. Started(p, s) /\ Answer(p, B) /\ ShowsAnswer(p, s, B) /\ IsScan(s)
  BY DEF Carries, Started
<1>5. IsSaid(p, a)
  BY <1>1, <1>4 DEF Answer
<1>6. Goes(r, s) /\ ShowsAnswer(p, r, D)
  <2>1. CASE p = "openai"
    <3>1. a.kind \in {"text", "tool", "reasoning"}
      BY <1>5, <2>1, KindsAre
    <3>2. PieceFrames(a, text) = <<PieceChunk(a, text)>>
      BY <2>1, <3>1, PieceFramesAre
    <3>3. Reads(r, "openai", s, PieceChunk(B[j], text))
      BY <1>1, <2>1, <3>2, OneFrame DEF Reads
    <3>4. Longer(B[j], b, text)
      BY <1>1, <3>1 DEF Longer, Extended
    <3>5. OpenAiAnswer(B) /\ OpenAiShows(s, B) /\ b.at = B[j].at
      BY <1>1, <1>2, <1>4, <2>1, AnswerIs DEF ShowsAnswer
    <3>6. Goes(r, s) /\ OpenAiShows(r, D)
      BY <1>4, <3>3, <3>4, <3>5, OpenAiSays
    <3> QED
      BY <2>1, <3>6 DEF ShowsAnswer
  <2>2. CASE p = "anthropic"
    <3>1. PieceFrames(a, text) = <<ContentBlockDelta(a.at, SaidKind(a.kind), text)>>
      BY <2>2, PieceFramesAre
    <3>2. Reads(r, "anthropic", s, ContentBlockDelta(B[j].at, SaidKind(B[j].kind), text))
      BY <1>1, <2>2, <3>1, OneFrame DEF Reads
    <3>3. AnthropicAnswer(B) /\ AnthropicShows(s, B)
      BY <1>4, <2>2, AnswerIs DEF ShowsAnswer
    <3>4. Goes(r, s) /\ AnthropicShows(r, D)
      BY <1>4, <3>2, <3>3, AnthropicSays
    <3> QED
      BY <2>2, <3>4 DEF ShowsAnswer
  <2>3. CASE p = "responses"
    <3>1. PieceFrames(a, text) = <<ItemDelta(a.at, 0, PieceKind(a.kind), text)>>
      BY <2>3, PieceFramesAre
    <3>2. Reads(r, "responses", s, ItemDelta(B[j].at, 0, PieceKind(B[j].kind), text))
      BY <1>1, <2>3, <3>1, OneFrame DEF Reads
    <3>3. ResponsesAnswer(B) /\ ResponsesShows(s, B)
      BY <1>4, <2>3, AnswerIs DEF ShowsAnswer
    <3>4. Goes(r, s) /\ ResponsesShows(r, D)
      BY <1>4, <3>2, <3>3, ResponsesSays
    <3> QED
      BY <2>3, <3>4 DEF ShowsAnswer
  <2> QED
    BY <2>1, <2>2, <2>3 DEF Protocols
<1> QED
  BY <1>3, <1>4, <1>6, StartedGoes DEF Carries

\* The frames that close a block, one after the other.
LEMMA PutTogether ==
    ASSUME NEW x, NEW y, NEW z
    PROVE  (<<x>> \o << >>) \o <<z>> = <<x, z>> /\ (<<x>> \o <<y>>) \o <<z>> = <<x, y, z>>
<1>1. <<x>> \o << >> = <<x>> /\ \A u, v : <<u>> \o <<v>> = <<u, v>>
  BY EventsAre
<1>2. <<x, y>> \o <<z>> = <<x, y, z>>
  <2> DEFINE s == <<x, y>> \o <<z>>
             t == <<x, y, z>>
  <2>1. s \in Seq({x, y, z}) /\ Len(s) = 3 /\ s[1] = x /\ s[2] = y /\ s[3] = z
    OBVIOUS
  <2>2. t \in Seq({x, y, z}) /\ Len(t) = 3 /\ t[1] = x /\ t[2] = y /\ t[3] = z
    OBVIOUS
  <2>3. \A i \in 1 .. 3 : s[i] = t[i]
    BY <2>1, <2>2
  <2> HIDE DEF s, t
  <2>4. s = t
    BY <2>1, <2>2, <2>3, SeqEqual
  <2> QED
    BY <2>4 DEF s, t
<1> QED
  BY <1>1, <1>2

\* The frames that close an Anthropic block.
LEMMA AnthropicCloseFrames ==
    ASSUME egress = "anthropic", NEW b, NEW opaque, NEW late
    PROVE  CloseFrames(b, opaque, late) =
             IF opaque = << >> THEN <<ContentBlockStop(b.at)>>
             ELSE <<ContentBlockDelta(b.at, "signature", opaque), ContentBlockStop(b.at)>>
<1>1. CloseFrames(b, opaque, late) =
        (IF opaque = << >> THEN << >> ELSE <<ContentBlockDelta(b.at, "signature", opaque)>>)
          \o <<ContentBlockStop(b.at)>>
  BY DEF CloseFrames
<1>2. \A x, y : << >> \o <<y>> = <<y>> /\ <<x>> \o <<y>> = <<x, y>>
  BY EventsAre
<1> QED
  BY <1>1, <1>2

\* The frames that close a Responses item.
LEMMA ResponsesCloseFrames ==
    ASSUME egress = "responses", NEW a, NEW opaque, NEW late, NEW s, NEW r,
           r = ScanFrames("responses", s, CloseFrames(a, opaque, late)), NEW i, a.at = i
    PROVE  ClosedBy(r, s, a, i, opaque, late)
<1>1. PICK text, kind, name, k : /\ text = a.text \o late /\ kind = DeltaKindOf(a.kind) /\ name = a.name
                                 /\ k = IF a.kind = "text" THEN "message" ELSE a.kind
  OBVIOUS
<1>2. PICK item : item = Item(k, name, text, opaque)
  OBVIOUS
<1>3. item.text = text /\ item.encrypted = opaque
  BY <1>2 DEF Item
<1>4. CloseFrames(a, opaque, late) =
        <<DeltaDone(i, kind, text)>>
          \o (IF a.kind = "text" THEN <<PartDone(i, 0, text)>> ELSE << >>)
          \o <<ItemDone(i, item)>>
  BY <1>1, <1>2 DEF CloseFrames
<1>5. PICK q : q = ScanFrame("responses", s, DeltaDone(i, kind, text))
  OBVIOUS
<1>6. PICK t : t = IF a.kind = "text" THEN ScanFrame("responses", q, PartDone(i, 0, text)) ELSE q
  OBVIOUS
<1>7. r = ScanFrame("responses", t, ItemDone(i, item))
  <2>1. CASE a.kind = "text"
    <3>1. CloseFrames(a, opaque, late) =
            <<DeltaDone(i, kind, text), PartDone(i, 0, text), ItemDone(i, item)>>
      BY <1>4, <2>1, PutTogether
    <3> QED
      BY <1>5, <1>6, <2>1, <3>1, ThreeFrames
  <2>2. CASE a.kind # "text"
    <3>1. CloseFrames(a, opaque, late) = <<DeltaDone(i, kind, text), ItemDone(i, item)>>
      BY <1>4, <2>2, PutTogether
    <3> QED
      BY <1>5, <1>6, <2>2, <3>1, TwoFrames
  <2> QED
    BY <2>1, <2>2
<1>8. /\ item.text = a.text \o late /\ item.encrypted = opaque
      /\ Reads(q, "responses", s, DeltaDone(i, kind, text))
      /\ IF a.kind = "text" THEN Reads(t, "responses", q, PartDone(i, 0, text)) ELSE t = q
      /\ Reads(r, "responses", t, ItemDone(i, item))
  BY <1>1, <1>3, <1>5, <1>6, <1>7 DEF Reads
<1> QED
  BY <1>8 DEF ClosedBy

\* After the frames of a block that closes the scan carries the answer with it closed.
LEMMA CloseCarries ==
    ASSUME NEW p \in Protocols, egress = p, p # "openai", NEW S, NEW B \in Seq(S),
           NEW j \in 1 .. Len(B), B[j].open = TRUE, NEW opaque \in Seq(Hidden),
           opaque # << >> => B[j].kind = "thinking", NEW late \in Seq(Tokens),
           late # << >> => p = "responses" /\ B[j].kind = "tool" /\ B[j].text = << >>,
           NEW b, IsSaid(p, b), ClosedAs(B[j], b, opaque, late), b.open = FALSE,
           NEW D, Becomes(D, B, j, b),
           NEW s, Carries(p, s, B), NEW r, r = ScanFrames(p, s, CloseFrames(B[j], opaque, late))
    PROVE  Carries(p, r, D)
<1>1. PICK a : a = B[j]
  OBVIOUS
<1>2. b.kind = a.kind /\ b.at = a.at
  BY <1>1 DEF ClosedAs
<1>3. Answer(p, D)
  BY <1>1, <1>2, AnswerChanges DEF Carries
<1>4. Started(p, s) /\ Answer(p, B) /\ ShowsAnswer(p, s, B) /\ IsScan(s)
  BY DEF Carries, Started
<1>5. Goes(r, s) /\ ShowsAnswer(p, r, D)
  <2>1. CASE p = "anthropic"
    <3>1. PICK q : IF opaque = << >> THEN q = s
                   ELSE q = ScanFrame("anthropic", s, ContentBlockDelta(a.at, "signature", opaque))
      OBVIOUS
    <3>2. Reads(r, "anthropic", q, ContentBlockStop(B[j].at))
      <4>1. CASE opaque = << >>
        <5>1. CloseFrames(a, opaque, late) = <<ContentBlockStop(a.at)>>
          BY <2>1, <4>1, AnthropicCloseFrames
        <5> QED
          BY <1>1, <2>1, <3>1, <4>1, <5>1, OneFrame DEF Reads
      <4>2. CASE opaque # << >>
        <5>1. CloseFrames(a, opaque, late) =
                <<ContentBlockDelta(a.at, "signature", opaque), ContentBlockStop(a.at)>>
          BY <2>1, <4>2, AnthropicCloseFrames
        <5> QED
          BY <1>1, <2>1, <3>1, <4>2, <5>1, TwoFrames DEF Reads
      <4> QED
        BY <4>1, <4>2
    <3>3. IF opaque = << >> THEN q = s
          ELSE Reads(q, "anthropic", s, ContentBlockDelta(B[j].at, "signature", opaque))
      BY <1>1, <3>1 DEF Reads
    <3>4. AnthropicAnswer(B) /\ AnthropicShows(s, B)
      BY <1>4, <2>1, AnswerIs DEF ShowsAnswer
    <3>5. ClosedAs(B[j], b, opaque, << >>)
      <4>1. late = << >>
        BY <2>1
      <4> QED
        BY <4>1
    <3>6. Goes(r, s) /\ AnthropicShows(r, D)
      BY <1>4, <3>2, <3>3, <3>4, <3>5, AnthropicCloses
    <3> QED
      BY <2>1, <3>6 DEF ShowsAnswer
  <2>2. CASE p = "responses"
    <3>1. ResponsesAnswer(B) /\ ResponsesShows(s, B)
      BY <1>4, <2>2, AnswerIs DEF ShowsAnswer
    <3>2. a.at = j - 1
      BY <1>1, <3>1 DEF ResponsesAnswer
    <3>3. ClosedBy(r, s, B[j], j - 1, opaque, late)
      <4>1. PICK i : i = j - 1 /\ a.at = i
        BY <3>2
      <4>2. r = ScanFrames("responses", s, CloseFrames(a, opaque, late))
        BY <1>1, <2>2
      <4>3. ClosedBy(r, s, a, i, opaque, late)
        BY <2>2, <4>1, <4>2, ResponsesCloseFrames
      <4> QED
        BY <1>1, <4>1, <4>3
    <3>9. Goes(r, s) /\ ResponsesShows(r, D)
      BY <1>4, <2>2, <3>1, <3>3, ResponsesCloses
    <3> QED
      BY <2>2, <3>9 DEF ShowsAnswer
  <2> QED
    BY <2>1, <2>2 DEF Protocols
<1> QED
  BY <1>3, <1>4, <1>5, StartedGoes DEF Carries

\* What a scan shows, whatever its reader does next.
ShowsAll(p, s, B) == (\A j \in 1 .. Len(B) : IsSaid(p, B[j])) /\ \E c, x : Shows(p, s, B, c, x)

\* A scan that carries an answer shows it.
LEMMA CarriesAll ==
    ASSUME NEW p \in Protocols, NEW s, NEW B, Answer(p, B), ShowsAnswer(p, s, B)
    PROVE  ShowsAll(p, s, B)
<1>1. p \in {"openai", "anthropic", "responses"}
  BY DEF Protocols
<1>2. \E c, x : Shows(p, s, B, c, x)
  BY <1>1 DEF ShowsAnswer, OpenAiShows, AnthropicShows, ResponsesShows
<1> QED
  BY <1>2 DEF ShowsAll, Answer

\* It does so as long as its blocks stay.
LEMMA ShowsAllStill ==
    ASSUME NEW p, NEW s, NEW B, ShowsAll(p, s, B), NEW r, SameBlocks(r, s)
    PROVE  ShowsAll(p, r, B)
  BY StillShows DEF ShowsAll

\* A new scan shows the empty answer, and no usage.
LEMMA NothingShownAtAll ==
    ASSUME NEW p, NEW s, s = NewScan(p)
    PROVE  ShowsAll(p, s, << >>) /\ Untold(s)
<1>1. Pristine(s, Decode0(p))
  BY NewScanIs
<1>2. PICK c, x : c = [j \in 0 .. 0 |-> 0] /\ x = [j \in 1 .. 0 |-> 0]
  OBVIOUS
<1>3. Shows(p, s, << >>, c, x)
  BY <1>1, <1>2, NothingShown DEF Pristine
<1>4. Len(<< >>) = 0 /\ 1 .. 0 = {}
  OBVIOUS
<1> QED
  BY <1>1, <1>3, <1>4 DEF ShowsAll, Pristine

\* The frames that stop an answer.
LEMMA StopFramesAre ==
    ASSUME NEW stop, NEW usage, NEW present
    PROVE  /\ egress = "openai" =>
                StopFrames(stop, usage, present) = <<StopChunk(stop, usage, present)>>
           /\ egress = "anthropic" =>
                StopFrames(stop, usage, present) = <<AnthropicDelta(stop, usage, present), AnthropicStop>>
           /\ egress = "responses" =>
                StopFrames(stop, usage, present) =
                  <<Finished(IF stop = "max_tokens" THEN "incomplete" ELSE "completed",
                             << >>, usage, present)>>
  BY DEF StopFrames, StopChunk

\* What the scan knows of an answer that has stopped.
EndUsage(p, present) ==
    IF ~ present THEN NoUsage ELSE IF p = "anthropic" THEN OutputOnly ELSE Usage
Stopped(p, s, B, present) ==
    /\ IsScan(s) /\ s.usage = IF present THEN Usage ELSE StartUsage(p)
    /\ s.seen = (p = "anthropic" \/ present)
    /\ ShowsAll(p, s, B) /\ (p = "openai" => OpenAiEnded(s, B))

\* After the frames that stop the answer the scan shows it, with its usage.
LEMMA StopCarries ==
    ASSUME NEW p \in Protocols, egress = p, NEW S, NEW B \in Seq(S), NEW s, Carries(p, s, B),
           NEW stop \in StopReasons, NEW present \in BOOLEAN,
           NEW r, r = ScanFrames(p, s, StopFrames(stop, EndUsage(p, present), present))
    PROVE  Stopped(p, r, B, present)
<1>1. Started(p, s) /\ Answer(p, B) /\ ShowsAnswer(p, s, B) /\ IsScan(s)
  BY DEF Carries, Started
<1>2. PICK usage : usage = EndUsage(p, present)
  OBVIOUS
<1>3. CASE p = "openai"
  <2>1. usage = ToldUsage(present)
    BY <1>2, <1>3 DEF EndUsage, ToldUsage
  <2>2. StopFrames(stop, usage, present) = <<StopChunk(stop, ToldUsage(present), present)>>
    BY <1>3, <2>1, StopFramesAre
  <2>3. Reads(r, "openai", s, StopChunk(stop, ToldUsage(present), present))
    BY <1>2, <1>3, <2>2, OneFrame DEF Reads
  <2>4. stop # None
    BY DEF StopReasons, None
  <2>5. Untold(s) /\ OpenAiShows(s, B)
    BY <1>1, <1>3 DEF Started, StartUsage, Untold, ShowsAnswer
  <2>6. Gains(r, s, present) /\ OpenAiEnded(r, B)
    BY <2>3, <2>4, <2>5, OpenAiStops
  <2>7. ShowsAll("openai", r, B)
    BY <1>1, <1>3, <2>6 DEF OpenAiEnded, ShowsAll, Answer
  <2> QED
    BY <1>3, <2>6, <2>7 DEF Gains, ToldUsage, Stopped, StartUsage
<1>4. CASE p = "anthropic"
  <2>1. usage = AnthropicTells(present)
    BY <1>2, <1>4 DEF EndUsage, AnthropicTells
  <2>2. PICK q : q = ScanFrame("anthropic", s, AnthropicDelta(stop, usage, present))
    OBVIOUS
  <2>3. /\ Reads(q, "anthropic", s, AnthropicDelta(stop, usage, present))
        /\ Reads(r, "anthropic", q, AnthropicStop)
    BY <1>2, <1>4, <2>2, StopFramesAre, TwoFrames DEF Reads
  <2>4. AnthropicShows(s, B) /\ s.usage = InputOnly /\ s.seen = TRUE
    BY <1>1, <1>4 DEF Started, StartUsage, ShowsAnswer
  <2>5. AnthropicTold(r, present) /\ AnthropicShows(r, B)
    BY <1>1, <2>1, <2>3, <2>4, AnthropicStopsAll
  <2>6. ShowsAll("anthropic", r, B)
    BY <1>1, <1>4, <2>5 DEF AnthropicShows, ShowsAll, Answer
  <2> QED
    BY <1>4, <2>5, <2>6 DEF AnthropicTold, Stopped, StartUsage
<1>5. CASE p = "responses"
  <2>1. usage = ToldUsage(present)
    BY <1>2, <1>5 DEF EndUsage, ToldUsage
  <2>2. PICK event : /\ event \in {"completed", "incomplete"}
                     /\ StopFrames(stop, usage, present) = <<Finished(event, << >>, ToldUsage(present), present)>>
    BY <1>5, <2>1, StopFramesAre
  <2>3. Reads(r, "responses", s, Finished(event, << >>, ToldUsage(present), present))
    BY <1>2, <1>5, <2>2, OneFrame DEF Reads
  <2>4. Untold(s) /\ ResponsesShows(s, B)
    BY <1>1, <1>5 DEF Started, StartUsage, Untold, ShowsAnswer
  <2>5. Gains(r, s, present) /\ ResponsesShows(r, B)
    BY <2>2, <2>3, <2>4, ResponsesStops
  <2>6. ShowsAll("responses", r, B)
    BY <1>1, <1>5, <2>5 DEF ResponsesShows, ShowsAll, Answer
  <2> QED
    BY <1>5, <2>5, <2>6 DEF Gains, ToldUsage, Stopped, StartUsage
<1> QED
  BY <1>3, <1>4, <1>5 DEF Protocols

\* The usage that comes late.
LEMMA LateUsageShows ==
    ASSUME NEW s, NEW B, OpenAiEnded(s, B), Untold(s), ShowsAll("openai", s, B),
           NEW r, Reads(r, "openai", s, [Chunk EXCEPT !.choices = FALSE, !.usage = Usage,
                                                      !.present = TRUE])
    PROVE  IsScan(r) /\ r.usage = Usage /\ r.seen = TRUE /\ ShowsAll("openai", r, B)
<1>1. Gains(r, s, TRUE) /\ OpenAiEnded(r, B)
  BY OpenAiLateUsage
<1> QED
  BY <1>1 DEF Gains, ToldUsage, OpenAiEnded, ShowsAll

\* An error changes nothing.
ErrorFrame(p) ==
    CASE p = "openai" -> [Chunk EXCEPT !.choices = FALSE, !.error = Trouble]
      [] p = "anthropic" -> AnthropicError(Trouble)
      [] p = "responses" -> Failed(Trouble)

\* The frame of an error changes nothing.
LEMMA ErrorStays ==
    ASSUME NEW p \in Protocols, NEW s, NEW B, Carries(p, s, B), NEW r, Reads(r, p, s, ErrorFrame(p))
    PROVE  Stays(r, s)
<1>1. IsScan(s) /\ ShowsAnswer(p, s, B)
  BY DEF Carries, Started
<1>2. PICK text : text = Trouble
  OBVIOUS
<1>3. CASE p = "openai"
  <2>1. OpenAiShows(s, B) /\ Reads(r, "openai", s, [Chunk EXCEPT !.choices = FALSE, !.error = text])
    BY <1>1, <1>2, <1>3 DEF ShowsAnswer, ErrorFrame
  <2> QED
    BY <1>1, <2>1, OpenAiFails
<1>4. CASE p = "anthropic"
  <2>1. Reads(r, "anthropic", s, AnthropicError(text))
    BY <1>2, <1>4 DEF ErrorFrame
  <2> QED
    BY <1>1, <2>1, AnthropicFails
<1>5. CASE p = "responses"
  <2>1. Reads(r, "responses", s, Failed(text))
    BY <1>2, <1>5 DEF ErrorFrame
  <2> QED
    BY <1>1, <2>1, ResponsesFails
<1> QED
  BY <1>3, <1>4, <1>5 DEF Protocols

-----------------------------------------------------------------------------
(* The record shows what is said: an invariant, and what it implies.       *)

AnswerBlock(p) ==
    [kind : KindsOf(p), name : {Name, << >>}, text : Seq(Tokens), opaque : Seq(Hidden),
     open : BOOLEAN, at : Nat]

IsUpstream(u) ==
    u = [blocks |-> u.blocks, stop |-> u.stop, usage |-> u.usage, present |-> u.present,
         late |-> u.late, aborted |-> u.aborted, phase |-> u.phase]

Recorded(p, s, u) ==
    /\ IsUpstream(u) /\ u.blocks \in Seq(AnswerBlock(p))
    /\ IsScan(s) /\ s.usage = u.usage /\ s.seen = u.present
    /\ ShowsAll(p, s, u.blocks)
    /\ u.phase = "idle" => s = NewScan(p) /\ u.blocks = << >>
    /\ u.phase = "open" => Carries(p, s, u.blocks)
    /\ u.phase = "stopped" /\ p = "openai" /\ ~ u.present =>
          OpenAiEnded(s, u.blocks) /\ s.usage = NoUsage

RecordInv == route \in Protocols \X Protocols \X BOOLEAN /\ Recorded(egress, scan, up)

\* The upstream speaks one of the protocols.
LEMMA EgressIs ==
    ASSUME RecordInv
    PROVE  egress \in Protocols
  BY DEF RecordInv, egress

\* What is said is a block of an answer.
LEMMA SaidBlock ==
    ASSUME NEW p, NEW b, IsSaid(p, b)
    PROVE  b \in AnswerBlock(p)
<1>1. b.name \in {Name, << >>}
  BY DEF IsSaid
<1> QED
  BY <1>1 DEF IsSaid, AnswerBlock

\* The upstream under another phase, with another answer and another usage.
UpTo(v, blocks, usage, present, phase) ==
    /\ IsUpstream(v) /\ v.blocks = blocks /\ v.usage = usage /\ v.present = present
    /\ v.phase = phase

\* One field of the upstream is set.
LEMMA UpSet ==
    ASSUME NEW u, IsUpstream(u), NEW x
    PROVE  /\ UpTo([u EXCEPT !.blocks = x], x, u.usage, u.present, u.phase)
           /\ UpTo([u EXCEPT !.stop = x], u.blocks, u.usage, u.present, u.phase)
           /\ UpTo([u EXCEPT !.usage = x], u.blocks, x, u.present, u.phase)
           /\ UpTo([u EXCEPT !.present = x], u.blocks, u.usage, x, u.phase)
           /\ UpTo([u EXCEPT !.late = x], u.blocks, u.usage, u.present, u.phase)
           /\ UpTo([u EXCEPT !.aborted = x], u.blocks, u.usage, u.present, u.phase)
           /\ UpTo([u EXCEPT !.phase = x], u.blocks, u.usage, u.present, x)
<1>1. UpTo([u EXCEPT !.blocks = x], x, u.usage, u.present, u.phase)
  BY DEF UpTo, IsUpstream
<1>2. UpTo([u EXCEPT !.stop = x], u.blocks, u.usage, u.present, u.phase)
  BY DEF UpTo, IsUpstream
<1>3. UpTo([u EXCEPT !.usage = x], u.blocks, x, u.present, u.phase)
  BY DEF UpTo, IsUpstream
<1>4. UpTo([u EXCEPT !.present = x], u.blocks, u.usage, x, u.phase)
  BY DEF UpTo, IsUpstream
<1>5. UpTo([u EXCEPT !.late = x], u.blocks, u.usage, u.present, u.phase)
  BY DEF UpTo, IsUpstream
<1>6. UpTo([u EXCEPT !.aborted = x], u.blocks, u.usage, u.present, u.phase)
  BY DEF UpTo, IsUpstream
<1>7. UpTo([u EXCEPT !.phase = x], u.blocks, u.usage, u.present, x)
  BY DEF UpTo, IsUpstream
<1> QED
  BY <1>1, <1>2, <1>3, <1>4, <1>5, <1>6, <1>7

\* Several fields of the upstream are set.
LEMMA UpsSet ==
    ASSUME NEW u, IsUpstream(u), NEW blocks, NEW usage, NEW present, NEW phase, NEW stop, NEW late, NEW aborted
    PROVE  /\ UpTo([u EXCEPT !.blocks = blocks], blocks, u.usage, u.present, u.phase)
           /\ UpTo([u EXCEPT !.phase = phase], u.blocks, u.usage, u.present, phase)
           /\ UpTo([u EXCEPT !.phase = phase, !.aborted = aborted], u.blocks, u.usage, u.present, phase)
           /\ UpTo([u EXCEPT !.phase = phase, !.usage = usage, !.present = present],
                   u.blocks, usage, present, phase)
           /\ UpTo([u EXCEPT !.phase = phase, !.stop = stop, !.present = present, !.usage = usage],
                   u.blocks, usage, present, phase)
           /\ UpTo([u EXCEPT !.present = present, !.usage = usage, !.late = late],
                   u.blocks, usage, present, u.phase)
<1>1. UpTo([u EXCEPT !.phase = phase, !.aborted = aborted], u.blocks, u.usage, u.present, phase)
  <2>1. UpTo([u EXCEPT !.phase = phase], u.blocks, u.usage, u.present, phase)
    BY UpSet
  <2>2. PICK w1 : w1 = [u EXCEPT !.phase = phase] /\ UpTo(w1, u.blocks, u.usage, u.present, phase)
    BY <2>1
  <2>3. IsUpstream(w1)
    BY <2>2 DEF UpTo
  <2>4. UpTo([w1 EXCEPT !.aborted = aborted], w1.blocks, w1.usage, w1.present, w1.phase)
    BY <2>3, UpSet
  <2>5. PICK w2 : w2 = [w1 EXCEPT !.aborted = aborted] /\ UpTo(w2, w1.blocks, w1.usage, w1.present, w1.phase)
    BY <2>4
  <2>6. UpTo(w2, u.blocks, u.usage, u.present, phase)
    BY <2>5, <2>2 DEF UpTo
  <2>7. [u EXCEPT !.phase = phase, !.aborted = aborted] = w2
    BY <2>2, <2>5
  <2> QED
    BY <2>6, <2>7
<1>2. UpTo([u EXCEPT !.phase = phase, !.usage = usage, !.present = present], u.blocks, usage, present, phase)
  <2>1. UpTo([u EXCEPT !.phase = phase], u.blocks, u.usage, u.present, phase)
    BY UpSet
  <2>2. PICK w1 : w1 = [u EXCEPT !.phase = phase] /\ UpTo(w1, u.blocks, u.usage, u.present, phase)
    BY <2>1
  <2>3. IsUpstream(w1)
    BY <2>2 DEF UpTo
  <2>4. UpTo([w1 EXCEPT !.usage = usage], w1.blocks, usage, w1.present, w1.phase)
    BY <2>3, UpSet
  <2>5. PICK w2 : w2 = [w1 EXCEPT !.usage = usage] /\ UpTo(w2, w1.blocks, usage, w1.present, w1.phase)
    BY <2>4
  <2>6. UpTo(w2, u.blocks, usage, u.present, phase)
    BY <2>5, <2>2 DEF UpTo
  <2>7. IsUpstream(w2)
    BY <2>6 DEF UpTo
  <2>8. UpTo([w2 EXCEPT !.present = present], w2.blocks, w2.usage, present, w2.phase)
    BY <2>7, UpSet
  <2>9. PICK w3 : w3 = [w2 EXCEPT !.present = present] /\ UpTo(w3, w2.blocks, w2.usage, present, w2.phase)
    BY <2>8
  <2>10. UpTo(w3, u.blocks, usage, present, phase)
    BY <2>9, <2>6 DEF UpTo
  <2>11. [u EXCEPT !.phase = phase, !.usage = usage, !.present = present] = w3
    BY <2>2, <2>5, <2>9
  <2> QED
    BY <2>10, <2>11
<1>3. UpTo([u EXCEPT !.phase = phase, !.stop = stop, !.present = present, !.usage = usage], u.blocks, usage, present, phase)
  <2>1. UpTo([u EXCEPT !.phase = phase], u.blocks, u.usage, u.present, phase)
    BY UpSet
  <2>2. PICK w1 : w1 = [u EXCEPT !.phase = phase] /\ UpTo(w1, u.blocks, u.usage, u.present, phase)
    BY <2>1
  <2>3. IsUpstream(w1)
    BY <2>2 DEF UpTo
  <2>4. UpTo([w1 EXCEPT !.stop = stop], w1.blocks, w1.usage, w1.present, w1.phase)
    BY <2>3, UpSet
  <2>5. PICK w2 : w2 = [w1 EXCEPT !.stop = stop] /\ UpTo(w2, w1.blocks, w1.usage, w1.present, w1.phase)
    BY <2>4
  <2>6. UpTo(w2, u.blocks, u.usage, u.present, phase)
    BY <2>5, <2>2 DEF UpTo
  <2>7. IsUpstream(w2)
    BY <2>6 DEF UpTo
  <2>8. UpTo([w2 EXCEPT !.present = present], w2.blocks, w2.usage, present, w2.phase)
    BY <2>7, UpSet
  <2>9. PICK w3 : w3 = [w2 EXCEPT !.present = present] /\ UpTo(w3, w2.blocks, w2.usage, present, w2.phase)
    BY <2>8
  <2>10. UpTo(w3, u.blocks, u.usage, present, phase)
    BY <2>9, <2>6 DEF UpTo
  <2>11. IsUpstream(w3)
    BY <2>10 DEF UpTo
  <2>12. UpTo([w3 EXCEPT !.usage = usage], w3.blocks, usage, w3.present, w3.phase)
    BY <2>11, UpSet
  <2>13. PICK w4 : w4 = [w3 EXCEPT !.usage = usage] /\ UpTo(w4, w3.blocks, usage, w3.present, w3.phase)
    BY <2>12
  <2>14. UpTo(w4, u.blocks, usage, present, phase)
    BY <2>13, <2>10 DEF UpTo
  <2>15. [u EXCEPT !.phase = phase, !.stop = stop, !.present = present, !.usage = usage] = w4
    BY <2>2, <2>5, <2>9, <2>13
  <2> QED
    BY <2>14, <2>15
<1>4. UpTo([u EXCEPT !.present = present, !.usage = usage, !.late = late], u.blocks, usage, present, u.phase)
  <2>1. UpTo([u EXCEPT !.present = present], u.blocks, u.usage, present, u.phase)
    BY UpSet
  <2>2. PICK w1 : w1 = [u EXCEPT !.present = present] /\ UpTo(w1, u.blocks, u.usage, present, u.phase)
    BY <2>1
  <2>3. IsUpstream(w1)
    BY <2>2 DEF UpTo
  <2>4. UpTo([w1 EXCEPT !.usage = usage], w1.blocks, usage, w1.present, w1.phase)
    BY <2>3, UpSet
  <2>5. PICK w2 : w2 = [w1 EXCEPT !.usage = usage] /\ UpTo(w2, w1.blocks, usage, w1.present, w1.phase)
    BY <2>4
  <2>6. UpTo(w2, u.blocks, usage, present, u.phase)
    BY <2>5, <2>2 DEF UpTo
  <2>7. IsUpstream(w2)
    BY <2>6 DEF UpTo
  <2>8. UpTo([w2 EXCEPT !.late = late], w2.blocks, w2.usage, w2.present, w2.phase)
    BY <2>7, UpSet
  <2>9. PICK w3 : w3 = [w2 EXCEPT !.late = late] /\ UpTo(w3, w2.blocks, w2.usage, w2.present, w2.phase)
    BY <2>8
  <2>10. UpTo(w3, u.blocks, usage, present, u.phase)
    BY <2>9, <2>6 DEF UpTo
  <2>11. [u EXCEPT !.present = present, !.usage = usage, !.late = late] = w3
    BY <2>2, <2>5, <2>9
  <2> QED
    BY <2>10, <2>11
<1> QED
  BY UpSet, <1>1, <1>2, <1>3, <1>4

\* Initially nothing is said and nothing is shown.
LEMMA RecordInit ==
    ASSUME Init
    PROVE  RecordInv
<1>1. route \in Protocols \X Protocols \X BOOLEAN
  BY AnswerAssumption DEF Init
<1>2. PICK p : p = egress /\ scan = NewScan(p)
  BY DEF Init
<1>3. /\ IsUpstream(up) /\ up.blocks = << >> /\ up.usage = NoUsage /\ up.present = FALSE
      /\ up.phase = "idle"
  BY DEF Init, IsUpstream
<1>4. ShowsAll(p, scan, << >>) /\ Untold(scan)
  BY <1>2, NothingShownAtAll
<1>5. << >> \in Seq(AnswerBlock(p))
  OBVIOUS
<1>6. Recorded(p, scan, up)
  BY <1>2, <1>3, <1>4, <1>5 DEF Recorded, Untold
<1> QED
  BY <1>1, <1>2, <1>6 DEF RecordInv

\* The property follows.
LEMMA RecordHolds ==
    ASSUME RecordInv
    PROVE  RecordShowsWhatIsSaid
<1>1. PICK p, B : p = egress /\ p \in Protocols /\ B = up.blocks /\ B \in Seq(AnswerBlock(p))
  BY EgressIs DEF RecordInv, Recorded
<1>2. ShowsAll(p, scan, B) /\ scan.usage = up.usage /\ scan.seen = up.present
  BY <1>1 DEF RecordInv, Recorded
<1>3. Snapshot(scan).content = FlattenSeq(EachOf(B, Part))
  <2>1. PICK c, x : Shows(p, scan, B, c, x)
    BY <1>2 DEF ShowsAll
  <2>2. \A j \in 1 .. Len(B) : IsSaid(p, B[j])
    BY <1>2 DEF ShowsAll
  <2> QED
    BY <1>1, <2>1, <2>2, ContentIsSaid
<1>4. Meant(LAMBDA name : name) = FlattenSeq(EachOf(B, Part))
  BY <1>1 DEF Meant, EachOf, Part
<1>5. Snapshot(scan).usage = scan.usage /\ Snapshot(scan).present = scan.seen
  BY DEF Snapshot
<1> QED
  BY <1>2, <1>3, <1>4, <1>5 DEF RecordShowsWhatIsSaid

-----------------------------------------------------------------------------
(* Each step of the upstream, the invariant before and after it.           *)

\* What the scan carries before a step.
LEMMA OpenCarriesNow ==
    ASSUME RecordInv, up.phase = "open"
    PROVE  /\ Carries(egress, scan, up.blocks) /\ Answer(egress, up.blocks)
           /\ up.usage = StartUsage(egress) /\ up.present = (egress = "anthropic")
           /\ up.blocks \in Seq(AnswerBlock(egress))
  BY DEF RecordInv, Recorded, Carries, Started

\* The invariant after a step that leaves the upstream open.
LEMMA StaysOpen ==
    ASSUME RecordInv, route' = route, NEW p \in Protocols, p = egress, NEW D \in Seq(AnswerBlock(p)),
           Carries(p, scan', D), UpTo(up', D, StartUsage(p), p = "anthropic", "open")
    PROVE  RecordInv'
<1>1. PICK r, v : r = scan' /\ v = up'
  OBVIOUS
<1>2. ShowsAll(p, r, D)
  <2>1. Carries(p, r, D)
    BY <1>1
  <2> QED
    BY <2>1, CarriesAll DEF Carries
<1>3. Recorded(p, r, v)
  <2>1. Carries(p, r, D) /\ UpTo(v, D, StartUsage(p), p = "anthropic", "open")
    BY <1>1
  <2> QED
    BY <1>2, <2>1 DEF Recorded, UpTo, Carries, Started
<1>4. egress' = p
  BY DEF egress
<1> QED
  BY <1>1, <1>3, <1>4 DEF RecordInv

\* The answer begins.
LEMMA BeginRecords ==
    ASSUME RecordInv, Begin
    PROVE  RecordInv'
<1>1. PICK p : p = egress /\ p \in Protocols
  BY EgressIs
<1>2. Recorded(p, scan, up) /\ up.phase = "idle"
  BY <1>1 DEF RecordInv, Begin
<1>3. scan = NewScan(p) /\ up.blocks = << >> /\ IsUpstream(up) /\ up.usage = scan.usage
  BY <1>2 DEF Recorded
<1>4. up.usage = NoUsage
  BY <1>3, NothingShownAtAll DEF Untold
<1>5. route' = route /\ scan' = ScanFrames(p, scan, <<FirstFrame(p)>>)
  <2>1. CASE p = "openai"
    BY <1>1, <2>1 DEF Begin, Receive, FirstFrame
  <2>2. CASE p = "anthropic"
    BY <1>1, <2>2 DEF Begin, Receive, FirstFrame
  <2>3. CASE p = "responses"
    BY <1>1, <2>3 DEF Begin, Receive, FirstFrame
  <2> QED
    BY <1>1, <2>1, <2>2, <2>3 DEF Protocols
<1>6. Carries(p, scan', << >>)
  <2>1. PICK r : r = scan'
    OBVIOUS
  <2>2. Reads(r, p, scan, FirstFrame(p))
    BY <1>5, <2>1, OneFrame DEF Reads
  <2>3. Carries(p, r, << >>)
    BY <1>1, <1>3, <2>2, FirstCarries
  <2> QED
    BY <2>1, <2>3
<1>7. UpTo(up', << >>, StartUsage(p), p = "anthropic", "open")
  <2>1. PICK usage, present : /\ usage = StartUsage(p) /\ present = (p = "anthropic")
                              /\ up' = [up EXCEPT !.phase = "open", !.usage = usage, !.present = present]
    <3>1. (IF p = "anthropic" THEN InputOnly ELSE up.usage) = StartUsage(p)
      BY <1>4 DEF StartUsage
    <3>2. up' = [up EXCEPT !.phase = "open",
                           !.usage = IF p = "anthropic" THEN InputOnly ELSE up.usage,
                           !.present = (p = "anthropic")]
      BY <1>1 DEF Begin
    <3> QED
      BY <3>1, <3>2
  <2>2. UpTo([up EXCEPT !.phase = "open", !.usage = usage, !.present = present],
             up.blocks, usage, present, "open")
    BY <1>3, UpsSet
  <2> QED
    BY <1>3, <2>1, <2>2
<1>8. << >> \in Seq(AnswerBlock(p))
  OBVIOUS
<1> QED
  BY <1>1, <1>5, <1>6, <1>7, <1>8, StaysOpen

\* The block that a step opens, says a piece of or closes.
Opened(p, B, kind, piece) ==
    [kind |-> kind, name |-> IF kind = "tool" THEN Name ELSE << >>, text |-> piece,
     opaque |-> IF kind = "redacted" THEN Redacted ELSE << >>, open |-> TRUE,
     at |-> IF p = "openai" THEN Cardinality(Calls(B)) ELSE Len(B)]

\* What stands for redacted reasoning is hidden.
LEMMA RedactedIsHidden == Redacted \in Seq(Hidden)
  BY DEF Redacted, Hidden

\* A piece, or none, is a text.
LEMMA PieceIsText ==
    ASSUME NEW piece \in Pieces \cup {<< >>}
    PROVE  piece \in Seq(Tokens)
<1>1. CASE piece \in Pieces
  BY <1>1, AnswerAssumption
<1>2. CASE piece = << >>
  BY <1>2
<1> QED
  BY <1>1, <1>2

\* The block that the upstream opens is one that opens.
LEMMA OpenedIs ==
    ASSUME NEW p \in Protocols, NEW S, NEW B \in Seq(S), NEW kind \in KindsOf(p),
           NEW piece \in Seq(Tokens), piece # << >> <=> p = "openai" /\ kind # "tool",
           p = "openai" => kind = "tool" \/ \A j \in DOMAIN B : B[j].kind # kind,
           NEW b, b = Opened(p, B, kind, piece)
    PROVE  Opening(p, B, b) /\ b.kind = kind /\ b.text = piece
<1>1. /\ b.kind = kind /\ b.text = piece /\ b.open = TRUE
      /\ b.name = IF kind = "tool" THEN Name ELSE << >>
      /\ b.opaque = IF kind = "redacted" THEN Redacted ELSE << >>
      /\ b.at = IF p = "openai" THEN Cardinality(Calls(B)) ELSE Len(B)
      /\ b = [kind |-> b.kind, name |-> b.name, text |-> b.text, opaque |-> b.opaque,
              open |-> b.open, at |-> b.at]
  BY DEF Opened
<1>2. b.at \in Nat
  <2>1. Len(B) \in Nat
    OBVIOUS
  <2>2. IsFiniteSet(Calls(B))
    <3>1. DOMAIN B = 1 .. Len(B)
      OBVIOUS
    <3>2. Calls(B) \subseteq 1 .. Len(B)
      BY <3>1 DEF Calls
    <3>3. IsFiniteSet(1 .. Len(B))
      <4>1. PICK n : n = Len(B) /\ n \in Int /\ 1 \in Int
        BY <2>1
      <4>2. IsFiniteSet(1 .. n)
        BY <4>1, FS_Interval
      <4> QED
        BY <4>1, <4>2
    <3> QED
      BY <3>2, <3>3, FS_Subset
  <2>3. Cardinality(Calls(B)) \in Nat
    BY <2>2, FS_CardinalityType
  <2> QED
    BY <1>1, <2>1, <2>3
<1>3. kind = "redacted" => piece = << >>
  <2>1. p = "openai" => kind \in {"reasoning", "text", "tool"}
    BY DEF KindsOf
  <2> QED
    BY <2>1
<1>4. b.opaque \in Seq(Hidden)
  BY <1>1, RedactedIsHidden
<1>5. IsSaid(p, b)
  BY <1>1, <1>2, <1>3, <1>4 DEF IsSaid
<1>6. DOMAIN B = 1 .. Len(B)
  OBVIOUS
<1> QED
  BY <1>1, <1>5, <1>6 DEF Opening

\* A block opens.
LEMMA OpenBlockRecords ==
    ASSUME RecordInv, NEW kind \in KindsOf(egress), NEW piece \in Pieces \cup {<< >>},
           OpenBlock(kind, piece)
    PROVE  RecordInv'
<1>1. PICK p, B : p = egress /\ p \in Protocols /\ B = up.blocks
  BY EgressIs
<1>2. up.phase = "open"
  BY DEF OpenBlock
<1>3. /\ Carries(p, scan, B) /\ B \in Seq(AnswerBlock(p))
      /\ up.usage = StartUsage(p) /\ up.present = (p = "anthropic")
  BY <1>1, <1>2, OpenCarriesNow
<1>4. piece \in Seq(Tokens)
  BY PieceIsText
<1>5. PICK b : b = Opened(p, B, kind, piece)
  OBVIOUS
<1>6. Opening(p, B, b) /\ b.kind = kind /\ b.text = piece
  <2>1. piece # << >> <=> p = "openai" /\ kind # "tool"
    BY <1>1 DEF OpenBlock
  <2>2. p = "openai" => kind = "tool" \/ \A j \in DOMAIN B : B[j].kind # kind
    BY <1>1 DEF OpenBlock
  <2>3. kind \in KindsOf(p)
    BY <1>1
  <2> QED
    BY <1>1, <1>3, <1>4, <1>5, <2>1, <2>2, <2>3, OpenedIs
<1>7. /\ route' = route
      /\ up' = [up EXCEPT !.blocks = Append(B, b)]
      /\ scan' = ScanFrames(p, scan, OpenFrames(kind, b.at, piece))
  BY <1>1, <1>5 DEF OpenBlock, Receive, Opened, Calls
<1>8. b \in AnswerBlock(p)
  BY <1>6, SaidBlock DEF Opening
<1>9. PICK D : D = Append(B, b) /\ D \in Seq(AnswerBlock(p))
  <2>1. PICK E : E = Append(B, b)
    OBVIOUS
  <2>2. E \in Seq(AnswerBlock(p))
    BY <1>3, <1>8, <2>1
  <2> QED
    BY <2>1, <2>2
<1>10. Carries(p, scan', D)
  <2>1. PICK r : r = scan'
    OBVIOUS
  <2>2. r = ScanFrames(p, scan, OpenFrames(b.kind, b.at, b.text))
    BY <1>6, <1>7, <2>1
  <2>3. Carries(p, r, Append(B, b))
    BY <1>1, <1>3, <1>6, <1>8, <2>2, OpenCarries
  <2> QED
    BY <1>9, <2>1, <2>3
<1>11. UpTo(up', D, StartUsage(p), p = "anthropic", "open")
  <2>1. IsUpstream(up)
    BY DEF RecordInv, Recorded
  <2>2. UpTo([up EXCEPT !.blocks = D], D, up.usage, up.present, up.phase)
    BY <2>1, UpsSet
  <2> QED
    BY <1>2, <1>3, <1>7, <1>9, <2>2
<1> QED
  BY <1>1, <1>7, <1>9, <1>10, <1>11, StaysOpen

\* A piece of a block is said.
LEMMA SayRecords ==
    ASSUME RecordInv, NEW i \in DOMAIN up.blocks, NEW piece \in Pieces, Say(i, piece)
    PROVE  RecordInv'
<1>1. PICK p, B : p = egress /\ p \in Protocols /\ B = up.blocks
  BY EgressIs
<1>2. up.phase = "open" /\ B[i].open /\ B[i].kind # "redacted"
  BY <1>1 DEF Say, Open
<1>3. /\ Carries(p, scan, B) /\ Answer(p, B) /\ B \in Seq(AnswerBlock(p))
      /\ up.usage = StartUsage(p) /\ up.present = (p = "anthropic")
  BY <1>1, <1>2, OpenCarriesNow
<1>4. piece \in Seq(Tokens)
  BY PieceIsText
<1>5. i \in 1 .. Len(B)
  <2>1. i \in DOMAIN B
    BY <1>1
  <2> QED
    BY <1>3, <2>1
<1>6. IsSaid(p, B[i]) /\ B[i].open = TRUE
  <2>1. IsSaid(p, B[i])
    BY <1>3, <1>5 DEF Answer
  <2> QED
    BY <1>2, <2>1 DEF IsSaid
<1>7. PICK b : b = [B[i] EXCEPT !.text = B[i].text \o piece]
  OBVIOUS
<1>8. Extended(B[i], b, piece) /\ IsSaid(p, b)
  <2>1. PICK a : a = B[i]
    OBVIOUS
  <2>2. PICK text : text = a.text \o piece
    OBVIOUS
  <2>3. a = [kind |-> a.kind, name |-> a.name, text |-> a.text, opaque |-> a.opaque,
             open |-> a.open, at |-> a.at]
    BY <1>6, <2>1 DEF IsSaid
  <2>4. b = [kind |-> a.kind, name |-> a.name, text |-> text, opaque |-> a.opaque,
             open |-> a.open, at |-> a.at]
    BY <1>7, <2>1, <2>2, <2>3
  <2>5. Extended(a, b, piece)
    BY <2>2, <2>4 DEF Extended
  <2>6. text \in Seq(Tokens)
    BY <1>4, <1>6, <2>1, <2>2 DEF IsSaid
  <2>7. IsSaid(p, b)
    BY <1>2, <1>6, <2>1, <2>4, <2>6 DEF IsSaid
  <2> QED
    BY <2>1, <2>5, <2>7
<1>9. PICK D : Becomes(D, B, i, b) /\ D \in Seq(AnswerBlock(p))
  <2>1. PICK E : E = [B EXCEPT ![i] = b]
    OBVIOUS
  <2>2. b \in AnswerBlock(p)
    BY <1>8, SaidBlock
  <2>3. E \in Seq(AnswerBlock(p))
    BY <1>3, <1>5, <2>1, <2>2
  <2> QED
    BY <2>1, <2>3 DEF Becomes
<1>10. /\ route' = route
       /\ up' = [up EXCEPT !.blocks = D]
       /\ scan' = ScanFrames(p, scan, PieceFrames(B[i], piece))
  <2>1. up' = [up EXCEPT !.blocks[i].text = up.blocks[i].text \o piece]
    BY DEF Say
  <2>2. up' = [up EXCEPT !.blocks = [up.blocks EXCEPT ![i] = [up.blocks[i] EXCEPT !.text = up.blocks[i].text \o piece]]]
    BY <2>1
  <2> QED
    BY <1>1, <1>7, <1>9, <2>2 DEF Say, Receive, Becomes
<1>11. Carries(p, scan', D)
  <2>1. PICK r : r = scan'
    OBVIOUS
  <2>2. r = ScanFrames(p, scan, PieceFrames(B[i], piece))
    BY <1>10, <2>1
  <2>3. Carries(p, r, D)
    BY <1>1, <1>2, <1>3, <1>4, <1>5, <1>6, <1>8, <1>9, <2>2, PieceCarries
  <2> QED
    BY <2>1, <2>3
<1>12. UpTo(up', D, StartUsage(p), p = "anthropic", "open")
  <2>1. IsUpstream(up)
    BY DEF RecordInv, Recorded
  <2>2. UpTo([up EXCEPT !.blocks = D], D, up.usage, up.present, up.phase)
    BY <2>1, UpsSet
  <2> QED
    BY <1>2, <1>3, <1>10, <2>2
<1> QED
  BY <1>1, <1>9, <1>10, <1>11, <1>12, StaysOpen

\* What a provider hides is one of its forms.
LEMMA OpaqueIsHidden ==
    ASSUME NEW kind, NEW opaque \in Opaques(kind)
    PROVE  opaque \in Seq(Hidden) /\ (opaque # << >> => kind = "thinking")
<1>1. Envelope("signature", << >>, << >>) \in Hidden /\ Envelope("encrypted", << >>, << >>) \in Hidden
  BY DEF Hidden
<1>2. PICK e : e \in Hidden /\ opaque \in {<< >>, <<e>>}
  <2>1. CASE kind # "thinking"
    BY <1>1, <2>1 DEF Opaques
  <2>2. CASE kind = "thinking" /\ egress = "anthropic"
    BY <1>1, <2>2 DEF Opaques
  <2>3. CASE kind = "thinking" /\ egress # "anthropic"
    BY <1>1, <2>3 DEF Opaques
  <2> QED
    BY <2>1, <2>2, <2>3
<1>3. opaque \in Seq(Hidden)
  <2>1. << >> \in Seq(Hidden) /\ <<e>> \in Seq(Hidden)
    BY <1>2
  <2> QED
    BY <1>2, <2>1
<1>4. opaque # << >> => kind = "thinking"
  BY DEF Opaques
<1> QED
  BY <1>3, <1>4

\* A block as its end leaves it.
AtEnd(a, opaque, late) ==
    [[[a EXCEPT !.open = FALSE] EXCEPT !.text = a.text \o late]
       EXCEPT !.opaque = IF a.kind = "thinking" THEN opaque ELSE a.opaque]

\* It is the block with what is hidden and what came late.
LEMMA EndedIs ==
    ASSUME NEW p, NEW a, IsSaid(p, a), a.open = TRUE, NEW opaque \in Seq(Hidden),
           opaque # << >> => a.kind = "thinking", NEW late \in Seq(Tokens),
           late # << >> => a.kind = "tool",
           NEW b, b = AtEnd(a, opaque, late)
    PROVE  IsSaid(p, b) /\ ClosedAs(a, b, opaque, late) /\ b.open = FALSE
<1>1. PICK text, hidden : text = a.text \o late /\ hidden = IF a.kind = "thinking" THEN opaque ELSE a.opaque
  OBVIOUS
<1>2. a = [kind |-> a.kind, name |-> a.name, text |-> a.text, opaque |-> a.opaque,
           open |-> a.open, at |-> a.at]
  BY DEF IsSaid
<1>3. b = [kind |-> a.kind, name |-> a.name, text |-> text, opaque |-> hidden,
           open |-> FALSE, at |-> a.at]
  <2>1. PICK c : c = [a EXCEPT !.open = FALSE]
    OBVIOUS
  <2>2. c = [kind |-> a.kind, name |-> a.name, text |-> a.text, opaque |-> a.opaque,
             open |-> FALSE, at |-> a.at]
    BY <1>2, <2>1
  <2>3. PICK d : d = [c EXCEPT !.text = text]
    OBVIOUS
  <2>4. d = [kind |-> a.kind, name |-> a.name, text |-> text, opaque |-> a.opaque,
             open |-> FALSE, at |-> a.at]
    BY <2>2, <2>3
  <2>5. b = [d EXCEPT !.opaque = hidden]
    BY <1>1, <2>1, <2>3 DEF AtEnd
  <2> QED
    BY <2>4, <2>5
<1>4. text \in Seq(Tokens) /\ hidden \in Seq(Hidden)
  BY <1>1 DEF IsSaid
<1>5. a.kind = "redacted" => text = << >> /\ hidden = Redacted
  <2>1. a.kind = "redacted" => a.text = << >> /\ late = << >> /\ a.opaque = Redacted
    BY DEF IsSaid
  <2> QED
    BY <1>1, <2>1
<1>6. IsSaid(p, b)
  BY <1>1, <1>3, <1>4, <1>5 DEF IsSaid
<1>7. ClosedAs(a, b, opaque, late)
  BY <1>1, <1>3 DEF ClosedAs
<1> QED
  BY <1>3, <1>6, <1>7

\* A block closes.
LEMMA CloseBlockRecords ==
    ASSUME RecordInv, NEW i \in DOMAIN up.blocks, NEW opaque \in Opaques(up.blocks[i].kind),
           NEW late \in Pieces \cup {<< >>}, CloseBlock(i, opaque, late)
    PROVE  RecordInv'
<1>1. PICK p, B : p = egress /\ p \in Protocols /\ B = up.blocks
  BY EgressIs
<1>2. /\ up.phase = "open" /\ B[i].open /\ p # "openai"
      /\ late # << >> => p = "responses" /\ B[i].kind = "tool" /\ B[i].text = << >>
  BY <1>1 DEF CloseBlock, Open
<1>3. /\ Carries(p, scan, B) /\ Answer(p, B) /\ B \in Seq(AnswerBlock(p))
      /\ up.usage = StartUsage(p) /\ up.present = (p = "anthropic")
  BY <1>1, <1>2, OpenCarriesNow
<1>4. /\ late \in Seq(Tokens) /\ opaque \in Seq(Hidden)
      /\ opaque # << >> => B[i].kind = "thinking"
  BY <1>1, PieceIsText, OpaqueIsHidden
<1>5. i \in 1 .. Len(B)
  <2>1. i \in DOMAIN B
    BY <1>1
  <2> QED
    BY <1>3, <2>1
<1>6. IsSaid(p, B[i]) /\ B[i].open = TRUE
  <2>1. IsSaid(p, B[i])
    BY <1>3, <1>5 DEF Answer
  <2> QED
    BY <1>2, <2>1 DEF IsSaid
<1>7. PICK b : b = AtEnd(B[i], opaque, late)
  OBVIOUS
<1>8. IsSaid(p, b) /\ ClosedAs(B[i], b, opaque, late) /\ b.open = FALSE
  <2>1. late # << >> => B[i].kind = "tool"
    BY <1>2
  <2>2. PICK a : a = B[i]
    OBVIOUS
  <2>3. /\ IsSaid(p, a) /\ a.open = TRUE /\ (late # << >> => a.kind = "tool")
        /\ opaque # << >> => a.kind = "thinking"
    BY <1>4, <1>6, <2>1, <2>2
  <2>4. b = AtEnd(a, opaque, late)
    BY <1>7, <2>2
  <2>5. IsSaid(p, b) /\ ClosedAs(a, b, opaque, late) /\ b.open = FALSE
    BY <1>4, <2>3, <2>4, EndedIs
  <2> QED
    BY <2>2, <2>5
<1>9. PICK D : Becomes(D, B, i, b) /\ D \in Seq(AnswerBlock(p))
  <2>1. PICK E : E = [B EXCEPT ![i] = b]
    OBVIOUS
  <2>2. b \in AnswerBlock(p)
    BY <1>8, SaidBlock
  <2>3. E \in Seq(AnswerBlock(p))
    BY <1>3, <1>5, <2>1, <2>2
  <2> QED
    BY <2>1, <2>3 DEF Becomes
<1>10. up' = [up EXCEPT !.blocks = D]
  <2>1. PICK text, hidden : /\ text = up.blocks[i].text \o late
                            /\ hidden = IF up.blocks[i].kind = "thinking" THEN opaque ELSE up.blocks[i].opaque
    OBVIOUS
  <2>2. up' = [up EXCEPT !.blocks[i].open = FALSE, !.blocks[i].text = text, !.blocks[i].opaque = hidden]
    BY <2>1 DEF CloseBlock
  <2> QED
    BY <1>1, <1>5, <1>7, <1>9, <2>1, <2>2 DEF Becomes, AtEnd
<1>11. route' = route /\ scan' = ScanFrames(p, scan, CloseFrames(B[i], opaque, late))
  BY <1>1 DEF CloseBlock, Receive
<1>12. Carries(p, scan', D)
  <2>1. PICK r : r = scan'
    OBVIOUS
  <2>2. r = ScanFrames(p, scan, CloseFrames(B[i], opaque, late))
    BY <1>11, <2>1
  <2>3. Carries(p, r, D)
    BY <1>1, <1>2, <1>3, <1>4, <1>5, <1>6, <1>8, <1>9, <2>2, CloseCarries
  <2> QED
    BY <2>1, <2>3
<1>13. UpTo(up', D, StartUsage(p), p = "anthropic", "open")
  <2>1. IsUpstream(up)
    BY DEF RecordInv, Recorded
  <2>2. UpTo([up EXCEPT !.blocks = D], D, up.usage, up.present, up.phase)
    BY <2>1, UpsSet
  <2> QED
    BY <1>2, <1>3, <1>10, <2>2
<1> QED
  BY <1>1, <1>9, <1>11, <1>12, <1>13, StaysOpen

\* The answer stops.
LEMMA StopRecords ==
    ASSUME RecordInv, NEW stop \in StopReasons, NEW present \in BOOLEAN, Stop(stop, present)
    PROVE  RecordInv'
<1>1. PICK p, B : p = egress /\ p \in Protocols /\ B = up.blocks
  BY EgressIs
<1>2. up.phase = "open"
  BY DEF Stop
<1>3. /\ Carries(p, scan, B) /\ B \in Seq(AnswerBlock(p))
      /\ up.usage = StartUsage(p) /\ up.present = (p = "anthropic")
  BY <1>1, <1>2, OpenCarriesNow
<1>4. PICK usage, said : usage = (IF present THEN Usage ELSE StartUsage(p))
                         /\ said = (p = "anthropic" \/ present)
  OBVIOUS
<1>5. route' = route /\ scan' = ScanFrames(p, scan, StopFrames(stop, EndUsage(p, present), present))
  BY <1>1 DEF Stop, Receive, EndUsage
<1>6. up' = [up EXCEPT !.phase = "stopped", !.stop = stop, !.present = said, !.usage = usage]
  <2>1. up' = [up EXCEPT !.phase = "stopped", !.stop = stop, !.present = up.present \/ present,
                         !.usage = IF present THEN Usage ELSE up.usage]
    BY DEF Stop
  <2>2. (up.present \/ present) = said /\ (IF present THEN Usage ELSE up.usage) = usage
    BY <1>3, <1>4
  <2> QED
    BY <2>1, <2>2
<1>7. PICK r, v : r = scan' /\ v = up'
  OBVIOUS
<1>8. Stopped(p, r, B, present)
  <2>1. r = ScanFrames(p, scan, StopFrames(stop, EndUsage(p, present), present))
    BY <1>5, <1>7
  <2> QED
    BY <1>1, <1>3, <2>1, StopCarries
<1>9. UpTo(v, B, usage, said, "stopped")
  <2>1. IsUpstream(up)
    BY DEF RecordInv, Recorded
  <2>2. UpTo([up EXCEPT !.phase = "stopped", !.stop = stop, !.present = said, !.usage = usage],
             up.blocks, usage, said, "stopped")
    BY <2>1, UpsSet
  <2> QED
    BY <1>1, <1>6, <1>7, <2>2
<1>10. Recorded(p, r, v)
  <2>1. p = "openai" /\ ~ said => usage = NoUsage
    BY <1>4 DEF StartUsage
  <2> QED
    BY <1>3, <1>4, <1>8, <1>9, <2>1 DEF Recorded, UpTo, Stopped
<1>11. egress' = p
  BY <1>1, <1>5 DEF egress
<1> QED
  BY <1>5, <1>7, <1>10, <1>11 DEF RecordInv

\* The usage comes late.
LEMMA LateUsageRecords ==
    ASSUME RecordInv, LateUsage
    PROVE  RecordInv'
<1>1. PICK p, B : p = egress /\ p \in Protocols /\ B = up.blocks
  BY EgressIs
<1>2. up.phase = "stopped" /\ p = "openai" /\ ~ up.present
  BY <1>1 DEF LateUsage
<1>3. /\ Recorded(p, scan, up) /\ B \in Seq(AnswerBlock(p)) /\ IsUpstream(up)
      /\ OpenAiEnded(scan, B) /\ ShowsAll(p, scan, B) /\ Untold(scan)
  BY <1>1, <1>2 DEF RecordInv, Recorded, Untold
<1>4. PICK f : f = [Chunk EXCEPT !.choices = FALSE, !.usage = Usage, !.present = TRUE]
  OBVIOUS
<1>5. route' = route /\ scan' = ScanFrames(p, scan, <<f>>)
  BY <1>1, <1>4 DEF LateUsage, Receive
<1>6. PICK r, v : r = scan' /\ v = up'
  OBVIOUS
<1>7. IsScan(r) /\ r.usage = Usage /\ r.seen = TRUE /\ ShowsAll(p, r, B)
  <2>1. Reads(r, "openai", scan, f)
    BY <1>2, <1>5, <1>6, OneFrame DEF Reads
  <2> QED
    BY <1>2, <1>3, <1>4, <2>1, LateUsageShows
<1>8. UpTo(v, B, Usage, TRUE, "stopped")
  <2>1. up' = [up EXCEPT !.present = TRUE, !.usage = Usage, !.late = TRUE]
    BY DEF LateUsage
  <2>2. UpTo([up EXCEPT !.present = TRUE, !.usage = Usage, !.late = TRUE],
             up.blocks, Usage, TRUE, up.phase)
    BY <1>3, UpsSet
  <2> QED
    BY <1>1, <1>2, <1>6, <2>1, <2>2
<1>9. Recorded(p, r, v)
  BY <1>3, <1>7, <1>8 DEF Recorded, UpTo
<1>10. egress' = p
  BY <1>1, <1>5 DEF egress
<1> QED
  BY <1>5, <1>6, <1>9, <1>10 DEF RecordInv

\* The invariant after a step that tells the scan nothing new, and ends the answer.
LEMMA GoesOut ==
    ASSUME RecordInv, route' = route, Stays(scan', scan), NEW phase \in {"failed", "done"},
           UpTo(up', up.blocks, up.usage, up.present, phase)
    PROVE  RecordInv'
<1>1. PICK p, B : p = egress /\ p \in Protocols /\ B = up.blocks
  BY EgressIs
<1>2. Recorded(p, scan, up)
  BY <1>1 DEF RecordInv
<1>3. PICK r, v : r = scan' /\ v = up'
  OBVIOUS
<1>4. Stays(r, scan) /\ UpTo(v, B, up.usage, up.present, phase)
  BY <1>1, <1>3
<1>5. ShowsAll(p, r, B)
  BY <1>1, <1>2, <1>4, ShowsAllStill DEF Recorded, Stays
<1>6. Recorded(p, r, v)
  BY <1>1, <1>2, <1>4, <1>5 DEF Recorded, UpTo, Stays, SameUsage
<1>7. egress' = p
  BY <1>1 DEF egress
<1> QED
  BY <1>3, <1>6, <1>7 DEF RecordInv

\* The upstream fails.
LEMMA FailRecords ==
    ASSUME RecordInv, Fail
    PROVE  RecordInv'
<1>1. PICK p, B : p = egress /\ p \in Protocols /\ B = up.blocks
  BY EgressIs
<1>2. up.phase = "open"
  BY DEF Fail
<1>3. Carries(p, scan, B)
  BY <1>1, <1>2, OpenCarriesNow
<1>4. route' = route /\ scan' = ScanFrames(p, scan, <<ErrorFrame(p)>>)
  <2>1. CASE p = "openai"
    BY <1>1, <2>1 DEF Fail, Receive, ErrorFrame
  <2>2. CASE p = "anthropic"
    BY <1>1, <2>2 DEF Fail, Receive, ErrorFrame
  <2>3. CASE p = "responses"
    BY <1>1, <2>3 DEF Fail, Receive, ErrorFrame
  <2> QED
    BY <1>1, <2>1, <2>2, <2>3 DEF Protocols
<1>5. Stays(scan', scan)
  <2>1. PICK r : r = scan'
    OBVIOUS
  <2>2. Reads(r, p, scan, ErrorFrame(p))
    BY <1>4, <2>1, OneFrame DEF Reads
  <2>3. Stays(r, scan)
    BY <1>1, <1>3, <2>2, ErrorStays
  <2> QED
    BY <2>1, <2>3
<1>6. UpTo(up', up.blocks, up.usage, up.present, "failed")
  <2>1. IsUpstream(up)
    BY DEF RecordInv, Recorded
  <2> QED
    BY <2>1, UpsSet DEF Fail
<1> QED
  BY <1>4, <1>5, <1>6, GoesOut

\* A scan that is not touched stays as it is.
LEMMA ScanStays ==
    ASSUME RecordInv, scan' = scan
    PROVE  Stays(scan', scan)
  BY DEF RecordInv, Recorded, Stays, SameUsage, SameBlocks

\* A frame grows too long.
LEMMA OverflowRecords ==
    ASSUME RecordInv, Overflow
    PROVE  RecordInv'
<1>1. UpTo(up', up.blocks, up.usage, up.present, "failed")
  <2>1. IsUpstream(up)
    BY DEF RecordInv, Recorded
  <2>2. UpTo([up EXCEPT !.phase = "failed", !.aborted = TRUE], up.blocks, up.usage, up.present, "failed")
    BY <2>1, UpsSet
  <2> QED
    BY <2>2 DEF Overflow
<1>2. route' = route /\ scan' = scan
  BY DEF Overflow
<1> QED
  BY <1>1, <1>2, ScanStays, GoesOut

\* The connection ends.
LEMMA FinishRecords ==
    ASSUME RecordInv, Finish
    PROVE  RecordInv'
<1>1. UpTo(up', up.blocks, up.usage, up.present, "done")
  <2>1. IsUpstream(up)
    BY DEF RecordInv, Recorded
  <2> QED
    BY <2>1, UpsSet DEF Finish
<1>2. route' = route /\ scan' = scan
  BY DEF Finish
<1> QED
  BY <1>1, <1>2, ScanStays, GoesOut

\* The invariant is inductive.
LEMMA RecordInductive ==
    ASSUME RecordInv, [Next]_vars
    PROVE  RecordInv'
<1>1. CASE Begin
  BY <1>1, BeginRecords
<1>2. CASE \E kind \in KindsOf(egress), piece \in Pieces \cup {<< >>} : OpenBlock(kind, piece)
  BY <1>2, OpenBlockRecords
<1>3. CASE \E i \in DOMAIN up.blocks, piece \in Pieces : Say(i, piece)
  BY <1>3, SayRecords
<1>4. CASE \E i \in DOMAIN up.blocks : \E opaque \in Opaques(up.blocks[i].kind),
              late \in Pieces \cup {<< >>} : CloseBlock(i, opaque, late)
  BY <1>4, CloseBlockRecords
<1>5. CASE \E stop \in StopReasons, present \in BOOLEAN : Stop(stop, present)
  BY <1>5, StopRecords
<1>6. CASE LateUsage
  BY <1>6, LateUsageRecords
<1>7. CASE Fail
  BY <1>7, FailRecords
<1>8. CASE Overflow
  BY <1>8, OverflowRecords
<1>9. CASE Finish
  BY <1>9, FinishRecords
<1>10. CASE UNCHANGED vars
  BY <1>10 DEF vars, RecordInv, egress
<1> QED
  BY <1>1, <1>2, <1>3, <1>4, <1>5, <1>6, <1>7, <1>8, <1>9, <1>10 DEF Next

\* RecordShowsWhatIsSaid: whatever protocol the upstream speaks, however many
\* blocks of whatever kinds it opens, says and closes in whatever order, and
\* wherever its answer breaks off, the snapshot taken of the stream for the
\* record has the blocks said so far with their texts, names and hidden parts,
\* and the usage told so far.
THEOREM RecordsShowTheAnswer == Spec => []RecordShowsWhatIsSaid
<1>1. Init => RecordInv
  BY RecordInit
<1>2. RecordInv /\ [Next]_vars => RecordInv'
  BY RecordInductive
<1>3. RecordInv => RecordShowsWhatIsSaid
  BY RecordHolds
<1> QED
  BY <1>1, <1>2, <1>3, PTL DEF Spec

=============================================================================
