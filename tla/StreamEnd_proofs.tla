----------------------- MODULE StreamEnd_proofs -----------------------
(***************************************************************************)
(* The end of a translated stream (StreamTranslate), for every pair of     *)
(* protocols, every piece and every number of blocks: the client's own     *)
(* scan of what it received knows the stop reason and the usage with which *)
(* the upstream ended its answer.                                          *)
(*                                                                         *)
(* The proof follows a stream from the upstream's frames to the client's   *)
(* scan.  Frames of an open answer are read into starts, pieces and stops  *)
(* of blocks (Mild); the translator writes those into frames in which the  *)
(* client's reader hears no end (Unheard), and keeps in step with the      *)
(* reader about the items that have begun and the calls among them         *)
(* (Listens, the part of EndInv for an answer that is open).  The frames   *)
(* that stop an answer make the translator tell the end, or keep it until  *)
(* the stream is over (EndWaits, the part for an answer that is stopped).  *)
(* What every block says is not needed for it; it is the subject of        *)
(* StreamRecord_proofs, whose invariant this one extends because the items *)
(* that begin follow from the blocks that the reader carries.              *)
(***************************************************************************)
EXTENDS StreamRecord_proofs

-----------------------------------------------------------------------------
(* Folds over frames and events, cut in two.                               *)

\* A sequence, of whatever elements.
IsList(s) == \E S : s \in Seq(S)

\* A list joined to another: its length, and what stands where.
LEMMA ListsJoin ==
    ASSUME NEW a, IsList(a), NEW b, IsList(b)
    PROVE  /\ IsList(a \o b) /\ Len(a \o b) = Len(a) + Len(b)
           /\ Len(a) \in Nat /\ Len(b) \in Nat
           /\ \A i \in 1 .. Len(a) : (a \o b)[i] = a[i]
           /\ \A i \in 1 .. Len(b) : (a \o b)[Len(a) + i] = b[i]
<1>1. PICK S, T : a \in Seq(S) /\ b \in Seq(T)
  BY DEF IsList
<1>2. PICK U : U = S \cup T
  OBVIOUS
<1>3. a \in Seq(U) /\ b \in Seq(U)
  BY <1>1, <1>2
<1> QED  BY <1>3 DEF IsList

\* Joining lists is associative.
LEMMA ListsAssociate ==
    ASSUME NEW a, IsList(a), NEW b, IsList(b), NEW c, IsList(c)
    PROVE  (a \o b) \o c = a \o (b \o c)
<1>1. PICK S, T, R : a \in Seq(S) /\ b \in Seq(T) /\ c \in Seq(R)
  BY DEF IsList
<1>2. PICK U : U = S \cup T \cup R
  OBVIOUS
<1>3. a \in Seq(U) /\ b \in Seq(U) /\ c \in Seq(U)
  BY <1>1, <1>2
<1> QED  BY <1>3

\* Short tuples are lists.
LEMMA ListsAre ==
    ASSUME NEW a, NEW b, NEW c
    PROVE  IsList(<< >>) /\ IsList(<<a>>) /\ IsList(<<a, b>>) /\ IsList(<<a, b, c>>)
<1>1. << >> \in Seq({a}) /\ <<a>> \in Seq({a}) /\ <<a, b>> \in Seq({a, b}) /\ <<a, b, c>> \in Seq({a, b, c})
  OBVIOUS
<1> QED  BY <1>1 DEF IsList

\* The empty list joined to a list changes nothing.
LEMMA ListWithNothing ==
    ASSUME NEW a, IsList(a)
    PROVE  a \o << >> = a /\ << >> \o a = a
BY DEF IsList

\* Every fold over frames has such a function.
LEMMA FollowsExists ==
    ASSUME NEW p, NEW old, NEW frames, Len(frames) \in Nat
    PROVE  \E h : Follows(h, p, old, frames)
<1> DEFINE n == Len(frames)
           In(h, k) == /\ h = [i \in 0 .. k |-> h[i]] /\ h[0] = old
                       /\ \A i \in 1 .. k : h[i] = ScanFrame(p, h[i - 1], frames[i])
           T == {k \in Nat : \E h : In(h, k)}
<1>1. 0 \in T
  <2> DEFINE h == [i \in 0 .. 0 |-> old]
  <2>1. In(h, 0)
    OBVIOUS
  <2> QED  BY <2>1
<1>2. ASSUME NEW k \in Nat, k \in T PROVE k + 1 \in T
  <2>1. PICK h : In(h, k)
    BY <1>2
  <2>2. PICK v : v = ScanFrame(p, h[k], frames[k + 1])
    OBVIOUS
  <2> DEFINE g == [i \in 0 .. k + 1 |-> IF i = k + 1 THEN v ELSE h[i]]
  <2>3. g = [i \in 0 .. k + 1 |-> g[i]] /\ g[0] = old
    BY <2>1
  <2>4. ASSUME NEW i \in 1 .. k + 1 PROVE g[i] = ScanFrame(p, g[i - 1], frames[i])
    <3>1. CASE i = k + 1
      <4>1. g[i] = v /\ g[i - 1] = h[k]
        BY <3>1
      <4> HIDE DEF g
      <4> QED  BY <2>2, <3>1, <4>1
    <3>2. CASE i # k + 1
      <4>1. i \in 1 .. k /\ g[i] = h[i] /\ g[i - 1] = h[i - 1]
        BY <3>2
      <4> HIDE DEF g
      <4> QED  BY <2>1, <4>1
    <3> QED  BY <3>1, <3>2
  <2> HIDE DEF g
  <2>5. In(g, k + 1)
    BY <2>3, <2>4
  <2> HIDE DEF In
  <2> QED  BY <2>5
<1>3. n \in T
  <2> HIDE DEF T, n
  <2>1. Nat \subseteq T
    BY <1>1, <1>2, NatSetInduction
  <2> QED  BY <2>1 DEF n
<1> QED  BY <1>3 DEF Follows

\* The scan of frames may be cut anywhere.
LEMMA ScannedInTwo ==
    ASSUME NEW p, NEW s, NEW a, IsList(a), NEW b, IsList(b)
    PROVE  ScanFrames(p, s, a \o b) = ScanFrames(p, ScanFrames(p, s, a), b)
<1> DEFINE n == Len(a)
           m == Len(b)
<1>0. PICK c : c = a \o b
  OBVIOUS
<1>1. /\ n \in Nat /\ m \in Nat /\ Len(c) = n + m
      /\ \A i \in 1 .. n : c[i] = a[i]
      /\ \A i \in 1 .. m : c[n + i] = b[i]
  BY <1>0, ListsJoin
<1>2. PICK h : Follows(h, p, s, a)
  BY <1>1, FollowsExists
<1>3. PICK g : Follows(g, p, h[n], b)
  BY <1>1, FollowsExists
<1> DEFINE k == [i \in 0 .. n + m |-> IF i <= n THEN h[i] ELSE g[i - n]]
<1>4. Follows(k, p, s, c)
  <2>1. k = [i \in 0 .. n + m |-> k[i]] /\ k[0] = h[0] /\ h[0] = s
    BY <1>1, <1>2 DEF Follows
  <2>2. ASSUME NEW i \in 1 .. n + m PROVE k[i] = ScanFrame(p, k[i - 1], c[i])
    <3>1. CASE i <= n
      <4>1. k[i] = h[i] /\ k[i - 1] = h[i - 1] /\ c[i] = a[i] /\ i \in 1 .. n
        BY <1>1, <3>1
      <4> HIDE DEF k
      <4> QED  BY <1>2, <4>1 DEF Follows
    <3>2. CASE i > n
      <4>1. i - n \in 1 .. m /\ n + (i - n) = i
        BY <1>1, <3>2
      <4>2. k[i] = g[i - n] /\ c[i] = b[i - n]
        BY <1>1, <3>2, <4>1
      <4>3. k[i - 1] = g[(i - n) - 1]
        <5>1. CASE i - n = 1
          <6>1. k[i - 1] = h[n] /\ (i - n) - 1 = 0
            BY <1>1, <5>1
          <6> HIDE DEF k
          <6> QED  BY <1>3, <6>1 DEF Follows
        <5>2. CASE i - n # 1
          <6>1. i - 1 > n /\ (i - 1) - n = (i - n) - 1 /\ i - 1 \in 0 .. n + m
            BY <1>1, <3>2, <5>2
          <6> QED  BY <6>1
        <5> QED  BY <5>1, <5>2
      <4> HIDE DEF k
      <4> QED  BY <1>3, <4>1, <4>2, <4>3 DEF Follows
    <3> QED  BY <1>1, <3>1, <3>2
  <2> HIDE DEF k
  <2>3. Len(c) \in Nat /\ k = [i \in 0 .. Len(c) |-> k[i]]
    BY <1>1, <2>1
  <2>4. \A i \in 1 .. Len(c) : k[i] = ScanFrame(p, k[i - 1], c[i])
    BY <1>1, <2>2
  <2> HIDE DEF n, m
  <2> QED  BY <2>1, <2>3, <2>4 DEF Follows
<1>5. k[n + m] = g[m]
  <2>1. CASE m = 0
    <3>1. k[n + m] = h[n]
      BY <1>1, <2>1
    <3> HIDE DEF k
    <3> QED  BY <1>3, <2>1, <3>1 DEF Follows
  <2>2. CASE m # 0
    BY <1>1, <2>2
  <2> QED  BY <2>1, <2>2
<1>6. ScanFrames(p, s, a) = h[n] /\ ScanFrames(p, h[n], b) = g[m]
  BY <1>2, <1>3, FollowsTo
<1>7. ScanFrames(p, s, c) = k[n + m]
  <2> HIDE DEF k
  <2>1. ScanFrames(p, s, c) = k[Len(c)]
    BY <1>4, FollowsTo
  <2> QED  BY <1>1, <2>1
<1> QED  BY <1>0, <1>5, <1>6, <1>7

\* The fold over events has such a function too.
LEMMA ScansExists ==
    ASSUME NEW old, NEW read, Len(read.events) \in Nat
    PROVE  \E h : Scans(h, old, read)
<1> DEFINE n == Len(read.events)
           In(h, k) == /\ h = [i \in 0 .. k |-> h[i]] /\ h[0] = [old EXCEPT !.decode = read.state]
                       /\ \A i \in 1 .. k : h[i] = ApplyEvent(h[i - 1], read.events[i])
           T == {k \in Nat : \E h : In(h, k)}
<1>1. 0 \in T
  <2>1. PICK s : s = [old EXCEPT !.decode = read.state]
    OBVIOUS
  <2> DEFINE h == [i \in 0 .. 0 |-> s]
  <2>2. In(h, 0)
    BY <2>1
  <2> HIDE DEF In
  <2> QED  BY <2>2
<1>2. ASSUME NEW k \in Nat, k \in T PROVE k + 1 \in T
  <2>1. PICK h : In(h, k)
    BY <1>2
  <2>2. PICK v : v = ApplyEvent(h[k], read.events[k + 1])
    OBVIOUS
  <2> DEFINE g == [i \in 0 .. k + 1 |-> IF i = k + 1 THEN v ELSE h[i]]
  <2>3. g = [i \in 0 .. k + 1 |-> g[i]] /\ g[0] = h[0]
    OBVIOUS
  <2>4. ASSUME NEW i \in 1 .. k + 1 PROVE g[i] = ApplyEvent(g[i - 1], read.events[i])
    <3>1. CASE i = k + 1
      <4>1. g[i] = v /\ g[i - 1] = h[k]
        BY <3>1
      <4> HIDE DEF g
      <4> QED  BY <2>2, <3>1, <4>1
    <3>2. CASE i # k + 1
      <4>1. i \in 1 .. k /\ g[i] = h[i] /\ g[i - 1] = h[i - 1]
        BY <3>2
      <4> HIDE DEF g
      <4> QED  BY <2>1, <4>1
    <3> QED  BY <3>1, <3>2
  <2> HIDE DEF g
  <2>5. In(g, k + 1)
    BY <2>1, <2>3, <2>4
  <2> HIDE DEF In
  <2> QED  BY <2>5
<1>3. n \in T
  <2> HIDE DEF T, n
  <2>1. Nat \subseteq T
    BY <1>1, <1>2, NatSetInduction
  <2> QED  BY <2>1 DEF n
<1> QED  BY <1>3 DEF Scans
-----------------------------------------------------------------------------
(* What most events leave alone: the stop reason and the usage.            *)

\* An event of which no scan hears a stop reason or a usage.
Quiet(ev) ==
    \/ ev.type \in {"block_start", "block_delta", "block_stop", "message_stop", "error"}
    \/ ev = MessageStart(NoUsage, FALSE)
\* A list of quiet events.
AllQuiet(events) == IsList(events) /\ \A i \in 1 .. Len(events) : Quiet(events[i])

\* The scan r knows of the end what s does.
SameEnd(r, s) == IsScan(r) /\ r.stop = s.stop /\ r.usage = s.usage

\* An event that says nothing of an end leaves the scan's end alone.
LEMMA QuietStays ==
    ASSUME NEW s, IsScan(s), NEW ev, Quiet(ev)
    PROVE  SameEnd(ApplyEvent(s, ev), s) /\ ApplyEvent(s, ev).decode = s.decode
<1>1. CASE ev.type = "block_start"
  BY <1>1 DEF ApplyEvent, SameEnd, IsScan
<1>2. CASE ev.type = "block_delta"
  BY <1>2 DEF ApplyEvent, SameEnd, IsScan
<1>3. CASE ev.type \in {"block_stop", "message_stop", "error"}
  BY <1>3 DEF ApplyEvent, SameEnd
<1>4. CASE ev = MessageStart(NoUsage, FALSE)
  BY <1>4, QuietEvent DEF SameEnd
<1> QED  BY <1>1, <1>2, <1>3, <1>4 DEF Quiet

\* Setting the decoder of a scan leaves its end alone.
LEMMA DecoderSetAlone ==
    ASSUME NEW s, IsScan(s), NEW d
    PROVE  SameEnd([s EXCEPT !.decode = d], s) /\ [s EXCEPT !.decode = d].decode = d
BY DEF IsScan, SameEnd

\* A frame that is read with quiet events only leaves the scan's end alone.
LEMMA QuietlyRead ==
    ASSUME NEW s, IsScan(s), NEW read, AllQuiet(read.events)
    PROVE  SameEnd(ApplyEvents(s, read), s) /\ ApplyEvents(s, read).decode = read.state
<1> DEFINE n == Len(read.events)
           In(r) == SameEnd(r, s) /\ r.decode = read.state
<1>1. n \in Nat
  BY DEF AllQuiet, IsList
<1>2. PICK h : Scans(h, s, read)
  BY <1>1, ScansExists
<1> DEFINE T == {k \in Nat : k <= n => In(h[k])}
<1>3. 0 \in T
  <2>1. In(h[0])
    BY <1>2, DecoderSetAlone DEF Scans
  <2> HIDE DEF In
  <2> QED  BY <2>1
<1>4. ASSUME NEW k \in Nat, k \in T PROVE k + 1 \in T
  <2> SUFFICES ASSUME k + 1 <= n PROVE In(h[k + 1])
    OBVIOUS
  <2>1. k + 1 \in 1 .. n /\ (k + 1) - 1 = k /\ k <= n
    BY <1>1
  <2>2. In(h[k])
    BY <1>4, <2>1
  <2>3. h[k + 1] = ApplyEvent(h[k], read.events[k + 1]) /\ Quiet(read.events[k + 1])
    BY <1>2, <2>1 DEF Scans, AllQuiet
  <2> QED  BY <2>2, <2>3, QuietStays DEF SameEnd
<1>5. n \in T
  <2> HIDE DEF T, n
  <2>1. Nat \subseteq T
    BY <1>3, <1>4, NatSetInduction
  <2> QED  BY <1>1, <2>1
<1>6. ApplyEvents(s, read) = h[n]
  BY <1>2, ScansTo
<1> QED  BY <1>1, <1>5, <1>6

\* Quiet events before others are as if they were not there.
LEMMA QuietBefore ==
    ASSUME NEW s, IsScan(s), NEW q, AllQuiet(q), NEW rest, IsList(rest), NEW e
    PROVE  \E t : /\ SameEnd(t, s)
                  /\ ApplyEvents(s, Read(q \o rest, e)) = ApplyEvents(t, Read(rest, e))
<1> DEFINE k == Len(q)
           m == Len(rest)
           In(r) == SameEnd(r, s) /\ r.decode = e
<1>0. PICK read : read = Read(q \o rest, e)
  OBVIOUS
<1>1. /\ k \in Nat /\ m \in Nat /\ Len(read.events) = k + m /\ read.state = e
      /\ \A i \in 1 .. k : read.events[i] = q[i]
      /\ \A i \in 1 .. m : read.events[k + i] = rest[i]
  BY <1>0, ListsJoin DEF AllQuiet, Read
<1>2. PICK h : Scans(h, s, read)
  <2>1. Len(read.events) \in Nat
    <3> HIDE DEF k, m
    <3> QED  BY <1>1
  <2> QED  BY <2>1, ScansExists
<1> DEFINE T == {j \in Nat : j <= k => In(h[j])}
<1>3. 0 \in T
  <2>1. In(h[0])
    BY <1>1, <1>2, DecoderSetAlone DEF Scans
  <2> HIDE DEF In
  <2> QED  BY <2>1
<1>4. ASSUME NEW j \in Nat, j \in T PROVE j + 1 \in T
  <2> SUFFICES ASSUME j + 1 <= k PROVE In(h[j + 1])
    OBVIOUS
  <2>1. j + 1 \in 1 .. k /\ (j + 1) - 1 = j /\ j <= k /\ j + 1 \in 1 .. k + m
    BY <1>1
  <2>2. In(h[j])
    BY <1>4, <2>1
  <2>3. h[j + 1] = ApplyEvent(h[j], read.events[j + 1]) /\ Quiet(read.events[j + 1])
    BY <1>1, <1>2, <2>1 DEF Scans, AllQuiet
  <2> QED  BY <2>2, <2>3, QuietStays DEF SameEnd
<1>5. In(h[k])
  <2> HIDE DEF In
  <2>1. Nat \subseteq T
    <3> HIDE DEF T
    <3> QED  BY <1>3, <1>4, NatSetInduction
  <2>2. k \in T
    BY <1>1, <2>1
  <2> QED  BY <1>1, <2>2
<1>6. PICK t : t = h[k]
  OBVIOUS
<1>7. [t EXCEPT !.decode = e] = t
  BY <1>5, <1>6 DEF SameEnd, IsScan
<1> DEFINE g == [i \in 0 .. m |-> h[k + i]]
<1>8. Scans(g, t, Read(rest, e))
  <2>1. g = [i \in 0 .. m |-> g[i]] /\ g[0] = t
    BY <1>1, <1>6
  <2>2. ASSUME NEW i \in 1 .. m PROVE g[i] = ApplyEvent(g[i - 1], rest[i])
    <3>1. k + i \in 1 .. k + m /\ (k + i) - 1 = k + (i - 1) /\ i - 1 \in 0 .. m
      BY <1>1
    <3>2. h[k + i] = ApplyEvent(h[k + (i - 1)], rest[i])
      BY <1>1, <1>2, <3>1 DEF Scans
    <3>3. g[i] = h[k + i] /\ g[i - 1] = h[k + (i - 1)]
      BY <1>1, <3>1
    <3> QED  BY <3>2, <3>3
  <2>3. Read(rest, e).events = rest /\ Read(rest, e).state = e
    BY DEF Read
  <2> HIDE DEF g
  <2> QED  BY <1>1, <1>7, <2>1, <2>2, <2>3 DEF Scans
<1>9. ApplyEvents(s, read) = h[k + m]
  <2>1. ApplyEvents(s, read) = h[Len(read.events)]
    BY <1>2, ScansTo
  <2> QED  BY <1>1, <2>1
<1>10. ApplyEvents(t, Read(rest, e)) = g[m]
  <2>1. ApplyEvents(t, Read(rest, e)) = g[Len(Read(rest, e).events)]
    <3> HIDE DEF g
    <3> QED  BY <1>8, ScansTo
  <2> QED  BY <2>1 DEF Read
<1>11. g[m] = h[k + m]
  BY <1>1
<1> HIDE DEF g
<1> QED  BY <1>0, <1>5, <1>6, <1>9, <1>10, <1>11

\* The scan r knows the stop reason and the usage that s is told.
Tells2(r, s, stop, usage) ==
    /\ IsScan(r) /\ r.stop = IF stop = None THEN s.stop ELSE stop
    /\ r.usage = [input |-> KnownNumber(s.usage.input, usage.input),
                  output |-> KnownNumber(s.usage.output, usage.output)]

\* A message_delta tells the scan what it carries.
LEMMA DeltaTells ==
    ASSUME NEW s, IsScan(s), NEW stop, NEW usage, NEW present
    PROVE  /\ Tells2(ApplyEvent(s, MessageDelta(stop, usage, present)), s, stop, usage)
           /\ ApplyEvent(s, MessageDelta(stop, usage, present)).decode = s.decode
<1>1. ApplyEvent(s, MessageDelta(stop, usage, present)).stop = IF stop = None THEN s.stop ELSE stop
  BY DEF ApplyEvent, MessageDelta, IsScan
<1> QED  BY <1>1, UsageArrives DEF Tells2, Counts

\* Quiet events, then the end, if it is told.
LEMMA EndRead ==
    ASSUME NEW s, IsScan(s), NEW q, AllQuiet(q), NEW stop, NEW usage, NEW present, NEW e,
           NEW read, \/ read = Read(q \o <<MessageDelta(stop, usage, present)>>, e)
                     \/ read = Read(q \o <<MessageDelta(stop, usage, present), MessageStop>>, e)
    PROVE  Tells2(ApplyEvents(s, read), s, stop, usage) /\ ApplyEvents(s, read).decode = e
<1> DEFINE md == MessageDelta(stop, usage, present)
<1>1. IsList(<<md>>) /\ IsList(<<md, MessageStop>>)
  BY ListsAre
<1>2. ASSUME NEW t, SameEnd(t, s)
      PROVE  /\ Tells2(ApplyEvent([t EXCEPT !.decode = e], md), s, stop, usage)
             /\ ApplyEvent([t EXCEPT !.decode = e], md).decode = e
  <2>1. PICK u : u = [t EXCEPT !.decode = e]
    OBVIOUS
  <2>2. IsScan(u) /\ u.stop = s.stop /\ u.usage = s.usage /\ u.decode = e
    BY <1>2, <2>1, DecoderSetAlone DEF SameEnd
  <2>3. Tells2(ApplyEvent(u, md), u, stop, usage) /\ ApplyEvent(u, md).decode = u.decode
    BY <2>2, DeltaTells
  <2> QED  BY <2>1, <2>2, <2>3 DEF Tells2
<1>3. CASE read = Read(q \o <<md>>, e)
  <2>1. PICK t : SameEnd(t, s) /\ ApplyEvents(s, read) = ApplyEvents(t, Read(<<md>>, e))
    BY <1>1, <1>3, QuietBefore
  <2>2. ApplyEvents(t, Read(<<md>>, e)) = ApplyEvent([t EXCEPT !.decode = e], md)
    BY OneEvent
  <2> QED  BY <1>2, <2>1, <2>2
<1>4. CASE read = Read(q \o <<md, MessageStop>>, e)
  <2>1. PICK t : SameEnd(t, s) /\ ApplyEvents(s, read) = ApplyEvents(t, Read(<<md, MessageStop>>, e))
    BY <1>1, <1>4, QuietBefore
  <2>2. ApplyEvents(t, Read(<<md, MessageStop>>, e)) =
          ApplyEvent(ApplyEvent([t EXCEPT !.decode = e], md), MessageStop)
    BY TwoEvents
  <2>3. ApplyEvent(ApplyEvent([t EXCEPT !.decode = e], md), MessageStop) =
          ApplyEvent([t EXCEPT !.decode = e], md)
    BY QuietEvent
  <2> QED  BY <1>2, <2>1, <2>2, <2>3
<1> QED  BY <1>3, <1>4
-----------------------------------------------------------------------------
(* Sets of indices in order.                                               *)

\* s is the set S in ascending order.
Sorted(s, S) ==
    s \in [1 .. Cardinality(S) -> S] /\ \A i, j \in DOMAIN s : i < j => s[i] < s[j]

\* A finite set of naturals has a bound.
LEMMA BoundedFinite ==
    ASSUME NEW S, IsFiniteSet(S), S \subseteq Nat
    PROVE  \E b \in Nat : \A x \in S : x <= b
<1> DEFINE T == {n \in Nat : \A R \in SUBSET Nat :
                    IsFiniteSet(R) /\ Cardinality(R) = n => \E b \in Nat : \A x \in R : x <= b}
<1>1. 0 \in T
  <2> SUFFICES ASSUME NEW R \in SUBSET Nat, IsFiniteSet(R), Cardinality(R) = 0
               PROVE \E b \in Nat : \A x \in R : x <= b
    OBVIOUS
  <2>1. R = {}
    BY FS_EmptySet
  <2> QED  BY <2>1
<1>2. ASSUME NEW n \in Nat, n \in T PROVE n + 1 \in T
  <2> SUFFICES ASSUME NEW R \in SUBSET Nat, IsFiniteSet(R), Cardinality(R) = n + 1
               PROVE \E b \in Nat : \A x \in R : x <= b
    OBVIOUS
  <2>1. R # {}
    BY FS_EmptySet
  <2>2. PICK m \in R : TRUE
    BY <2>1
  <2>3. R \ {m} \in SUBSET Nat /\ IsFiniteSet(R \ {m}) /\ Cardinality(R \ {m}) = n
    <3>1. IsFiniteSet(R \ {m}) /\ Cardinality(R \ {m}) = Cardinality(R) - 1
      BY FS_RemoveElement
    <3> QED  BY <3>1
  <2>4. PICK b \in Nat : \A x \in R \ {m} : x <= b
    BY <1>2, <2>3
  <2>5. b + m \in Nat /\ \A x \in R : x <= b + m
    BY <2>4
  <2> QED  BY <2>5
<1>3. Cardinality(S) \in Nat
  BY FS_CardinalityType
<1>4. Cardinality(S) \in T
  <2> HIDE DEF T
  <2> QED  BY <1>1, <1>2, <1>3, NatSetInduction
<1> QED  BY <1>4

\* Every finite set of numbers can be put in ascending order.
LEMMA SortedExists ==
    ASSUME NEW S, IsFiniteSet(S), S \subseteq Nat
    PROVE  \E s : Sorted(s, S)
<1> DEFINE Fit(R, n) == IsFiniteSet(R) /\ Cardinality(R) = n
           T == {n \in Nat : \A R \in SUBSET Nat : Fit(R, n) => \E s : Sorted(s, R)}
<1>1. 0 \in T
  <2> SUFFICES ASSUME NEW R \in SUBSET Nat, Fit(R, 0) PROVE \E s : Sorted(s, R)
    OBVIOUS
  <2>1. R = {}
    BY FS_EmptySet
  <2> DEFINE s == [i \in 1 .. 0 |-> 0]
  <2>2. s \in [1 .. Cardinality(R) -> R] /\ \A i, j \in DOMAIN s : i < j => s[i] < s[j]
    BY <2>1
  <2> HIDE DEF s
  <2> QED  BY <2>2 DEF Sorted
<1>2. ASSUME NEW n \in Nat, n \in T PROVE n + 1 \in T
  <2> SUFFICES ASSUME NEW R \in SUBSET Nat, Fit(R, n + 1) PROVE \E s : Sorted(s, R)
    OBVIOUS
  <2>1. R # {}
    BY FS_EmptySet
  <2>2. PICK m \in R : \A x \in R : x <= m
    <3>1. \E b \in Nat : \A x \in R : x <= b
      BY BoundedFinite
    <3> QED  BY <2>1, <3>1, GreatestNatural
  <2>3. R \ {m} \in SUBSET Nat /\ Fit(R \ {m}, n)
    <3>1. IsFiniteSet(R \ {m}) /\ Cardinality(R \ {m}) = Cardinality(R) - 1
      BY FS_RemoveElement
    <3> QED  BY <3>1
  <2>4. PICK s : Sorted(s, R \ {m})
    BY <1>2, <2>3
  <2>5. s \in [1 .. n -> R \ {m}] /\ \A i, j \in 1 .. n : i < j => s[i] < s[j]
    BY <2>3, <2>4 DEF Sorted
  <2> DEFINE t == [i \in 1 .. n + 1 |-> IF i <= n THEN s[i] ELSE m]
  <2>6. t \in [1 .. n + 1 -> R]
    BY <2>5
  <2>7. ASSUME NEW i \in 1 .. n + 1, NEW j \in 1 .. n + 1, i < j PROVE t[i] < t[j]
    <3>1. i \in 1 .. n
      BY <2>7
    <3>2. t[i] = s[i] /\ s[i] \in R /\ s[i] # m /\ s[i] <= m
      <4>1. t[i] = s[i]
        BY <3>1
      <4>2. s[i] \in R \ {m}
        <5> HIDE DEF t
        <5> QED  BY <2>5, <3>1
      <4> HIDE DEF t
      <4> QED  BY <2>2, <4>1, <4>2
    <3>3. CASE j = n + 1
      <4>1. t[j] = m
        BY <3>3
      <4>2. s[i] \in Nat /\ m \in Nat
        <5> HIDE DEF t
        <5> QED  BY <3>2
      <4> HIDE DEF t
      <4> QED  BY <3>2, <4>1, <4>2
    <3>4. CASE j # n + 1
      <4>1. j \in 1 .. n
        BY <3>4
      <4>2. t[j] = s[j]
        BY <4>1
      <4> HIDE DEF t
      <4> QED  BY <2>5, <2>7, <3>1, <3>2, <4>1, <4>2
    <3> QED  BY <3>3, <3>4
  <2> HIDE DEF t
  <2> QED  BY <2>6, <2>7 DEF Sorted
<1>3. Cardinality(S) \in Nat
  BY FS_CardinalityType
<1>4. Cardinality(S) \in T
  <2> HIDE DEF T
  <2> QED  BY <1>1, <1>2, <1>3, NatSetInduction
<1> QED  BY <1>4

\* Ascending lists the elements of its set, each of them once.
LEMMA AscendingIsList ==
    ASSUME NEW S, IsFiniteSet(S), S \subseteq Nat
    PROVE  /\ Ascending(S) \in [1 .. Cardinality(S) -> S] /\ Cardinality(S) \in Nat
           /\ IsList(Ascending(S)) /\ Len(Ascending(S)) = Cardinality(S)
           /\ \A i \in 1 .. Len(Ascending(S)) : Ascending(S)[i] \in S
<1>1. Cardinality(S) \in Nat
  BY FS_CardinalityType
<1>2. Ascending(S) = CHOOSE s : Sorted(s, S)
  <2>1. Ascending(S) = CHOOSE s \in [1 .. Cardinality(S) -> S] :
                           \A i, j \in DOMAIN s : i < j => s[i] < s[j]
    BY DEF Ascending, InOrder
  <2> QED  BY <2>1 DEF Sorted
<1>3. Sorted(Ascending(S), S)
  BY <1>2, SortedExists
<1>4. Ascending(S) \in Seq(S) /\ Len(Ascending(S)) = Cardinality(S)
  BY <1>1, <1>3 DEF Sorted
<1> QED  BY <1>1, <1>3, <1>4 DEF Sorted, IsList

-----------------------------------------------------------------------------
(* The client of an OpenAI stream reads quietly what only says something.  *)

\* Quiet events one after the other.
LEMMA QuietJoins ==
    ASSUME NEW a, AllQuiet(a), NEW b, AllQuiet(b)
    PROVE  AllQuiet(a \o b)
<1>1. /\ IsList(a \o b) /\ Len(a \o b) = Len(a) + Len(b) /\ Len(a) \in Nat /\ Len(b) \in Nat
      /\ \A i \in 1 .. Len(a) : (a \o b)[i] = a[i]
      /\ \A i \in 1 .. Len(b) : (a \o b)[Len(a) + i] = b[i]
  BY ListsJoin DEF AllQuiet
<1>2. ASSUME NEW i \in 1 .. Len(a) + Len(b) PROVE Quiet((a \o b)[i])
  <2>1. CASE i <= Len(a)
    <3>1. i \in 1 .. Len(a)
      BY <1>1, <2>1
    <3> QED  BY <1>1, <3>1 DEF AllQuiet
  <2>2. CASE i > Len(a)
    <3>1. i - Len(a) \in 1 .. Len(b) /\ Len(a) + (i - Len(a)) = i
      BY <1>1, <2>2
    <3> QED  BY <1>1, <3>1 DEF AllQuiet
  <2> QED  BY <1>1, <2>1, <2>2
<1> QED  BY <1>1, <1>2 DEF AllQuiet

\* No event, one and two.
LEMMA FewQuiet ==
    ASSUME NEW a, NEW b
    PROVE  /\ AllQuiet(<< >>)
           /\ Quiet(a) => AllQuiet(<<a>>)
           /\ Quiet(a) /\ Quiet(b) => AllQuiet(<<a, b>>)
<1>1. IsList(<< >>) /\ IsList(<<a>>) /\ IsList(<<a, b>>)
  BY ListsAre
<1>2. /\ Len(<< >>) = 0 /\ Len(<<a>>) = 1 /\ Len(<<a, b>>) = 2
      /\ <<a>>[1] = a /\ <<a, b>>[1] = a /\ <<a, b>>[2] = b
  OBVIOUS
<1>3. AllQuiet(<< >>)
  BY <1>1, <1>2 DEF AllQuiet
<1>4. Quiet(a) => AllQuiet(<<a>>)
  <2>1. 1 .. 1 = {1}
    OBVIOUS
  <2> QED  BY <1>1, <1>2, <2>1, Zenon DEF AllQuiet
<1>5. Quiet(a) /\ Quiet(b) => AllQuiet(<<a, b>>)
  <2>1. 1 .. 2 = {1, 2}
    OBVIOUS
  <2> QED  BY <1>1, <1>2, <2>1, Zenon DEF AllQuiet
<1> QED  BY <1>3, <1>4, <1>5

\* Which events are quiet.
LEMMA QuietAre ==
    ASSUME NEW i, NEW x, NEW y
    PROVE  /\ Quiet(BlockStart(i, x, y)) /\ Quiet(BlockDelta(i, x, y)) /\ Quiet(BlockStop(i))
           /\ Quiet(MessageStart(NoUsage, FALSE)) /\ Quiet(MessageStop) /\ Quiet(ErrorEvent(x))
BY DEF Quiet, BlockStart, BlockDelta, BlockStop, MessageStop, ErrorEvent

\* The reader of an OpenAI stream by its parts.
ReaderOf(a, t, r, c) == [started |-> a, text |-> t, reasoning |-> r, tools |-> c]
Indices(S) == IsFiniteSet(S) /\ S \subseteq Nat
OpenAiClient(d) == \E a, t, r, c : d = ReaderOf(a, t, r, c) /\ Indices(DOMAIN c)

\* Setting the fields of an OpenAI reader leaves it one.
LEMMA ClientSet ==
    ASSUME NEW d, OpenAiClient(d), NEW x, NEW y
    PROVE  /\ Indices(DOMAIN d.tools)
           /\ OpenAiClient([d EXCEPT !.started = x])
           /\ OpenAiClient([d EXCEPT !.text = x]) /\ OpenAiClient([d EXCEPT !.reasoning = x])
           /\ Indices(DOMAIN x) => OpenAiClient([d EXCEPT !.tools = x])
           /\ OpenAiClient([d EXCEPT !.text = x, !.reasoning = y, !.tools = Empty])
<1>1. PICK a, t, r, c : d = ReaderOf(a, t, r, c) /\ Indices(DOMAIN c)
  BY DEF OpenAiClient
<1>2. d.tools = c
  BY <1>1 DEF ReaderOf
<1>3. /\ [d EXCEPT !.started = x] = ReaderOf(x, t, r, c)
      /\ [d EXCEPT !.text = x] = ReaderOf(a, x, r, c)
      /\ [d EXCEPT !.reasoning = x] = ReaderOf(a, t, x, c)
      /\ [d EXCEPT !.tools = x] = ReaderOf(a, t, r, x)
  BY <1>1 DEF ReaderOf
<1>4. [d EXCEPT !.text = x, !.reasoning = y, !.tools = Empty] = ReaderOf(a, x, y, Empty)
  <2>1. [d EXCEPT !.text = x, !.reasoning = y, !.tools = Empty] =
          [[[d EXCEPT !.text = x] EXCEPT !.reasoning = y] EXCEPT !.tools = Empty]
    OBVIOUS
  <2>2. [[d EXCEPT !.text = x] EXCEPT !.reasoning = y] = ReaderOf(a, x, y, c)
    <3>1. [ReaderOf(a, x, r, c) EXCEPT !.reasoning = y] = ReaderOf(a, x, y, c)
      BY DEF ReaderOf
    <3> QED  BY <1>3, <3>1
  <2>3. [ReaderOf(a, x, y, c) EXCEPT !.tools = Empty] = ReaderOf(a, x, y, Empty)
    BY DEF ReaderOf
  <2> QED  BY <2>1, <2>2, <2>3
<1>5. Indices(DOMAIN Empty)
  BY FS_EmptySet DEF Empty, Indices
<1> QED  BY <1>1, <1>2, <1>3, <1>4, <1>5 DEF OpenAiClient

\* What an OpenAI chunk is read into, with nothing said of an end.
QuietRead(r) == AllQuiet(r.events) /\ OpenAiClient(r.state)

\* What Read puts together.
LEMMA ReadIs ==
    ASSUME NEW events, NEW state
    PROVE  Read(events, state).events = events /\ Read(events, state).state = state
BY DEF Read

\* A piece of text is read quietly.
LEMMA TextQuiet ==
    ASSUME NEW r, QuietRead(r), NEW field \in {"text", "reasoning"}, NEW meta, NEW text
    PROVE  QuietRead(OpenAiText(r, field, meta, text))
<1>1. CASE text = << >>
  BY <1>1 DEF OpenAiText
<1>2. CASE text # << >>
  <2>1. PICK index, start :
          /\ start = << >> \/ start = <<BlockStart(index, meta, << >>)>>
          /\ OpenAiText(r, field, meta, text) =
               Read(r.events \o start \o <<BlockDelta(index, field, text)>>,
                    [r.state EXCEPT ![field] = [open |-> TRUE, index |-> index]])
    BY <1>2 DEF OpenAiText
  <2>2. AllQuiet(start) /\ AllQuiet(<<BlockDelta(index, field, text)>>)
    BY <2>1, FewQuiet, QuietAre
  <2>3. AllQuiet(r.events \o start)
    BY <2>2, QuietJoins DEF QuietRead
  <2>4. AllQuiet(r.events \o start \o <<BlockDelta(index, field, text)>>)
    BY <2>2, <2>3, QuietJoins
  <2>5. OpenAiClient([r.state EXCEPT ![field] = [open |-> TRUE, index |-> index]])
    <3>1. PICK d : d = r.state
      OBVIOUS
    <3>2. PICK v : v = [open |-> TRUE, index |-> index]
      OBVIOUS
    <3>3. OpenAiClient(d)
      BY <3>1 DEF QuietRead
    <3>4. OpenAiClient([d EXCEPT !.text = v]) /\ OpenAiClient([d EXCEPT !.reasoning = v])
      BY <3>3, ClientSet
    <3>5. field = "text" => [d EXCEPT ![field] = v] = [d EXCEPT !.text = v]
      OBVIOUS
    <3>6. field = "reasoning" => [d EXCEPT ![field] = v] = [d EXCEPT !.reasoning = v]
      OBVIOUS
    <3> QED  BY <3>1, <3>2, <3>4, <3>5, <3>6
  <2> QED  BY <2>1, <2>4, <2>5, ReadIs DEF QuietRead
<1> QED  BY <1>1, <1>2

\* A piece of a call is read quietly.
LEMMA CallQuiet ==
    ASSUME NEW r, QuietRead(r), NEW call, call.index \in Nat
    PROVE  QuietRead(ProcessToolCallDelta(r, call))
<1>1. PICK tools, start, args :
        /\ tools = r.state.tools \/ \E v : tools = Put(r.state.tools, call.index, v)
        /\ start = << >> \/ \E i, n : start = <<BlockStart(i, "tool", n)>>
        /\ args = << >> \/ \E i, n : args = <<BlockDelta(i, "args", n)>>
        /\ ProcessToolCallDelta(r, call) =
             Read(r.events \o start \o args, [r.state EXCEPT !.tools = tools])
  BY DEF ProcessToolCallDelta
<1>2. AllQuiet(start) /\ AllQuiet(args)
  BY <1>1, FewQuiet, QuietAre
<1>3. AllQuiet(r.events \o start)
  BY <1>2, QuietJoins DEF QuietRead
<1>4. AllQuiet(r.events \o start \o args)
  BY <1>2, <1>3, QuietJoins
<1>5. OpenAiClient(r.state) /\ Indices(DOMAIN r.state.tools)
  BY ClientSet DEF QuietRead
<1>6. Indices(DOMAIN tools)
  <2>1. CASE tools = r.state.tools
    BY <1>5, <2>1
  <2>2. CASE \E v : tools = Put(r.state.tools, call.index, v)
    <3>1. DOMAIN tools = DOMAIN r.state.tools \cup {call.index}
      BY <2>2 DEF Put
    <3>2. IsFiniteSet(DOMAIN r.state.tools \cup {call.index})
      BY <1>5, FS_AddElement DEF Indices
    <3> QED  BY <1>5, <3>1, <3>2 DEF Indices
  <2> QED  BY <1>1, <2>1, <2>2
<1>7. OpenAiClient([r.state EXCEPT !.tools = tools])
  BY <1>5, <1>6, ClientSet
<1> QED  BY <1>1, <1>4, <1>7, ReadIs DEF QuietRead

\* Closing the open blocks is quiet.
LEMMA CloseQuiet ==
    ASSUME NEW r, QuietRead(r)
    PROVE  QuietRead(CloseOpenBlocks(r))
<1> DEFINE s == r.state
           S == DOMAIN s.tools
           opened(b) == IF b.open THEN <<b.index>> ELSE << >>
           calls == EachOf(Ascending(S), LAMBDA t : s.tools[t])
           indices == opened(s.reasoning) \o opened(s.text) \o calls
           e == [s EXCEPT !.text.open = FALSE, !.reasoning.open = FALSE, !.tools = Empty]
<1>1. IsList(opened(s.reasoning)) /\ IsList(opened(s.text))
  <2>1. ASSUME NEW b PROVE IsList(opened(b))
    <3>1. IsList(<< >>) /\ IsList(<<b.index>>)
      BY ListsAre
    <3> QED  BY <3>1
  <2> QED  BY <2>1
<1>2. IsList(calls)
  <2>1. PICK a : a = Ascending(S)
    OBVIOUS
  <2>2. PICK n \in Nat : a \in [1 .. n -> S]
    BY <2>1, AscendingIsList, ClientSet DEF QuietRead, Indices
  <2>3. EachOf(a, LAMBDA t : s.tools[t]) = [i \in 1 .. n |-> s.tools[a[i]]]
    BY <2>2 DEF EachOf
  <2>4. [i \in 1 .. n |-> s.tools[a[i]]] \in Seq({s.tools[t] : t \in S})
    BY <2>2
  <2> QED  BY <2>1, <2>3, <2>4 DEF IsList
<1>3. IsList(indices)
  <2> HIDE DEF calls, opened
  <2>1. IsList(opened(s.reasoning) \o opened(s.text))
    BY <1>1, ListsJoin
  <2> QED  BY <1>2, <2>1, ListsJoin
<1>4. AllQuiet(EachOf(indices, BlockStop))
  <2>1. PICK x : x = indices
    OBVIOUS
  <2>2. PICK V : x \in Seq(V)
    BY <1>3, <2>1 DEF IsList
  <2>3. PICK f : f = EachOf(x, BlockStop)
    OBVIOUS
  <2>4. f = [i \in 1 .. Len(x) |-> BlockStop(x[i])] /\ Len(x) \in Nat
    BY <2>2, <2>3 DEF EachOf
  <2>5. f \in Seq({BlockStop(v) : v \in V}) /\ Len(f) = Len(x)
    BY <2>2, <2>4
  <2>6. \A i \in 1 .. Len(f) : Quiet(f[i])
    BY <2>4, <2>5, QuietAre
  <2> QED  BY <2>1, <2>3, <2>5, <2>6 DEF AllQuiet, IsList
<1>5. OpenAiClient(e)
  <2>1. PICK a, t, g, c : s = ReaderOf(a, t, g, c) /\ Indices(DOMAIN c)
    BY DEF QuietRead, OpenAiClient
  <2>2. e = [s EXCEPT !.text = [s.text EXCEPT !.open = FALSE],
                      !.reasoning = [s.reasoning EXCEPT !.open = FALSE], !.tools = Empty]
    BY <2>1 DEF ReaderOf
  <2> HIDE DEF e
  <2> QED  BY <2>2, ClientSet DEF QuietRead
<1>6. CloseOpenBlocks(r) = Read(r.events \o EachOf(indices, BlockStop), e)
  BY DEF CloseOpenBlocks
<1>7. AllQuiet(r.events \o EachOf(indices, BlockStop))
  <2> HIDE DEF indices
  <2> QED  BY <1>4, QuietJoins DEF QuietRead
<1> HIDE DEF e, indices
<1> QED  BY <1>5, <1>6, <1>7, ReadIs DEF QuietRead

\* Chunks as the writer makes them: with one call at most.
OneCallAtMost(f) == f.tools = << >> \/ \E i \in Nat : \E n, x : f.tools = <<ToolCall(i, n, x)>>

\* How a chunk is read: quietly, but for the message_delta and message_stop at its
\* end, which tell the finish reason and the usage of the chunk.
LEMMA ChunkReads ==
    ASSUME NEW d, OpenAiClient(d), NEW f, OneCallAtMost(f)
    PROVE  /\ (f.finish = None \/ ~ f.choices) /\ ~ f.present => QuietRead(ReadOpenAi(f, d))
           /\ ~ f.choices /\ f.present =>
                \E q, e : /\ AllQuiet(q) /\ OpenAiClient(e)
                          /\ ReadOpenAi(f, d) = Read(q \o <<MessageDelta(None, f.usage, TRUE)>>, e)
           /\ f.choices /\ f.finish # None =>
                \E q, e : /\ AllQuiet(q) /\ OpenAiClient(e)
                          /\ ReadOpenAi(f, d) =
                               Read(q \o <<MessageDelta(f.finish, f.usage, f.present), MessageStop>>, e)
<1> DEFINE begun == IF d.started THEN << >> ELSE <<MessageStart(NoUsage, FALSE)>>
           started == Read(begun, [d EXCEPT !.started = TRUE])
           said == OpenAiText(OpenAiText(started, "reasoning", "reasoning", f.reasoning),
                              "text", "text", f.content)
           pieces == FoldLeft(ProcessToolCallDelta, said, f.tools)
           closed == CloseOpenBlocks(pieces)
           usage == IF f.present THEN <<MessageDelta(None, f.usage, TRUE)>> ELSE << >>
<1>1. QuietRead(started)
  <2>1. AllQuiet(begun)
    BY FewQuiet, QuietAre
  <2>2. OpenAiClient([d EXCEPT !.started = TRUE])
    BY ClientSet
  <2> HIDE DEF begun
  <2> QED  BY <2>1, <2>2, ReadIs DEF QuietRead
<1>2. QuietRead(said)
  <2> HIDE DEF started
  <2>1. QuietRead(OpenAiText(started, "reasoning", "reasoning", f.reasoning))
    BY <1>1, TextQuiet
  <2> QED  BY <2>1, TextQuiet
<1>3. QuietRead(pieces)
  <2> HIDE DEF said
  <2>1. CASE f.tools = << >>
    BY <1>2, <2>1, NoCall
  <2>2. CASE \E i \in Nat : \E n, x : f.tools = <<ToolCall(i, n, x)>>
    <3>1. PICK i, n, x : i \in Nat /\ f.tools = <<ToolCall(i, n, x)>>
      BY <2>2
    <3>2. PICK call : call = ToolCall(i, n, x)
      OBVIOUS
    <3>3. call.index \in Nat
      BY <3>1, <3>2 DEF ToolCall
    <3>4. pieces = ProcessToolCallDelta(said, call)
      BY <3>1, <3>2, OneCall
    <3> QED  BY <1>2, <3>3, <3>4, CallQuiet
  <2> QED  BY <2>1, <2>2 DEF OneCallAtMost
<1>4. QuietRead(closed)
  <2> HIDE DEF pieces
  <2> QED  BY <1>3, CloseQuiet
<1>5. ReadOpenAi(f, d) =
        IF ~f.choices THEN Read(started.events \o usage, started.state)
        ELSE IF f.finish = None THEN Read(pieces.events \o usage, pieces.state)
        ELSE Read(closed.events \o <<MessageDelta(f.finish, f.usage, f.present), MessageStop>>,
                  closed.state)
  BY DEF ReadOpenAi
<1>6. usage = IF f.present THEN <<MessageDelta(None, f.usage, TRUE)>> ELSE << >>
  OBVIOUS
<1> HIDE DEF begun, started, said, pieces, closed, usage
<1>7. started.events \o << >> = started.events /\ pieces.events \o << >> = pieces.events
  BY <1>1, <1>3, ListWithNothing DEF QuietRead, AllQuiet
<1>8. CASE (f.finish = None \/ ~ f.choices) /\ ~ f.present
  BY <1>1, <1>3, <1>5, <1>6, <1>7, <1>8, ReadIs DEF QuietRead
<1>9. CASE ~ f.choices /\ f.present
  BY <1>1, <1>5, <1>6, <1>9 DEF QuietRead
<1>10. CASE f.choices /\ f.finish # None
  BY <1>4, <1>5, <1>10 DEF QuietRead
<1> QED  BY <1>8, <1>9, <1>10

-----------------------------------------------------------------------------
(* The client of a Responses stream.                                       *)

\* The reader of a Responses stream that knows the items I, a call among them or not.
FirstParts == {<<k, 0>> : k \in Nat}
ResponsesClient(d, I, w) ==
    \E a, i, p, n, v : /\ d = StateOf(a, i, p, n, v)
                       /\ DOMAIN i \subseteq I /\ DOMAIN p \subseteq FirstParts
                       /\ v \in BOOLEAN /\ (v <=> w)
\* A frame that such a reader reads quietly.
QuietStep(r, I, w) == AllQuiet(r.events) /\ ResponsesClient(r.state, I, w)

\* The updates of the reader's state, by its parts.
LEMMA FieldsSet ==
    ASSUME NEW a, NEW i, NEW p, NEW n, NEW v, NEW x, NEW d, d = StateOf(a, i, p, n, v)
    PROVE  /\ d.started = a /\ d.items = i /\ d.parts = p /\ d.next = n /\ d.sawFunctionCall = v
           /\ [d EXCEPT !.started = x] = StateOf(x, i, p, n, v)
           /\ [d EXCEPT !.items = x] = StateOf(a, x, p, n, v)
           /\ [d EXCEPT !.parts = x] = StateOf(a, i, x, n, v)
  BY DEF StateOf

\* No event, one event, and no change of the state.
LEMMA StepAlone ==
    ASSUME NEW d, NEW I, NEW w, ResponsesClient(d, I, w), NEW i, NEW x, NEW y
    PROVE  /\ QuietStep(Read(<< >>, d), I, w)
           /\ QuietStep(Read(<<MessageStart(NoUsage, FALSE)>>, d), I, w)
           /\ QuietStep(Read(<<BlockStart(i, x, y)>>, d), I, w)
           /\ QuietStep(Read(<<BlockDelta(i, x, y)>>, d), I, w)
           /\ QuietStep(Read(<<BlockDelta(i, x, y), BlockStop(i)>>, d), I, w)
           /\ QuietStep(Read(<<BlockStop(i)>>, d), I, w)
           /\ QuietStep(Read(<<ErrorEvent(x)>>, d), I, w)
<1>1. Quiet(BlockStart(i, x, y)) /\ Quiet(BlockDelta(i, x, y)) /\ Quiet(BlockStop(i)) /\ Quiet(ErrorEvent(x))
      /\ Quiet(MessageStart(NoUsage, FALSE))
  BY QuietAre
<1>2. /\ AllQuiet(<< >>) /\ AllQuiet(<<MessageStart(NoUsage, FALSE)>>)
      /\ AllQuiet(<<BlockStart(i, x, y)>>) /\ AllQuiet(<<BlockDelta(i, x, y)>>)
      /\ AllQuiet(<<BlockDelta(i, x, y), BlockStop(i)>>)
      /\ AllQuiet(<<BlockStop(i)>>) /\ AllQuiet(<<ErrorEvent(x)>>)
  BY <1>1, FewQuiet
<1> QED  BY <1>2, ReadIs DEF QuietStep

\* response.created is read quietly.
LEMMA CreatedQuiet ==
    ASSUME NEW d, NEW I, NEW w, ResponsesClient(d, I, w)
    PROVE  QuietStep(ReadResponses(Created, d), I, w)
<1>1. PICK a, i, p, n, v : /\ d = StateOf(a, i, p, n, v)
                           /\ DOMAIN i \subseteq I /\ DOMAIN p \subseteq FirstParts
                           /\ v \in BOOLEAN /\ (v <=> w)
  BY DEF ResponsesClient
<1>2. PICK e : e = [d EXCEPT !.started = TRUE]
  OBVIOUS
<1>3. e = StateOf(TRUE, i, p, n, v)
  BY <1>1, <1>2 DEF StateOf
<1>4. ResponsesClient(e, I, w)
  BY <1>1, <1>3 DEF ResponsesClient
<1>5. ReadResponses(Created, d) = Read(IF d.started THEN << >> ELSE <<MessageStart(NoUsage, FALSE)>>, e)
  BY <1>2 DEF ReadResponses, Created
<1>6. QuietStep(Read(<< >>, e), I, w) /\ QuietStep(Read(<<MessageStart(NoUsage, FALSE)>>, e), I, w)
  BY <1>4, StepAlone
<1> QED  BY <1>5, <1>6

\* An item that is added is read quietly, and the reader has seen a call then if it is one.
LEMMA ItemAddedQuiet ==
    ASSUME NEW d, NEW I, NEW w \in BOOLEAN, ResponsesClient(d, I, w), NEW j, NEW kind, NEW name,
           j \in I /\ kind = "tool" => w
    PROVE  QuietStep(ReadResponses(ItemAdded(j, kind, name), d), I \cup {j}, w \/ kind = "tool")
<1>1. PICK a, i, p, n, v : /\ d = StateOf(a, i, p, n, v)
                           /\ DOMAIN i \subseteq I /\ DOMAIN p \subseteq FirstParts
                           /\ v \in BOOLEAN /\ (v <=> w)
  BY DEF ResponsesClient
<1>2. d.items = i /\ d.next = n /\ d.sawFunctionCall = v
  BY <1>1 DEF StateOf
<1>3. PICK f : f = ItemAdded(j, kind, name)
  OBVIOUS
<1>4. f.event = "item_added" /\ f.index = j /\ f.kind = kind /\ f.name = name
  BY <1>3 DEF ItemAdded
<1>5. ReadResponses(f, d) = StreamItemAdded(f, d)
  BY <1>4 DEF ReadResponses
<1>6. CASE j \in DOMAIN i
  <2>1. StreamItemAdded(f, d) = Read(<< >>, d)
    BY <1>2, <1>4, <1>6 DEF StreamItemAdded
  <2>2. (v <=> (w \/ kind = "tool")) /\ DOMAIN i \subseteq I \cup {j}
    BY <1>1, <1>6
  <2>3. ResponsesClient(d, I \cup {j}, w \/ kind = "tool")
    BY <1>1, <2>2 DEF ResponsesClient
  <2> QED  BY <1>3, <1>5, <2>1, <2>3, StepAlone
<1>7. CASE j \notin DOMAIN i
  <2>1. PICK x, y, z : /\ x = Put(d.items, j, StreamItem(kind, d.next))
                       /\ z = (d.sawFunctionCall \/ kind = "tool")
                       /\ y = IF kind \in {"tool", "thinking"} THEN d.next + 1 ELSE d.next
    OBVIOUS
  <2>2. PICK e : e = [d EXCEPT !.items = x, !.next = y, !.sawFunctionCall = z]
    OBVIOUS
  <2>3. StreamItemAdded(f, d) =
          Read(IF kind \in {"tool", "thinking"} THEN <<BlockStart(d.next, kind, name)>> ELSE << >>, e)
    <3>1. /\ [d EXCEPT !.items = Put(@, f.index, StreamItem(f.kind, d.next)),
                       !.next = IF f.kind \in {"tool", "thinking"} THEN @ + 1 ELSE @,
                       !.sawFunctionCall = @ \/ f.kind = "tool"] = e
      BY <1>1, <1>4, <2>1, <2>2 DEF StateOf
    <3> QED  BY <1>2, <1>4, <1>7, <3>1 DEF StreamItemAdded
  <2>4. e = StateOf(a, x, p, y, z)
    <3>1. PICK e1 : e1 = [d EXCEPT !.items = x]
      OBVIOUS
    <3>2. PICK e2 : e2 = [e1 EXCEPT !.next = y]
      OBVIOUS
    <3>3. e1 = StateOf(a, x, p, n, v)
      BY <1>1, <3>1 DEF StateOf
    <3>4. e2 = StateOf(a, x, p, y, v)
      BY <3>2, <3>3 DEF StateOf
    <3>5. [e2 EXCEPT !.sawFunctionCall = z] = StateOf(a, x, p, y, z)
      BY <3>4 DEF StateOf
    <3>6. [d EXCEPT !.items = x, !.next = y, !.sawFunctionCall = z] =
            [[[d EXCEPT !.items = x] EXCEPT !.next = y] EXCEPT !.sawFunctionCall = z]
      OBVIOUS
    <3> QED  BY <2>2, <3>1, <3>2, <3>5, <3>6
  <2>5. DOMAIN x \subseteq I \cup {j} /\ z \in BOOLEAN /\ (z <=> (w \/ kind = "tool"))
    BY <1>1, <1>2, <2>1 DEF Put
  <2>6. ResponsesClient(e, I \cup {j}, w \/ kind = "tool")
    BY <1>1, <2>4, <2>5 DEF ResponsesClient
  <2>7. /\ QuietStep(Read(<< >>, e), I \cup {j}, w \/ kind = "tool")
        /\ QuietStep(Read(<<BlockStart(d.next, kind, name)>>, e), I \cup {j}, w \/ kind = "tool")
    BY <2>6, StepAlone
  <2> QED  BY <1>3, <1>5, <2>3, <2>7
<1> QED  BY <1>6, <1>7

\* The parts of the state of such a client.
LEMMA ClientHas ==
    ASSUME NEW d, NEW I, NEW w, ResponsesClient(d, I, w)
    PROVE  DOMAIN d.items \subseteq I /\ DOMAIN d.parts \subseteq FirstParts
  BY DEF ResponsesClient, StateOf

\* The state of such a client with other items, and with other parts.
LEMMA PartsOfClient ==
    ASSUME NEW d, NEW I, NEW w, ResponsesClient(d, I, w), NEW x, NEW y
    PROVE  /\ DOMAIN x \subseteq I => ResponsesClient([d EXCEPT !.items = x], I, w)
           /\ DOMAIN x \subseteq FirstParts =>
                 /\ ResponsesClient([d EXCEPT !.parts = x], I, w)
                 /\ ResponsesClient([[d EXCEPT !.parts = x] EXCEPT !.next = y], I, w)
<1>1. PICK a, i, p, n, v : /\ d = StateOf(a, i, p, n, v)
                           /\ DOMAIN i \subseteq I /\ DOMAIN p \subseteq FirstParts
                           /\ v \in BOOLEAN /\ (v <=> w)
  BY DEF ResponsesClient
<1>3. PICK e, f : e = [d EXCEPT !.items = x] /\ f = [d EXCEPT !.parts = x]
  OBVIOUS
<1>4. PICK g : g = [f EXCEPT !.next = y]
  OBVIOUS
<1>5. e = StateOf(a, x, p, n, v) /\ f = StateOf(a, i, x, n, v)
  BY <1>1, <1>3 DEF StateOf
<1>6. g = StateOf(a, i, x, y, v)
  BY <1>4, <1>5 DEF StateOf
<1>7. DOMAIN x \subseteq I => ResponsesClient(e, I, w)
  BY <1>1, <1>5 DEF ResponsesClient
<1>8. DOMAIN x \subseteq FirstParts => ResponsesClient(f, I, w) /\ ResponsesClient(g, I, w)
  BY <1>1, <1>5, <1>6 DEF ResponsesClient
<1> QED  BY <1>3, <1>4, <1>7, <1>8

\* The frames of parts.
LEMMA PartAddedQuiet ==
    ASSUME NEW d, NEW I, NEW w, ResponsesClient(d, I, w), NEW j \in Nat
    PROVE  QuietStep(ReadResponses(PartAdded(j, 0, "text"), d), I, w)
<1>1. PICK f : f = PartAdded(j, 0, "text")
  OBVIOUS
<1>2. f.event = "part_added" /\ f.index = j /\ f.part = 0 /\ f.kind = "text"
  BY <1>1 DEF PartAdded
<1>3. ReadResponses(f, d) = StreamPartAdded(f, d)
  BY <1>2 DEF ReadResponses
<1>4. PICK x : x = Put(d.parts, <<j, 0>>, d.next)
  OBVIOUS
<1>5. DOMAIN x \subseteq FirstParts
  <2>1. DOMAIN x = DOMAIN d.parts \cup {<<j, 0>>}
    BY <1>4 DEF Put
  <2>2. <<j, 0>> \in FirstParts
    BY DEF FirstParts
  <2> QED  BY <2>1, <2>2, ClientHas
<1>6. PICK e : e = [[d EXCEPT !.parts = x] EXCEPT !.next = d.next + 1]
  OBVIOUS
<1>7. ResponsesClient(e, I, w)
  BY <1>5, <1>6, PartsOfClient
<1>8. StreamPartAdded(f, d) \in {Read(<< >>, d), Read(<<BlockStart(d.next, "text", << >>)>>, e)}
  <2>1. [d EXCEPT !.parts = Put(@, <<f.index, f.part>>, d.next), !.next = @ + 1] = e
    <3>1. PICK a, i, p, n, v : d = StateOf(a, i, p, n, v)
      BY DEF ResponsesClient
    <3> QED  BY <1>2, <1>4, <1>6, <3>1 DEF StateOf
  <2> QED  BY <1>2, <2>1 DEF StreamPartAdded
<1> QED  BY <1>1, <1>3, <1>7, <1>8, StepAlone

\* A part that is done is read quietly.
LEMMA PartDoneQuiet ==
    ASSUME NEW d, NEW I, NEW w, ResponsesClient(d, I, w), NEW j, NEW text
    PROVE  QuietStep(ReadResponses(PartDone(j, 0, text), d), I, w)
<1>1. PICK f : f = PartDone(j, 0, text)
  OBVIOUS
<1>2. f.event = "part_done" /\ f.index = j /\ f.part = 0
  BY <1>1 DEF PartDone
<1>3. ReadResponses(f, d) = StreamPartDone(f, d)
  BY <1>2 DEF ReadResponses
<1>4. PICK e : e = [d EXCEPT !.parts = Drop(@, <<j, 0>>)]
  OBVIOUS
<1>5. ResponsesClient(e, I, w)
  <2>1. PICK x : x = Drop(d.parts, <<j, 0>>)
    OBVIOUS
  <2>2. DOMAIN x \subseteq FirstParts
    BY <2>1, ClientHas DEF Drop
  <2>3. e = [d EXCEPT !.parts = x]
    <3>1. PICK a, i, p, n, v : d = StateOf(a, i, p, n, v)
      BY DEF ResponsesClient
    <3> QED  BY <1>4, <2>1, <3>1 DEF StateOf
  <2> QED  BY <2>2, <2>3, PartsOfClient
<1>6. StreamPartDone(f, d) \in {Read(<< >>, d), Read(<<BlockStop(d.parts[<<j, 0>>])>>, e)}
  BY <1>2, <1>4 DEF StreamPartDone
<1> QED  BY <1>1, <1>3, <1>5, <1>6, StepAlone

\* A piece of an item.
LEMMA ItemDeltaQuiet ==
    ASSUME NEW d, NEW I, NEW w, ResponsesClient(d, I, w), NEW j, NEW kind, NEW text
    PROVE  QuietStep(ReadResponses(ItemDelta(j, 0, kind, text), d), I, w)
<1>1. PICK f : f = ItemDelta(j, 0, kind, text)
  OBVIOUS
<1>2. f.event = "delta" /\ f.index = j /\ f.part = 0 /\ f.kind = kind /\ f.text = text
  BY <1>1 DEF ItemDelta
<1>3. ReadResponses(f, d) = StreamDelta(f, d)
  BY <1>2 DEF ReadResponses
<1>4. PICK e : e = [d EXCEPT !.items[f.index].argsSeen = @ \/ f.kind = "args"]
  OBVIOUS
<1>5. ResponsesClient(e, I, w)
  <2>1. PICK it, v, x : /\ it = d.items[j] /\ v = [it EXCEPT !.argsSeen = @ \/ kind = "args"]
                        /\ x = [d.items EXCEPT ![j] = v]
    OBVIOUS
  <2>2. DOMAIN x \subseteq I
    BY <2>1, ClientHas
  <2>3. e = [d EXCEPT !.items = x]
    <3>1. [d EXCEPT !.items[j].argsSeen = @ \/ kind = "args"] = [d EXCEPT !.items = x]
      BY <2>1
    <3> QED  BY <1>2, <1>4, <3>1
  <2> QED  BY <2>2, <2>3, PartsOfClient
<1>6. StreamDelta(f, d) \in {Read(<< >>, d), Read(<<BlockDelta(d.parts[<<j, 0>>], "text", text)>>, d),
                            Read(<<BlockDelta(d.items[j].index, kind, text)>>, e)}
  BY <1>2, <1>4 DEF StreamDelta
<1> QED  BY <1>1, <1>3, <1>5, <1>6, StepAlone

\* The parts of an item that are open, in order: none or one.
LEMMA StaleIsList ==
    ASSUME NEW i \in Nat, NEW S, S \subseteq {<<i, 0>>}
    PROVE  IsList(InOrder(S, LAMBDA a, b : a[2] < b[2]))
<1> DEFINE n == Cardinality(S)
           In(s) == s \in [1 .. n -> S] /\ \A a, b \in DOMAIN s : a < b => s[a][2] < s[b][2]
           sorted == InOrder(S, LAMBDA a, b : a[2] < b[2])
<1>1. \E s : In(s) /\ n \in Nat
  <2>1. CASE S = {}
    <3>1. n = 0
      BY <2>1, FS_EmptySet
    <3>2. In([a \in 1 .. 0 |-> a])
      BY <2>1, <3>1
    <3> HIDE DEF In, n
    <3> QED  BY <3>1, <3>2
  <2>2. CASE S = {<<i, 0>>}
    <3>1. n = 1
      BY <2>2, FS_Singleton
    <3>2. In([a \in 1 .. 1 |-> <<i, 0>>])
      <4>1. PICK v : v = <<i, 0>>
        OBVIOUS
      <4>2. [a \in 1 .. 1 |-> v] \in [1 .. 1 -> {v}]
        OBVIOUS
      <4> QED  BY <2>2, <3>1, <4>1, <4>2
    <3> HIDE DEF In, n
    <3> QED  BY <3>1, <3>2
  <2> QED  BY <2>1, <2>2
<1>2. sorted = CHOOSE s : In(s)
  BY DEF InOrder
<1>3. In(CHOOSE s : In(s))
  <2> HIDE DEF In, n
  <2> QED  BY <1>1
<1>4. sorted \in [1 .. n -> S] /\ n \in Nat
  <2> HIDE DEF n, sorted
  <2> QED  BY <1>1, <1>2, <1>3
<1>5. sorted \in Seq(S)
  <2> HIDE DEF n, sorted
  <2> QED  BY <1>4
<1> QED  BY <1>5 DEF IsList

\* Blocks that stop, one after the other.
LEMMA StopsAreQuiet ==
    ASSUME NEW x, IsList(x), NEW at
    PROVE  AllQuiet([i \in DOMAIN x |-> BlockStop(at[x[i]])])
<1>1. PICK V : x \in Seq(V)
  BY DEF IsList
<1>2. PICK f : f = [i \in DOMAIN x |-> BlockStop(at[x[i]])]
  OBVIOUS
<1>3. f \in Seq({BlockStop(at[v]) : v \in V}) /\ Len(f) = Len(x) /\ Len(x) \in Nat
  BY <1>1, <1>2
<1>4. \A i \in 1 .. Len(f) : Quiet(f[i])
  <2> SUFFICES ASSUME NEW i \in 1 .. Len(f) PROVE Quiet(f[i])
    OBVIOUS
  <2>1. f[i] = BlockStop(at[x[i]])
    BY <1>1, <1>2, <1>3
  <2> QED  BY <2>1, QuietAre
<1> QED  BY <1>2, <1>3, <1>4 DEF AllQuiet, IsList

\* An item that is done.
LEMMA ItemDoneQuiet ==
    ASSUME NEW d, NEW I, NEW w, ResponsesClient(d, I, w), NEW j \in Nat, NEW item
    PROVE  QuietStep(ReadResponses(ItemDone(j, item), d), I, w)
<1>1. PICK f : f = ItemDone(j, item)
  OBVIOUS
<1>2. f.event = "item_done" /\ f.index = j /\ f.item = item
  BY <1>1 DEF ItemDone
<1>3. ReadResponses(f, d) = StreamItemDone(f, d)
  BY <1>2 DEF ReadResponses
<1> DEFINE stale == {k \in DOMAIN d.parts : k[1] = j}
           parts == [k \in DOMAIN d.parts \ stale |-> d.parts[k]]
           sorted == InOrder(stale, LAMBDA a, b : a[2] < b[2])
           stops == EachOf(sorted, LAMBDA k : BlockStop(d.parts[k]))
<1>4. PICK it, g : it = d.items[j] /\ g = [d EXCEPT !.items = Drop(@, j)]
  OBVIOUS
<1>5. PICK e : e = [g EXCEPT !.parts = [k \in DOMAIN @ \ stale |-> @[k]]]
  OBVIOUS
<1>6. ResponsesClient(g, I, w) /\ g.parts = d.parts
  <2>1. PICK x : x = Drop(d.items, j)
    OBVIOUS
  <2>2. DOMAIN x \subseteq I
    BY <2>1, ClientHas DEF Drop
  <2>3. g = [d EXCEPT !.items = x] /\ g.parts = d.parts
    <3>1. PICK a, i, p, n, v : d = StateOf(a, i, p, n, v)
      BY DEF ResponsesClient
    <3> QED  BY <1>4, <2>1, <3>1 DEF StateOf
  <2> QED  BY <2>2, <2>3, PartsOfClient
<1>7. ResponsesClient(e, I, w)
  <2>1. DOMAIN parts \subseteq FirstParts
    BY ClientHas
  <2>2. e = [g EXCEPT !.parts = parts]
    <3>1. PICK a, i, p, n, v : g = StateOf(a, i, p, n, v)
      BY <1>6 DEF ResponsesClient
    <3> QED  BY <1>5, <1>6, <3>1 DEF StateOf
  <2> HIDE DEF parts
  <2> QED  BY <1>6, <2>1, <2>2, PartsOfClient
<1>8. AllQuiet(stops)
  <2>1. stale \subseteq {<<j, 0>>}
    BY ClientHas DEF FirstParts
  <2>2. IsList(sorted)
    <3> HIDE DEF stale
    <3> QED  BY <2>1, StaleIsList
  <2>3. PICK at : at = d.parts
    OBVIOUS
  <2>4. stops = [k \in DOMAIN sorted |-> BlockStop(at[sorted[k]])]
    BY <2>3 DEF EachOf
  <2> HIDE DEF sorted, stops
  <2>5. AllQuiet([k \in DOMAIN sorted |-> BlockStop(at[sorted[k]])])
    BY <2>2, StopsAreQuiet
  <2> QED  BY <2>4, <2>5
<1>9. QuietStep(Read(stops, e), I, w)
  <2> HIDE DEF stops
  <2> QED  BY <1>7, <1>8, ReadIs DEF QuietStep
<1>10. ASSUME NEW kind, NEW text
       PROVE  QuietStep(Read((IF text = << >> THEN << >> ELSE <<BlockDelta(it.index, kind, text)>>)
                               \o <<BlockStop(it.index)>>, g), I, w)
  <2>1. QuietStep(Read(LateEvents(it.index, kind, text), g), I, w)
    BY <1>6, StepAlone DEF LateEvents
  <2> QED  BY <2>1, LateEventsAre
<1> DEFINE late(kind, text) == IF text = << >> THEN << >> ELSE <<BlockDelta(it.index, kind, text)>>
<1>11. StreamItemDone(f, d) \in
         {Read(<< >>, d), Read(<< >>, g), Read(stops, e),
          Read(late("args", MissingArguments(it, item)) \o <<BlockStop(it.index)>>, g),
          Read(late("opaque", item.encrypted) \o <<BlockStop(it.index)>>, g)}
  BY <1>2, <1>4, <1>5 DEF StreamItemDone
<1>12. QuietStep(Read(<< >>, d), I, w) /\ QuietStep(Read(<< >>, g), I, w)
  BY <1>6, StepAlone
<1> HIDE DEF stops
<1> QED  BY <1>1, <1>3, <1>9, <1>10, <1>11, <1>12

\* Frames that repeat what was said, and errors.
LEMMA OthersQuiet ==
    ASSUME NEW d, NEW I, NEW w, ResponsesClient(d, I, w), NEW j, NEW kind, NEW text
    PROVE  /\ QuietStep(ReadResponses(DeltaDone(j, kind, text), d), I, w)
           /\ QuietStep(ReadResponses(BareError(text), d), I, w)
           /\ QuietStep(ReadResponses(Failed(text), d), I, w)
<1>1. ReadResponses(DeltaDone(j, kind, text), d) = Read(<< >>, d)
  BY ResponsesQuiet
<1>2. ReadResponses(Failed(text), d) = Read(<<ErrorEvent(text)>>, d)
  BY ResponsesTrouble
<1>3. ReadResponses(BareError(text), d) = Read(<<ErrorEvent(text)>>, d)
  BY DEF ReadResponses, BareError
<1> QED  BY <1>1, <1>2, <1>3, StepAlone

\* The last frame: a complete answer that calls tools stops for them.
LEMMA FinishedReads ==
    ASSUME NEW d, NEW I, NEW w, ResponsesClient(d, I, w), NEW event \in {"completed", "incomplete"},
           NEW output, NEW usage, NEW present
    PROVE  ReadResponses(Finished(event, output, usage, present), d) =
             Read(<<MessageDelta(IF event = "incomplete" THEN "max_tokens"
                                 ELSE IF w THEN "tool_use" ELSE "end_turn", usage, present),
                    MessageStop>>, d)
<1>1. PICK f : f = Finished(event, output, usage, present)
  OBVIOUS
<1>2. f.event = event /\ f.usage = usage /\ f.present = present
  BY <1>1 DEF Finished
<1>3. d.sawFunctionCall \in BOOLEAN /\ (d.sawFunctionCall <=> w)
  BY DEF ResponsesClient, StateOf
<1>4. CASE event = "incomplete"
  BY <1>1, <1>2, <1>4 DEF ReadResponses, StreamFinished
<1>5. CASE event = "completed"
  BY <1>1, <1>2, <1>3, <1>5 DEF ReadResponses, StreamFinished
<1> QED  BY <1>4, <1>5

-----------------------------------------------------------------------------
(* The client of any protocol, and the writer that writes to it.           *)

\* The writer to a Responses client and its items, by their parts.
EncodeOf(i, s, u, r) == [items |-> i, stop |-> s, usage |-> u, present |-> r]
AccumOf(k, n, t, v, f) == [kind |-> k, name |-> n, text |-> t, verbatim |-> v, foreign |-> f]
IsAccum(a) == \E k, n, t, v, f : a = AccumOf(k, n, t, v, f)
\* The writer to a client of protocol p.
Encoder(p, e) ==
    p = "responses" =>
        \E i, s, u, r : e = EncodeOf(i, s, u, r) /\ \A j \in DOMAIN i : IsAccum(i[j])
HasTool(items) == \E i \in DOMAIN items : items[i].kind = "tool"

\* The reader of a client agrees with the writer on the items that have begun.
Reader(p, d, e) ==
    /\ p = "openai" => OpenAiClient(d)
    /\ p = "responses" => ResponsesClient(d, DOMAIN e.items, HasTool(e.items))
Client(p, c, e) == IsScan(c) /\ Reader(p, c.decode, e)

\* The client hears nothing of an end from such frames, and agrees with the
\* writer after them as before.
Unheard(p, frames, e, g) ==
    /\ IsList(frames)
    /\ \A c : Client(p, c, e) =>
          SameEnd(ScanFrames(p, c, frames), c) /\ Client(p, ScanFrames(p, c, frames), g)

\* A frame that is read with quiet events only.
QuietFrame(p, f, e, g) ==
    \A d : Reader(p, d, e) =>
        /\ AllQuiet(ReadResponseEvents(p, f, d).events)
        /\ Reader(p, ReadResponseEvents(p, f, d).state, g)

\* Of no frames nothing is heard, and the writer may agree on more than before.
LEMMA NothingUnheard ==
    ASSUME NEW p, NEW e, NEW g, \A d : Reader(p, d, e) => Reader(p, d, g)
    PROVE  Unheard(p, << >>, e, g)
<1>1. ASSUME NEW c PROVE ScanFrames(p, c, << >>) = c
  <2>1. PICK h : h = [i \in 0 .. 0 |-> c]
    OBVIOUS
  <2>2. Len(<< >>) = 0 /\ h[0] = c
    BY <2>1
  <2>3. Follows(h, p, c, << >>)
    BY <2>1, <2>2 DEF Follows
  <2> QED  BY <2>2, <2>3, FollowsTo
<1>2. IsList(<< >>)
  BY ListsAre
<1> QED  BY <1>1, <1>2 DEF Unheard, Client, SameEnd

\* Of a frame that is read quietly no end is heard.
LEMMA FrameUnheard ==
    ASSUME NEW p, NEW f, NEW e, NEW g, QuietFrame(p, f, e, g)
    PROVE  Unheard(p, <<f>>, e, g)
<1>1. IsList(<<f>>)
  BY ListsAre
<1>2. ASSUME NEW c, Client(p, c, e)
      PROVE  SameEnd(ScanFrames(p, c, <<f>>), c) /\ Client(p, ScanFrames(p, c, <<f>>), g)
  <2>1. PICK read : read = ReadResponseEvents(p, f, c.decode)
    OBVIOUS
  <2>2. ScanFrames(p, c, <<f>>) = ApplyEvents(c, read)
    BY <2>1, OneFrame DEF ScanFrame
  <2>3. IsScan(c) /\ AllQuiet(read.events) /\ Reader(p, read.state, g)
    BY <1>2, <2>1 DEF Client, QuietFrame
  <2>4. SameEnd(ApplyEvents(c, read), c) /\ ApplyEvents(c, read).decode = read.state
    BY <2>3, QuietlyRead
  <2> QED  BY <2>2, <2>3, <2>4 DEF Client, SameEnd
<1> QED  BY <1>1, <1>2 DEF Unheard

\* Of frames after frames no end is heard if none is heard of either.
LEMMA UnheardJoins ==
    ASSUME NEW p, NEW a, NEW b, NEW e, NEW g, NEW h, Unheard(p, a, e, g), Unheard(p, b, g, h)
    PROVE  Unheard(p, a \o b, e, h)
<1>1. IsList(a) /\ IsList(b) /\ IsList(a \o b)
  BY ListsJoin DEF Unheard
<1>2. ASSUME NEW c, Client(p, c, e)
      PROVE  SameEnd(ScanFrames(p, c, a \o b), c) /\ Client(p, ScanFrames(p, c, a \o b), h)
  <2>1. PICK q : q = ScanFrames(p, c, a)
    OBVIOUS
  <2>2. PICK r : r = ScanFrames(p, q, b)
    OBVIOUS
  <2>3. ScanFrames(p, c, a \o b) = r
    BY <1>1, <2>1, <2>2, ScannedInTwo
  <2>4. SameEnd(q, c) /\ Client(p, q, g)
    BY <1>2, <2>1 DEF Unheard
  <2>5. SameEnd(r, q) /\ Client(p, r, h)
    BY <2>2, <2>4 DEF Unheard
  <2> QED  BY <2>3, <2>4, <2>5 DEF SameEnd
<1> QED  BY <1>1, <1>2 DEF Unheard

\* Clients but those of Responses do not mind what has begun.
LEMMA EncoderApart ==
    ASSUME NEW p, p # "responses", NEW frames, NEW a, NEW b, NEW e, NEW g, Unheard(p, frames, a, b)
    PROVE  Unheard(p, frames, e, g)
<1>1. \A c : Client(p, c, e) => Client(p, c, a)
  BY DEF Client, Reader
<1>2. \A c : Client(p, c, b) => Client(p, c, g)
  BY DEF Client, Reader
<1> QED  BY <1>1, <1>2 DEF Unheard
-----------------------------------------------------------------------------
(* What is written for a piece of the answer.                              *)

\* What a block may be, and what a piece of one may be.
Metas == {"text", "tool", "thinking", "reasoning", "redacted"}
SpeechKinds == {"text", "args", "reasoning", "signature", "opaque"}

\* The start of a block, and what is said of a block that has begun.
IsStart(ev) == \E i \in Nat, m \in Metas : \E n : ev = BlockStart(i, m, n)
IsTalk(ev) ==
    \/ \E i \in Nat, k \in SpeechKinds : \E x : ev = BlockDelta(i, k, x)
    \/ \E i \in Nat : ev = BlockStop(i)
    \/ \E x : ev = ErrorEvent(x)

\* A frame of Anthropic that is read without an event or with a quiet one.
LEMMA AnthropicQuiet ==
    ASSUME NEW f, NEW e, NEW g, NEW ev, Quiet(ev),
           \A d : \E s : ReadAnthropic(f, d) \in {Read(<< >>, s), Read(<<ev>>, s)}
    PROVE  QuietFrame("anthropic", f, e, g)
<1> SUFFICES ASSUME NEW d
             PROVE  /\ AllQuiet(ReadResponseEvents("anthropic", f, d).events)
                    /\ Reader("anthropic", ReadResponseEvents("anthropic", f, d).state, g)
  BY DEF QuietFrame
<1>1. ReadResponseEvents("anthropic", f, d) = ReadAnthropic(f, d)
  BY DEF ReadResponseEvents
<1>2. PICK s : ReadAnthropic(f, d) \in {Read(<< >>, s), Read(<<ev>>, s)}
  OBVIOUS
<1>3. ReadAnthropic(f, d).events \in {<< >>, <<ev>>}
  BY <1>2, ReadIs
<1>4. AllQuiet(<< >>) /\ AllQuiet(<<ev>>)
  BY FewQuiet
<1> QED  BY <1>1, <1>3, <1>4 DEF Reader

\* The frames of an Anthropic stream that say nothing of an end.
LEMMA AnthropicFrameQuiet ==
    ASSUME NEW e, NEW g, NEW i, NEW m \in KnownBlocks, NEW n, NEW k, NEW x
    PROVE  /\ QuietFrame("anthropic", ContentBlockStart(i, m, n), e, g)
           /\ QuietFrame("anthropic", ContentBlockDelta(i, k, x), e, g)
           /\ QuietFrame("anthropic", ContentBlockStop(i), e, g)
           /\ QuietFrame("anthropic", AnthropicError(x), e, g)
           /\ QuietFrame("anthropic", AnthropicStop, e, g)
<1>2. Quiet(BlockStart(i, m, n)) /\ Quiet(BlockDelta(i, k, x)) /\ Quiet(BlockStop(i))
      /\ Quiet(ErrorEvent(x)) /\ Quiet(MessageStop)
  BY QuietAre
<1>3. QuietFrame("anthropic", ContentBlockStart(i, m, n), e, g)
  <2>1. \A d : ReadAnthropic(ContentBlockStart(i, m, n), d) = Read(<<BlockStart(i, m, n)>>, d)
    BY AnthropicKnown
  <2> QED  BY <1>2, <2>1, AnthropicQuiet
<1>4. QuietFrame("anthropic", ContentBlockDelta(i, k, x), e, g)
  <2>1. \A d : ReadAnthropic(ContentBlockDelta(i, k, x), d) \in {Read(<< >>, d), Read(<<BlockDelta(i, k, x)>>, d)}
    BY AnthropicPiece
  <2> QED  BY <1>2, <2>1, AnthropicQuiet
<1>5. QuietFrame("anthropic", ContentBlockStop(i), e, g)
  <2>1. \A d : \E s : ReadAnthropic(ContentBlockStop(i), d) \in {Read(<< >>, s), Read(<<BlockStop(i)>>, s)}
    BY AnthropicClose
  <2> QED  BY <1>2, <2>1, AnthropicQuiet
<1>6. QuietFrame("anthropic", AnthropicError(x), e, g)
  <2>1. \A d : ReadAnthropic(AnthropicError(x), d) = Read(<<ErrorEvent(x)>>, d)
    BY AnthropicTrouble
  <2> QED  BY <1>2, <2>1, AnthropicQuiet
<1>7. QuietFrame("anthropic", AnthropicStop, e, g)
  <2>1. \A d : ReadAnthropic(AnthropicStop, d) = Read(<<MessageStop>>, d)
    BY AnthropicEnd
  <2> QED  BY <1>2, <2>1, AnthropicQuiet
<1> QED  BY <1>3, <1>4, <1>5, <1>6, <1>7

\* What Written puts together.
LEMMA WrittenIs ==
    ASSUME NEW frames, NEW state
    PROVE  Written(frames, state).frames = frames /\ Written(frames, state).state = state
  BY DEF Written

\* A chunk that says something, or tells of an error.
LEMMA ChunkQuiet ==
    ASSUME NEW f, OneCallAtMost(f), f.finish = None \/ ~ f.choices, ~ f.present, NEW e, NEW g
    PROVE  QuietFrame("openai", f, e, g)
<1> SUFFICES ASSUME NEW d, OpenAiClient(d)
             PROVE  /\ AllQuiet(ReadResponseEvents("openai", f, d).events)
                    /\ Reader("openai", ReadResponseEvents("openai", f, d).state, g)
  BY DEF QuietFrame, Reader
<1>1. QuietRead(ReadOpenAi(f, d))
  BY ChunkReads
<1> QED  BY <1>1 DEF ReadResponseEvents, QuietRead, Reader

\* Of what is written of a start, a piece or a stop, an OpenAI client hears no end.
LEMMA WriteOpenAiQuiet ==
    ASSUME NEW ev, IsStart(ev) \/ IsTalk(ev) \/ ev = MessageStop, NEW e, NEW g
    PROVE  Unheard("openai", WriteOpenAi(ev), e, g)
<1>1. Unheard("openai", << >>, e, g)
  BY NothingUnheard DEF Reader
<1>2. ASSUME NEW f, OneCallAtMost(f), f.finish = None \/ ~ f.choices, ~ f.present
      PROVE  Unheard("openai", <<f>>, e, g)
  BY <1>2, ChunkQuiet, FrameUnheard
<1>3. ASSUME NEW x
      PROVE  /\ Unheard("openai", <<[Chunk EXCEPT !.content = x]>>, e, g)
             /\ Unheard("openai", <<[Chunk EXCEPT !.reasoning = x]>>, e, g)
             /\ Unheard("openai", <<[Chunk EXCEPT !.choices = FALSE, !.error = x]>>, e, g)
  <2>1. PICK a, b, c : /\ a = [Chunk EXCEPT !.content = x] /\ b = [Chunk EXCEPT !.reasoning = x]
                       /\ c = [Chunk EXCEPT !.choices = FALSE, !.error = x]
    OBVIOUS
  <2>2. /\ a.tools = << >> /\ a.finish = None /\ a.present = FALSE
        /\ b.tools = << >> /\ b.finish = None /\ b.present = FALSE
        /\ c.tools = << >> /\ c.finish = None /\ c.present = FALSE
    BY <2>1 DEF Chunk
  <2>3. OneCallAtMost(a) /\ OneCallAtMost(b) /\ OneCallAtMost(c)
    BY <2>2 DEF OneCallAtMost
  <2>4. Unheard("openai", <<a>>, e, g) /\ Unheard("openai", <<b>>, e, g) /\ Unheard("openai", <<c>>, e, g)
    BY <1>2, <2>2, <2>3
  <2> QED  BY <2>1, <2>4
<1>4. ASSUME NEW i \in Nat, NEW n, NEW x
      PROVE  Unheard("openai", <<[Chunk EXCEPT !.tools = <<ToolCall(i, n, x)>>]>>, e, g)
  <2>1. PICK a : a = [Chunk EXCEPT !.tools = <<ToolCall(i, n, x)>>]
    OBVIOUS
  <2>2. a.tools = <<ToolCall(i, n, x)>> /\ a.finish = None /\ a.present = FALSE
    BY <2>1 DEF Chunk
  <2>3. OneCallAtMost(a)
    BY <2>2 DEF OneCallAtMost
  <2>4. Unheard("openai", <<a>>, e, g)
    BY <1>2, <2>2, <2>3
  <2> QED  BY <2>1, <2>4
<1>5. CASE IsStart(ev)
  <2>1. PICK i, m, n : i \in Nat /\ m \in Metas /\ ev = BlockStart(i, m, n)
    BY <1>5 DEF IsStart
  <2>2. ev.type = "block_start" /\ ev.index = i /\ ev.meta = m /\ ev.name = n
    BY <2>1 DEF BlockStart
  <2>3. WriteOpenAi(ev) = IF m = "tool" THEN <<[Chunk EXCEPT !.tools = <<ToolCall(i, n, << >>)>>]>> ELSE << >>
    BY <2>2 DEF WriteOpenAi
  <2> QED  BY <1>1, <1>4, <2>1, <2>3
<1>6. CASE \E i \in Nat, k \in SpeechKinds : \E x : ev = BlockDelta(i, k, x)
  <2>1. PICK i, k, x : i \in Nat /\ k \in SpeechKinds /\ ev = BlockDelta(i, k, x)
    BY <1>6
  <2>2. ev.type = "block_delta" /\ ev.index = i /\ ev.kind = k /\ ev.text = x
    BY <2>1 DEF BlockDelta
  <2>3. CASE k = "text"
    BY <1>3, <2>2, <2>3 DEF WriteOpenAi
  <2>4. CASE k = "reasoning"
    BY <1>3, <2>2, <2>4 DEF WriteOpenAi
  <2>5. CASE k = "args"
    BY <1>4, <2>1, <2>2, <2>5 DEF WriteOpenAi
  <2>6. CASE k \in {"signature", "opaque"}
    BY <1>1, <2>2, <2>6 DEF WriteOpenAi
  <2> QED  BY <2>1, <2>3, <2>4, <2>5, <2>6 DEF SpeechKinds
<1>7. CASE (\E i \in Nat : ev = BlockStop(i)) \/ ev = MessageStop
  <2>1. ev.type \in {"block_stop", "message_stop"}
    BY <1>7 DEF BlockStop, MessageStop
  <2> QED  BY <1>1, <2>1 DEF WriteOpenAi
<1>8. CASE \E x : ev = ErrorEvent(x)
  <2>1. PICK x : ev = ErrorEvent(x)
    BY <1>8
  <2>2. ev.type = "error" /\ ev.text = x
    BY <2>1 DEF ErrorEvent
  <2> QED  BY <1>3, <2>2 DEF WriteOpenAi
<1> QED  BY <1>5, <1>6, <1>7, <1>8 DEF IsTalk

\* What is written of pieces to an Anthropic client.
LEMMA WriteAnthropicQuiet ==
    ASSUME NEW ev, IsStart(ev) \/ IsTalk(ev) \/ ev = MessageStop, NEW e
    PROVE  \E frames, g : /\ WriteAnthropic(ev, e) = Written(frames, g)
                          /\ Unheard("anthropic", frames, e, g)
<1> DEFINE Right == \E frames, g : /\ WriteAnthropic(ev, e) = Written(frames, g)
                                   /\ Unheard("anthropic", frames, e, g)
<1>1. ASSUME NEW g PROVE Unheard("anthropic", << >>, e, g)
  BY NothingUnheard DEF Reader
<1>2. ASSUME NEW g, NEW i, NEW m \in KnownBlocks, NEW n, NEW k, NEW x
      PROVE  /\ Unheard("anthropic", <<ContentBlockStart(i, m, n)>>, e, g)
             /\ Unheard("anthropic", <<ContentBlockDelta(i, k, x)>>, e, g)
             /\ Unheard("anthropic", <<ContentBlockStop(i)>>, e, g)
             /\ Unheard("anthropic", <<AnthropicError(x)>>, e, g)
             /\ Unheard("anthropic", <<AnthropicStop>>, e, g)
  BY AnthropicFrameQuiet, FrameUnheard
<1>4. "text" \in KnownBlocks
  BY DEF KnownBlocks
<1>10. ASSUME NEW g, NEW i, NEW m \in KnownBlocks, NEW n PROVE Unheard("anthropic", <<ContentBlockStart(i, m, n)>>, e, g)
  BY <1>2
<1>11. ASSUME NEW g, NEW i, NEW k, NEW x PROVE Unheard("anthropic", <<ContentBlockDelta(i, k, x)>>, e, g)
  BY <1>2, <1>4
<1>3. ASSUME NEW g, NEW i, NEW x
      PROVE  /\ Unheard("anthropic", <<ContentBlockDelta(i, "signature", x)>> \o <<ContentBlockStop(i)>>, e, g)
             /\ Unheard("anthropic", << >> \o <<ContentBlockStop(i)>>, e, g)
  <2>1. "text" \in KnownBlocks
    BY DEF KnownBlocks
  <2>2. Unheard("anthropic", <<ContentBlockStop(i)>>, e, g)
    BY <1>2, <2>1
  <2>3. Unheard("anthropic", <<ContentBlockDelta(i, "signature", x)>>, e, e)
    BY <1>2, <2>1
  <2> QED  BY <1>1, <2>2, <2>3, UnheardJoins
<1>5. CASE IsStart(ev)
  <2>1. PICK i, m, n : i \in Nat /\ m \in Metas /\ ev = BlockStart(i, m, n)
    BY <1>5 DEF IsStart
  <2>2. ev.type = "block_start" /\ ev.index = i /\ ev.meta = m /\ ev.name = n
    BY <2>1 DEF BlockStart
  <2>3. {"text", "tool", "thinking", "redacted"} \subseteq KnownBlocks
    BY DEF KnownBlocks
  <2>4. CASE m \in {"text", "tool"}
    <3>1. WriteAnthropic(ev, e) = Written(<<ContentBlockStart(i, m, n)>>, e)
      BY <2>2, <2>4 DEF WriteAnthropic
    <3> QED  BY <1>10, <2>3, <2>4, <3>1
  <2>5. CASE m \in {"thinking", "reasoning"}
    <3>1. \E g : WriteAnthropic(ev, e) = Written(<<ContentBlockStart(i, "thinking", << >>)>>, g)
      BY <2>2, <2>5 DEF WriteAnthropic
    <3> QED  BY <1>10, <2>3, <3>1
  <2>6. CASE m = "redacted"
    <3>1. \E g : WriteAnthropic(ev, e) = Written(<<ContentBlockStart(i, "redacted", n)>>, g)
      BY <2>2, <2>6 DEF WriteAnthropic
    <3> QED  BY <1>10, <2>3, <3>1
  <2> QED  BY <2>1, <2>4, <2>5, <2>6 DEF Metas
<1>6. CASE \E i \in Nat, k \in SpeechKinds : \E x : ev = BlockDelta(i, k, x)
  <2>1. PICK i, k, x : i \in Nat /\ k \in SpeechKinds /\ ev = BlockDelta(i, k, x)
    BY <1>6
  <2>2. ev.type = "block_delta" /\ ev.index = i /\ ev.kind = k /\ ev.text = x
    BY <2>1 DEF BlockDelta
  <2>3. \E g : WriteAnthropic(ev, e) \in {Written(<<ContentBlockDelta(i, k, x)>>, g), Written(<< >>, g)}
    BY <2>1, <2>2 DEF WriteAnthropic, SpeechKinds
  <2>4. "text" \in KnownBlocks
    BY DEF KnownBlocks
  <2> QED  BY <1>1, <1>11, <2>3
<1>7. CASE \E i \in Nat : ev = BlockStop(i)
  <2>1. PICK i : ev = BlockStop(i)
    BY <1>7
  <2>2. ev.type = "block_stop" /\ ev.index = i
    BY <2>1 DEF BlockStop
  <2>3. \E g, x : WriteAnthropic(ev, e) \in
          {Written(<<ContentBlockDelta(i, "signature", x)>> \o <<ContentBlockStop(i)>>, g),
           Written(<< >> \o <<ContentBlockStop(i)>>, g)}
    BY <2>2 DEF WriteAnthropic
  <2> QED  BY <1>3, <2>3
<1>8. CASE \E x : ev = ErrorEvent(x)
  <2>1. PICK x : ev = ErrorEvent(x)
    BY <1>8
  <2>2. ev.type = "error" /\ ev.text = x
    BY <2>1 DEF ErrorEvent
  <2>3. WriteAnthropic(ev, e) = Written(<<AnthropicError(x)>>, e)
    BY <2>2 DEF WriteAnthropic
  <2>4. "text" \in KnownBlocks
    BY DEF KnownBlocks
  <2> QED  BY <1>2, <2>3, <2>4
<1>9. CASE ev = MessageStop
  <2>1. ev.type = "message_stop"
    BY <1>9 DEF MessageStop
  <2>2. WriteAnthropic(ev, e) = Written(<<AnthropicStop>>, e)
    BY <2>1 DEF WriteAnthropic
  <2>3. "text" \in KnownBlocks
    BY DEF KnownBlocks
  <2> QED  BY <1>2, <2>2, <2>3
<1> QED  BY <1>5, <1>6, <1>7, <1>8, <1>9 DEF IsTalk

-----------------------------------------------------------------------------
(* What is written to a Responses client.                                  *)

\* The writer after an event: what it will end with is as before, and the items
\* J have begun, a call among them or not.
Begins(p, g, e, J, v) ==
    p = "responses" =>
        /\ g.stop = e.stop /\ g.usage = e.usage /\ g.present = e.present
        /\ DOMAIN g.items = DOMAIN e.items \cup J
        /\ HasTool(g.items) <=> (HasTool(e.items) \/ v)

\* The same items, and a call among them if there was one.
SameItems(g, e) == DOMAIN g.items = DOMAIN e.items /\ (HasTool(g.items) <=> HasTool(e.items))

\* A Responses reader may be said to know more items than it does.
LEMMA ClientSame ==
    ASSUME NEW d, NEW I, NEW w, ResponsesClient(d, I, w), NEW J, I \subseteq J, NEW v, v <=> w
    PROVE  ResponsesClient(d, J, v)
<1>1. PICK a, i, p, n, b : /\ d = StateOf(a, i, p, n, b)
                           /\ DOMAIN i \subseteq I /\ DOMAIN p \subseteq FirstParts
                           /\ b \in BOOLEAN /\ (b <=> w)
  BY DEF ResponsesClient
<1>2. DOMAIN i \subseteq J /\ (b <=> v)
  BY <1>1
<1> QED  BY <1>1, <1>2 DEF ResponsesClient

\* Every such reader reads the frame quietly.
QuietSteps(f, I, w, J, v) == \A d : ResponsesClient(d, I, w) => QuietStep(ReadResponses(f, d), J, v)

\* A frame of which the client makes a quiet step.
LEMMA StepIsQuiet ==
    ASSUME NEW f, NEW e, NEW g, NEW I, NEW w \in BOOLEAN, w <=> HasTool(e.items), I = DOMAIN e.items,
           NEW J, NEW v \in BOOLEAN, v <=> HasTool(g.items), J = DOMAIN g.items,
           QuietSteps(f, I, w, J, v)
    PROVE  QuietFrame("responses", f, e, g)
<1> SUFFICES ASSUME NEW d, ResponsesClient(d, DOMAIN e.items, HasTool(e.items))
             PROVE  /\ AllQuiet(ReadResponseEvents("responses", f, d).events)
                    /\ ResponsesClient(ReadResponseEvents("responses", f, d).state, DOMAIN g.items, HasTool(g.items))
  BY DEF QuietFrame, Reader
<1>1. ReadResponseEvents("responses", f, d) = ReadResponses(f, d)
  BY DEF ReadResponseEvents
<1>2. ResponsesClient(d, I, w)
  BY ClientSame
<1>3. AllQuiet(ReadResponses(f, d).events) /\ ResponsesClient(ReadResponses(f, d).state, J, v)
  BY <1>2 DEF QuietStep, QuietSteps
<1>4. ResponsesClient(ReadResponses(f, d).state, DOMAIN g.items, HasTool(g.items))
  BY <1>3, ClientSame
<1> QED  BY <1>1, <1>3, <1>4

\* The frames of a Responses stream about an item that has begun.
LEMMA ItemFrameQuiet ==
    ASSUME NEW e, NEW g, SameItems(g, e), NEW j \in Nat, NEW kind, NEW text, NEW item
    PROVE  /\ QuietFrame("responses", PartAdded(j, 0, "text"), e, g)
           /\ QuietFrame("responses", PartDone(j, 0, text), e, g)
           /\ QuietFrame("responses", ItemDelta(j, 0, kind, text), e, g)
           /\ QuietFrame("responses", DeltaDone(j, kind, text), e, g)
           /\ QuietFrame("responses", ItemDone(j, item), e, g)
           /\ QuietFrame("responses", BareError(text), e, g)
           /\ QuietFrame("responses", Failed(text), e, g)
<1>1. PICK w \in BOOLEAN : w <=> HasTool(e.items)
  OBVIOUS
<1>2. PICK I : I = DOMAIN e.items
  OBVIOUS
<1>3. (w <=> HasTool(g.items)) /\ I = DOMAIN g.items
  BY <1>1, <1>2 DEF SameItems
<1>4. ASSUME NEW f, \A d : ResponsesClient(d, I, w) => QuietStep(ReadResponses(f, d), I, w)
      PROVE  QuietFrame("responses", f, e, g)
  <2>1. QuietSteps(f, I, w, I, w)
    BY <1>4 DEF QuietSteps
  <2> QED  BY <1>1, <1>2, <1>3, <2>1, StepIsQuiet
<1>5. \A d : ResponsesClient(d, I, w) =>
        /\ QuietStep(ReadResponses(PartAdded(j, 0, "text"), d), I, w)
        /\ QuietStep(ReadResponses(PartDone(j, 0, text), d), I, w)
  BY PartAddedQuiet, PartDoneQuiet
<1>6. \A d : ResponsesClient(d, I, w) => QuietStep(ReadResponses(ItemDelta(j, 0, kind, text), d), I, w)
  BY ItemDeltaQuiet
<1>7. \A d : ResponsesClient(d, I, w) => QuietStep(ReadResponses(ItemDone(j, item), d), I, w)
  BY ItemDoneQuiet
<1>8. \A d : ResponsesClient(d, I, w) =>
        /\ QuietStep(ReadResponses(DeltaDone(j, kind, text), d), I, w)
        /\ QuietStep(ReadResponses(BareError(text), d), I, w)
        /\ QuietStep(ReadResponses(Failed(text), d), I, w)
  BY OthersQuiet
<1> QED  BY <1>4, <1>5, <1>6, <1>7, <1>8

\* An item that begins, for the first time or again.
LEMMA BeginningQuiet ==
    ASSUME NEW e, NEW g, NEW j, NEW kind, NEW name,
           Begins("responses", g, e, {j}, kind = "tool"),
           j \in DOMAIN e.items /\ kind = "tool" => HasTool(e.items)
    PROVE  QuietFrame("responses", ItemAdded(j, kind, name), e, g)
<1>1. PICK w \in BOOLEAN : w <=> HasTool(e.items)
  OBVIOUS
<1>2. PICK I : I = DOMAIN e.items
  OBVIOUS
<1>3. PICK v \in BOOLEAN : v <=> (w \/ kind = "tool")
  OBVIOUS
<1>4. (v <=> HasTool(g.items)) /\ I \cup {j} = DOMAIN g.items
  BY <1>1, <1>2, <1>3 DEF Begins
<1>5. ASSUME NEW d, ResponsesClient(d, I, w) PROVE QuietStep(ReadResponses(ItemAdded(j, kind, name), d), I \cup {j}, v)
  <2>1. QuietStep(ReadResponses(ItemAdded(j, kind, name), d), I \cup {j}, w \/ kind = "tool")
    BY <1>1, <1>2, <1>5, ItemAddedQuiet
  <2> QED  BY <1>3, <2>1, ClientSame DEF QuietStep
<1>6. QuietSteps(ItemAdded(j, kind, name), I, w, I \cup {j}, v)
  BY <1>5 DEF QuietSteps
<1> QED  BY <1>1, <1>2, <1>4, <1>6, StepIsQuiet

\* An item that grows.
LEMMA AccumSet ==
    ASSUME NEW a, IsAccum(a), NEW x
    PROVE  /\ IsAccum([a EXCEPT !.text = x]) /\ [a EXCEPT !.text = x].kind = a.kind
           /\ IsAccum([a EXCEPT !.verbatim = x]) /\ [a EXCEPT !.verbatim = x].kind = a.kind
           /\ IsAccum([a EXCEPT !.foreign = x]) /\ [a EXCEPT !.foreign = x].kind = a.kind
<1>1. PICK k, n, t, v, f : a = AccumOf(k, n, t, v, f)
  BY DEF IsAccum
<1>2. /\ [a EXCEPT !.text = x] = AccumOf(k, n, x, v, f)
      /\ [a EXCEPT !.verbatim = x] = AccumOf(k, n, t, x, f)
      /\ [a EXCEPT !.foreign = x] = AccumOf(k, n, t, v, x)
  BY <1>1 DEF AccumOf
<1>3. \A b : AccumOf(k, n, x, v, f).kind = k /\ AccumOf(k, n, t, x, f).kind = k
             /\ AccumOf(k, n, t, v, x).kind = k /\ a.kind = k
  BY <1>1 DEF AccumOf
<1> QED  BY <1>2, <1>3 DEF IsAccum

\* An item that has begun is set, and the writer is as far as before.
LEMMA ItemSet ==
    ASSUME NEW e, Encoder("responses", e), NEW i, i \in DOMAIN e.items, NEW a, IsAccum(a),
           a.kind = e.items[i].kind, NEW g, g = [e EXCEPT !.items[i] = a]
    PROVE  Encoder("responses", g) /\ Begins("responses", g, e, {}, FALSE) /\ SameItems(g, e)
<1>1. PICK x, s, u, r : e = EncodeOf(x, s, u, r) /\ \A j \in DOMAIN x : IsAccum(x[j])
  BY DEF Encoder
<1>2. PICK y : y = [x EXCEPT ![i] = a]
  OBVIOUS
<1>3. e.items = x /\ e.stop = s /\ e.usage = u /\ e.present = r
  BY <1>1 DEF EncodeOf
<1>4. g = EncodeOf(y, s, u, r)
  <2>1. g = [e EXCEPT !.items = [e.items EXCEPT ![i] = a]]
    OBVIOUS
  <2>2. g = [e EXCEPT !.items = y]
    BY <1>2, <1>3, <2>1
  <2> QED  BY <1>1, <2>2 DEF EncodeOf
<1>5. g.items = y /\ g.stop = s /\ g.usage = u /\ g.present = r
  BY <1>4 DEF EncodeOf
<1>6. DOMAIN y = DOMAIN x /\ \A j \in DOMAIN x : IsAccum(y[j]) /\ y[j].kind = x[j].kind
  BY <1>1, <1>2, <1>3
<1>7. HasTool(y) <=> HasTool(x)
  BY <1>6 DEF HasTool
<1>8. \A j \in DOMAIN y : IsAccum(y[j])
  BY <1>6
<1>9. Encoder("responses", g)
  BY <1>4, <1>8 DEF Encoder
<1>10. DOMAIN g.items = DOMAIN e.items /\ (HasTool(g.items) <=> HasTool(e.items))
  BY <1>3, <1>5, <1>6, <1>7
<1>11. g.stop = e.stop /\ g.usage = e.usage /\ g.present = e.present
  BY <1>3, <1>5
<1> QED  BY <1>9, <1>10, <1>11 DEF Begins, SameItems

\* Where nothing changes, nothing begins.
LEMMA SameBegins ==
    ASSUME NEW p, NEW e
    PROVE  Begins(p, e, e, {}, FALSE) /\ SameItems(e, e)
BY DEF Begins, SameItems

\* The writer as it is written: the frames and what changes.
Writes(p, w, e, J, v) ==
    \E frames, g : /\ w = Written(frames, g) /\ Encoder(p, g)
                   /\ Unheard(p, frames, e, g) /\ Begins(p, g, e, J, v)

\* A piece is written for a Responses client, and nothing begins.
LEMMA ResponsesDeltaWritten ==
    ASSUME NEW e, Encoder("responses", e), NEW i \in Nat, NEW k, NEW x
    PROVE  Writes("responses", WriteResponses(BlockDelta(i, k, x), e), e, {}, FALSE)
<1>1. PICK ev : ev = BlockDelta(i, k, x)
  OBVIOUS
<1>2. ev.type = "block_delta" /\ ev.index = i /\ ev.kind = k /\ ev.text = x
  BY <1>1 DEF BlockDelta
<1>3. WriteResponses(ev, e) = StreamWriteBlockDelta(ev, e)
  BY <1>2 DEF WriteResponses
<1>4. PICK acc : acc = e.items[i]
  OBVIOUS
<1>5. ASSUME i \in DOMAIN e.items, NEW a, IsAccum(a), a.kind = acc.kind
      PROVE  /\ Writes("responses", Written(<<ItemDelta(i, 0, k, x)>>, [e EXCEPT !.items[i] = a]), e, {}, FALSE)
             /\ Writes("responses", Written(<< >>, [e EXCEPT !.items[i] = a]), e, {}, FALSE)
  <2>1. PICK g : g = [e EXCEPT !.items[i] = a]
    OBVIOUS
  <2>2. Encoder("responses", g) /\ Begins("responses", g, e, {}, FALSE) /\ SameItems(g, e)
    BY <1>4, <1>5, <2>1, ItemSet
  <2>3. QuietFrame("responses", ItemDelta(i, 0, k, x), e, g)
    BY <2>2, ItemFrameQuiet
  <2>4. Unheard("responses", <<ItemDelta(i, 0, k, x)>>, e, g)
    BY <2>3, FrameUnheard
  <2>5. Unheard("responses", << >>, e, g)
    <3>1. \A d : Reader("responses", d, e) => Reader("responses", d, g)
      BY <2>2, ClientSame DEF Reader, SameItems
    <3> QED  BY <3>1, NothingUnheard
  <2> QED  BY <2>1, <2>2, <2>4, <2>5 DEF Writes
<1>6. Writes("responses", Written(<< >>, e), e, {}, FALSE)
  BY NothingUnheard, SameBegins DEF Writes
<1>7. i \in DOMAIN e.items => IsAccum(acc)
  BY <1>4 DEF Encoder, EncodeOf
<1>8. \/ WriteResponses(ev, e) = Written(<< >>, e)
      \/ /\ i \in DOMAIN e.items
         /\ \E y : WriteResponses(ev, e) \in
               {Written(<<ItemDelta(i, 0, k, x)>>, [e EXCEPT !.items[i] = [acc EXCEPT !.text = y]]),
                Written(<< >>, [e EXCEPT !.items[i] = [acc EXCEPT !.verbatim = y]]),
                Written(<< >>, [e EXCEPT !.items[i] = [acc EXCEPT !.foreign = y]])}
  BY <1>2, <1>3, <1>4 DEF StreamWriteBlockDelta
<1>9. CASE WriteResponses(ev, e) = Written(<< >>, e)
  BY <1>1, <1>6, <1>9
<1>10. CASE /\ i \in DOMAIN e.items
            /\ \E y : WriteResponses(ev, e) \in
               {Written(<<ItemDelta(i, 0, k, x)>>, [e EXCEPT !.items[i] = [acc EXCEPT !.text = y]]),
                Written(<< >>, [e EXCEPT !.items[i] = [acc EXCEPT !.verbatim = y]]),
                Written(<< >>, [e EXCEPT !.items[i] = [acc EXCEPT !.foreign = y]])}
  <2>1. PICK y : WriteResponses(ev, e) \in
               {Written(<<ItemDelta(i, 0, k, x)>>, [e EXCEPT !.items[i] = [acc EXCEPT !.text = y]]),
                Written(<< >>, [e EXCEPT !.items[i] = [acc EXCEPT !.verbatim = y]]),
                Written(<< >>, [e EXCEPT !.items[i] = [acc EXCEPT !.foreign = y]])}
    BY <1>10
  <2>2. PICK a, b, c : a = [acc EXCEPT !.text = y] /\ b = [acc EXCEPT !.verbatim = y] /\ c = [acc EXCEPT !.foreign = y]
    OBVIOUS
  <2>3. IsAccum(a) /\ IsAccum(b) /\ IsAccum(c) /\ a.kind = acc.kind /\ b.kind = acc.kind /\ c.kind = acc.kind
    BY <1>7, <1>10, <2>2, AccumSet
  <2>4. /\ Writes("responses", Written(<<ItemDelta(i, 0, k, x)>>, [e EXCEPT !.items[i] = a]), e, {}, FALSE)
        /\ Writes("responses", Written(<< >>, [e EXCEPT !.items[i] = b]), e, {}, FALSE)
        /\ Writes("responses", Written(<< >>, [e EXCEPT !.items[i] = c]), e, {}, FALSE)
    BY <1>5, <1>10, <2>3
  <2> QED  BY <1>1, <2>1, <2>2, <2>4
<1> QED  BY <1>8, <1>9, <1>10

\* Frames that concern what has begun, one after the other.
LEMMA ResponsesFramesWritten ==
    ASSUME NEW e, Encoder("responses", e), NEW f, QuietFrame("responses", f, e, e),
           NEW g, QuietFrame("responses", g, e, e), NEW h, QuietFrame("responses", h, e, e)
    PROVE  /\ Writes("responses", Written(<< >>, e), e, {}, FALSE)
           /\ Writes("responses", Written(<<f, g>>, e), e, {}, FALSE)
           /\ Writes("responses", Written((<<f>> \o << >>) \o <<h>>, e), e, {}, FALSE)
           /\ Writes("responses", Written((<<f>> \o <<g>>) \o <<h>>, e), e, {}, FALSE)
<1>1. Unheard("responses", << >>, e, e)
  BY NothingUnheard
<1>2. Unheard("responses", <<f>>, e, e) /\ Unheard("responses", <<g>>, e, e) /\ Unheard("responses", <<h>>, e, e)
  BY FrameUnheard
<1>3. Unheard("responses", <<f>> \o << >>, e, e) /\ Unheard("responses", <<f>> \o <<g>>, e, e)
  BY <1>1, <1>2, UnheardJoins
<1>4. /\ Unheard("responses", (<<f>> \o << >>) \o <<h>>, e, e)
      /\ Unheard("responses", (<<f>> \o <<g>>) \o <<h>>, e, e)
  BY <1>2, <1>3, UnheardJoins
<1>5. <<f>> \o <<g>> = <<f, g>>
  BY EventsAre
<1> QED  BY <1>1, <1>3, <1>4, <1>5, SameBegins DEF Writes

\* So is whatever is said of a block that has begun.
LEMMA ResponsesTalkWritten ==
    ASSUME NEW e, Encoder("responses", e), NEW ev, IsTalk(ev)
    PROVE  Writes("responses", WriteResponses(ev, e), e, {}, FALSE)
<1>1. ASSUME NEW j \in Nat, NEW kind, NEW text, NEW item
      PROVE  /\ QuietFrame("responses", DeltaDone(j, kind, text), e, e)
             /\ QuietFrame("responses", PartDone(j, 0, text), e, e)
             /\ QuietFrame("responses", ItemDone(j, item), e, e)
  BY ItemFrameQuiet, SameBegins
<1>2. CASE \E i \in Nat, k \in SpeechKinds : \E x : ev = BlockDelta(i, k, x)
  BY <1>2, ResponsesDeltaWritten
<1>3. CASE \E i \in Nat : ev = BlockStop(i)
  <2>1. PICK i \in Nat : ev = BlockStop(i)
    BY <1>3
  <2>2. ev.type = "block_stop" /\ ev.index = i
    BY <2>1 DEF BlockStop
  <2>3. WriteResponses(ev, e) = Written(StreamWriteBlockStop(ev, e), e)
    BY <2>2 DEF WriteResponses
  <2>4. PICK acc : acc = e.items[i]
    OBVIOUS
  <2>5. PICK kind : kind = [message |-> "text", tool |-> "args", thinking |-> "reasoning"][acc.kind]
    OBVIOUS
  <2>6. PICK x, y, z : /\ x = DeltaDone(i, kind, acc.text) /\ y = PartDone(i, 0, acc.text)
                       /\ z = ItemDone(i, CompletedItem(acc))
    OBVIOUS
  <2>7. StreamWriteBlockStop(ev, e) \in {<< >>, (<<x>> \o << >>) \o <<z>>, (<<x>> \o <<y>>) \o <<z>>}
    BY <2>2, <2>4, <2>5, <2>6 DEF StreamWriteBlockStop
  <2>8. QuietFrame("responses", x, e, e) /\ QuietFrame("responses", y, e, e) /\ QuietFrame("responses", z, e, e)
    BY <1>1, <2>6
  <2>9. /\ Writes("responses", Written(<< >>, e), e, {}, FALSE)
        /\ Writes("responses", Written((<<x>> \o << >>) \o <<z>>, e), e, {}, FALSE)
        /\ Writes("responses", Written((<<x>> \o <<y>>) \o <<z>>, e), e, {}, FALSE)
    BY <2>8, ResponsesFramesWritten
  <2> QED  BY <2>3, <2>7, <2>9
<1>4. CASE \E x : ev = ErrorEvent(x)
  <2>1. PICK x : ev = ErrorEvent(x)
    BY <1>4
  <2>2. ev.type = "error" /\ ev.text = x
    BY <2>1 DEF ErrorEvent
  <2>3. WriteResponses(ev, e) = Written(<<BareError(x), Failed(x)>>, e)
    BY <2>2 DEF WriteResponses
  <2>4. 0 \in Nat
    OBVIOUS
  <2>5. QuietFrame("responses", BareError(x), e, e) /\ QuietFrame("responses", Failed(x), e, e)
    BY <2>4, ItemFrameQuiet, SameBegins
  <2> QED  BY <2>3, <2>5, ResponsesFramesWritten
<1> QED  BY <1>2, <1>3, <1>4 DEF IsTalk

\* The state of the writer after a start, which is as it was if the item had begun.
StartedAs(g, e, j, m) ==
    /\ Encoder("responses", g) /\ j \in DOMAIN g.items
    /\ IF j \in DOMAIN e.items THEN g = e
       ELSE Begins("responses", g, e, {j}, m = "tool") /\ (g.items[j].kind = "tool" <=> m = "tool")

\* The frames with which the item of a block begins.
StartFrames(j, acc) ==
    <<ItemAdded(j, acc.kind, acc.name)>>
      \o (IF acc.kind = "message" THEN <<PartAdded(j, 0, "text")>> ELSE << >>)

\* A block that starts begins its item, and its frames say so.
LEMMA ResponsesStarts ==
    ASSUME NEW e, Encoder("responses", e), NEW j, NEW m \in Metas, NEW n
    PROVE  \E g : /\ StartedAs(g, e, j, m)
                  /\ WriteResponses(BlockStart(j, m, n), e) = Written(StartFrames(j, g.items[j]), g)
<1>1. PICK ev : ev = BlockStart(j, m, n)
  OBVIOUS
<1>2. ev.type = "block_start" /\ ev.index = j /\ ev.meta = m /\ ev.name = n
  BY <1>1 DEF BlockStart
<1>3. WriteResponses(ev, e) = StreamWriteBlockStart(ev, e)
  BY <1>2 DEF WriteResponses
<1>4. PICK x, s, u, r : e = EncodeOf(x, s, u, r) /\ \A i \in DOMAIN x : IsAccum(x[i])
  BY DEF Encoder
<1>5. e.items = x /\ e.stop = s /\ e.usage = u /\ e.present = r
  BY <1>4 DEF EncodeOf
<1>6. PICK kind : kind = [text |-> "message", tool |-> "tool", thinking |-> "thinking",
                          reasoning |-> "thinking", redacted |-> "thinking"][m]
  OBVIOUS
<1>20. PICK nm : nm = IF kind = "tool" THEN n ELSE << >>
  OBVIOUS
<1>21. PICK fo : fo = IF m = "redacted" THEN <<Envelope("redacted", << >>, << >>)>> ELSE << >>
  OBVIOUS
<1>7. PICK fresh : fresh = [Accum(kind, nm) EXCEPT !.foreign = fo]
  OBVIOUS
<1>8. IsAccum(fresh) /\ fresh.kind = kind /\ (kind = "tool" <=> m = "tool")
  <2>1. fresh = AccumOf(kind, nm, << >>, << >>, fo)
    BY <1>7 DEF Accum, AccumOf
  <2>2. fresh.kind = kind
    BY <2>1 DEF AccumOf
  <2>3. kind = "tool" <=> m = "tool"
    BY <1>6 DEF Metas
  <2> QED  BY <2>1, <2>2, <2>3 DEF IsAccum
<1>9. PICK items : items = IF j \in DOMAIN x THEN x ELSE Put(x, j, fresh)
  OBVIOUS
<1>10. PICK g : g = [e EXCEPT !.items = items]
  OBVIOUS
<1>11. g = EncodeOf(items, s, u, r)
  BY <1>4, <1>10 DEF EncodeOf
<1>12. g.items = items /\ g.stop = s /\ g.usage = u /\ g.present = r
  BY <1>11 DEF EncodeOf
<1>13. StreamWriteBlockStart(ev, e) = Written(StartFrames(j, items[j]), g)
  <2>1. fresh = [Accum(kind, IF kind = "tool" THEN n ELSE << >>) EXCEPT
                   !.foreign = IF m = "redacted" THEN <<Envelope("redacted", << >>, << >>)>> ELSE << >>]
    BY <1>7, <1>20, <1>21
  <2> HIDE <1>7, <1>20, <1>21
  <2> QED  BY <1>2, <1>5, <1>6, <1>9, <1>10, <2>1 DEF StreamWriteBlockStart, StartFrames
<1>14. StartedAs(g, e, j, m)
  <2>1. CASE j \in DOMAIN x
    <3>1. g = e
      BY <1>4, <1>9, <1>11, <2>1
    <3> QED  BY <1>5, <2>1, <3>1 DEF StartedAs
  <2>2. CASE j \notin DOMAIN x
    <3>1. IsPut(items, x, j, fresh)
      BY <1>9, <2>2, PutIs
    <3>2. \A i \in DOMAIN items : IsAccum(items[i])
      BY <1>4, <1>8, <3>1 DEF IsPut
    <3>3. Encoder("responses", g)
      BY <1>11, <3>2 DEF Encoder
    <3>4. DOMAIN g.items = DOMAIN e.items \cup {j} /\ j \in DOMAIN g.items /\ g.items[j].kind = kind
      BY <1>5, <1>8, <1>12, <3>1 DEF IsPut
    <3>5. HasTool(g.items) <=> (HasTool(e.items) \/ m = "tool")
      <4>1. HasTool(items) <=> (HasTool(x) \/ kind = "tool")
        BY <1>8, <2>2, <3>1 DEF HasTool, IsPut
      <4> QED  BY <1>5, <1>8, <1>12, <4>1
    <3>6. Begins("responses", g, e, {j}, m = "tool")
      BY <1>5, <1>12, <3>4, <3>5 DEF Begins
    <3> QED  BY <1>5, <1>8, <2>2, <3>3, <3>4, <3>6 DEF StartedAs
  <2> QED  BY <2>1, <2>2
<1> QED  BY <1>1, <1>3, <1>12, <1>13, <1>14

-----------------------------------------------------------------------------
(* What is written of a piece of the answer, in any protocol.              *)

\* Pieces, ends of blocks and errors.
LEMMA TalkWritten ==
    ASSUME NEW p \in Protocols, NEW e, Encoder(p, e), NEW ev, IsTalk(ev)
    PROVE  Writes(p, WriteResponseEvent(p, ev, e), e, {}, FALSE)
<1>1. CASE p = "openai"
  <2>1. WriteResponseEvent(p, ev, e) = Written(WriteOpenAi(ev), e)
    BY <1>1 DEF WriteResponseEvent
  <2>2. Unheard(p, WriteOpenAi(ev), e, e)
    BY <1>1, WriteOpenAiQuiet
  <2> QED  BY <2>1, <2>2, SameBegins DEF Writes
<1>2. CASE p = "anthropic"
  <2>1. WriteResponseEvent(p, ev, e) = WriteAnthropic(ev, e)
    BY <1>2 DEF WriteResponseEvent
  <2>2. PICK frames, g : WriteAnthropic(ev, e) = Written(frames, g) /\ Unheard("anthropic", frames, e, g)
    BY WriteAnthropicQuiet
  <2>3. Encoder(p, g) /\ Begins(p, g, e, {}, FALSE)
    BY <1>2 DEF Encoder, Begins
  <2> QED  BY <1>2, <2>1, <2>2, <2>3 DEF Writes
<1>3. CASE p = "responses"
  <2>1. WriteResponseEvent(p, ev, e) = WriteResponses(ev, e)
    BY <1>3 DEF WriteResponseEvent
  <2> QED  BY <1>3, <2>1, ResponsesTalkWritten
<1> QED  BY <1>1, <1>2, <1>3 DEF Protocols

\* The frames of an item that starts, as the client reads them.
LEMMA StartFramesQuiet ==
    ASSUME NEW e, NEW g, NEW j \in Nat, NEW m, StartedAs(g, e, j, m), j \notin DOMAIN e.items
    PROVE  Unheard("responses", StartFrames(j, g.items[j]), e, g)
<1>1. PICK kind, name : kind = g.items[j].kind /\ name = g.items[j].name
  OBVIOUS
<1>2. Begins("responses", g, e, {j}, kind = "tool")
  BY <1>1 DEF StartedAs, Begins
<1>3. QuietFrame("responses", ItemAdded(j, kind, name), e, g)
  BY <1>2, BeginningQuiet
<1>4. QuietFrame("responses", PartAdded(j, 0, "text"), g, g)
  BY ItemFrameQuiet, SameBegins
<1>5. /\ Unheard("responses", <<ItemAdded(j, kind, name)>>, e, g)
      /\ Unheard("responses", <<PartAdded(j, 0, "text")>>, g, g)
  BY <1>3, <1>4, FrameUnheard
<1>6. Unheard("responses", << >>, g, g)
  BY NothingUnheard
<1>7. /\ Unheard("responses", <<ItemAdded(j, kind, name)>> \o << >>, e, g)
      /\ Unheard("responses", <<ItemAdded(j, kind, name)>> \o <<PartAdded(j, 0, "text")>>, e, g)
  BY <1>5, <1>6, UnheardJoins
<1> QED  BY <1>1, <1>7 DEF StartFrames

\* What may be asked of the writer twice: a start.  It answers the second time
\* as it did the first.
StartsTwice(p, ev, e, J, v) ==
    LET probe == WriteResponseEvent(p, ev, e)
    IN  /\ Writes(p, probe, e, J, v)
        /\ probe.frames = << >> => p = "openai" /\ probe.state = e
        /\ Writes(p, WriteResponseEvent(p, ev, probe.state), e, J, v)

\* A start is written for a client, at once or when it is asked again.
LEMMA StartWritten ==
    ASSUME NEW p \in Protocols, NEW e, Encoder(p, e), NEW j \in Nat, NEW m \in Metas, NEW n,
           p = "responses" => j \notin DOMAIN e.items
    PROVE  StartsTwice(p, BlockStart(j, m, n), e, {j}, m = "tool")
<1>1. PICK ev : ev = BlockStart(j, m, n)
  OBVIOUS
<1>2. IsStart(ev)
  BY <1>1 DEF IsStart
<1>3. PICK probe : probe = WriteResponseEvent(p, ev, e)
  OBVIOUS
<1>4. CASE p = "openai"
  <2>1. WriteResponseEvent(p, ev, e) = Written(WriteOpenAi(ev), e)
    BY <1>4 DEF WriteResponseEvent
  <2>2. Unheard(p, WriteOpenAi(ev), e, e)
    BY <1>2, <1>4, WriteOpenAiQuiet
  <2>3. Begins(p, e, e, {j}, m = "tool")
    BY <1>4 DEF Begins
  <2>4. Writes(p, WriteResponseEvent(p, ev, e), e, {j}, m = "tool")
    BY <2>1, <2>2, <2>3 DEF Writes
  <2>5. probe.state = e
    BY <1>3, <2>1, WrittenIs
  <2> QED  BY <1>1, <1>3, <1>4, <2>4, <2>5 DEF StartsTwice
<1>5. CASE p = "anthropic"
  <2>1. \A d : WriteResponseEvent(p, ev, d) = WriteAnthropic(ev, d)
    BY <1>5 DEF WriteResponseEvent
  <2>2. PICK frames, g : WriteAnthropic(ev, e) = Written(frames, g) /\ Unheard("anthropic", frames, e, g)
    BY <1>2, WriteAnthropicQuiet
  <2>3. PICK frames2, h : WriteAnthropic(ev, g) = Written(frames2, h) /\ Unheard("anthropic", frames2, g, h)
    BY <1>2, WriteAnthropicQuiet
  <2>4. Unheard("anthropic", frames2, e, h)
    BY <2>3, EncoderApart
  <2>5. \A d : Encoder(p, d) /\ Begins(p, d, e, {j}, m = "tool")
    BY <1>5 DEF Encoder, Begins
  <2>6. probe.state = g /\ probe.frames = frames
    BY <1>3, <2>1, <2>2, WrittenIs
  <2>7. frames # << >>
    <3>1. ev.type = "block_start" /\ ev.meta = m /\ ev.index = j /\ ev.name = n
      BY <1>1 DEF BlockStart
    <3>2. \E f, d : WriteAnthropic(ev, e) = Written(<<f>>, d)
      BY <3>1 DEF WriteAnthropic, Metas
    <3>3. PICK f, d : WriteAnthropic(ev, e) = Written(<<f>>, d)
      BY <3>2
    <3>4. frames = <<f>>
      <4>1. Written(frames, g) = Written(<<f>>, d)
        BY <2>2, <3>3
      <4> QED  BY <4>1 DEF Written
    <3> QED  BY <3>4
  <2>8. Writes(p, WriteResponseEvent(p, ev, e), e, {j}, m = "tool")
    BY <1>5, <2>1, <2>2, <2>5 DEF Writes
  <2>9. Writes(p, WriteResponseEvent(p, ev, probe.state), e, {j}, m = "tool")
    BY <1>5, <2>1, <2>3, <2>4, <2>5, <2>6 DEF Writes
  <2> QED  BY <1>1, <1>3, <2>6, <2>7, <2>8, <2>9 DEF StartsTwice
<1>6. CASE p = "responses"
  <2>1. \A d : WriteResponseEvent(p, ev, d) = WriteResponses(ev, d)
    BY <1>6 DEF WriteResponseEvent
  <2>2. PICK g : StartedAs(g, e, j, m) /\ WriteResponses(ev, e) = Written(StartFrames(j, g.items[j]), g)
    BY <1>1, <1>6, ResponsesStarts
  <2>3. Encoder("responses", g) /\ j \in DOMAIN g.items
    BY <2>2 DEF StartedAs
  <2>4. PICK h : StartedAs(h, g, j, m) /\ WriteResponses(ev, g) = Written(StartFrames(j, h.items[j]), h)
    BY <1>1, <2>3, ResponsesStarts
  <2>5. h = g
    BY <2>3, <2>4 DEF StartedAs
  <2>6. Unheard("responses", StartFrames(j, g.items[j]), e, g)
    BY <1>6, <2>2, StartFramesQuiet
  <2>7. Begins("responses", g, e, {j}, m = "tool")
    BY <1>6, <2>2 DEF StartedAs
  <2>8. probe.state = g /\ probe.frames = StartFrames(j, g.items[j])
    BY <1>3, <2>1, <2>2, WrittenIs
  <2>9. StartFrames(j, g.items[j]) # << >>
    <3>1. PICK a, b, k : a = ItemAdded(j, g.items[j].kind, g.items[j].name) /\ b = PartAdded(j, 0, "text") /\ k = g.items[j].kind
      OBVIOUS
    <3>2. StartFrames(j, g.items[j]) = <<a>> \o (IF k = "message" THEN <<b>> ELSE << >>)
      BY <3>1 DEF StartFrames
    <3>3. StartFrames(j, g.items[j]) \in {<<a>>, <<a, b>>}
      BY <3>2, EventsAre
    <3> QED  BY <3>3
  <2>10. Writes(p, WriteResponseEvent(p, ev, e), e, {j}, m = "tool")
    BY <1>6, <2>1, <2>2, <2>3, <2>6, <2>7 DEF Writes
  <2>11. Writes(p, WriteResponseEvent(p, ev, probe.state), e, {j}, m = "tool")
    BY <1>6, <2>1, <2>3, <2>4, <2>5, <2>6, <2>7, <2>8 DEF Writes
  <2> QED  BY <1>1, <1>3, <2>8, <2>9, <2>10, <2>11 DEF StartsTwice
<1> QED  BY <1>4, <1>5, <1>6 DEF Protocols

-----------------------------------------------------------------------------
(* What is written of the end of the answer.                               *)

\* The client is told the stop reason and the usage.
Told(p, frames, e, g, stop, usage) ==
    /\ IsList(frames)
    /\ \A c : Client(p, c, e) =>
          /\ Tells2(ScanFrames(p, c, frames), c, stop, usage)
          /\ Client(p, ScanFrames(p, c, frames), g)

\* One frame that tells it.
LEMMA FrameTells ==
    ASSUME NEW p, NEW f, NEW e, NEW g, NEW stop, NEW usage,
           \A d : Reader(p, d, e) =>
              \E q, present, s, read :
                 /\ AllQuiet(q) /\ Reader(p, s, g)
                 /\ read \in {Read(q \o <<MessageDelta(stop, usage, present)>>, s),
                              Read(q \o <<MessageDelta(stop, usage, present), MessageStop>>, s)}
                 /\ ReadResponseEvents(p, f, d) = read
    PROVE  Told(p, <<f>>, e, g, stop, usage)
<1> SUFFICES ASSUME NEW c, Client(p, c, e)
             PROVE  /\ Tells2(ScanFrames(p, c, <<f>>), c, stop, usage)
                    /\ Client(p, ScanFrames(p, c, <<f>>), g)
  BY ListsAre DEF Told
<1>1. IsScan(c) /\ Reader(p, c.decode, e)
  BY DEF Client
<1>2. PICK d : d = c.decode
  OBVIOUS
<1>3. PICK q, present, s, read :
         /\ AllQuiet(q) /\ Reader(p, s, g)
         /\ read \in {Read(q \o <<MessageDelta(stop, usage, present)>>, s),
                      Read(q \o <<MessageDelta(stop, usage, present), MessageStop>>, s)}
         /\ ReadResponseEvents(p, f, d) = read
  BY <1>1, <1>2
<1>4. Tells2(ApplyEvents(c, read), c, stop, usage) /\ ApplyEvents(c, read).decode = s
  BY <1>1, <1>3, EndRead
<1>5. ScanFrames(p, c, <<f>>) = ApplyEvents(c, read)
  BY <1>2, <1>3, OneFrame DEF ScanFrame
<1>6. IsScan(ApplyEvents(c, read))
  BY <1>4 DEF Tells2
<1> QED  BY <1>3, <1>4, <1>5, <1>6 DEF Client

\* What the writer keeps of the end, to tell it later.
Keeps(g, e, stop, usage, present) ==
    /\ Encoder("responses", g) /\ g.items = e.items
    /\ g.stop = IF stop = None THEN e.stop ELSE stop
    /\ present \/ usage # NoUsage => g.usage = usage /\ g.present = present
    /\ ~ present /\ usage = NoUsage => g.usage = e.usage /\ g.present = e.present

\* The end is told at once, but to a Responses client.
DeltaWrites(p, w, e, stop, usage, present) ==
    \E frames, g :
        /\ w = Written(frames, g) /\ Encoder(p, g)
        /\ p = "openai" => Told(p, frames, e, g, stop, usage)
        /\ p = "anthropic" => Told(p, frames, e, g, WriteAnthropicStop(stop), usage)
        /\ p = "responses" => frames = << >> /\ Keeps(g, e, stop, usage, present)

\* What is written of the end, for each kind of client.
LEMMA DeltaIsWritten ==
    ASSUME NEW p \in Protocols, NEW e, Encoder(p, e), NEW stop, NEW usage, NEW present \in BOOLEAN,
           stop # None \/ usage # NoUsage
    PROVE  DeltaWrites(p, WriteResponseEvent(p, MessageDelta(stop, usage, present), e),
                       e, stop, usage, present)
<1>1. PICK ev : ev = MessageDelta(stop, usage, present)
  OBVIOUS
<1>2. ev.type = "message_delta" /\ ev.stop = stop /\ ev.usage = usage /\ ev.present = present
  BY <1>1 DEF MessageDelta
<1>3. CASE p = "openai"
  <2>1. PICK f : f = [Chunk EXCEPT !.choices = (stop # None), !.finish = stop,
                                   !.usage = usage, !.present = ~IsZero(usage)]
    OBVIOUS
  <2>2. WriteOpenAi(ev) = <<f>>
    BY <1>2, <2>1 DEF WriteOpenAi, IsZero
  <2>3. /\ f.choices <=> stop # None
        /\ f.finish = stop /\ f.usage = usage /\ (f.present <=> usage # NoUsage) /\ OneCallAtMost(f)
    BY <2>1 DEF Chunk, IsZero, OneCallAtMost
  <2>4. ASSUME NEW d, Reader(p, d, e)
        PROVE  \E q, x, s, read :
                 /\ AllQuiet(q) /\ Reader(p, s, e)
                 /\ read \in {Read(q \o <<MessageDelta(stop, usage, x)>>, s),
                              Read(q \o <<MessageDelta(stop, usage, x), MessageStop>>, s)}
                 /\ ReadResponseEvents(p, f, d) = read
    <3>1. OpenAiClient(d)
      BY <1>3, <2>4 DEF Reader
    <3>2. ReadResponseEvents(p, f, d) = ReadOpenAi(f, d)
      BY <1>3 DEF ReadResponseEvents
    <3>3. \A s : OpenAiClient(s) => Reader(p, s, e)
      BY <1>3 DEF Reader
    <3>4. CASE stop = None
      <4>1. PICK q, s : /\ AllQuiet(q) /\ OpenAiClient(s)
                        /\ ReadOpenAi(f, d) = Read(q \o <<MessageDelta(None, f.usage, TRUE)>>, s)
        BY <2>3, <3>1, <3>4, ChunkReads
      <4>2. ReadResponseEvents(p, f, d) = Read(q \o <<MessageDelta(stop, usage, TRUE)>>, s)
        BY <2>3, <3>2, <3>4, <4>1
      <4> QED  BY <3>3, <4>1, <4>2
    <3>5. CASE stop # None
      <4>1. PICK q, s : /\ AllQuiet(q) /\ OpenAiClient(s)
                        /\ ReadOpenAi(f, d) =
                             Read(q \o <<MessageDelta(f.finish, f.usage, f.present), MessageStop>>, s)
        BY <2>3, <3>1, <3>5, ChunkReads
      <4>2. ReadResponseEvents(p, f, d) = Read(q \o <<MessageDelta(stop, usage, f.present), MessageStop>>, s)
        BY <2>3, <3>2, <4>1
      <4> QED  BY <3>3, <4>1, <4>2
    <3> QED  BY <3>4, <3>5
  <2>5. Told(p, <<f>>, e, e, stop, usage)
    BY <2>4, FrameTells
  <2>6. WriteResponseEvent(p, ev, e) = Written(<<f>>, e)
    BY <1>3, <2>2 DEF WriteResponseEvent
  <2> QED  BY <1>1, <1>3, <2>5, <2>6 DEF DeltaWrites
<1>4. CASE p = "anthropic"
  <2>1. PICK st : st = WriteAnthropicStop(stop)
    OBVIOUS
  <2>2. PICK f : f = AnthropicDelta(st, usage, TRUE)
    OBVIOUS
  <2>3. WriteAnthropic(ev, e) = Written(<<f>>, e)
    BY <1>2, <2>1, <2>2 DEF WriteAnthropic
  <2>4. f.event = "message_delta" /\ f.stop = st /\ f.usage = usage /\ f.present = TRUE
    BY <2>2 DEF AnthropicDelta
  <2>5. ASSUME NEW d
        PROVE  \E q, x, s, read :
                 /\ AllQuiet(q) /\ Reader(p, s, e)
                 /\ read \in {Read(q \o <<MessageDelta(st, usage, x)>>, s),
                              Read(q \o <<MessageDelta(st, usage, x), MessageStop>>, s)}
                 /\ ReadResponseEvents(p, f, d) = read
    <3>1. ReadResponseEvents(p, f, d) = Read(<<MessageDelta(st, usage, TRUE)>>, d)
      BY <1>4, <2>4 DEF ReadResponseEvents, ReadAnthropic
    <3>2. << >> \o <<MessageDelta(st, usage, TRUE)>> = <<MessageDelta(st, usage, TRUE)>>
      BY EventsAre
    <3>3. AllQuiet(<< >>)
      BY FewQuiet
    <3>4. Reader(p, d, e)
      BY <1>4 DEF Reader
    <3> QED  BY <3>1, <3>2, <3>3, <3>4
  <2>6. Told(p, <<f>>, e, e, st, usage)
    BY <2>5, FrameTells
  <2>7. WriteResponseEvent(p, ev, e) = Written(<<f>>, e)
    BY <1>4, <2>3 DEF WriteResponseEvent
  <2> QED  BY <1>1, <1>4, <2>1, <2>6, <2>7 DEF DeltaWrites
<1>5. CASE p = "responses"
  <2>1. PICK x, s, u, r : e = EncodeOf(x, s, u, r) /\ \A i \in DOMAIN x : IsAccum(x[i])
    BY <1>5 DEF Encoder
  <2>2. e.items = x /\ e.stop = s /\ e.usage = u /\ e.present = r
    BY <2>1 DEF EncodeOf
  <2>3. PICK st, us, pr :
          /\ st = IF stop = None THEN s ELSE stop
          /\ us = IF present \/ usage # NoUsage THEN usage ELSE u
          /\ pr = IF present \/ usage # NoUsage THEN present ELSE r
    OBVIOUS
  <2>4. CachedUsage(ev, e).usage = us /\ CachedUsage(ev, e).present = pr
    BY <1>2, <2>2, <2>3 DEF CachedUsage, IsZero
  <2>5. PICK g : g = [[[e EXCEPT !.stop = st] EXCEPT !.usage = us] EXCEPT !.present = pr]
    OBVIOUS
  <2>6. g = EncodeOf(x, st, us, pr)
    BY <2>1, <2>5 DEF EncodeOf
  <2>7. WriteResponses(ev, e) = Written(<< >>, g)
    <3>1. [e EXCEPT !.stop = IF ev.stop = None THEN @ ELSE ev.stop,
                    !.usage = CachedUsage(ev, e).usage, !.present = CachedUsage(ev, e).present] = g
      BY <1>2, <2>2, <2>3, <2>4, <2>5
    <3> QED  BY <1>2, <3>1 DEF WriteResponses
  <2>8. g.items = x /\ g.stop = st /\ g.usage = us /\ g.present = pr
    BY <2>6 DEF EncodeOf
  <2>9. Encoder("responses", g)
    BY <2>1, <2>6 DEF Encoder
  <2>10. Keeps(g, e, stop, usage, present)
    BY <2>2, <2>3, <2>8, <2>9 DEF Keeps
  <2>11. WriteResponseEvent(p, ev, e) = Written(<< >>, g)
    BY <1>5, <2>7 DEF WriteResponseEvent
  <2> QED  BY <1>1, <1>5, <2>9, <2>10, <2>11 DEF DeltaWrites
<1> QED  BY <1>3, <1>4, <1>5 DEF Protocols

\* The reason with which a Responses stream ends.
EndedAs(e) ==
    IF e.stop = "max_tokens" THEN "max_tokens" ELSE IF HasTool(e.items) THEN "tool_use" ELSE "end_turn"

\* The last event: what is left to tell is told.
StopWrites(p, w, e) ==
    \E frames : /\ w = Written(frames, e)
                /\ p # "responses" => Unheard(p, frames, e, e)
                /\ p = "responses" =>
                      Told(p, frames, e, e, EndedAs(e), IF e.present THEN e.usage ELSE NoUsage)

\* What is written of message_stop, for each kind of client.
LEMMA StopIsWritten ==
    ASSUME NEW p \in Protocols, NEW e, Encoder(p, e)
    PROVE  StopWrites(p, WriteResponseEvent(p, MessageStop, e), e)
<1>1. PICK ev : ev = MessageStop
  OBVIOUS
<1>2. ev.type = "message_stop"
  BY <1>1 DEF MessageStop
<1>3. CASE p = "openai"
  <2>1. WriteResponseEvent(p, ev, e) = Written(WriteOpenAi(ev), e)
    BY <1>3 DEF WriteResponseEvent
  <2>2. Unheard(p, WriteOpenAi(ev), e, e)
    BY <1>1, <1>3, WriteOpenAiQuiet
  <2> QED  BY <1>1, <1>3, <2>1, <2>2 DEF StopWrites
<1>4. CASE p = "anthropic"
  <2>1. WriteResponseEvent(p, ev, e) = WriteAnthropic(ev, e)
    BY <1>4 DEF WriteResponseEvent
  <2>2. WriteAnthropic(ev, e) = Written(<<AnthropicStop>>, e)
    BY <1>2 DEF WriteAnthropic
  <2>3. QuietFrame("anthropic", AnthropicStop, e, e)
    <3>1. 0 \in Nat /\ "text" \in KnownBlocks
      BY DEF KnownBlocks
    <3> QED  BY <3>1, AnthropicFrameQuiet
  <2>4. Unheard("anthropic", <<AnthropicStop>>, e, e)
    BY <2>3, FrameUnheard
  <2> QED  BY <1>1, <1>4, <2>1, <2>2, <2>4 DEF StopWrites
<1>5. CASE p = "responses"
  <2>1. WriteResponseEvent(p, ev, e) = Written(StreamWriteTerminal(e), e)
    BY <1>2, <1>5 DEF WriteResponseEvent, WriteResponses
  <2>2. PICK st, event, output, usage, present :
          /\ st = e.stop /\ event = IF st = "max_tokens" THEN "incomplete" ELSE "completed"
          /\ output = EachOf(Ascending(DOMAIN e.items), LAMBDA i : CompletedItem(e.items[i]))
          /\ usage = IF e.present THEN e.usage ELSE NoUsage
          /\ present = e.present
    OBVIOUS
  <2>3. PICK f : f = Finished(event, output, usage, present)
    OBVIOUS
  <2>4. StreamWriteTerminal(e) = <<f>>
    BY <2>2, <2>3 DEF StreamWriteTerminal
  <2>5. PICK w : w = HasTool(e.items)
    OBVIOUS
  <2>6. ASSUME NEW d, Reader(p, d, e)
        PROVE  \E q, x, s, read :
                 /\ AllQuiet(q) /\ Reader(p, s, e)
                 /\ read \in {Read(q \o <<MessageDelta(EndedAs(e), usage, x)>>, s),
                              Read(q \o <<MessageDelta(EndedAs(e), usage, x), MessageStop>>, s)}
                 /\ ReadResponseEvents(p, f, d) = read
    <3>1. ResponsesClient(d, DOMAIN e.items, w)
      BY <1>5, <2>5, <2>6 DEF Reader
    <3>2. event \in {"completed", "incomplete"}
      BY <2>2
    <3>3. ReadResponses(f, d) =
             Read(<<MessageDelta(IF event = "incomplete" THEN "max_tokens"
                                 ELSE IF w THEN "tool_use" ELSE "end_turn", usage, present),
                    MessageStop>>, d)
      BY <2>3, <3>1, <3>2, FinishedReads
    <3>4. (IF event = "incomplete" THEN "max_tokens" ELSE IF w THEN "tool_use" ELSE "end_turn") = EndedAs(e)
      BY <2>2, <2>5 DEF EndedAs
    <3>5. PICK x : x = <<MessageDelta(EndedAs(e), usage, present), MessageStop>>
      OBVIOUS
    <3>6. ReadResponseEvents(p, f, d) = Read(x, d)
      BY <1>5, <3>3, <3>4, <3>5 DEF ReadResponseEvents
    <3>7. << >> \o x = x
      BY <3>5, ListsAre, ListWithNothing
    <3>8. AllQuiet(<< >>)
      BY FewQuiet
    <3> QED  BY <2>6, <3>5, <3>6, <3>7, <3>8
  <2>7. Told(p, <<f>>, e, e, EndedAs(e), usage)
    BY <2>6, FrameTells
  <2>8. usage = IF e.present THEN e.usage ELSE NoUsage
    BY <2>2
  <2> QED  BY <1>1, <1>5, <2>1, <2>4, <2>7, <2>8 DEF StopWrites
<1> QED  BY <1>3, <1>4, <1>5 DEF Protocols

-----------------------------------------------------------------------------
(* The translator: what it writes of a piece of the answer.                *)

\* The translator by its parts.
TransOf(u, d, e, w, s, x, p, k, o) ==
    /\ u = [decode |-> u.decode, encode |-> u.encode, windows |-> u.windows, start |-> u.start,
            stopped |-> u.stopped, pending |-> u.pending, skipped |-> u.skipped, out |-> u.out]
    /\ u.decode = d /\ u.encode = e /\ u.windows = w /\ u.start = s
    /\ u.stopped = x /\ u.pending = p /\ u.skipped = k /\ u.out = o
\* A translator has these parts.
IsTranslator(t) ==
    TransOf(t, t.decode, t.encode, t.windows, t.start, t.stopped, t.pending, t.skipped, t.out)

\* One part is set.
LEMMA TransSet ==
    ASSUME NEW t, IsTranslator(t), NEW x
    PROVE  /\ TransOf([t EXCEPT !.decode = x], x, t.encode, t.windows, t.start, t.stopped, t.pending, t.skipped, t.out)
           /\ TransOf([t EXCEPT !.encode = x], t.decode, x, t.windows, t.start, t.stopped, t.pending, t.skipped, t.out)
           /\ TransOf([t EXCEPT !.windows = x], t.decode, t.encode, x, t.start, t.stopped, t.pending, t.skipped, t.out)
           /\ TransOf([t EXCEPT !.start = x], t.decode, t.encode, t.windows, x, t.stopped, t.pending, t.skipped, t.out)
           /\ TransOf([t EXCEPT !.stopped = x], t.decode, t.encode, t.windows, t.start, x, t.pending, t.skipped, t.out)
           /\ TransOf([t EXCEPT !.pending = x], t.decode, t.encode, t.windows, t.start, t.stopped, x, t.skipped, t.out)
           /\ TransOf([t EXCEPT !.skipped = x], t.decode, t.encode, t.windows, t.start, t.stopped, t.pending, x, t.out)
           /\ TransOf([t EXCEPT !.out = x], t.decode, t.encode, t.windows, t.start, t.stopped, t.pending, t.skipped, x)
BY DEF IsTranslator, TransOf

\* The windows of restoration that are open, by the index of their block.
AreWindows(w) == Indices(DOMAIN w) /\ \A i \in DOMAIN w : w[i].kind \in SpeechKinds
IsTrans(t) ==
    /\ IsTranslator(t) /\ AreWindows(t.windows) /\ IsList(t.out) /\ Encoder(ingress, t.encode)

\* From the translator t to the translator u nothing is said of the end, and
\* the items J begin, a call among them or not.
Mutters(u, t, J, v) ==
    /\ IsTrans(u) /\ u.decode = t.decode /\ u.start = t.start
    /\ u.stopped = t.stopped /\ u.pending = t.pending
    /\ \E frames : u.out = t.out \o frames /\ Unheard(ingress, frames, t.encode, u.encode)
    /\ Begins(ingress, u.encode, t.encode, J, v)

\* Nothing is said by setting the windows or the count of what is skipped.
LEMMA MuttersNothing ==
    ASSUME NEW t, IsTrans(t), NEW x
    PROVE  /\ Mutters(t, t, {}, FALSE)
           /\ AreWindows(x) => Mutters([t EXCEPT !.windows = x], t, {}, FALSE)
           /\ Mutters([t EXCEPT !.skipped = x], t, {}, FALSE)
<1>1. IsTranslator(t) /\ AreWindows(t.windows) /\ IsList(t.out) /\ Encoder(ingress, t.encode)
  BY DEF IsTrans
<1>2. t.out \o << >> = t.out
  BY <1>1, ListWithNothing
<1>3. Unheard(ingress, << >>, t.encode, t.encode)
  BY NothingUnheard
<1>4. Begins(ingress, t.encode, t.encode, {}, FALSE)
  BY SameBegins
<1>5. ASSUME NEW u, IsTranslator(u), AreWindows(u.windows), u.decode = t.decode, u.start = t.start,
             u.stopped = t.stopped, u.pending = t.pending, u.out = t.out, u.encode = t.encode
      PROVE  Mutters(u, t, {}, FALSE)
  <2>1. IsTrans(u)
    BY <1>1, <1>5 DEF IsTrans
  <2>2. \E frames : u.out = t.out \o frames /\ Unheard(ingress, frames, t.encode, u.encode)
    BY <1>2, <1>3, <1>5
  <2> QED  BY <1>4, <1>5, <2>1, <2>2 DEF Mutters
<1>6. Mutters(t, t, {}, FALSE)
  BY <1>1, <1>5
<1>7. AreWindows(x) => Mutters([t EXCEPT !.windows = x], t, {}, FALSE)
  <2>1. PICK u : u = [t EXCEPT !.windows = x]
    OBVIOUS
  <2>2. TransOf(u, t.decode, t.encode, x, t.start, t.stopped, t.pending, t.skipped, t.out)
    BY <1>1, <2>1, TransSet
  <2> QED  BY <1>5, <2>1, <2>2 DEF TransOf, IsTranslator
<1>8. Mutters([t EXCEPT !.skipped = x], t, {}, FALSE)
  <2>1. PICK u : u = [t EXCEPT !.skipped = x]
    OBVIOUS
  <2>2. TransOf(u, t.decode, t.encode, t.windows, t.start, t.stopped, t.pending, x, t.out)
    BY <1>1, <2>1, TransSet
  <2> QED  BY <1>1, <1>5, <2>1, <2>2 DEF TransOf, IsTranslator
<1> QED  BY <1>6, <1>7, <1>8

\* Items begin, and more items after them.
LEMMA BeginsThenMore ==
    ASSUME NEW p, NEW e, NEW g, NEW h, NEW J, NEW v \in BOOLEAN, NEW K, NEW z \in BOOLEAN,
           Begins(p, g, e, J, v), Begins(p, h, g, K, z)
    PROVE  Begins(p, h, e, J \cup K, v \/ z)
<1> USE DEF Begins
<1>1. CASE p = "responses"
  <2>1. h.stop = e.stop /\ h.usage = e.usage /\ h.present = e.present
    BY <1>1
  <2>2. DOMAIN h.items = DOMAIN e.items \cup (J \cup K)
    BY <1>1
  <2>3. HasTool(h.items) <=> (HasTool(e.items) \/ (v \/ z))
    BY <1>1
  <2> QED  BY <2>1, <2>2, <2>3
<1> QED  BY <1>1

\* Nothing is said of the end in one step and in the next, so nothing is in both.
LEMMA MuttersMore ==
    ASSUME NEW t, IsTrans(t), NEW u, NEW w, NEW J, NEW v \in BOOLEAN, NEW K, NEW z \in BOOLEAN,
           Mutters(u, t, J, v), Mutters(w, u, K, z)
    PROVE  Mutters(w, t, J \cup K, v \/ z)
<1>1. PICK a : u.out = t.out \o a /\ Unheard(ingress, a, t.encode, u.encode)
  BY DEF Mutters
<1>2. PICK b : w.out = u.out \o b /\ Unheard(ingress, b, u.encode, w.encode)
  BY DEF Mutters
<1>3. IsList(t.out) /\ IsList(a) /\ IsList(b)
  BY <1>1, <1>2 DEF IsTrans, Unheard
<1>4. w.out = t.out \o (a \o b)
  <2>1. PICK o : o = t.out
    OBVIOUS
  <2>4. IsList(o)
    BY <1>3, <2>1
  <2>2. (o \o a) \o b = o \o (a \o b)
    <3>1. PICK S, T, R : o \in Seq(S) /\ a \in Seq(T) /\ b \in Seq(R)
      BY <1>3, <2>4 DEF IsList
    <3>2. PICK U : U = S \cup T \cup R
      OBVIOUS
    <3>3. o \in Seq(U) /\ a \in Seq(U) /\ b \in Seq(U)
      BY <3>1, <3>2
    <3> QED  BY <3>3
  <2>3. w.out = (o \o a) \o b
    BY <1>1, <1>2, <2>1
  <2> QED  BY <2>1, <2>2, <2>3
<1>5. Unheard(ingress, a \o b, t.encode, w.encode)
  BY <1>1, <1>2, UnheardJoins
<1>6. Begins(ingress, w.encode, t.encode, J \cup K, v \/ z)
  <2>1. PICK p, e, g, h : p = ingress /\ e = t.encode /\ g = u.encode /\ h = w.encode
    OBVIOUS
  <2>2. Begins(p, g, e, J, v) /\ Begins(p, h, g, K, z)
    BY <2>1 DEF Mutters
  <2>3. Begins(p, h, e, J \cup K, v \/ z)
    BY <2>2, BeginsThenMore
  <2> QED  BY <2>1, <2>3
<1>7. /\ IsTrans(w) /\ w.decode = t.decode /\ w.start = t.start
      /\ w.stopped = t.stopped /\ w.pending = t.pending
  BY DEF Mutters
<1> QED  BY <1>4, <1>5, <1>6, <1>7 DEF Mutters

\* Twice without anything that begins.
LEMMA MuttersTwice ==
    ASSUME NEW t, IsTrans(t), NEW u, NEW w, NEW J, NEW v \in BOOLEAN,
           \/ Mutters(u, t, {}, FALSE) /\ Mutters(w, u, J, v)
           \/ Mutters(u, t, J, v) /\ Mutters(w, u, {}, FALSE)
    PROVE  Mutters(w, t, J, v)
<1>1. J \cup {} = J /\ {} \cup J = J /\ (v \/ FALSE) = v /\ (FALSE \/ v) = v
  OBVIOUS
<1>2. Mutters(u, t, {}, FALSE) /\ Mutters(w, u, J, v) => Mutters(w, t, {} \cup J, FALSE \/ v)
  BY MuttersMore
<1>3. Mutters(u, t, J, v) /\ Mutters(w, u, {}, FALSE) => Mutters(w, t, J \cup {}, v \/ FALSE)
  BY MuttersMore
<1> QED  BY <1>1, <1>2, <1>3

\* What is written of an event goes out.
LEMMA TakeMutters ==
    ASSUME NEW t, IsTrans(t), NEW y, NEW u, u = t \/ u = [t EXCEPT !.encode = y],
           NEW w, NEW J, NEW v, Writes(ingress, w, t.encode, J, v)
    PROVE  Mutters(Take(u, w), t, J, v)
<1>1. PICK frames, g : /\ w = Written(frames, g) /\ Encoder(ingress, g)
                       /\ Unheard(ingress, frames, t.encode, g) /\ Begins(ingress, g, t.encode, J, v)
  BY DEF Writes
<1>2. w.frames = frames /\ w.state = g
  BY <1>1, WrittenIs
<1>3. IsTranslator(t) /\ AreWindows(t.windows) /\ IsList(t.out)
  BY DEF IsTrans
<1>4. PICK x : x = t.out \o frames
  OBVIOUS
<1>5. TransOf(u, t.decode, u.encode, t.windows, t.start, t.stopped, t.pending, t.skipped, t.out)
  <2>1. CASE u = t
    BY <1>3, <2>1 DEF IsTranslator
  <2>2. CASE u = [t EXCEPT !.encode = y]
    <3>1. TransOf(u, t.decode, y, t.windows, t.start, t.stopped, t.pending, t.skipped, t.out)
      BY <1>3, <2>2, TransSet
    <3> QED  BY <3>1 DEF TransOf
  <2> QED  BY <2>1, <2>2
<1>6. PICK a : a = [u EXCEPT !.encode = g]
  OBVIOUS
<1>7. TransOf(a, t.decode, g, t.windows, t.start, t.stopped, t.pending, t.skipped, t.out)
  <2>1. IsTranslator(u)
    BY <1>5 DEF TransOf, IsTranslator
  <2>2. TransOf(a, u.decode, g, u.windows, u.start, u.stopped, u.pending, u.skipped, u.out)
    BY <1>6, <2>1, TransSet
  <2> QED  BY <1>5, <2>2 DEF TransOf
<1>8. PICK b : b = [a EXCEPT !.out = x]
  OBVIOUS
<1>9. TransOf(b, t.decode, g, t.windows, t.start, t.stopped, t.pending, t.skipped, x)
  <2>1. IsTranslator(a)
    BY <1>7 DEF TransOf, IsTranslator
  <2>2. TransOf(b, a.decode, a.encode, a.windows, a.start, a.stopped, a.pending, a.skipped, x)
    BY <1>8, <2>1, TransSet
  <2> QED  BY <1>7, <2>2 DEF TransOf
<1>10. Take(u, w) = b
  <2>1. u.out = t.out
    BY <1>5 DEF TransOf
  <2>2. Take(u, w) = [u EXCEPT !.encode = g, !.out = u.out \o frames]
    BY <1>2 DEF Take
  <2>3. Take(u, w) = [u EXCEPT !.encode = g, !.out = x]
    BY <1>4, <2>1, <2>2
  <2> QED  BY <1>6, <1>8, <2>3
<1>11. IsList(x)
  BY <1>1, <1>3, <1>4, ListsJoin DEF Unheard
<1>12. IsTrans(b)
  BY <1>1, <1>3, <1>9, <1>11 DEF IsTrans, TransOf, IsTranslator
<1>13. Mutters(b, t, J, v)
  BY <1>1, <1>4, <1>9, <1>12 DEF Mutters, TransOf
<1> QED  BY <1>10, <1>13

\* An event of whose frames no end is heard is emitted.
LEMMA EmitMutters ==
    ASSUME NEW t, IsTrans(t), NEW ev, NEW J, NEW v,
           Writes(ingress, WriteResponseEvent(ingress, ev, t.encode), t.encode, J, v)
    PROVE  Mutters(EmitIrEvent(t, ev), t, J, v)
BY TakeMutters DEF EmitIrEvent

\* A piece, a stop of a block or an error is emitted, and nothing begins.
LEMMA TalkMutters ==
    ASSUME ingress \in Protocols, NEW t, IsTrans(t), NEW ev, IsTalk(ev)
    PROVE  Mutters(EmitIrEvent(t, ev), t, {}, FALSE)
BY EmitMutters, TalkWritten DEF IsTrans

-----------------------------------------------------------------------------
(* The windows of restoration, and events that are no end.                 *)

\* The tail of a window.
LEMMA FlushMutters ==
    ASSUME ingress \in Protocols, NEW t, IsTrans(t), NEW i
    PROVE  Mutters(FlushDelta(t, i), t, {}, FALSE)
<1>1. CASE i \notin DOMAIN t.windows
  <2>1. FlushDelta(t, i) = t
    BY <1>1 DEF FlushDelta
  <2> QED  BY <2>1, MuttersNothing
<1>2. CASE i \in DOMAIN t.windows
  <2>1. PICK kind, tail, x, u :
          /\ kind = t.windows[i].kind /\ tail = Flush(t.windows[i].buffer, PairsOf(t.windows[i].kind))
          /\ x = Drop(t.windows, i) /\ u = [t EXCEPT !.windows = x]
    OBVIOUS
  <2>2. FlushDelta(t, i) = EmitTail(u, i, kind, tail)
    BY <1>2, <2>1 DEF FlushDelta
  <2>3. i \in Nat /\ kind \in SpeechKinds
    BY <1>2, <2>1 DEF IsTrans, AreWindows, Indices
  <2>4. AreWindows(x)
    <3>1. DOMAIN x \subseteq DOMAIN t.windows /\ \A j \in DOMAIN x : x[j] = t.windows[j]
      BY <2>1 DEF Drop
    <3>2. IsFiniteSet(DOMAIN x)
      BY <3>1, FS_Subset DEF IsTrans, AreWindows, Indices
    <3> QED  BY <3>1, <3>2 DEF IsTrans, AreWindows, Indices
  <2>5. Mutters(u, t, {}, FALSE)
    BY <2>1, <2>4, MuttersNothing
  <2>6. IsTalk(BlockDelta(i, kind, tail))
    BY <2>3 DEF IsTalk
  <2>7. Mutters(EmitIrEvent(u, BlockDelta(i, kind, tail)), u, {}, FALSE)
    BY <2>5, <2>6, TalkMutters DEF Mutters
  <2>8. Mutters(EmitIrEvent(u, BlockDelta(i, kind, tail)), t, {}, FALSE)
    BY <2>5, <2>7, MuttersTwice
  <2> QED  BY <2>2, <2>5, <2>8 DEF EmitTail
<1> QED  BY <1>1, <1>2

\* h takes the translator through the blocks whose windows are flushed.
Flushes(h, t, indices, n) ==
    /\ h = [i \in 0 .. n |-> h[i]] /\ h[0] = t
    /\ \A i \in 1 .. n : h[i] = FlushDelta(h[i - 1], indices[i])
    /\ \A i \in 0 .. n : Mutters(h[i], t, {}, FALSE)

\* The flush of windows, block by block, says nothing of an end.
LEMMA FlushesExist ==
    ASSUME ingress \in Protocols, NEW t, IsTrans(t), NEW indices, NEW n \in Nat
    PROVE  \E h : Flushes(h, t, indices, n)
<1> DEFINE T == {k \in Nat : \E h : Flushes(h, t, indices, k)}
<1>1. 0 \in T
  <2> DEFINE h == [i \in 0 .. 0 |-> t]
  <2>1. h = [i \in 0 .. 0 |-> h[i]] /\ h[0] = t /\ \A i \in 0 .. 0 : h[i] = t
    OBVIOUS
  <2>2. \A i \in 1 .. 0 : FALSE
    OBVIOUS
  <2> HIDE DEF h
  <2>3. Flushes(h, t, indices, 0)
    BY <2>1, <2>2, MuttersNothing DEF Flushes
  <2> QED  BY <2>3
<1>2. ASSUME NEW k \in Nat, k \in T PROVE k + 1 \in T
  <2>1. PICK h : Flushes(h, t, indices, k)
    BY <1>2
  <2>2. PICK v : v = FlushDelta(h[k], indices[k + 1])
    OBVIOUS
  <2>3. Mutters(h[k], t, {}, FALSE)
    <3>1. k \in 0 .. k
      OBVIOUS
    <3> QED  BY <2>1, <3>1 DEF Flushes
  <2>4. Mutters(v, t, {}, FALSE)
    <3>1. PICK y : y = h[k]
      OBVIOUS
    <3>2. IsTrans(y) /\ Mutters(y, t, {}, FALSE)
      BY <2>3, <3>1 DEF Mutters
    <3>3. Mutters(v, y, {}, FALSE)
      BY <2>2, <3>1, <3>2, FlushMutters
    <3> QED  BY <3>2, <3>3, MuttersTwice
  <2> DEFINE g == [i \in 0 .. k + 1 |-> IF i = k + 1 THEN v ELSE h[i]]
  <2>5. g = [i \in 0 .. k + 1 |-> g[i]] /\ g[0] = t
    BY <2>1 DEF Flushes
  <2>6. ASSUME NEW i \in 1 .. k + 1 PROVE g[i] = FlushDelta(g[i - 1], indices[i])
    <3>1. CASE i = k + 1
      <4>1. g[i] = v /\ g[i - 1] = h[k]
        BY <3>1
      <4> HIDE DEF g
      <4> QED  BY <2>2, <3>1, <4>1
    <3>2. CASE i # k + 1
      <4>1. i \in 1 .. k /\ g[i] = h[i] /\ g[i - 1] = h[i - 1]
        BY <3>2
      <4> HIDE DEF g
      <4> QED  BY <2>1, <4>1 DEF Flushes
    <3> QED  BY <3>1, <3>2
  <2>7. ASSUME NEW i \in 0 .. k + 1 PROVE Mutters(g[i], t, {}, FALSE)
    <3>1. CASE i = k + 1
      <4>1. g[i] = v
        BY <3>1
      <4> QED  BY <2>4, <4>1
    <3>2. CASE i # k + 1
      <4>1. i \in 0 .. k /\ g[i] = h[i]
        BY <3>2
      <4> QED  BY <2>1, <4>1 DEF Flushes
    <3> QED  BY <3>1, <3>2
  <2> HIDE DEF g
  <2>8. Flushes(g, t, indices, k + 1)
    BY <2>5, <2>6, <2>7 DEF Flushes
  <2> QED  BY <2>8
<1>3. n \in T
  <2> HIDE DEF T
  <2>1. Nat \subseteq T
    BY <1>1, <1>2, NatSetInduction
  <2> QED  BY <2>1
<1> QED  BY <1>3

\* The tails of all windows.
LEMMA FlushAllMutters ==
    ASSUME ingress \in Protocols, NEW t, IsTrans(t)
    PROVE  Mutters(EmitFlushAll(t), t, {}, FALSE)
<1>1. PICK x : x = Ascending(DOMAIN t.windows)
  OBVIOUS
<1>2. Len(x) \in Nat
  <2>1. PICK S : S = DOMAIN t.windows
    OBVIOUS
  <2>2. IsFiniteSet(S) /\ S \subseteq Nat
    BY <2>1 DEF IsTrans, AreWindows, Indices
  <2>3. Cardinality(S) \in Nat /\ Len(Ascending(S)) = Cardinality(S)
    BY <2>2, AscendingIsList
  <2> QED  BY <1>1, <2>1, <2>3
<1> DEFINE n == Len(x)
           Value(f, i) == IF i = 0 THEN t ELSE FlushDelta(f[i - 1], x[i])
           Iterates(f) == f = [i \in 0 .. n |-> Value(f, i)]
<1>3. PICK h : Flushes(h, t, x, n)
  BY <1>2, FlushesExist
<1>4. FlushEach(t, x) = (CHOOSE f : Iterates(f))[n]
  BY DEF FlushEach
<1>5. Iterates(h)
  <2>1. ASSUME NEW i \in 0 .. n PROVE h[i] = Value(h, i)
    <3>1. CASE i = 0
      BY <1>3, <3>1 DEF Flushes
    <3>2. CASE i # 0
      <4>1. i \in 1 .. n
        BY <1>2, <3>2
      <4> QED  BY <1>3, <3>2, <4>1 DEF Flushes
    <3> QED  BY <3>1, <3>2
  <2>2. h = [i \in 0 .. n |-> h[i]]
    BY <1>3 DEF Flushes
  <2> HIDE DEF Value, n
  <2> QED  BY <2>1, <2>2
<1>6. PICK f : f = CHOOSE y : Iterates(y)
  OBVIOUS
<1>7. Iterates(f)
  <2> HIDE DEF Iterates
  <2> QED  BY <1>5, <1>6
<1>8. \A i \in 0 .. n : f[i] = Value(f, i) /\ h[i] = Value(h, i)
  <2> HIDE DEF Value, n
  <2> QED  BY <1>5, <1>7
<1>9. f[n] = h[n]
  <2>1. f[0] = h[0]
    BY <1>2, <1>8
  <2>2. ASSUME NEW i \in 1 .. n, f[i - 1] = h[i - 1] PROVE f[i] = h[i]
    BY <1>2, <1>8, <2>2
  <2> HIDE DEF n, Value, Iterates
  <2>3. n \in Nat
    BY <1>2 DEF n
  <2> QED  BY <2>1, <2>2, <2>3, SameSteps
<1>10. EmitFlushAll(t) = h[n]
  <2> HIDE DEF Iterates
  <2> QED  BY <1>1, <1>4, <1>6, <1>9 DEF EmitFlushAll
<1>11. Len(x) \in 0 .. Len(x)
  BY <1>2
<1> HIDE DEF Value, Iterates
<1> QED  BY <1>3, <1>10, <1>11 DEF Flushes

\* An event that is restored is still what it was.
LEMMA RestoreMutters ==
    ASSUME NEW t, IsTrans(t), NEW ev, IsStart(ev) \/ IsTalk(ev)
    PROVE  /\ Mutters(RestoreEvent(t, ev).state, t, {}, FALSE)
           /\ IsStart(ev) => RestoreEvent(t, ev) = [state |-> t, ev |-> ev]
           /\ IsTalk(ev) => IsTalk(RestoreEvent(t, ev).ev)
<1>1. Mutters(t, t, {}, FALSE)
  BY MuttersNothing
<1>6. PICK r : r = RestoreEvent(t, ev)
  OBVIOUS
<1>7. \A s, x : r = [state |-> s, ev |-> x] => r.state = s /\ r.ev = x
  OBVIOUS
<1>2. CASE ~ restoring
  <2>1. RestoreEvent(t, ev) = [state |-> t, ev |-> ev]
    BY <1>2 DEF RestoreEvent
  <2>2. r.state = t /\ r.ev = ev
    BY <1>6, <1>7, <2>1
  <2> QED  BY <1>1, <1>6, <2>1, <2>2
<1>3. CASE restoring /\ IsPlainDelta(ev)
  <2>1. ev.type = "block_delta" /\ ev.kind \in {"text", "args", "reasoning"}
    BY <1>3 DEF IsPlainDelta
  <2>2. PICK i, k, x : i \in Nat /\ k \in SpeechKinds /\ ev = BlockDelta(i, k, x)
    BY <2>1 DEF IsStart, IsTalk, BlockStart, BlockStop, ErrorEvent
  <2>3. ev.index = i /\ ev.kind = k /\ ev.text = x
    BY <2>2 DEF BlockDelta
  <2>4. PICK p : p = Push(BufferOf(t, ev.index), ev.text, PairsOf(ev.kind), AllPairs)
    OBVIOUS
  <2>5. PICK w, y : w = Put(t.windows, i, [buffer |-> p.buffer, kind |-> k]) /\ y = p.out
    OBVIOUS
  <2>6. RestoreEvent(t, ev) = [state |-> [t EXCEPT !.windows = w], ev |-> [ev EXCEPT !.text = y]]
    <3>1. RestoreEvent(t, ev) = Pushed(t, ev, p)
      BY <1>3, <2>4 DEF RestoreEvent, RestoreDelta
    <3> QED  BY <2>3, <2>5, <3>1 DEF Pushed
  <2>7. [ev EXCEPT !.text = y] = BlockDelta(i, k, y)
    BY <2>2 DEF BlockDelta
  <2>8. AreWindows(w)
    <3>1. PICK z, a : z = t.windows /\ a = [buffer |-> p.buffer, kind |-> k]
      OBVIOUS
    <3>2. AreWindows(z) /\ a.kind = k
      BY <3>1 DEF IsTrans
    <3>3. DOMAIN w = DOMAIN z \cup {i} /\ \A j \in DOMAIN w : w[j] = IF j = i THEN a ELSE z[j]
      BY <2>5, <3>1 DEF Put
    <3>4. IsFiniteSet(DOMAIN w)
      BY <3>2, <3>3, FS_AddElement DEF AreWindows, Indices
    <3> QED  BY <2>2, <3>2, <3>3, <3>4 DEF AreWindows, Indices
  <2>9. Mutters([t EXCEPT !.windows = w], t, {}, FALSE)
    BY <2>8, MuttersNothing
  <2>10. IsTalk(BlockDelta(i, k, y))
    BY <2>2 DEF IsTalk
  <2>11. ~ IsStart(ev)
    BY <2>1 DEF IsStart, BlockStart
  <2>12. r.state = [t EXCEPT !.windows = w] /\ r.ev = BlockDelta(i, k, y)
    BY <1>6, <1>7, <2>6, <2>7
  <2> QED  BY <1>6, <2>9, <2>10, <2>11, <2>12
<1>4. CASE restoring /\ ~ IsPlainDelta(ev) /\ ev.type = "error"
  <2>1. PICK x : ev = ErrorEvent(x)
    BY <1>4 DEF IsStart, IsTalk, BlockStart, BlockStop, BlockDelta
  <2>2. PICK y : y = RestoreInline(ev.text)
    OBVIOUS
  <2>3. RestoreEvent(t, ev) = [state |-> t, ev |-> [ev EXCEPT !.text = y]]
    BY <1>4, <2>2 DEF RestoreEvent
  <2>4. [ev EXCEPT !.text = y] = ErrorEvent(y)
    BY <2>1 DEF ErrorEvent
  <2>5. ~ IsStart(ev)
    BY <1>4 DEF IsStart, BlockStart
  <2>6. r.state = t /\ r.ev = ErrorEvent(y)
    BY <1>6, <1>7, <2>3, <2>4
  <2>7. IsTalk(ErrorEvent(y))
    BY DEF IsTalk
  <2> QED  BY <1>1, <1>6, <2>5, <2>6, <2>7
<1>5. CASE restoring /\ ~ IsPlainDelta(ev) /\ ev.type # "error"
  <2>1. RestoreEvent(t, ev) = [state |-> t, ev |-> ev]
    BY <1>5 DEF RestoreEvent
  <2>2. r.state = t /\ r.ev = ev
    BY <1>6, <1>7, <2>1
  <2> QED  BY <1>1, <1>6, <2>1, <2>2
<1> QED  BY <1>2, <1>3, <1>4, <1>5

\* A piece, an end of a block or an error on its way.
LEMMA RestoredTalkMutters ==
    ASSUME ingress \in Protocols, NEW t, IsTrans(t), t.pending = FALSE, NEW ev, IsTalk(ev)
    PROVE  Mutters(RestoreAndEmit(t, ev), t, {}, FALSE)
<1>1. PICK u : u = FlushBefore(t, ev)
  OBVIOUS
<1>2. Mutters(u, t, {}, FALSE)
  <2>1. u \in {t, FlushDelta(t, ev.index), EmitFlushAll(t)}
    BY <1>1 DEF FlushBefore
  <2> QED  BY <2>1, MuttersNothing, FlushMutters, FlushAllMutters
<1>3. PICK r : r = RestoreEvent(u, ev)
  OBVIOUS
<1>4. IsTrans(u)
  BY <1>2 DEF Mutters
<1>5. Mutters(r.state, u, {}, FALSE) /\ IsTalk(r.ev)
  BY <1>3, <1>4, RestoreMutters
<1>6. IsTrans(r.state)
  BY <1>5 DEF Mutters
<1>7. PICK w : w = EmitIrEvent(r.state, r.ev)
  OBVIOUS
<1>8. Mutters(w, r.state, {}, FALSE)
  BY <1>5, <1>6, <1>7, TalkMutters
<1>9. Mutters(r.state, t, {}, FALSE)
  BY <1>2, <1>5, MuttersTwice
<1>10. Mutters(w, t, {}, FALSE)
  BY <1>8, <1>9, MuttersTwice
<1>11. w.pending = FALSE
  BY <1>10 DEF Mutters
<1>12. EmitStopAfter(w) = w
  BY <1>11 DEF EmitStopAfter
<1>13. RestoreAndEmit(t, ev) \in {r.state, w}
  <2>1. RestoreAndEmit(t, ev) = EmitRestored(r)
    BY <1>1, <1>3 DEF RestoreAndEmit
  <2>2. EmitRestored(r) \in {r.state, EmitStopAfter(w)}
    BY <1>7 DEF EmitRestored
  <2> QED  BY <1>12, <2>1, <2>2
<1> QED  BY <1>9, <1>10, <1>13

\* The start of a block on its way, after the writer was asked for it.
LEMMA RestoredStartMutters ==
    ASSUME NEW t, IsTrans(t), t.pending = FALSE, NEW ev, IsStart(ev),
           NEW y, NEW u, u = t \/ u = [t EXCEPT !.encode = y], NEW J, NEW v,
           Writes(ingress, WriteResponseEvent(ingress, ev, u.encode), t.encode, J, v)
    PROVE  Mutters(RestoreAndEmit(u, ev), t, J, v)
<1>1. ev.type = "block_start"
  BY DEF IsStart, BlockStart
<1>2. FlushBefore(u, ev) = u
  BY <1>1 DEF FlushBefore
<1>3. RestoreEvent(u, ev) = [state |-> u, ev |-> ev]
  BY <1>1 DEF RestoreEvent, IsPlainDelta
<1>4. PICK w : w = EmitIrEvent(u, ev)
  OBVIOUS
<1>5. RestoreAndEmit(u, ev) = EmitStopAfter(w)
  <2>1. PICK r : r = [state |-> u, ev |-> ev]
    OBVIOUS
  <2>2. r.state = u /\ r.ev = ev
    BY <2>1
  <2>3. RestoreAndEmit(u, ev) = EmitRestored(r)
    BY <1>2, <1>3, <2>1 DEF RestoreAndEmit
  <2> QED  BY <1>1, <1>4, <2>2, <2>3 DEF EmitRestored, IsPlainDelta
<1>6. Mutters(w, t, J, v)
  BY <1>4, TakeMutters DEF EmitIrEvent
<1>7. w.pending = FALSE
  BY <1>6 DEF Mutters
<1> QED  BY <1>5, <1>6, <1>7 DEF EmitStopAfter

-----------------------------------------------------------------------------
(* The translator and one event that is no end.                            *)

\* The answer is under way: nothing is over, and nothing waits.
UnderWay(t) == IsTrans(t) /\ t.stopped = FALSE /\ t.pending = FALSE

\* An answer of which no end was said is still under way.
LEMMA StillUnderWay ==
    ASSUME NEW t, UnderWay(t), NEW u, NEW J, NEW v, Mutters(u, t, J, v)
    PROVE  UnderWay(u)
BY DEF UnderWay, Mutters

\* Nothing is stopped by it.
LEMMA NotStopped ==
    ASSUME NEW t, UnderWay(t), NEW ev, ev.type # "message_stop"
    PROVE  [t EXCEPT !.stopped = @ \/ ev.type = "message_stop"] = t
<1>1. IsTranslator(t) /\ t.stopped = FALSE
  BY DEF UnderWay, IsTrans
<1>2. PICK x : x = (t.stopped \/ ev.type = "message_stop")
  OBVIOUS
<1>3. x = FALSE
  BY <1>1, <1>2
<1>4. PICK u : u = [t EXCEPT !.stopped = FALSE]
  OBVIOUS
<1>5. TransOf(u, t.decode, t.encode, t.windows, t.start, FALSE, t.pending, t.skipped, t.out)
  BY <1>1, <1>4, TransSet
<1>6. u = t
  BY <1>1, <1>5 DEF TransOf, IsTranslator
<1>7. [t EXCEPT !.stopped = @ \/ ev.type = "message_stop"] = [t EXCEPT !.stopped = x]
  BY <1>2
<1> QED  BY <1>3, <1>4, <1>6, <1>7

\* A piece, a stop of a block or an error is translated under way.
LEMMA TalkTranslated ==
    ASSUME ingress \in Protocols, NEW t, UnderWay(t), NEW ev, IsTalk(ev)
    PROVE  Mutters(TranslateEvent(t, ev), t, {}, FALSE)
<1>1. ev.type \in {"block_delta", "block_stop", "error"}
  BY DEF IsTalk, BlockDelta, BlockStop, ErrorEvent
<1>2. LockUsage(t, ev) = t /\ Backfilled(t, ev) = ev /\ RestoredStart(ev) = ev
  BY <1>1 DEF LockUsage, Backfilled, RestoredStart
<1>3. TranslateEvent(t, ev) = TranslateSet(t, ev)
  BY <1>2 DEF TranslateEvent
<1>4. PICK probe : probe = WriteResponseEvent(ingress, ev, t.encode)
  OBVIOUS
<1>5. TranslateSet(t, ev) = SkipOrEmit(t, ev, probe)
  <2>1. [t EXCEPT !.stopped = @ \/ ev.type = "message_stop"] = t
    BY <1>1, NotStopped
  <2>2. t.stopped = FALSE
    BY DEF UnderWay
  <2> QED  BY <1>1, <1>4, <2>1, <2>2 DEF TranslateSet
<1>6. SkipOrEmit(t, ev, probe) \in {t, FlushDelta(t, ev.index), RestoreAndEmit(t, ev)}
  BY <1>1 DEF SkipOrEmit, Probes
<1>7. IsTrans(t) /\ t.pending = FALSE
  BY DEF UnderWay
<1>8. /\ Mutters(t, t, {}, FALSE) /\ Mutters(FlushDelta(t, ev.index), t, {}, FALSE)
      /\ Mutters(RestoreAndEmit(t, ev), t, {}, FALSE)
  BY <1>7, MuttersNothing, FlushMutters, RestoredTalkMutters
<1> QED  BY <1>3, <1>5, <1>6, <1>8

\* The start of a new block is translated under way.
LEMMA StartTranslated ==
    ASSUME ingress \in Protocols, NEW t, UnderWay(t), NEW j \in Nat, NEW m \in Metas, NEW n,
           ingress = "responses" => j \notin DOMAIN t.encode.items
    PROVE  Mutters(TranslateEvent(t, BlockStart(j, m, n)), t, {j}, m = "tool")
<1>1. PICK a : a = BlockStart(j, m, n)
  OBVIOUS
<1>2. a.type = "block_start" /\ a.index = j /\ a.meta = m /\ a.name = n
  BY <1>1 DEF BlockStart
<1>3. LockUsage(t, a) = t /\ Backfilled(t, a) = a
  BY <1>2 DEF LockUsage, Backfilled
<1>4. PICK ev : ev = RestoredStart(a)
  OBVIOUS
<1>5. PICK x : ev = BlockStart(j, m, x)
  <2>1. \A x : [a EXCEPT !.name = x] = BlockStart(j, m, x)
    BY <1>1 DEF BlockStart
  <2> QED  BY <1>1, <1>4, <2>1 DEF RestoredStart
<1>6. ev.type = "block_start" /\ ev.index = j /\ ev.meta = m
  BY <1>5 DEF BlockStart
<1>7. TranslateEvent(t, a) = TranslateSet(t, ev)
  BY <1>3, <1>4 DEF TranslateEvent
<1>8. PICK probe : probe = WriteResponseEvent(ingress, ev, t.encode)
  OBVIOUS
<1>9. TranslateSet(t, ev) = SkipOrEmit(t, ev, probe)
  <2>1. [t EXCEPT !.stopped = @ \/ ev.type = "message_stop"] = t
    BY <1>6, NotStopped
  <2>2. t.stopped = FALSE
    BY DEF UnderWay
  <2> QED  BY <1>6, <1>8, <2>1, <2>2 DEF TranslateSet
<1>10. IsTrans(t) /\ t.pending = FALSE /\ IsStart(ev)
  BY <1>5 DEF UnderWay, IsStart
<1>11. StartsTwice(ingress, ev, t.encode, {j}, m = "tool")
  BY <1>5, <1>10, StartWritten DEF IsTrans
<1>12. /\ Writes(ingress, probe, t.encode, {j}, m = "tool")
       /\ probe.frames = << >> => ingress = "openai" /\ probe.state = t.encode
       /\ Writes(ingress, WriteResponseEvent(ingress, ev, probe.state), t.encode, {j}, m = "tool")
  BY <1>8, <1>11 DEF StartsTwice
<1>13. PICK u : u = [t EXCEPT !.encode = probe.state]
  OBVIOUS
<1>14. IsTranslator(t)
  BY <1>10 DEF IsTrans
<1>15. TransOf(u, t.decode, probe.state, t.windows, t.start, t.stopped, t.pending, t.skipped, t.out)
  BY <1>13, <1>14, TransSet
<1>16. CASE Probes(ev) /\ probe.frames = << >>
  <2>1. u = t
    BY <1>12, <1>14, <1>15, <1>16 DEF TransOf, IsTranslator
  <2>2. PICK k : k = t.skipped \cup {ev.index}
    OBVIOUS
  <2>3. SkipOrEmit(t, ev, probe) = [u EXCEPT !.skipped = k]
    BY <1>13, <1>16, <2>1, <2>2 DEF SkipOrEmit
  <2>4. Mutters([t EXCEPT !.skipped = k], t, {}, FALSE)
    BY <1>10, MuttersNothing
  <2>5. \A y : Mutters(y, t, {}, FALSE) => Mutters(y, t, {j}, m = "tool")
    BY <1>12, <1>16 DEF Mutters, Begins
  <2> QED  BY <1>1, <1>7, <1>9, <2>1, <2>3, <2>4, <2>5
<1>17. CASE Probes(ev) /\ probe.frames # << >>
  <2>1. SkipOrEmit(t, ev, probe) = RestoreAndEmit(u, ev)
    BY <1>6, <1>13, <1>17 DEF SkipOrEmit
  <2>2. u.encode = probe.state
    BY <1>15 DEF TransOf
  <2>3. Mutters(RestoreAndEmit(u, ev), t, {j}, m = "tool")
    BY <1>10, <1>12, <1>13, <2>2, RestoredStartMutters
  <2> QED  BY <1>1, <1>7, <1>9, <2>1, <2>3
<1>18. CASE ~ Probes(ev)
  <2>1. SkipOrEmit(t, ev, probe) = RestoreAndEmit(t, ev)
    BY <1>6, <1>18 DEF SkipOrEmit
  <2>2. Mutters(RestoreAndEmit(t, ev), t, {j}, m = "tool")
    BY <1>8, <1>10, <1>12, RestoredStartMutters
  <2> QED  BY <1>1, <1>7, <1>9, <2>1, <2>2
<1> QED  BY <1>16, <1>17, <1>18

-----------------------------------------------------------------------------
(* The translator and the events of a frame, and several frames.           *)

\* h takes the translator through the events that were read.
Turns(h, t, read, n) ==
    /\ h = [i \in 0 .. n |-> h[i]] /\ h[0] = [t EXCEPT !.decode = read.state]
    /\ \A i \in 1 .. n : h[i] = TranslateEvent(h[i - 1], read.events[i])

\* There is such a function for every number of events.
LEMMA TurnsExist ==
    ASSUME NEW t, NEW read, NEW n \in Nat
    PROVE  \E h : Turns(h, t, read, n)
<1> DEFINE T == {k \in Nat : \E h : Turns(h, t, read, k)}
<1>1. 0 \in T
  <2>1. PICK s : s = [t EXCEPT !.decode = read.state]
    OBVIOUS
  <2> DEFINE h == [i \in 0 .. 0 |-> s]
  <2>2. h = [i \in 0 .. 0 |-> h[i]] /\ h[0] = s
    OBVIOUS
  <2>3. \A i \in 1 .. 0 : FALSE
    OBVIOUS
  <2> HIDE DEF h
  <2>4. Turns(h, t, read, 0)
    BY <2>1, <2>2, <2>3 DEF Turns
  <2> QED  BY <2>4
<1>2. ASSUME NEW k \in Nat, k \in T PROVE k + 1 \in T
  <2>1. PICK h : Turns(h, t, read, k)
    BY <1>2
  <2>2. PICK v : v = TranslateEvent(h[k], read.events[k + 1])
    OBVIOUS
  <2> DEFINE g == [i \in 0 .. k + 1 |-> IF i = k + 1 THEN v ELSE h[i]]
  <2>3. g = [i \in 0 .. k + 1 |-> g[i]] /\ g[0] = h[0]
    OBVIOUS
  <2>4. ASSUME NEW i \in 1 .. k + 1 PROVE g[i] = TranslateEvent(g[i - 1], read.events[i])
    <3>1. CASE i = k + 1
      <4>1. g[i] = v /\ g[i - 1] = h[k]
        BY <3>1
      <4> HIDE DEF g
      <4> QED  BY <2>2, <3>1, <4>1
    <3>2. CASE i # k + 1
      <4>1. i \in 1 .. k /\ g[i] = h[i] /\ g[i - 1] = h[i - 1]
        BY <3>2
      <4> HIDE DEF g
      <4> QED  BY <2>1, <4>1 DEF Turns
    <3> QED  BY <3>1, <3>2
  <2> HIDE DEF g
  <2>5. Turns(g, t, read, k + 1)
    BY <2>1, <2>3, <2>4 DEF Turns
  <2> QED  BY <2>5
<1>3. n \in T
  <2> HIDE DEF T
  <2>1. Nat \subseteq T
    BY <1>1, <1>2, NatSetInduction
  <2> QED  BY <2>1
<1> QED  BY <1>3

\* TranslateEvents is its last value.
LEMMA TurnsTo ==
    ASSUME NEW t, NEW read, Len(read.events) \in Nat, NEW h, Turns(h, t, read, Len(read.events))
    PROVE  TranslateEvents(t, read) = h[Len(read.events)]
<1> DEFINE n == Len(read.events)
           Value(f, i) == IF i = 0 THEN [t EXCEPT !.decode = read.state]
                          ELSE TranslateEvent(f[i - 1], read.events[i])
           Iterates(f) == f = [i \in 0 .. n |-> Value(f, i)]
<1>1. n \in Nat
  OBVIOUS
<1>2. TranslateEvents(t, read) = (CHOOSE f : Iterates(f))[n]
  BY DEF TranslateEvents
<1>3. Iterates(h)
  <2>1. ASSUME NEW i \in 0 .. n PROVE h[i] = Value(h, i)
    <3>1. CASE i = 0
      BY <3>1 DEF Turns
    <3>2. CASE i # 0
      <4>1. i \in 1 .. n
        BY <1>1, <3>2
      <4> QED  BY <3>2, <4>1 DEF Turns
    <3> QED  BY <3>1, <3>2
  <2>2. h = [i \in 0 .. n |-> h[i]]
    BY DEF Turns
  <2> HIDE DEF Value, n
  <2> QED  BY <2>1, <2>2
<1>4. PICK f : f = CHOOSE y : Iterates(y)
  OBVIOUS
<1>5. Iterates(f)
  <2> HIDE DEF Iterates
  <2> QED  BY <1>3, <1>4
<1>6. \A i \in 0 .. n : f[i] = Value(f, i) /\ h[i] = Value(h, i)
  <2> HIDE DEF Value, n
  <2> QED  BY <1>3, <1>5
<1>7. f[n] = h[n]
  <2>1. f[0] = h[0]
    BY <1>1, <1>6
  <2>2. ASSUME NEW i \in 1 .. n, f[i - 1] = h[i - 1] PROVE f[i] = h[i]
    BY <1>1, <1>6, <2>2
  <2> HIDE DEF n, Value, Iterates
  <2> QED  BY <1>1, <2>1, <2>2, SameSteps
<1> HIDE DEF Iterates
<1> QED  BY <1>2, <1>4, <1>7

\* No event, one and two.
LEMMA NoTurn ==
    ASSUME NEW t, NEW d
    PROVE  TranslateEvents(t, Read(<< >>, d)) = [t EXCEPT !.decode = d]
<1>1. PICK read : read = Read(<< >>, d)
  OBVIOUS
<1>2. read.state = d /\ read.events = << >> /\ Len(read.events) = 0
  BY <1>1 DEF Read
<1>3. PICK h : Turns(h, t, read, 0)
  BY TurnsExist
<1>4. h[0] = [t EXCEPT !.decode = d]
  BY <1>2, <1>3 DEF Turns
<1> QED  BY <1>1, <1>2, <1>3, <1>4, TurnsTo

\* One event is translated.
LEMMA OneTurn ==
    ASSUME NEW t, NEW a, NEW d
    PROVE  TranslateEvents(t, Read(<<a>>, d)) = TranslateEvent([t EXCEPT !.decode = d], a)
<1>1. PICK read, s : read = Read(<<a>>, d) /\ s = [t EXCEPT !.decode = d]
  OBVIOUS
<1>2. read.state = d /\ Len(read.events) = 1 /\ read.events[1] = a
  BY <1>1 DEF Read
<1>3. PICK h : Turns(h, t, read, 1)
  BY TurnsExist
<1>4. h[0] = s
  BY <1>1, <1>2, <1>3 DEF Turns
<1>5. h[1] = TranslateEvent(h[1 - 1], read.events[1])
  BY <1>3 DEF Turns
<1>6. h[1] = TranslateEvent(s, a)
  BY <1>2, <1>4, <1>5
<1>7. Turns(h, t, read, Len(read.events)) /\ Len(read.events) \in Nat
  BY <1>2, <1>3
<1>8. TranslateEvents(t, read) = h[Len(read.events)]
  BY <1>7, TurnsTo
<1> QED  BY <1>1, <1>2, <1>6, <1>8

\* Two events are translated, one after the other.
LEMMA TwoTurns ==
    ASSUME NEW t, NEW a, NEW b, NEW d
    PROVE  TranslateEvents(t, Read(<<a, b>>, d)) =
             TranslateEvent(TranslateEvent([t EXCEPT !.decode = d], a), b)
<1>1. PICK read, s : read = Read(<<a, b>>, d) /\ s = [t EXCEPT !.decode = d]
  OBVIOUS
<1>2. read.state = d /\ Len(read.events) = 2 /\ read.events[1] = a /\ read.events[2] = b
  BY <1>1 DEF Read
<1>3. PICK h : Turns(h, t, read, 2)
  BY TurnsExist
<1>4. h[0] = s
  BY <1>1, <1>2, <1>3 DEF Turns
<1>5. h[1] = TranslateEvent(h[1 - 1], read.events[1]) /\ h[2] = TranslateEvent(h[2 - 1], read.events[2])
  BY <1>3 DEF Turns
<1>6. h[2] = TranslateEvent(TranslateEvent(s, a), b)
  BY <1>2, <1>4, <1>5
<1>7. Turns(h, t, read, Len(read.events)) /\ Len(read.events) \in Nat
  BY <1>2, <1>3
<1>8. TranslateEvents(t, read) = h[Len(read.events)]
  BY <1>7, TurnsTo
<1> QED  BY <1>1, <1>2, <1>6, <1>8

\* The translator u has read a frame of which the client hears no end.
Fed(u, t, d, J, v) == Mutters(u, [t EXCEPT !.decode = d], J, v)

\* Events under which nothing begins.
AllTalk(q) == IsList(q) /\ \A i \in 1 .. Len(q) : IsTalk(q[i])

\* The translator that is about to write what was read.
LEMMA ReaderSet ==
    ASSUME NEW t, UnderWay(t), NEW d, NEW s, s = [t EXCEPT !.decode = d]
    PROVE  /\ UnderWay(s) /\ s.decode = d /\ s.encode = t.encode /\ s.start = t.start
           /\ s.out = t.out /\ s.windows = t.windows /\ s.skipped = t.skipped
<1>1. IsTranslator(t)
  BY DEF UnderWay, IsTrans
<1>2. TransOf(s, d, t.encode, t.windows, t.start, t.stopped, t.pending, t.skipped, t.out)
  BY <1>1, TransSet
<1> QED  BY <1>2 DEF UnderWay, IsTrans, IsTranslator, TransOf

\* Events under which nothing begins are translated under way.
LEMMA TalkTurns ==
    ASSUME ingress \in Protocols, NEW t, UnderWay(t), NEW read, NEW n \in Nat,
           \A i \in 1 .. n : IsTalk(read.events[i]), NEW h, Turns(h, t, read, n)
    PROVE  Fed(h[n], t, read.state, {}, FALSE)
<1>1. PICK d, s : d = read.state /\ s = [t EXCEPT !.decode = d]
  OBVIOUS
<1>2. UnderWay(s)
  BY <1>1, ReaderSet
<1> DEFINE Good(k) == k \in 0 .. n => Mutters(h[k], s, {}, FALSE)
           T == {k \in Nat : Good(k)}
<1>3. Good(0)
  <2>1. h[0] = s
    BY <1>1 DEF Turns
  <2>2. Mutters(s, s, {}, FALSE)
    BY <1>2, MuttersNothing DEF UnderWay
  <2> QED  BY <2>1, <2>2
<1>4. ASSUME NEW k \in Nat, Good(k), k + 1 \in 0 .. n PROVE Mutters(h[k + 1], s, {}, FALSE)
  <2>0. k \in 0 .. n
    BY <1>4
  <2>1. Mutters(h[k], s, {}, FALSE)
    BY <1>4, <2>0
  <2>2. k + 1 \in 1 .. n /\ (k + 1) - 1 = k
    BY <1>4
  <2>3. PICK y, z, ev : y = h[k] /\ z = h[k + 1] /\ ev = read.events[k + 1]
    OBVIOUS
  <2>4. z = TranslateEvent(y, ev) /\ IsTalk(ev)
    BY <2>2, <2>3 DEF Turns
  <2>5. UnderWay(y)
    BY <1>2, <2>1, <2>3, StillUnderWay
  <2>6. Mutters(z, y, {}, FALSE)
    BY <2>4, <2>5, TalkTranslated
  <2>7. Mutters(y, s, {}, FALSE) /\ IsTrans(s)
    BY <1>2, <2>1, <2>3 DEF UnderWay
  <2>8. Mutters(z, s, {}, FALSE)
    BY <2>6, <2>7, MuttersTwice
  <2> QED  BY <2>3, <2>8
<1>5. n \in T
  <2>1. 0 \in T /\ \A k \in Nat : k \in T => k + 1 \in T
    <3>1. ASSUME NEW k \in Nat, Good(k) PROVE Good(k + 1)
      BY <1>4, <3>1
    <3> HIDE DEF Good
    <3> QED  BY <1>3, <3>1
  <2> HIDE DEF T
  <2>2. Nat \subseteq T
    BY <2>1, NatSetInduction
  <2> QED  BY <2>2
<1>6. Mutters(h[n], s, {}, FALSE)
  <2>1. n \in 0 .. n
    OBVIOUS
  <2>2. Good(n)
    <3> HIDE DEF Good
    <3> QED  BY <1>5
  <2> QED  BY <2>1, <2>2
<1> QED  BY <1>1, <1>6 DEF Fed

\* A frame of pieces, ends of blocks and errors.
LEMMA TalkFed ==
    ASSUME ingress \in Protocols, NEW t, UnderWay(t), NEW q, AllTalk(q), NEW d
    PROVE  Fed(TranslateEvents(t, Read(q, d)), t, d, {}, FALSE)
<1>1. PICK read : read = Read(q, d)
  OBVIOUS
<1>2. read.events = q /\ read.state = d
  BY <1>1 DEF Read
<1>3. PICK n \in Nat : n = Len(q)
  BY ListsJoin DEF AllTalk
<1>4. PICK h : Turns(h, t, read, n)
  BY TurnsExist
<1>5. \A i \in 1 .. n : IsTalk(read.events[i])
  BY <1>2, <1>3 DEF AllTalk
<1>6. Fed(h[n], t, d, {}, FALSE)
  BY <1>2, <1>4, <1>5, TalkTurns
<1>7. TranslateEvents(t, read) = h[n]
  BY <1>2, <1>3, <1>4, TurnsTo
<1> QED  BY <1>1, <1>6, <1>7

\* A frame under which the blocks stop, and two events more.
TalkThen(t, q, a, b, d) ==
    \E u : /\ Fed(u, t, d, {}, FALSE)
           /\ TranslateEvents(t, Read(q \o <<a, b>>, d)) = TranslateEvent(TranslateEvent(u, a), b)

\* Such events are translated first, and the two after them.
LEMMA TalkBeforeTwo ==
    ASSUME ingress \in Protocols, NEW t, UnderWay(t), NEW q, AllTalk(q), NEW a, NEW b, NEW d
    PROVE  TalkThen(t, q, a, b, d)
<1>1. PICK events : events = q \o <<a, b>>
  OBVIOUS
<1>2. PICK read : read = Read(events, d)
  OBVIOUS
<1>3. read.events = events /\ read.state = d
  BY <1>2 DEF Read
<1>4. PICK n \in Nat : n = Len(q)
  BY ListsJoin DEF AllTalk
<1>5. /\ Len(events) = n + 2 /\ \A i \in 1 .. n : events[i] = q[i]
      /\ events[n + 1] = a /\ events[n + 2] = b
  <2>1. IsList(q) /\ IsList(<<a, b>>)
    BY ListsAre DEF AllTalk
  <2>2. PICK z : z = <<a, b>>
    OBVIOUS
  <2>3. Len(z) = 2 /\ z[1] = a /\ z[2] = b
    BY <2>2
  <2>4. /\ Len(q \o z) = Len(q) + Len(z) /\ \A i \in 1 .. Len(q) : (q \o z)[i] = q[i]
        /\ \A i \in 1 .. Len(z) : (q \o z)[Len(q) + i] = z[i]
    <3>1. IsList(q) /\ IsList(z)
      BY <2>1, <2>2
    <3>2. Len(q \o z) = Len(q) + Len(z)
      BY <3>1, ListsJoin
    <3>3. \A i \in 1 .. Len(q) : (q \o z)[i] = q[i]
      BY <3>1, ListsJoin
    <3>4. \A i \in 1 .. Len(z) : (q \o z)[Len(q) + i] = z[i]
      BY <3>1, ListsJoin
    <3> QED  BY <3>2, <3>3, <3>4
  <2>5. events = q \o z
    BY <1>1, <2>2
  <2>6. Len(events) = n + 2 /\ \A i \in 1 .. n : events[i] = q[i]
    BY <1>4, <2>3, <2>4, <2>5
  <2>7. 1 \in 1 .. Len(z) /\ 2 \in 1 .. Len(z)
    BY <2>3
  <2>8. events[n + 1] = z[1] /\ events[n + 2] = z[2]
    BY <1>4, <2>4, <2>5, <2>7
  <2> QED  BY <2>3, <2>6, <2>8
<1>6. PICK h : Turns(h, t, read, n + 2)
  BY <1>4, TurnsExist
<1>7. TranslateEvents(t, read) = h[n + 2]
  BY <1>3, <1>5, <1>6, TurnsTo
<1>8. h[n + 2] = TranslateEvent(h[n + 1], b) /\ h[n + 1] = TranslateEvent(h[n], a)
  <2>1. n + 2 \in 1 .. n + 2 /\ n + 1 \in 1 .. n + 2 /\ (n + 2) - 1 = n + 1 /\ (n + 1) - 1 = n
    OBVIOUS
  <2> QED  BY <1>3, <1>5, <1>6, <2>1 DEF Turns
<1> DEFINE g == [i \in 0 .. n |-> h[i]]
<1>9. Turns(g, t, read, n) /\ g[n] = h[n]
  <2>1. g = [i \in 0 .. n |-> g[i]] /\ g[0] = h[0] /\ g[n] = h[n]
    OBVIOUS
  <2>2. ASSUME NEW i \in 1 .. n PROVE g[i] = TranslateEvent(g[i - 1], read.events[i])
    <3>1. i \in 1 .. n + 2 /\ g[i] = h[i] /\ g[i - 1] = h[i - 1]
      OBVIOUS
    <3> HIDE DEF g
    <3> QED  BY <1>6, <3>1 DEF Turns
  <2> HIDE DEF g
  <2> QED  BY <1>6, <2>1, <2>2 DEF Turns
<1> HIDE DEF g
<1>10. \A i \in 1 .. n : IsTalk(read.events[i])
  BY <1>3, <1>4, <1>5 DEF AllTalk
<1>11. Fed(h[n], t, d, {}, FALSE)
  BY <1>3, <1>9, <1>10, TalkTurns
<1> QED  BY <1>1, <1>2, <1>7, <1>8, <1>11 DEF TalkThen

-----------------------------------------------------------------------------
(* Frames that are no end, one after the other.                            *)

\* The state of the reader is all that differs.
LEMMA FedSame ==
    ASSUME NEW t, UnderWay(t), NEW u, NEW d, NEW J, NEW v, Fed(u, t, d, J, v), NEW e,
           NEW x, x = [u EXCEPT !.decode = e], NEW y, y = [t EXCEPT !.decode = e]
    PROVE  Mutters(x, y, J, v) /\ UnderWay(u) /\ u.decode = d /\ IsTrans(y)
<1>1. PICK z : z = [t EXCEPT !.decode = d]
  OBVIOUS
<1>2. UnderWay(z) /\ z.decode = d /\ z.encode = t.encode /\ z.start = t.start /\ z.out = t.out
  BY <1>1, ReaderSet
<1>3. UnderWay(y) /\ y.decode = e /\ y.encode = t.encode /\ y.start = t.start /\ y.out = t.out
  BY ReaderSet
<1>4. Mutters(u, z, J, v)
  BY <1>1 DEF Fed
<1>5. UnderWay(u)
  BY <1>2, <1>4, StillUnderWay
<1>6. UnderWay(x) /\ x.decode = e /\ x.encode = u.encode /\ x.start = u.start /\ x.out = u.out
  BY <1>5, ReaderSet
<1>7. u.decode = d
  BY <1>2, <1>4 DEF Mutters
<1>8. Mutters(x, y, J, v)
  <2>1. x.start = y.start /\ x.stopped = y.stopped /\ x.pending = y.pending /\ IsTrans(x)
    BY <1>2, <1>3, <1>4, <1>6 DEF Mutters, UnderWay
  <2>2. \E frames : x.out = y.out \o frames /\ Unheard(ingress, frames, y.encode, x.encode)
    BY <1>2, <1>3, <1>4, <1>6 DEF Mutters
  <2>3. Begins(ingress, x.encode, y.encode, J, v)
    BY <1>2, <1>3, <1>4, <1>6 DEF Mutters
  <2> QED  BY <1>3, <1>6, <2>1, <2>2, <2>3 DEF Mutters
<1> QED  BY <1>3, <1>5, <1>7, <1>8 DEF UnderWay

\* One after the other, of which the last may begin something.
LEMMA FedMore ==
    ASSUME NEW t, UnderWay(t), NEW u, NEW d, Fed(u, t, d, {}, FALSE),
           NEW w, NEW e, NEW J, NEW v \in BOOLEAN, Fed(w, u, e, J, v)
    PROVE  Fed(w, t, e, J, v)
<1>1. PICK x, y : x = [u EXCEPT !.decode = e] /\ y = [t EXCEPT !.decode = e]
  OBVIOUS
<1>2. Mutters(x, y, {}, FALSE) /\ IsTrans(y)
  <2>1. PICK K, z : K = {} /\ z = FALSE
    OBVIOUS
  <2>2. Fed(u, t, d, K, z)
    BY <2>1
  <2>3. Mutters(x, y, K, z) /\ IsTrans(y)
    BY <1>1, <2>2, FedSame
  <2> QED  BY <2>1, <2>3
<1>3. Mutters(w, x, J, v)
  BY <1>1 DEF Fed
<1>4. Mutters(w, y, J, v)
  BY <1>2, <1>3, MuttersTwice
<1> QED  BY <1>1, <1>4 DEF Fed

\* Events that are no end: pieces, or a block that starts, with a piece or not.
StartsWith(q, j, m) ==
    \E n, ev : q = <<BlockStart(j, m, n)>> \/ (q = <<BlockStart(j, m, n), ev>> /\ IsTalk(ev))
Mild(q, J, v) ==
    \/ AllTalk(q) /\ J = {} /\ v = FALSE
    \/ \E j \in Nat, m \in Metas : StartsWith(q, j, m) /\ J = {j} /\ v = (m = "tool")

\* The items J have not begun.
Unbegun(t, J) == ingress = "responses" => J \cap DOMAIN t.encode.items = {}

\* A frame that starts a block is translated under way.
LEMMA StartFed ==
    ASSUME ingress \in Protocols, NEW t, UnderWay(t), NEW j \in Nat, NEW m \in Metas,
           Unbegun(t, {j}), NEW q, StartsWith(q, j, m), NEW d
    PROVE  Fed(TranslateEvents(t, Read(q, d)), t, d, {j}, m = "tool")
<1>0. PICK n, ev : q = <<BlockStart(j, m, n)>> \/ (q = <<BlockStart(j, m, n), ev>> /\ IsTalk(ev))
  BY DEF StartsWith
<1>1. PICK s, a : s = [t EXCEPT !.decode = d] /\ a = BlockStart(j, m, n)
  OBVIOUS
<1>2. UnderWay(s) /\ s.encode = t.encode
  BY <1>1, ReaderSet
<1>3. ingress = "responses" => j \notin DOMAIN s.encode.items
  BY <1>2 DEF Unbegun
<1>4. PICK u : u = TranslateEvent(s, a)
  OBVIOUS
<1>5. Mutters(u, s, {j}, m = "tool")
  BY <1>1, <1>2, <1>3, <1>4, StartTranslated
<1>6. CASE q = <<BlockStart(j, m, n)>>
  <2>1. TranslateEvents(t, Read(q, d)) = u
    BY <1>1, <1>4, <1>6, OneTurn
  <2> QED  BY <1>1, <1>5, <2>1 DEF Fed
<1>7. CASE q = <<BlockStart(j, m, n), ev>> /\ IsTalk(ev)
  <2>1. TranslateEvents(t, Read(q, d)) = TranslateEvent(u, ev)
    BY <1>1, <1>4, <1>7, TwoTurns
  <2>2. UnderWay(u)
    BY <1>2, <1>5, StillUnderWay
  <2>3. PICK w : w = TranslateEvent(u, ev)
    OBVIOUS
  <2>4. Mutters(w, u, {}, FALSE)
    BY <1>7, <2>2, <2>3, TalkTranslated
  <2>5. PICK v \in BOOLEAN : v = (m = "tool")
    OBVIOUS
  <2>6. Mutters(u, s, {j}, v) /\ IsTrans(s)
    BY <1>2, <1>5, <2>5 DEF UnderWay
  <2>7. Mutters(w, s, {j}, v)
    BY <2>4, <2>6, MuttersTwice
  <2> QED  BY <1>1, <2>1, <2>3, <2>5, <2>7 DEF Fed
<1> QED  BY <1>0, <1>6, <1>7

\* Whatever mild frames are read into is translated under way.
LEMMA MildFed ==
    ASSUME ingress \in Protocols, NEW t, UnderWay(t), NEW q, NEW J, NEW v, Mild(q, J, v),
           Unbegun(t, J), NEW d
    PROVE  Fed(TranslateEvents(t, Read(q, d)), t, d, J, v)
<1>1. CASE AllTalk(q) /\ J = {} /\ v = FALSE
  BY <1>1, TalkFed
<1>2. ASSUME NEW j \in Nat, NEW m \in Metas, StartsWith(q, j, m), J = {j}, v = (m = "tool")
      PROVE  Fed(TranslateEvents(t, Read(q, d)), t, d, J, v)
  <2>1. Unbegun(t, {j}) /\ StartsWith(q, j, m)
    BY <1>2
  <2>2. Fed(TranslateEvents(t, Read(q, d)), t, d, {j}, m = "tool")
    BY <2>1, StartFed
  <2> QED  BY <1>2, <2>2
<1> QED  BY <1>1, <1>2 DEF Mild

\* A frame that is read so.
ReadsMildly(p, f, d, e, J, v) == \E q : ReadResponseEvents(p, f, d) = Read(q, e) /\ Mild(q, J, v)

\* A mild frame is fed to the translator.
LEMMA FrameFed ==
    ASSUME ingress \in Protocols, NEW t, UnderWay(t), NEW f, NEW e, NEW J, NEW v,
           ReadsMildly(egress, f, t.decode, e, J, v), Unbegun(t, J)
    PROVE  Fed(FeedFrame(t, f), t, e, J, v)
<1>1. PICK q : ReadResponseEvents(egress, f, t.decode) = Read(q, e) /\ Mild(q, J, v)
  BY DEF ReadsMildly
<1>2. FeedFrame(t, f) = TranslateEvents(t, Read(q, e))
  BY <1>1 DEF FeedFrame
<1> QED  BY <1>1, <1>2, MildFed

\* g takes the translator through the frames that arrive.
Delivers(g, t, frames) ==
    /\ Len(frames) \in Nat
    /\ g = [i \in 0 .. Len(frames) |-> g[i]]
    /\ g[0] = t
    /\ \A i \in 1 .. Len(frames) : g[i] = FeedFrame(g[i - 1], frames[i])

\* The fold over frames ends where such a function ends.
LEMMA DeliversTo ==
    ASSUME NEW t, NEW frames, NEW h, Delivers(h, t, frames)
    PROVE  FeedFrames(t, frames) = h[Len(frames)]
<1> DEFINE n == Len(frames)
           Value(f, i) == IF i = 0 THEN t ELSE FeedFrame(f[i - 1], frames[i])
           Iterates(f) == f = [i \in 0 .. n |-> Value(f, i)]
<1>1. n \in Nat
  BY DEF Delivers
<1>2. FeedFrames(t, frames) = (CHOOSE f : Iterates(f))[n]
  BY DEF FeedFrames
<1>3. Iterates(h)
  <2>1. ASSUME NEW i \in 0 .. n PROVE h[i] = Value(h, i)
    <3>1. CASE i = 0
      BY <3>1 DEF Delivers
    <3>2. CASE i # 0
      <4>1. i \in 1 .. n
        BY <1>1, <3>2
      <4> QED  BY <3>2, <4>1 DEF Delivers
    <3> QED  BY <3>1, <3>2
  <2>2. h = [i \in 0 .. n |-> h[i]]
    BY DEF Delivers
  <2> HIDE DEF Value, n
  <2> QED  BY <2>1, <2>2
<1>4. PICK f : f = CHOOSE x : Iterates(x)
  OBVIOUS
<1>5. Iterates(f)
  <2> HIDE DEF Iterates
  <2> QED  BY <1>3, <1>4
<1>6. \A i \in 0 .. n : f[i] = Value(f, i) /\ h[i] = Value(h, i)
  <2> HIDE DEF Value, n
  <2> QED  BY <1>3, <1>5
<1>7. f[n] = h[n]
  <2>1. f[0] = h[0]
    BY <1>1, <1>6
  <2>2. ASSUME NEW i \in 1 .. n, f[i - 1] = h[i - 1] PROVE f[i] = h[i]
    BY <1>1, <1>6, <2>2
  <2> HIDE DEF n, Value, Iterates
  <2> QED  BY <1>1, <2>1, <2>2, SameSteps
<1> HIDE DEF Iterates
<1> QED  BY <1>2, <1>4, <1>7

\* The translator and one frame, two and three.
LEMMA FeedsOne ==
    ASSUME NEW t, NEW a
    PROVE  FeedFrames(t, <<a>>) = FeedFrame(t, a)
<1> DEFINE fs == <<a>>
           u == FeedFrame(t, a)
           h == [i \in 0 .. 1 |-> IF i = 0 THEN t ELSE u]
<1>1. Len(fs) = 1 /\ fs[1] = a
  OBVIOUS
<1>2. h[0] = t /\ h[1] = u /\ h = [i \in 0 .. 1 |-> h[i]]
  <2> HIDE DEF u
  <2> QED  OBVIOUS
<1> HIDE DEF h, fs
<1>3. Delivers(h, t, fs)
  BY <1>1, <1>2 DEF Delivers
<1>4. FeedFrames(t, fs) = h[Len(fs)]
  BY <1>3, DeliversTo
<1> QED  BY <1>1, <1>2, <1>4 DEF fs

\* Two frames arrive, one after the other.
LEMMA FeedsTwo ==
    ASSUME NEW t, NEW a, NEW b
    PROVE  FeedFrames(t, <<a, b>>) = FeedFrame(FeedFrame(t, a), b)
<1> DEFINE fs == <<a, b>>
           u == FeedFrame(t, a)
           w == FeedFrame(u, b)
           h == [i \in 0 .. 2 |-> IF i = 0 THEN t ELSE IF i = 1 THEN u ELSE w]
<1>1. Len(fs) = 2 /\ fs[1] = a /\ fs[2] = b
  OBVIOUS
<1>2. h[0] = t /\ h[1] = u /\ h[2] = w /\ h = [i \in 0 .. 2 |-> h[i]]
  <2> HIDE DEF u, w
  <2> QED  OBVIOUS
<1> HIDE DEF h, fs
<1>3. Delivers(h, t, fs)
  <2>1. \A i \in 1 .. 2 : h[i] = FeedFrame(h[i - 1], fs[i])
    <3>1. h[1] = FeedFrame(h[1 - 1], fs[1])
      BY <1>1, <1>2
    <3>2. h[2] = FeedFrame(h[2 - 1], fs[2])
      <4> HIDE DEF u
      <4> QED  BY <1>1, <1>2
    <3> QED  BY <3>1, <3>2
  <2> HIDE DEF u, w
  <2> QED  BY <1>1, <1>2, <2>1 DEF Delivers
<1>4. FeedFrames(t, fs) = h[Len(fs)]
  BY <1>3, DeliversTo
<1> QED  BY <1>1, <1>2, <1>4 DEF fs

\* Three frames arrive, one after the other.
LEMMA FeedsThree ==
    ASSUME NEW t, NEW a, NEW b, NEW c
    PROVE  FeedFrames(t, <<a, b, c>>) = FeedFrame(FeedFrame(FeedFrame(t, a), b), c)
<1> DEFINE fs == <<a, b, c>>
           u == FeedFrame(t, a)
           w == FeedFrame(u, b)
           z == FeedFrame(w, c)
           h == [i \in 0 .. 3 |-> IF i = 0 THEN t ELSE IF i = 1 THEN u ELSE IF i = 2 THEN w ELSE z]
<1>1. Len(fs) = 3 /\ fs[1] = a /\ fs[2] = b /\ fs[3] = c
  OBVIOUS
<1>2. h[0] = t /\ h[1] = u /\ h[2] = w /\ h[3] = z /\ h = [i \in 0 .. 3 |-> h[i]]
  <2> HIDE DEF u, w, z
  <2> QED  OBVIOUS
<1> HIDE DEF h, fs
<1>3. Delivers(h, t, fs)
  <2>1. \A i \in 1 .. 3 : h[i] = FeedFrame(h[i - 1], fs[i])
    <3>1. h[1] = FeedFrame(h[1 - 1], fs[1])
      BY <1>1, <1>2
    <3>2. h[2] = FeedFrame(h[2 - 1], fs[2])
      <4> HIDE DEF u
      <4> QED  BY <1>1, <1>2
    <3>3. h[3] = FeedFrame(h[3 - 1], fs[3])
      <4> HIDE DEF w
      <4> QED  BY <1>1, <1>2
    <3> QED  BY <3>1, <3>2, <3>3
  <2> HIDE DEF u, w, z
  <2> QED  BY <1>1, <1>2, <2>1 DEF Delivers
<1>4. FeedFrames(t, fs) = h[Len(fs)]
  BY <1>3, DeliversTo
<1> QED  BY <1>1, <1>2, <1>4 DEF fs

-----------------------------------------------------------------------------
(* What the translator and the scan of the record make of such frames.     *)

LEMMA MildIsQuiet ==
    ASSUME NEW q, NEW J, NEW v, Mild(q, J, v)
    PROVE  AllQuiet(q)
<1>1. ASSUME NEW ev, IsTalk(ev) PROVE Quiet(ev)
  <2>1. CASE \E i \in Nat, k \in SpeechKinds : \E x : ev = BlockDelta(i, k, x)
    BY <2>1, QuietAre
  <2>2. CASE \E i \in Nat : ev = BlockStop(i)
    BY <2>2, QuietAre
  <2>3. CASE \E x : ev = ErrorEvent(x)
    BY <2>3, QuietAre
  <2> QED  BY <1>1, <2>1, <2>2, <2>3 DEF IsTalk
<1>2. CASE AllTalk(q)
  BY <1>1, <1>2 DEF AllTalk, AllQuiet
<1>3. ASSUME NEW j, NEW m, NEW n, NEW ev,
             q = <<BlockStart(j, m, n)>> \/ (q = <<BlockStart(j, m, n), ev>> /\ IsTalk(ev))
      PROVE  AllQuiet(q)
  <2>1. PICK a : a = BlockStart(j, m, n) /\ Quiet(a)
    BY QuietAre
  <2>2. IsTalk(ev) => Quiet(ev)
    BY <1>1
  <2>3. CASE q = <<a>>
    BY <2>1, <2>3, FewQuiet
  <2>4. CASE q = <<a, ev>> /\ IsTalk(ev)
    BY <2>1, <2>2, <2>4, FewQuiet
  <2> QED  BY <1>3, <2>1, <2>3, <2>4
<1> QED  BY <1>2, <1>3 DEF Mild, StartsWith

\* The reader of the record is in the state that the frame leads to.
LEMMA FrameHeard ==
    ASSUME NEW p, NEW s, IsScan(s), NEW f, NEW e, NEW J, NEW v, ReadsMildly(p, f, s.decode, e, J, v)
    PROVE  IsScan(ScanFrame(p, s, f)) /\ ScanFrame(p, s, f).decode = e
<1>1. PICK q : ReadResponseEvents(p, f, s.decode) = Read(q, e) /\ Mild(q, J, v)
  BY DEF ReadsMildly
<1>2. PICK read : read = Read(q, e)
  OBVIOUS
<1>3. read.events = q /\ read.state = e
  BY <1>2, ReadIs
<1>4. AllQuiet(read.events)
  BY <1>1, <1>3, MildIsQuiet
<1>5. SameEnd(ApplyEvents(s, read), s) /\ ApplyEvents(s, read).decode = e
  BY <1>3, <1>4, QuietlyRead
<1>6. ScanFrame(p, s, f) = ApplyEvents(s, read)
  BY <1>1, <1>2 DEF ScanFrame
<1> QED  BY <1>5, <1>6 DEF SameEnd

\* Up to three frames; the last of them may begin something.
Hints(p, frames, d, e, J, v) ==
    \/ \E f : frames = <<f>> /\ ReadsMildly(p, f, d, e, J, v)
    \/ \E f, g, m : /\ frames = <<f, g>> /\ ReadsMildly(p, f, d, m, {}, FALSE)
                    /\ ReadsMildly(p, g, m, e, J, v)
    \/ \E f, g, h, m, n : /\ frames = <<f, g, h>> /\ ReadsMildly(p, f, d, m, {}, FALSE)
                          /\ ReadsMildly(p, g, m, n, {}, FALSE)
                          /\ ReadsMildly(p, h, n, e, J, v)

\* So it is after up to three frames.
LEMMA HintsHeard ==
    ASSUME NEW p, NEW s, IsScan(s), NEW frames, NEW e, NEW J, NEW v, Hints(p, frames, s.decode, e, J, v)
    PROVE  IsScan(ScanFrames(p, s, frames)) /\ ScanFrames(p, s, frames).decode = e
<1>0. PICK K, z : K = {} /\ z = FALSE
  OBVIOUS
<1>1. ASSUME NEW f, frames = <<f>>, ReadsMildly(p, f, s.decode, e, J, v)
      PROVE  IsScan(ScanFrames(p, s, frames)) /\ ScanFrames(p, s, frames).decode = e
  BY <1>1, FrameHeard, OneFrame
<1>2. ASSUME NEW f, NEW g, NEW m, frames = <<f, g>>, ReadsMildly(p, f, s.decode, m, K, z),
             ReadsMildly(p, g, m, e, J, v)
      PROVE  IsScan(ScanFrames(p, s, frames)) /\ ScanFrames(p, s, frames).decode = e
  <2>1. PICK r : r = ScanFrame(p, s, f)
    OBVIOUS
  <2>2. IsScan(r) /\ r.decode = m
    BY <1>2, <2>1, FrameHeard
  <2>3. IsScan(ScanFrame(p, r, g)) /\ ScanFrame(p, r, g).decode = e
    BY <1>2, <2>2, FrameHeard
  <2> QED  BY <1>2, <2>1, <2>3, TwoFrames
<1>3. ASSUME NEW f, NEW g, NEW h, NEW m, NEW n, frames = <<f, g, h>>,
             ReadsMildly(p, f, s.decode, m, K, z), ReadsMildly(p, g, m, n, K, z),
             ReadsMildly(p, h, n, e, J, v)
      PROVE  IsScan(ScanFrames(p, s, frames)) /\ ScanFrames(p, s, frames).decode = e
  <2>1. PICK r : r = ScanFrame(p, s, f)
    OBVIOUS
  <2>2. IsScan(r) /\ r.decode = m
    BY <1>3, <2>1, FrameHeard
  <2>3. PICK t : t = ScanFrame(p, r, g)
    OBVIOUS
  <2>4. IsScan(t) /\ t.decode = n
    BY <1>3, <2>2, <2>3, FrameHeard
  <2>5. IsScan(ScanFrame(p, t, h)) /\ ScanFrame(p, t, h).decode = e
    BY <1>3, <2>4, FrameHeard
  <2> QED  BY <1>3, <2>1, <2>3, <2>5, ThreeFrames
<1> QED  BY <1>0, <1>1, <1>2, <1>3 DEF Hints

\* What has not begun still has not.
LEMMA StillUnbegun ==
    ASSUME NEW t, NEW u, NEW d, Fed(u, t, d, {}, FALSE), UnderWay(t), NEW J, Unbegun(t, J)
    PROVE  Unbegun(u, J) /\ UnderWay(u) /\ u.decode = d
<1>1. PICK s : s = [t EXCEPT !.decode = d]
  OBVIOUS
<1>2. UnderWay(s) /\ s.decode = d /\ s.encode = t.encode
  BY <1>1, ReaderSet
<1>3. Mutters(u, s, {}, FALSE)
  BY <1>1 DEF Fed
<1>4. UnderWay(u)
  BY <1>2, <1>3, StillUnderWay
<1>5. ingress = "responses" => DOMAIN u.encode.items = DOMAIN t.encode.items
  BY <1>2, <1>3 DEF Mutters, Begins
<1> QED  BY <1>2, <1>3, <1>4, <1>5 DEF Unbegun, Mutters

\* Up to three mild frames are fed to the translator.
LEMMA HintsFed ==
    ASSUME ingress \in Protocols, NEW t, UnderWay(t), NEW frames, NEW e, NEW J, NEW v \in BOOLEAN,
           Hints(egress, frames, t.decode, e, J, v), Unbegun(t, J)
    PROVE  Fed(FeedFrames(t, frames), t, e, J, v)
<1>0. Unbegun(t, {})
  BY DEF Unbegun
<1>1. ASSUME NEW f, frames = <<f>>, ReadsMildly(egress, f, t.decode, e, J, v)
      PROVE  Fed(FeedFrames(t, frames), t, e, J, v)
  BY <1>1, FrameFed, FeedsOne
<1>2. ASSUME NEW f, NEW g, NEW m, frames = <<f, g>>, ReadsMildly(egress, f, t.decode, m, {}, FALSE),
             ReadsMildly(egress, g, m, e, J, v)
      PROVE  Fed(FeedFrames(t, frames), t, e, J, v)
  <2>1. PICK u : u = FeedFrame(t, f)
    OBVIOUS
  <2>2. Fed(u, t, m, {}, FALSE)
    BY <1>0, <1>2, <2>1, FrameFed
  <2>3. Unbegun(u, J) /\ UnderWay(u) /\ u.decode = m
    BY <2>2, StillUnbegun
  <2>4. PICK w : w = FeedFrame(u, g)
    OBVIOUS
  <2>5. Fed(w, u, e, J, v)
    BY <1>2, <2>3, <2>4, FrameFed
  <2>6. Fed(w, t, e, J, v)
    BY <2>2, <2>5, FedMore
  <2> QED  BY <1>2, <2>1, <2>4, <2>6, FeedsTwo
<1>3. ASSUME NEW f, NEW g, NEW h, NEW m, NEW n, frames = <<f, g, h>>,
             ReadsMildly(egress, f, t.decode, m, {}, FALSE), ReadsMildly(egress, g, m, n, {}, FALSE),
             ReadsMildly(egress, h, n, e, J, v)
      PROVE  Fed(FeedFrames(t, frames), t, e, J, v)
  <2>1. PICK u : u = FeedFrame(t, f)
    OBVIOUS
  <2>2. Fed(u, t, m, {}, FALSE)
    BY <1>0, <1>3, <2>1, FrameFed
  <2>3. Unbegun(u, J) /\ Unbegun(u, {}) /\ UnderWay(u) /\ u.decode = m
    BY <1>0, <2>2, StillUnbegun
  <2>4. PICK w : w = FeedFrame(u, g)
    OBVIOUS
  <2>5. Fed(w, u, n, {}, FALSE)
    BY <1>3, <2>3, <2>4, FrameFed
  <2>6. Unbegun(w, J) /\ UnderWay(w) /\ w.decode = n
    BY <2>3, <2>5, StillUnbegun
  <2>7. PICK x : x = FeedFrame(w, h)
    OBVIOUS
  <2>8. Fed(x, w, e, J, v)
    BY <1>3, <2>6, <2>7, FrameFed
  <2>9. Fed(x, u, e, J, v)
    BY <2>3, <2>5, <2>8, FedMore
  <2>10. Fed(x, t, e, J, v)
    BY <2>2, <2>9, FedMore
  <2> QED  BY <1>3, <2>1, <2>4, <2>7, <2>10, FeedsThree
<1> QED  BY <1>1, <1>2, <1>3 DEF Hints

-----------------------------------------------------------------------------
(* What the frames of the upstream hint at: at most one block more begins. *)

\* The next index that the reader will give to a block.
Free(p, d, B) ==
    IF p = "openai" THEN Len(B) + 1 ELSE IF p = "anthropic" THEN Len(B) ELSE d.next
\* The answer B has a call in it.
HasCall(B) == \E j \in 1 .. Len(B) : B[j].kind = "tool"

\* The frames take the reader from d to e, and the answer from B to D.
Extends(p, frames, d, e, B, D) ==
    \E J : \E v \in BOOLEAN :
        /\ Hints(p, frames, d, e, J, v)
        /\ Free(p, d, B) \in Nat /\ Free(p, e, D) \in Nat
        /\ Free(p, d, B) <= Free(p, e, D)
        /\ J \subseteq {Free(p, d, B)}
        /\ J # {} => Free(p, d, B) < Free(p, e, D)
        /\ HasCall(D) <=> HasCall(B) \/ v
        /\ p = "responses" => (e.sawFunctionCall <=> d.sawFunctionCall \/ v)

\* The reader has seen a call, or the same calls as before.
Sees(p, e, d, v) == p = "responses" => (e.sawFunctionCall <=> d.sawFunctionCall \/ v)

\* Frames under which nothing begins.
LEMMA ExtendsQuietly ==
    ASSUME NEW p, NEW frames, NEW d, NEW e, NEW B, NEW D, Hints(p, frames, d, e, {}, FALSE),
           Free(p, d, B) \in Nat, Free(p, e, D) = Free(p, d, B), HasCall(D) <=> HasCall(B),
           Sees(p, e, d, FALSE)
    PROVE  Extends(p, frames, d, e, B, D)
<1>1. PICK J, v, i, k : J = {} /\ v = FALSE /\ i = Free(p, d, B) /\ k = Free(p, e, D)
  OBVIOUS
<1>2. Hints(p, frames, d, e, J, v) /\ Sees(p, e, d, v)
  BY <1>1
<1>3. v \in BOOLEAN /\ J \subseteq {i} /\ (HasCall(D) <=> HasCall(B) \/ v)
  BY <1>1
<1>4. i \in Nat /\ k \in Nat /\ i <= k /\ (J # {} => i < k)
  BY <1>1

<1>5. i = Free(p, d, B) /\ k = Free(p, e, D)
  BY <1>1
<1> QED  BY <1>2, <1>3, <1>4, <1>5 DEF Extends, Sees

\* Frames under which a block begins.
LEMMA ExtendsByOne ==
    ASSUME NEW p, NEW frames, NEW d, NEW e, NEW B, NEW D, NEW i \in Nat, i = Free(p, d, B),
           NEW m, Hints(p, frames, d, e, {i}, m = "tool"),
           Free(p, e, D) = i + 1, HasCall(D) <=> HasCall(B) \/ m = "tool",
           Sees(p, e, d, m = "tool")
    PROVE  Extends(p, frames, d, e, B, D)
<1>1. PICK J, v, k : J = {i} /\ v = (m = "tool") /\ k = Free(p, e, D)
  OBVIOUS
<1>2. Hints(p, frames, d, e, J, v) /\ Sees(p, e, d, v)
  BY <1>1, Zenon
<1>3. v \in BOOLEAN /\ J \subseteq {i} /\ (HasCall(D) <=> HasCall(B) \/ v)
  BY <1>1
<1>4. i \in Nat /\ k \in Nat /\ i <= k /\ (J # {} => i < k)
  BY <1>1
<1>5. i = Free(p, d, B) /\ k = Free(p, e, D)
  BY <1>1
<1> QED  BY <1>2, <1>3, <1>4, <1>5 DEF Extends, Sees

\* No event, and a few that talk.
LEMMA TalkIsMild ==
    ASSUME NEW a, NEW b
    PROVE  /\ Mild(<< >>, {}, FALSE)
           /\ IsTalk(a) => Mild(<<a>>, {}, FALSE)
           /\ IsTalk(a) /\ IsTalk(b) => Mild(<<a, b>>, {}, FALSE)
<1>1. IsList(<< >>) /\ IsList(<<a>>) /\ IsList(<<a, b>>)
  BY ListsAre
<1>2. AllTalk(<< >>) /\ (IsTalk(a) => AllTalk(<<a>>)) /\ (IsTalk(a) /\ IsTalk(b) => AllTalk(<<a, b>>))
  BY <1>1 DEF AllTalk
<1> QED  BY <1>2 DEF Mild

\* A block that starts.
LEMMA StartIsMild ==
    ASSUME NEW j \in Nat, NEW m \in Metas, NEW n, NEW ev
    PROVE  /\ Mild(<<BlockStart(j, m, n)>>, {j}, m = "tool")
           /\ IsTalk(ev) => Mild(<<BlockStart(j, m, n), ev>>, {j}, m = "tool")
<1>1. StartsWith(<<BlockStart(j, m, n)>>, j, m)
  BY DEF StartsWith
<1>2. IsTalk(ev) => StartsWith(<<BlockStart(j, m, n), ev>>, j, m)
  BY DEF StartsWith
<1>3. PICK J, v : J = {j} /\ v = (m = "tool")
  OBVIOUS
<1>4. /\ Mild(<<BlockStart(j, m, n)>>, J, v)
      /\ IsTalk(ev) => Mild(<<BlockStart(j, m, n), ev>>, J, v)
  BY <1>1, <1>2, <1>3 DEF Mild
<1> QED  BY <1>3, <1>4

\* Which events talk.
LEMMA TalkAre ==
    ASSUME NEW i \in Nat, NEW k \in SpeechKinds, NEW x
    PROVE  IsTalk(BlockDelta(i, k, x)) /\ IsTalk(BlockStop(i)) /\ IsTalk(ErrorEvent(x))
BY DEF IsTalk

\* Frames one by one.
LEMMA FrameHints ==
    ASSUME NEW p, NEW f, NEW d, NEW e, NEW J, NEW v, NEW q, Mild(q, J, v),
           ReadResponseEvents(p, f, d) = Read(q, e)
    PROVE  ReadsMildly(p, f, d, e, J, v) /\ Hints(p, <<f>>, d, e, J, v)
<1>1. ReadsMildly(p, f, d, e, J, v)
  BY DEF ReadsMildly
<1> QED  BY <1>1 DEF Hints

\* Two mild frames.
LEMMA TwoHint ==
    ASSUME NEW p, NEW f, NEW g, NEW d, NEW m, NEW e, NEW J, NEW v, ReadsMildly(p, f, d, m, {}, FALSE),
           ReadsMildly(p, g, m, e, J, v)
    PROVE  Hints(p, <<f, g>>, d, e, J, v)
BY DEF Hints

\* Three mild frames.
LEMMA ThreeHint ==
    ASSUME NEW p, NEW f, NEW g, NEW h, NEW d, NEW m, NEW n, NEW e, NEW J, NEW v,
           ReadsMildly(p, f, d, m, {}, FALSE), ReadsMildly(p, g, m, n, {}, FALSE),
           ReadsMildly(p, h, n, e, J, v)
    PROVE  Hints(p, <<f, g, h>>, d, e, J, v)
BY DEF Hints

\* An answer calls a tool if it did, or if the block that is new does.
LEMMA CallAppended ==
    ASSUME NEW S, NEW B \in Seq(S), NEW b \in S, NEW D, D = Append(B, b)
    PROVE  Len(D) = Len(B) + 1 /\ Len(B) \in Nat /\ (HasCall(D) <=> HasCall(B) \/ b.kind = "tool")
<1>1. PICK n : n = Len(B)
  OBVIOUS
<1>2. /\ n \in Nat /\ Len(D) = n + 1 /\ D[n + 1] = b /\ \A j \in 1 .. n : D[j] = B[j]
      /\ \A j \in 1 .. n + 1 : j \in 1 .. n \/ j = n + 1
      /\ \A j \in 1 .. n : j \in 1 .. n + 1
      /\ n + 1 \in 1 .. n + 1
  BY <1>1, AppendPrefixes
<1>3. ASSUME HasCall(D) PROVE HasCall(B) \/ b.kind = "tool"
  <2>1. PICK j \in 1 .. n + 1 : D[j].kind = "tool"
    BY <1>2, <1>3 DEF HasCall
  <2> QED  BY <1>1, <1>2, <2>1 DEF HasCall
<1>4. ASSUME HasCall(B) PROVE HasCall(D)
  <2>1. PICK j \in 1 .. n : B[j].kind = "tool"
    BY <1>1, <1>4 DEF HasCall
  <2> QED  BY <1>2, <2>1 DEF HasCall
<1>5. b.kind = "tool" => HasCall(D)
  BY <1>2 DEF HasCall
<1> QED  BY <1>1, <1>2, <1>3, <1>4, <1>5

\* A block that says more is a call if it was one.
LEMMA CallChanged ==
    ASSUME NEW S, NEW B \in Seq(S), NEW j \in 1 .. Len(B), NEW b, b.kind = B[j].kind, b.at = B[j].at,
           NEW D, Becomes(D, B, j, b)
    PROVE  Len(D) = Len(B) /\ Len(B) \in Nat /\ (HasCall(D) <=> HasCall(B))
<1>1. SameAnswer(D, B)
  BY OneChanges
<1> QED  BY <1>1 DEF SameAnswer, HasCall
-----------------------------------------------------------------------------
(* A block that opens, in each protocol.                                   *)

LEMMA OpenAiTextHints ==
    ASSUME NEW S, NEW B \in Seq(S), NEW b \in S, OpenAiAnswer(B), NEW s, OpenAiShows(s, B),
           IsSaid("openai", b), b.kind \in {"text", "reasoning"}, b.text # << >>,
           \A j \in 1 .. Len(B) : B[j].kind # b.kind
    PROVE  \E e : Extends("openai", <<Speech(b.kind, b.text)>>, s.decode, e, B, Append(B, b))
<1>1. PICK c, x : Shows("openai", s, B, c, x) /\ OpenAiAgrees(s, B, x)
  BY DEF OpenAiShows
<1>2. PICK n, i, D, d, field, start, delta, e :
        /\ n = Len(B) /\ i = n + 1 /\ D = Append(B, b) /\ d = s.decode /\ field = b.kind
        /\ start = BlockStart(i, field, << >>) /\ delta = BlockDelta(i, field, b.text)
        /\ e = [d EXCEPT ![field] = [open |-> TRUE, index |-> i]]
  OBVIOUS
<1>3. n \in Nat /\ i \in Nat /\ Len(D) = n + 1 /\ (HasCall(D) <=> HasCall(B) \/ field = "tool")
  <2>1. D = Append(B, b)
    BY <1>2
  <2>2. Len(D) = Len(B) + 1 /\ Len(B) \in Nat /\ (HasCall(D) <=> HasCall(B) \/ b.kind = "tool")
    BY <2>1, CallAppended
  <2> QED  BY <1>2, <2>2
<1>6. i = NextFreeBlockIndex(d)
  <2>1. \A j \in 1 .. Len(B) : B[j].kind \in {"text", "tool", "reasoning"}
    BY OpenAiKinds
  <2> QED
    BY <1>1, <1>2, <2>1, FreeIndex
<1>7. OpenAiState(d) /\ d[field] = Closed
  BY <1>1, <1>2 DEF OpenAiAgrees, DecoderAgrees
<1>8. ReadOpenAi(Speech(field, b.text), d) = Read(<<start, delta>>, e)
  <2>1. OpenAiText(Read(<< >>, d), field, field, b.text) = Read(<<start, delta>>, e)
    BY <1>2, <1>6, <1>7, FirstText
  <2>2. <<start, delta>> \o << >> = <<start, delta>>
    BY EventsAre
  <2>3. ReadOpenAi(Speech(field, b.text), d) = Read(<<start, delta>> \o << >>, e)
    BY <1>2, <1>7, <2>1, ReadSpeech
  <2> QED
    BY <2>2, <2>3
<1>9. field \in Metas /\ field \in SpeechKinds
  BY <1>2 DEF Metas, SpeechKinds
<1>10. PICK J, v : J = {i} /\ v = (field = "tool")
  OBVIOUS
<1>11. Mild(<<start, delta>>, J, v)
  BY <1>2, <1>3, <1>9, <1>10, TalkAre, StartIsMild
<1>12. ReadResponseEvents("openai", Speech(field, b.text), d) = Read(<<start, delta>>, e)
  BY <1>8 DEF ReadResponseEvents
<1>13. Hints("openai", <<Speech(field, b.text)>>, d, e, J, v)
  BY <1>11, <1>12, FrameHints
<1>14. Free("openai", d, B) = i /\ Free("openai", e, D) = i + 1
  BY <1>2, <1>3 DEF Free
<1>15. Sees("openai", e, d, field = "tool")
  BY DEF Sees
<1>16. Extends("openai", <<Speech(field, b.text)>>, d, e, B, D)
  BY <1>3, <1>10, <1>13, <1>14, <1>15, ExtendsByOne
<1> QED  BY <1>2, <1>16

\* An OpenAI upstream opens a call.
LEMMA OpenAiCallHints ==
    ASSUME NEW S, NEW B \in Seq(S), NEW b \in S, OpenAiAnswer(B), NEW s, OpenAiShows(s, B),
           IsSaid("openai", b), b.kind = "tool", b.text = << >>, b.at = Cardinality(Calls(B))
    PROVE  \E e : Extends("openai", <<CallChunk(b.at, Name, << >>)>>, s.decode, e, B, Append(B, b))
<1>1. PICK c, x : Shows("openai", s, B, c, x) /\ OpenAiAgrees(s, B, x)
  BY DEF OpenAiShows
<1>2. PICK n, i, D, d, at, call, T, e, m :
        /\ n = Len(B) /\ i = n + 1 /\ D = Append(B, b) /\ d = s.decode /\ at = b.at
        /\ call = ToolCall(at, Name, << >>) /\ T = Put(d.tools, at, i)
        /\ e = [d EXCEPT !.tools = T] /\ m = b.kind
  OBVIOUS
<1>3. n \in Nat /\ i \in Nat /\ Len(D) = n + 1 /\ (HasCall(D) <=> HasCall(B) \/ m = "tool")
  <2>1. D = Append(B, b)
    BY <1>2
  <2>2. Len(D) = Len(B) + 1 /\ Len(B) \in Nat /\ (HasCall(D) <=> HasCall(B) \/ b.kind = "tool")
    BY <2>1, CallAppended
  <2> QED  BY <1>2, <2>2
<1>6. i = NextFreeBlockIndex(d)
  <2>1. \A j \in 1 .. Len(B) : B[j].kind \in {"text", "tool", "reasoning"}
    BY OpenAiKinds
  <2> QED
    BY <1>1, <1>2, <2>1, FreeIndex
<1>7. DecoderAgrees(d, B) /\ OpenAiState(d)
  BY <1>1, <1>2 DEF OpenAiAgrees, DecoderAgrees
<1>8. IsFiniteSet(Calls(B)) /\ Cardinality(Calls(B)) \in Nat
  BY CallsGrow
<1>9. at = Cardinality(Calls(B)) /\ at \in Nat
  BY <1>2, <1>8
<1>10. DOMAIN d.tools = 0 .. at - 1 /\ at \notin DOMAIN d.tools
  BY <1>7, <1>9 DEF DecoderAgrees
<1>11. PICK one : one = <<BlockStart(i, m, Name)>>
  OBVIOUS
<1>12. ReadOpenAi(CallChunk(at, Name, << >>), d) = Read(one, e)
  <2>2. ProcessToolCallDelta(Read(<< >>, d), call) = Read(one, e)
    <3>1. ProcessToolCallDelta(Read(<< >>, d), ToolCall(at, Name, << >>)) =
            Read(<<BlockStart(i, "tool", Name)>>, [d EXCEPT !.tools = Put(d.tools, at, i)])
      BY <1>6, <1>7, <1>10, CallBegins
    <3>2. call = ToolCall(at, Name, << >>) /\ e = [d EXCEPT !.tools = Put(d.tools, at, i)] /\ m = "tool"
      BY <1>2
    <3> QED
      BY <1>11, <3>1, <3>2
  <2>3. one \o << >> = one
    BY <1>11, EventsAre
  <2>4. ReadOpenAi([Chunk EXCEPT !.tools = <<call>>], d) = Read(one \o << >>, e)
    BY <1>7, <2>2, ReadCall
  <2> QED
    BY <1>2, <2>3, <2>4 DEF CallChunk
<1>13. PICK J, v : J = {i} /\ v = (m = "tool")
  OBVIOUS
<1>14. Mild(one, J, v)
  <2>1. m \in Metas
    BY <1>2 DEF Metas
  <2> QED  BY <1>3, <1>11, <1>13, <2>1, StartIsMild
<1>15. ReadResponseEvents("openai", CallChunk(at, Name, << >>), d) = Read(one, e)
  BY <1>12 DEF ReadResponseEvents
<1>16. Hints("openai", <<CallChunk(at, Name, << >>)>>, d, e, J, v)
  BY <1>14, <1>15, FrameHints
<1>17. Free("openai", d, B) = i /\ Free("openai", e, D) = i + 1
  BY <1>2, <1>3 DEF Free
<1>18. Sees("openai", e, d, m = "tool")
  BY DEF Sees
<1>19. Extends("openai", <<CallChunk(at, Name, << >>)>>, d, e, B, D)
  BY <1>3, <1>13, <1>16, <1>17, <1>18, ExtendsByOne
<1> QED  BY <1>2, <1>19

\* An Anthropic upstream opens a block.
LEMMA AnthropicOpenHints ==
    ASSUME NEW S, NEW B \in Seq(S), NEW b \in S, NEW s, IsSaid("anthropic", b), b.at = Len(B),
           NEW name
    PROVE  \E e : Extends("anthropic", <<ContentBlockStart(b.at, b.kind, name)>>, s.decode, e, B, Append(B, b))
<1>1. PICK n, D, d, m, f : /\ n = Len(B) /\ D = Append(B, b) /\ d = s.decode /\ m = b.kind
                           /\ f = ContentBlockStart(n, m, name)
  OBVIOUS
<1>2. n \in Nat /\ Len(D) = n + 1 /\ (HasCall(D) <=> HasCall(B) \/ m = "tool")
  <2>1. D = Append(B, b)
    BY <1>1
  <2>2. Len(D) = Len(B) + 1 /\ Len(B) \in Nat /\ (HasCall(D) <=> HasCall(B) \/ b.kind = "tool")
    BY <2>1, CallAppended
  <2> QED  BY <1>1, <2>2
<1>3. \A e : Free("anthropic", d, B) = n /\ Free("anthropic", e, D) = n + 1 /\ Sees("anthropic", e, d, m = "tool")
  BY <1>1, <1>2 DEF Free, Sees
<1>4. CASE m \in KnownBlocks
  <2>1. PICK one : one = <<BlockStart(n, m, name)>>
    OBVIOUS
  <2>2. ReadResponseEvents("anthropic", f, d) = Read(one, d)
    <3>1. ReadAnthropic(ContentBlockStart(n, m, name), d) = Read(<<BlockStart(n, m, name)>>, d)
      BY <1>4, AnthropicKnown
    <3> QED  BY <1>1, <2>1, <3>1 DEF ReadResponseEvents
  <2>3. m \in Metas
    BY <1>4 DEF Metas, KnownBlocks
  <2>4. PICK J, v : J = {n} /\ v = (m = "tool")
    OBVIOUS
  <2>5. Mild(one, J, v)
    BY <1>2, <2>1, <2>3, <2>4, StartIsMild
  <2>6. Hints("anthropic", <<f>>, d, d, J, v)
    BY <2>2, <2>5, FrameHints
  <2>7. Extends("anthropic", <<f>>, d, d, B, D)
    BY <1>2, <1>3, <2>4, <2>6, ExtendsByOne
  <2> QED  BY <1>1, <2>7
<1>5. CASE m \notin KnownBlocks
  <2>1. PICK e : ReadResponseEvents("anthropic", f, d) = Read(<< >>, e)
    <3>1. PICK e : ReadAnthropic(ContentBlockStart(n, m, name), d) = Read(<< >>, e)
      BY <1>5, AnthropicForeign
    <3> QED  BY <1>1, <3>1 DEF ReadResponseEvents
  <2>2. PICK J, v : J = {} /\ v = FALSE
    OBVIOUS
  <2>3. Mild(<< >>, J, v)
    BY <2>2, TalkIsMild
  <2>4. Hints("anthropic", <<f>>, d, e, J, v)
    BY <2>1, <2>3, FrameHints
  <2>5. m # "tool"
    BY <1>5 DEF KnownBlocks
  <2>6. Extends("anthropic", <<f>>, d, e, B, D)
    <3>1. /\ v \in BOOLEAN /\ Free("anthropic", d, B) \in Nat /\ Free("anthropic", e, D) \in Nat
          /\ Free("anthropic", d, B) <= Free("anthropic", e, D)
          /\ J \subseteq {Free("anthropic", d, B)} /\ J = {} /\ (HasCall(D) <=> HasCall(B) \/ v)
      <4>1. PICK i, k : i = Free("anthropic", d, B) /\ k = Free("anthropic", e, D)
        OBVIOUS
      <4>2. i = n /\ k = n + 1
        BY <1>3, <4>1
      <4>3. i \in Nat /\ k \in Nat /\ i <= k
        BY <1>2, <4>2
      <4> QED  BY <1>2, <2>2, <2>5, <4>1, <4>3
    <3> QED  BY <2>4, <3>1 DEF Extends
  <2> QED  BY <1>1, <2>6
<1> QED  BY <1>4, <1>5

\* What the reader of a Responses stream has seen of calls, frame by frame.
LEMMA AddedSaw ==
    ASSUME NEW d, ResponsesState(d), NEW i, i \notin DOMAIN d.items, NEW kind, NEW name, NEW q, NEW e,
           ReadResponses(ItemAdded(i, kind, name), d) = Read(q, e)
    PROVE  Sees("responses", e, d, kind = "tool")
<1>1. PICK opens, items, next, f : /\ opens = (kind \in {"tool", "thinking"})
                             /\ items = Put(d.items, i, StreamItem(kind, d.next))
                             /\ next = (IF opens THEN d.next + 1 ELSE d.next)
                             /\ f = ItemAdded(i, kind, name)
  OBVIOUS
<1>2. f.event = "item_added" /\ f.index = i /\ f.kind = kind /\ f.name = name
  BY <1>1 DEF ItemAdded
<1>3. ReadResponses(f, d) = StreamItemAdded(f, d)
  BY <1>2 DEF ReadResponses
<1>4. StreamItemAdded(f, d) =
        Read(IF opens THEN <<BlockStart(d.next, kind, name)>> ELSE << >>,
             [d EXCEPT !.items = items, !.next = next,
                       !.sawFunctionCall = d.sawFunctionCall \/ kind = "tool"])
  BY <1>1, <1>2 DEF StreamItemAdded
<1>5. e = [d EXCEPT !.items = items, !.next = next,
                    !.sawFunctionCall = d.sawFunctionCall \/ kind = "tool"]
  <2>1. Read(q, e).state = e
    BY ReadIs
  <2> QED  BY <1>1, <1>3, <1>4, <2>1, ReadIs
<1>6. PICK saw : saw = (d.sawFunctionCall \/ kind = "tool")
  OBVIOUS
<1>7. e.sawFunctionCall = saw
  <2>1. e = [d EXCEPT !.items = items, !.next = next, !.sawFunctionCall = saw]
    BY <1>5, <1>6
  <2> QED  BY <2>1 DEF ResponsesState
<1> QED  BY <1>6, <1>7 DEF Sees

\* The state e has seen the calls that d has.
SawSame(e, d) == e.sawFunctionCall <=> d.sawFunctionCall

\* Setting the fields of a Responses reader leaves what it saw of calls.
LEMMA FieldsApart ==
    ASSUME NEW d, ResponsesState(d), NEW x, NEW y
    PROVE  /\ SawSame(d, d) /\ SawSame([d EXCEPT !.items = x], d)
           /\ SawSame([d EXCEPT !.parts = x], d)
           /\ SawSame([d EXCEPT !.parts = x, !.next = y], d)
           /\ SawSame([[d EXCEPT !.items = x] EXCEPT !.parts = y], d)
BY DEF SawSame, ResponsesState

-----------------------------------------------------------------------------
(* What the reader of a Responses stream makes of the frames under way.    *)

\* The indices that the reader gives are numbers.
GoodItems(items) == \A k \in DOMAIN items : items[k].index \in Nat
GoodParts(parts) == DOMAIN parts \subseteq FirstParts /\ \A k \in DOMAIN parts : parts[k] \in Nat
Sound(d) == ResponsesState(d) /\ GoodItems(d.items) /\ GoodParts(d.parts) /\ d.next \in Nat

\* The state e after frames under which nothing begins.
After(e, d) == Sound(e) /\ e.next = d.next /\ SawSame(e, d)
\* What such a frame is read into.
TalkStep(r, d) == AllTalk(r.events) /\ After(r.state, d)

\* Items and parts are set.
LEMMA SoundSet ==
    ASSUME NEW d, Sound(d), NEW x, NEW y
    PROVE  /\ After(d, d)
           /\ GoodItems(x) => After([d EXCEPT !.items = x], d)
           /\ GoodParts(x) => After([d EXCEPT !.parts = x], d)
           /\ GoodItems(x) /\ GoodParts(y) => After([[d EXCEPT !.items = x] EXCEPT !.parts = y], d)
<1>1. ResponsesState(d) /\ GoodItems(d.items) /\ GoodParts(d.parts) /\ d.next \in Nat
  BY DEF Sound
<1>2. PICK e, f : e = [d EXCEPT !.items = x] /\ f = [d EXCEPT !.parts = x]
  OBVIOUS
<1>3. PICK g : g = [e EXCEPT !.parts = y]
  OBVIOUS
<1>4. /\ ResponsesState(e) /\ e.items = x /\ e.parts = d.parts /\ e.next = d.next /\ SawSame(e, d)
      /\ ResponsesState(f) /\ f.items = d.items /\ f.parts = x /\ f.next = d.next /\ SawSame(f, d)
  BY <1>1, <1>2 DEF ResponsesState, SawSame
<1>5. /\ ResponsesState(g) /\ g.items = x /\ g.parts = y /\ g.next = d.next /\ SawSame(g, d)
  BY <1>3, <1>4 DEF ResponsesState, SawSame
<1>6. After(d, d) /\ (GoodItems(x) => After(e, d)) /\ (GoodParts(x) => After(f, d))
  BY <1>1, <1>4 DEF After, Sound, SawSame
<1>7. GoodItems(x) /\ GoodParts(y) => After(g, d)
  BY <1>1, <1>5 DEF After, Sound
<1> QED  BY <1>2, <1>3, <1>6, <1>7

\* No event, and events that talk.
LEMMA TalkSteps ==
    ASSUME NEW d, NEW e, After(e, d), NEW i \in Nat, NEW k \in SpeechKinds, NEW x
    PROVE  /\ TalkStep(Read(<< >>, e), d)
           /\ TalkStep(Read(<<BlockDelta(i, k, x)>>, e), d)
           /\ TalkStep(Read(<<BlockStop(i)>>, e), d)
           /\ TalkStep(Read(<<BlockDelta(i, k, x), BlockStop(i)>>, e), d)
           /\ TalkStep(Read(<<ErrorEvent(x)>>, e), d)
<1>1. IsTalk(BlockDelta(i, k, x)) /\ IsTalk(BlockStop(i)) /\ IsTalk(ErrorEvent(x))
  BY TalkAre
<1>2. PICK a, b, c : a = BlockDelta(i, k, x) /\ b = BlockStop(i) /\ c = ErrorEvent(x)
  OBVIOUS
<1>3. IsList(<< >>) /\ IsList(<<a>>) /\ IsList(<<b>>) /\ IsList(<<c>>) /\ IsList(<<a, b>>)
  BY ListsAre
<1>4. AllTalk(<< >>) /\ AllTalk(<<a>>) /\ AllTalk(<<b>>) /\ AllTalk(<<c>>) /\ AllTalk(<<a, b>>)
  BY <1>1, <1>2, <1>3 DEF AllTalk
<1> QED  BY <1>2, <1>4, ReadIs DEF TalkStep

\* The end of a part.
LEMMA PartDoneTalks ==
    ASSUME NEW d, Sound(d), NEW j, NEW text
    PROVE  TalkStep(ReadResponses(PartDone(j, 0, text), d), d)
<1>1. PICK f, x, i : f = PartDone(j, 0, text) /\ x = Drop(d.parts, <<j, 0>>) /\ i = d.parts[<<j, 0>>]
  OBVIOUS
<1>2. f.event = "part_done" /\ f.index = j /\ f.part = 0
  BY <1>1 DEF PartDone
<1>3. ReadResponses(f, d) = StreamPartDone(f, d)
  BY <1>2 DEF ReadResponses
<1>4. PICK e : e = [d EXCEPT !.parts = x]
  OBVIOUS
<1>5. After(d, d) /\ After(e, d)
  <2>1. GoodParts(x)
    BY <1>1 DEF Sound, GoodParts, Drop
  <2> QED  BY <1>4, <2>1, SoundSet
<1>6. /\ <<j, 0>> \notin DOMAIN d.parts => StreamPartDone(f, d) = Read(<< >>, d)
      /\ <<j, 0>> \in DOMAIN d.parts => StreamPartDone(f, d) = Read(<<BlockStop(i)>>, e)
  BY <1>1, <1>2, <1>4 DEF StreamPartDone
<1>7. <<j, 0>> \in DOMAIN d.parts => i \in Nat
  BY <1>1 DEF Sound, GoodParts
<1>8. TalkStep(Read(<< >>, d), d)
  <2>1. PICK n \in Nat, k \in SpeechKinds : TRUE
    BY DEF SpeechKinds
  <2> QED  BY <1>5, TalkSteps
<1>9. i \in Nat => TalkStep(Read(<<BlockStop(i)>>, e), d)
  <2>1. PICK k \in SpeechKinds : TRUE
    BY DEF SpeechKinds
  <2> QED  BY <1>5, TalkSteps
<1> QED  BY <1>1, <1>3, <1>6, <1>7, <1>8, <1>9

\* A piece of an item.
LEMMA ItemDeltaTalks ==
    ASSUME NEW d, Sound(d), NEW j, NEW kind, NEW text
    PROVE  TalkStep(ReadResponses(ItemDelta(j, 0, kind, text), d), d)
<1>1. PICK f, it, v, x : /\ f = ItemDelta(j, 0, kind, text)
                         /\ it = d.items[j] /\ v = [it EXCEPT !.argsSeen = @ \/ kind = "args"]
                         /\ x = [d.items EXCEPT ![j] = v]
  OBVIOUS
<1>2. f.event = "delta" /\ f.index = j /\ f.part = 0 /\ f.kind = kind /\ f.text = text
  BY <1>1 DEF ItemDelta
<1>3. ReadResponses(f, d) = StreamDelta(f, d)
  BY <1>2 DEF ReadResponses
<1>4. PICK e : e = [d EXCEPT !.items = x]
  OBVIOUS
<1>5. After(d, d) /\ After(e, d)
  <2>1. GoodItems(d.items)
    BY DEF Sound
  <2>2. v.index = it.index
    BY <1>1
  <2>3. GoodItems(x)
    <3> SUFFICES ASSUME NEW k \in DOMAIN x PROVE x[k].index \in Nat
      BY DEF GoodItems
    <3>1. k \in DOMAIN d.items /\ x[k] = IF k = j THEN v ELSE d.items[k]
      BY <1>1
    <3> QED  BY <1>1, <2>1, <2>2, <3>1 DEF GoodItems
  <2> QED  BY <1>4, <2>3, SoundSet
<1>6. PICK i, n : i = d.parts[<<j, 0>>] /\ n = it.index
  OBVIOUS
<1>7. \/ StreamDelta(f, d) = Read(<< >>, d)
      \/ <<j, 0>> \in DOMAIN d.parts /\ StreamDelta(f, d) = Read(<<BlockDelta(i, "text", text)>>, d)
      \/ /\ j \in DOMAIN d.items /\ kind \in {"args", "reasoning"}
         /\ StreamDelta(f, d) = Read(<<BlockDelta(n, kind, text)>>, e)
  <2>1. [d EXCEPT !.items[f.index].argsSeen = @ \/ f.kind = "args"] = e
    BY <1>1, <1>2, <1>4
  <2>2. PICK wanted : wanted = [text |-> "message", args |-> "tool", reasoning |-> "thinking"]
    OBVIOUS
  <2>3. DOMAIN wanted = {"text", "args", "reasoning"}
    BY <2>2
  <2> QED  BY <1>1, <1>2, <1>6, <2>1, <2>2, <2>3 DEF StreamDelta
<1>8. "text" \in SpeechKinds /\ "args" \in SpeechKinds /\ "reasoning" \in SpeechKinds
  BY DEF SpeechKinds
<1>9. TalkStep(Read(<< >>, d), d)
  <2>1. PICK m \in Nat, k \in SpeechKinds : TRUE
    BY <1>8
  <2> QED  BY <1>5, TalkSteps
<1>10. i \in Nat => TalkStep(Read(<<BlockDelta(i, "text", text)>>, d), d)
  BY <1>5, <1>8, TalkSteps
<1>11. n \in Nat /\ kind \in {"args", "reasoning"} => TalkStep(Read(<<BlockDelta(n, kind, text)>>, e), d)
  BY <1>5, <1>8, TalkSteps
<1>12. (<<j, 0>> \in DOMAIN d.parts => i \in Nat) /\ (j \in DOMAIN d.items => n \in Nat)
  BY <1>1, <1>6 DEF Sound, GoodParts, GoodItems
<1> QED  BY <1>1, <1>3, <1>7, <1>9, <1>10, <1>11, <1>12

\* Frames that repeat what was said, and errors.
LEMMA OthersTalk ==
    ASSUME NEW d, Sound(d), NEW j, NEW kind, NEW text
    PROVE  /\ TalkStep(ReadResponses(DeltaDone(j, kind, text), d), d)
           /\ TalkStep(ReadResponses(Failed(text), d), d)
<1>1. ReadResponses(DeltaDone(j, kind, text), d) = Read(<< >>, d)
  BY ResponsesQuiet
<1>2. ReadResponses(Failed(text), d) = Read(<<ErrorEvent(text)>>, d)
  BY ResponsesTrouble
<1>3. PICK m \in Nat, k \in SpeechKinds : TRUE
  BY DEF SpeechKinds
<1>4. After(d, d)
  BY SoundSet
<1>5. TalkStep(Read(<< >>, d), d) /\ TalkStep(Read(<<ErrorEvent(text)>>, d), d)
  BY <1>3, <1>4, TalkSteps
<1> QED  BY <1>1, <1>2, <1>5

\* Blocks that stop, one after the other.
LEMMA StopsTalk ==
    ASSUME NEW x, IsList(x), NEW at, \A i \in 1 .. Len(x) : at[x[i]] \in Nat
    PROVE  AllTalk([i \in DOMAIN x |-> BlockStop(at[x[i]])])
<1>1. PICK V : x \in Seq(V)
  BY DEF IsList
<1>2. PICK f : f = [i \in DOMAIN x |-> BlockStop(at[x[i]])]
  OBVIOUS
<1>3. f \in Seq({BlockStop(at[v]) : v \in V}) /\ Len(f) = Len(x) /\ Len(x) \in Nat
  BY <1>1, <1>2
<1>4. \A i \in 1 .. Len(f) : IsTalk(f[i])
  <2> SUFFICES ASSUME NEW i \in 1 .. Len(f) PROVE IsTalk(f[i])
    OBVIOUS
  <2>1. f[i] = BlockStop(at[x[i]]) /\ at[x[i]] \in Nat
    BY <1>1, <1>2, <1>3
  <2>2. PICK k \in SpeechKinds : TRUE
    BY DEF SpeechKinds
  <2> QED  BY <2>1, <2>2, TalkAre
<1> QED  BY <1>2, <1>3, <1>4 DEF AllTalk, IsList

\* The parts of an item that are open, in order, are parts that are open.
LEMMA StaleAreParts ==
    ASSUME NEW i \in Nat, NEW S, S \subseteq {<<i, 0>>}
    PROVE  \A k \in 1 .. Len(InOrder(S, LAMBDA a, b : a[2] < b[2])) :
              InOrder(S, LAMBDA a, b : a[2] < b[2])[k] \in S
<1> DEFINE n == Cardinality(S)
           In(s) == s \in [1 .. n -> S] /\ \A a, b \in DOMAIN s : a < b => s[a][2] < s[b][2]
           sorted == InOrder(S, LAMBDA a, b : a[2] < b[2])
<1>1. \E s : In(s) /\ n \in Nat
  <2>1. CASE S = {}
    <3>1. n = 0
      BY <2>1, FS_EmptySet
    <3>2. In([a \in 1 .. 0 |-> a])
      BY <2>1, <3>1
    <3> HIDE DEF In, n
    <3> QED  BY <3>1, <3>2
  <2>2. CASE S = {<<i, 0>>}
    <3>1. n = 1
      BY <2>2, FS_Singleton
    <3>2. In([a \in 1 .. 1 |-> <<i, 0>>])
      <4>1. PICK v : v = <<i, 0>>
        OBVIOUS
      <4>2. [a \in 1 .. 1 |-> v] \in [1 .. 1 -> {v}]
        OBVIOUS
      <4> QED  BY <2>2, <3>1, <4>1, <4>2
    <3> HIDE DEF In, n
    <3> QED  BY <3>1, <3>2
  <2> QED  BY <2>1, <2>2
<1>2. sorted = CHOOSE s : In(s)
  BY DEF InOrder
<1>3. In(CHOOSE s : In(s))
  <2> HIDE DEF In, n
  <2> QED  BY <1>1
<1>4. sorted \in [1 .. n -> S] /\ n \in Nat
  <2> HIDE DEF n, sorted
  <2> QED  BY <1>1, <1>2, <1>3
<1>5. \A k \in 1 .. Len(sorted) : sorted[k] \in S
  <2> HIDE DEF n, sorted
  <2> QED  BY <1>4
<1> QED  BY <1>5

\* The end of an item.
LEMMA ItemDoneTalks ==
    ASSUME NEW d, Sound(d), NEW j \in Nat, NEW item
    PROVE  TalkStep(ReadResponses(ItemDone(j, item), d), d)
<1>1. PICK f : f = ItemDone(j, item)
  OBVIOUS
<1>2. f.event = "item_done" /\ f.index = j /\ f.item = item
  BY <1>1 DEF ItemDone
<1>3. ReadResponses(f, d) = StreamItemDone(f, d)
  BY <1>2 DEF ReadResponses
<1> DEFINE stale == {k \in DOMAIN d.parts : k[1] = j}
           parts == [k \in DOMAIN d.parts \ stale |-> d.parts[k]]
           sorted == InOrder(stale, LAMBDA a, b : a[2] < b[2])
           stops == EachOf(sorted, LAMBDA k : BlockStop(d.parts[k]))
<1>4. PICK it, x, g : it = d.items[j] /\ x = Drop(d.items, j) /\ g = [d EXCEPT !.items = x]
  OBVIOUS
<1>5. PICK e : e = [g EXCEPT !.parts = [k \in DOMAIN @ \ stale |-> @[k]]]
  OBVIOUS
<1>6. After(d, d) /\ After(g, d) /\ g.parts = d.parts
  <2>1. GoodItems(x)
    BY <1>4 DEF Sound, GoodItems, Drop
  <2>2. g.parts = d.parts
    BY <1>4 DEF Sound, ResponsesState
  <2> QED  BY <1>4, <2>1, <2>2, SoundSet
<1>7. After(e, d)
  <2>1. GoodParts(parts) /\ GoodItems(x)
    BY <1>4 DEF Sound, GoodParts, GoodItems, Drop
  <2>2. e = [g EXCEPT !.parts = parts]
    <3>1. ResponsesState(g)
      BY <1>6 DEF After, Sound
    <3> QED  BY <1>5, <1>6, <3>1 DEF ResponsesState
  <2>3. PICK y : y = parts
    OBVIOUS
  <2>4. After([[d EXCEPT !.items = x] EXCEPT !.parts = y], d)
    <3>1. GoodItems(x) /\ GoodParts(y)
      BY <2>1, <2>3
    <3> QED  BY <3>1, SoundSet
  <2> HIDE DEF parts
  <2> QED  BY <1>4, <2>2, <2>3, <2>4
<1>8. AllTalk(stops)
  <2>1. stale \subseteq {<<j, 0>>}
    BY DEF Sound, GoodParts, FirstParts
  <2>2. IsList(sorted)
    <3> HIDE DEF stale
    <3> QED  BY <2>1, StaleIsList
  <2>3. PICK at : at = d.parts
    OBVIOUS
  <2>4. stops = [k \in DOMAIN sorted |-> BlockStop(at[sorted[k]])]
    BY <2>3 DEF EachOf
  <2>5. \A k \in 1 .. Len(sorted) : sorted[k] \in stale
    <3> HIDE DEF stale
    <3> QED  BY <2>1, StaleAreParts
  <2>6. \A k \in 1 .. Len(sorted) : at[sorted[k]] \in Nat
    <3>1. \A k \in stale : at[k] \in Nat
      BY <2>3 DEF Sound, GoodParts
    <3> HIDE DEF stale, sorted
    <3> QED  BY <2>5, <3>1
  <2> HIDE DEF sorted, stops
  <2>7. AllTalk([k \in DOMAIN sorted |-> BlockStop(at[sorted[k]])])
    BY <2>2, <2>6, StopsTalk
  <2> QED  BY <2>4, <2>7
<1>9. TalkStep(Read(stops, e), d)
  <2> HIDE DEF stops
  <2> QED  BY <1>7, <1>8, ReadIs DEF TalkStep
<1>10. PICK n : n = it.index
  OBVIOUS
<1>11. ASSUME NEW kind \in SpeechKinds, NEW text, n \in Nat
       PROVE  TalkStep(Read((IF text = << >> THEN << >> ELSE <<BlockDelta(n, kind, text)>>)
                               \o <<BlockStop(n)>>, g), d)
  <2>1. TalkStep(Read(LateEvents(n, kind, text), g), d)
    BY <1>6, <1>11, TalkSteps DEF LateEvents
  <2> QED  BY <2>1, LateEventsAre
<1>12. j \in DOMAIN d.items => n \in Nat
  BY <1>4, <1>10 DEF Sound, GoodItems
<1> DEFINE late(kind, text) == IF text = << >> THEN << >> ELSE <<BlockDelta(n, kind, text)>>
<1>13. \/ StreamItemDone(f, d) \in {Read(<< >>, d), Read(<< >>, g), Read(stops, e)}
       \/ j \in DOMAIN d.items /\ StreamItemDone(f, d) \in
            {Read(late("args", MissingArguments(it, item)) \o <<BlockStop(n)>>, g),
             Read(late("opaque", item.encrypted) \o <<BlockStop(n)>>, g)}
  BY <1>2, <1>4, <1>5, <1>10 DEF StreamItemDone
<1>14. TalkStep(Read(<< >>, d), d) /\ TalkStep(Read(<< >>, g), d)
  <2>1. PICK m \in Nat, k \in SpeechKinds : TRUE
    BY DEF SpeechKinds
  <2> QED  BY <1>6, <2>1, TalkSteps
<1>15. "args" \in SpeechKinds /\ "opaque" \in SpeechKinds
  BY DEF SpeechKinds
<1> HIDE DEF stops
<1> QED  BY <1>1, <1>3, <1>9, <1>11, <1>12, <1>13, <1>14, <1>15

\* Such a step is mild.
LEMMA TalkStepIsMild ==
    ASSUME NEW f, NEW d, TalkStep(ReadResponses(f, d), d), NEW q, NEW e, ReadResponses(f, d) = Read(q, e)
    PROVE  ReadsMildly("responses", f, d, e, {}, FALSE) /\ After(e, d)
<1>1. AllTalk(q) /\ After(e, d)
  BY ReadIs DEF TalkStep
<1>2. PICK J, v : J = {} /\ v = FALSE
  OBVIOUS
<1>3. Mild(q, J, v)
  BY <1>1, <1>2 DEF Mild
<1>4. ReadResponseEvents("responses", f, d) = Read(q, e)
  BY DEF ReadResponseEvents
<1>5. ReadsMildly("responses", f, d, e, J, v)
  BY <1>3, <1>4 DEF ReadsMildly
<1> QED  BY <1>1, <1>2, <1>5

\* An item that is new.
Starting(e, d, v) ==
    Sound(e) /\ e.next = d.next + 1 /\ (e.sawFunctionCall <=> d.sawFunctionCall \/ v)

\* A state with other items, parts and next index.
LEMMA HoldsSound ==
    ASSUME NEW e, NEW items, NEW parts, NEW next, Holds(e, items, parts, next),
           GoodItems(items), GoodParts(parts), next \in Nat
    PROVE  Sound(e)
  BY DEF Holds, Sound

\* One item more.
LEMMA GoodPut ==
    ASSUME NEW d, Sound(d), NEW i \in Nat, NEW kind
    PROVE  /\ GoodItems(Put(d.items, i, StreamItem(kind, d.next)))
           /\ GoodParts(Put(d.parts, <<i, 0>>, d.next))
<1>1. PICK x, y, n : /\ x = Put(d.items, i, StreamItem(kind, d.next)) /\ y = Put(d.parts, <<i, 0>>, d.next)
                     /\ n = d.next
  OBVIOUS
<1>2. n \in Nat /\ GoodItems(d.items) /\ GoodParts(d.parts)
  BY <1>1 DEF Sound
<1>3. StreamItem(kind, n).index = n
  BY DEF StreamItem
<1>4. GoodItems(x)
  BY <1>1, <1>2, <1>3 DEF GoodItems, Put
<1>5. <<i, 0>> \in FirstParts
  BY DEF FirstParts
<1>6. GoodParts(y)
  BY <1>1, <1>2, <1>5 DEF GoodParts, Put
<1> QED  BY <1>1, <1>4, <1>6

\* An item that is a call or thinking starts its block at once.
LEMMA ItemAddedStarts ==
    ASSUME NEW d, Sound(d), NEW i \in Nat, i \notin DOMAIN d.items, NEW kind \in {"tool", "thinking"},
           NEW name
    PROVE  \E e : /\ ReadResponses(ItemAdded(i, kind, name), d) = Read(<<BlockStart(d.next, kind, name)>>, e)
                  /\ Starting(e, d, kind = "tool")
<1>1. ResponsesState(d) /\ GoodItems(d.items) /\ GoodParts(d.parts) /\ d.next \in Nat
  BY DEF Sound
<1>2. PICK e : /\ ReadResponses(ItemAdded(i, kind, name), d) = Read(<<BlockStart(d.next, kind, name)>>, e)
               /\ Holds(e, Put(d.items, i, StreamItem(kind, d.next)), d.parts, d.next + 1)
  BY <1>1, ItemStarts
<1>3. Sees("responses", e, d, kind = "tool")
  BY <1>1, <1>2, AddedSaw
<1>4. Sound(e)
  <2>1. GoodItems(Put(d.items, i, StreamItem(kind, d.next)))
    BY GoodPut
  <2>4. d.next + 1 \in Nat
    BY <1>1
  <2>2. PICK n, items : n = d.next + 1 /\ items = Put(d.items, i, StreamItem(kind, d.next))
    OBVIOUS
  <2>3. Holds(e, items, d.parts, n) /\ GoodItems(items) /\ n \in Nat
    BY <1>2, <2>1, <2>2, <2>4
  <2> QED  BY <1>1, <2>3, HoldsSound
<1> QED  BY <1>2, <1>3, <1>4 DEF Starting, Sees, Holds

\* A message waits for its first part.
LEMMA ItemAddedWaits ==
    ASSUME NEW d, Sound(d), NEW i \in Nat, i \notin DOMAIN d.items,
           NEW kind, kind \notin {"tool", "thinking"}, NEW name
    PROVE  \E e : ReadResponses(ItemAdded(i, kind, name), d) = Read(<< >>, e) /\ After(e, d)
<1>1. ResponsesState(d) /\ GoodItems(d.items) /\ GoodParts(d.parts) /\ d.next \in Nat
  BY DEF Sound
<1>2. PICK e : /\ ReadResponses(ItemAdded(i, kind, name), d) = Read(<< >>, e)
               /\ Holds(e, Put(d.items, i, StreamItem(kind, d.next)), d.parts, d.next)
  BY <1>1, ItemWaits
<1>3. SawSame(e, d)
  <2>1. PICK f, x, y : /\ f = ItemAdded(i, kind, name) /\ x = Put(d.items, i, StreamItem(kind, d.next))
                       /\ y = d.next
    OBVIOUS
  <2>2. f.event = "item_added" /\ f.index = i /\ f.kind = kind
    BY <2>1 DEF ItemAdded
  <2>3. ReadResponses(f, d) = StreamItemAdded(f, d)
    BY <2>2 DEF ReadResponses
  <2>4. PICK saw : saw = (d.sawFunctionCall \/ kind = "tool")
    OBVIOUS
  <2>5. StreamItemAdded(f, d) = Read(<< >>, [d EXCEPT !.items = x, !.next = y, !.sawFunctionCall = saw])
    BY <2>1, <2>2, <2>4 DEF StreamItemAdded
  <2>6. e = [d EXCEPT !.items = x, !.next = y, !.sawFunctionCall = saw]
    <3>1. Read(<< >>, e) = Read(<< >>, [d EXCEPT !.items = x, !.next = y, !.sawFunctionCall = saw])
      BY <1>2, <2>1, <2>3, <2>5
    <3> QED  BY <3>1, ReadIs
  <2>7. e.sawFunctionCall = saw
    BY <1>1, <2>6 DEF ResponsesState
  <2> QED  BY <2>4, <2>7 DEF SawSame
<1>4. Sound(e)
  <2>1. GoodItems(Put(d.items, i, StreamItem(kind, d.next)))
    BY GoodPut
  <2> QED  BY <1>1, <1>2, <2>1, HoldsSound
<1> QED  BY <1>2, <1>3, <1>4 DEF After, Holds

\* A part of a text.
LEMMA PartAddedStarts ==
    ASSUME NEW d, Sound(d), NEW i \in Nat
    PROVE  \E e : \/ ReadResponses(PartAdded(i, 0, "text"), d) = Read(<< >>, e) /\ After(e, d)
                  \/ /\ ReadResponses(PartAdded(i, 0, "text"), d) = Read(<<BlockStart(d.next, "text", << >>)>>, e)
                     /\ Starting(e, d, FALSE)
<1>1. ResponsesState(d) /\ GoodItems(d.items) /\ GoodParts(d.parts) /\ d.next \in Nat
  BY DEF Sound
<1>2. PICK f, x, y : /\ f = PartAdded(i, 0, "text") /\ x = Put(d.parts, <<i, 0>>, d.next)
                     /\ y = d.next + 1
  OBVIOUS
<1>3. f.event = "part_added" /\ f.index = i /\ f.part = 0 /\ f.kind = "text"
  BY <1>2 DEF PartAdded
<1>4. ReadResponses(f, d) = StreamPartAdded(f, d)
  BY <1>3 DEF ReadResponses
<1>5. PICK e : e = [d EXCEPT !.parts = x, !.next = y]
  OBVIOUS
<1>6. \/ StreamPartAdded(f, d) = Read(<< >>, d)
      \/ StreamPartAdded(f, d) = Read(<<BlockStart(d.next, "text", << >>)>>, e)
  BY <1>2, <1>3, <1>5 DEF StreamPartAdded
<1>7. After(d, d)
  BY SoundSet
<1>8. Holds(e, d.items, x, y)
  BY <1>1, <1>5, StatesSet
<1>9. Starting(e, d, FALSE)
  <2>1. Sound(e)
    BY <1>1, <1>2, <1>8, GoodPut, HoldsSound
  <2>2. SawSame(e, d)
    BY <1>1, <1>5, FieldsApart
  <2> QED  BY <1>2, <1>8, <2>1, <2>2 DEF Starting, Holds, SawSame
<1> QED  BY <1>2, <1>4, <1>6, <1>7, <1>9

-----------------------------------------------------------------------------
(* What the frames of each action lead to.                                 *)

\* The frames lead the reader to a state in which it may go on, and to the answer D.
Leads(p, frames, d, B, D) ==
    \E e : Extends(p, frames, d, e, B, D) /\ (p = "responses" => Sound(e))

\* Frames that are read without an event, and with a block that starts.
LEMMA NothingMild ==
    ASSUME NEW f, NEW d, NEW e, ReadResponses(f, d) = Read(<< >>, e)
    PROVE  ReadsMildly("responses", f, d, e, {}, FALSE)
<1>1. PICK J, v : J = {} /\ v = FALSE
  OBVIOUS
<1>2. Mild(<< >>, J, v)
  BY <1>1, TalkIsMild
<1>3. ReadResponseEvents("responses", f, d) = Read(<< >>, e)
  BY DEF ReadResponseEvents
<1>4. ReadsMildly("responses", f, d, e, J, v)
  BY <1>2, <1>3, FrameHints
<1> QED  BY <1>1, <1>4

\* A frame that is read as the start of a block is mild.
LEMMA StartMild ==
    ASSUME NEW f, NEW d, NEW e, NEW j \in Nat, NEW m \in Metas, NEW n,
           ReadResponses(f, d) = Read(<<BlockStart(j, m, n)>>, e)
    PROVE  ReadsMildly("responses", f, d, e, {j}, m = "tool")
<1>1. PICK J, v, q : J = {j} /\ v = (m = "tool") /\ q = <<BlockStart(j, m, n)>>
  OBVIOUS
<1>2. Mild(q, J, v)
  BY <1>1, StartIsMild
<1>3. ReadResponseEvents("responses", f, d) = Read(q, e)
  BY <1>1 DEF ReadResponseEvents
<1>4. ReadsMildly("responses", f, d, e, J, v)
  BY <1>2, <1>3, FrameHints
<1> QED  BY <1>1, <1>4

\* Nothing begins, or one block, under the frames of a Responses stream.
LEMMA QuietLeads ==
    ASSUME NEW frames, NEW d, Sound(d), NEW e, After(e, d), Hints("responses", frames, d, e, {}, FALSE),
           NEW B, NEW D, HasCall(D) <=> HasCall(B)
    PROVE  Leads("responses", frames, d, B, D)
<1>1. Free("responses", d, B) = d.next /\ Free("responses", e, D) = d.next /\ d.next \in Nat
  BY DEF Free, After, Sound
<1>2. Sees("responses", e, d, FALSE)
  BY DEF After, SawSame, Sees
<1>3. Extends("responses", frames, d, e, B, D)
  BY <1>1, <1>2, ExtendsQuietly
<1> QED  BY <1>3 DEF Leads, After

\* Frames that start the next block lead to an answer with it.
LEMMA StartLeads ==
    ASSUME NEW frames, NEW d, Sound(d), NEW e, NEW m, Starting(e, d, m = "tool"),
           Hints("responses", frames, d, e, {d.next}, m = "tool"),
           NEW B, NEW D, HasCall(D) <=> HasCall(B) \/ m = "tool"
    PROVE  Leads("responses", frames, d, B, D)
<1>1. PICK i : i = d.next
  OBVIOUS
<1>2. Free("responses", d, B) = i /\ Free("responses", e, D) = i + 1 /\ i \in Nat
  BY <1>1 DEF Free, Starting, Sound
<1>3. Sees("responses", e, d, m = "tool")
  BY DEF Starting, Sees
<1>4. Hints("responses", frames, d, e, {i}, m = "tool")
  BY <1>1
<1>5. Extends("responses", frames, d, e, B, D)
  BY <1>2, <1>3, <1>4, ExtendsByOne
<1> QED  BY <1>5 DEF Leads, Starting

\* An item, or a message with its part.
LEMMA ResponsesItemLeads ==
    ASSUME NEW d, Sound(d), NEW n \in Nat, n \notin DOMAIN d.items, NEW kind, NEW name,
           NEW B, NEW D, HasCall(D) <=> HasCall(B) \/ kind = "tool"
    PROVE  Leads("responses", <<ItemAdded(n, kind, name)>>, d, B, D)
<1>1. PICK f : f = ItemAdded(n, kind, name)
  OBVIOUS
<1>2. CASE kind \in {"tool", "thinking"}
  <2>1. PICK e : /\ ReadResponses(f, d) = Read(<<BlockStart(d.next, kind, name)>>, e)
                 /\ Starting(e, d, kind = "tool")
    BY <1>1, <1>2, ItemAddedStarts
  <2>2. d.next \in Nat /\ kind \in Metas
    BY <1>2 DEF Sound, Metas
  <2>3. ReadsMildly("responses", f, d, e, {d.next}, kind = "tool")
    BY <2>1, <2>2, StartMild
  <2>4. Hints("responses", <<f>>, d, e, {d.next}, kind = "tool")
    BY <2>3 DEF Hints
  <2>5. Leads("responses", <<f>>, d, B, D)
    BY <2>1, <2>4, StartLeads
  <2> QED  BY <1>1, <2>5
<1>3. CASE kind \notin {"tool", "thinking"}
  <2>1. PICK e : ReadResponses(f, d) = Read(<< >>, e) /\ After(e, d)
    BY <1>1, <1>3, ItemAddedWaits
  <2>2. ReadsMildly("responses", f, d, e, {}, FALSE)
    BY <2>1, NothingMild
  <2>3. Hints("responses", <<f>>, d, e, {}, FALSE)
    BY <2>2 DEF Hints
  <2>4. HasCall(D) <=> HasCall(B)
    BY <1>3
  <2>5. Leads("responses", <<f>>, d, B, D)
    BY <2>1, <2>3, <2>4, QuietLeads
  <2> QED  BY <1>1, <2>5
<1> QED  BY <1>2, <1>3

\* Frames under which nothing begins may go first.
LEMMA AfterBoth ==
    ASSUME NEW d, NEW m, After(m, d), NEW e
    PROVE  /\ After(e, m) => After(e, d)
           /\ \A v : Starting(e, m, v) => Starting(e, d, v)
  BY DEF After, Starting, SawSame

\* A Responses upstream opens a text, with the item and its part.
LEMMA ResponsesTextLeads ==
    ASSUME NEW d, Sound(d), NEW n \in Nat, n \notin DOMAIN d.items,
           NEW B, NEW D, HasCall(D) <=> HasCall(B)
    PROVE  Leads("responses", <<ItemAdded(n, "message", << >>), PartAdded(n, 0, "text")>>, d, B, D)
<1>1. PICK f, g, kind, name : /\ f = ItemAdded(n, kind, name) /\ g = PartAdded(n, 0, "text")
                        /\ kind = "message" /\ name = << >>
  OBVIOUS
<1>2. PICK m : ReadResponses(f, d) = Read(<< >>, m) /\ After(m, d)
  BY <1>1, ItemAddedWaits
<1>3. ReadsMildly("responses", f, d, m, {}, FALSE)
  BY <1>2, NothingMild
<1>4. Sound(m) /\ m.next = d.next
  BY <1>2 DEF After
<1>5. PICK e : \/ ReadResponses(g, m) = Read(<< >>, e) /\ After(e, m)
               \/ /\ ReadResponses(g, m) = Read(<<BlockStart(m.next, "text", << >>)>>, e)
                  /\ Starting(e, m, FALSE)
  BY <1>1, <1>4, PartAddedStarts
<1>6. CASE ReadResponses(g, m) = Read(<< >>, e) /\ After(e, m)
  <2>1. ReadsMildly("responses", g, m, e, {}, FALSE)
    BY <1>6, NothingMild
  <2>2. Hints("responses", <<f, g>>, d, e, {}, FALSE)
    BY <1>3, <2>1 DEF Hints
  <2>3. After(e, d)
    BY <1>2, <1>6, AfterBoth
  <2>4. Leads("responses", <<f, g>>, d, B, D)
    BY <2>2, <2>3, QuietLeads
  <2> QED  BY <1>1, <2>4
<1>7. CASE /\ ReadResponses(g, m) = Read(<<BlockStart(m.next, "text", << >>)>>, e)
           /\ Starting(e, m, FALSE)
  <2>1. PICK k, i : k = "text" /\ i = m.next
    OBVIOUS
  <2>2. i \in Nat /\ k \in Metas /\ ReadResponses(g, m) = Read(<<BlockStart(i, k, << >>)>>, e)
    BY <1>4, <1>7, <2>1 DEF Sound, Metas
  <2>3. ReadsMildly("responses", g, m, e, {i}, k = "tool")
    BY <2>2, StartMild
  <2>4. Hints("responses", <<f, g>>, d, e, {i}, k = "tool")
    BY <1>3, <2>3 DEF Hints
  <2>5. Starting(e, d, FALSE)
    BY <1>2, <1>7, AfterBoth
  <2>6. Starting(e, d, k = "tool") /\ (HasCall(D) <=> HasCall(B) \/ k = "tool")
    BY <2>1, <2>5 DEF Starting
  <2>7. Hints("responses", <<f, g>>, d, e, {d.next}, k = "tool")
    BY <1>4, <2>1, <2>4
  <2>8. Leads("responses", <<f, g>>, d, B, D)
    BY <2>6, <2>7, StartLeads
  <2> QED  BY <1>1, <2>8
<1> QED  BY <1>5, <1>6, <1>7

-----------------------------------------------------------------------------
(* The frames of a Responses stream that say something of an item.         *)

\* What the reader makes of such a frame is what a reader makes.
LEMMA SomethingIsRead ==
    ASSUME NEW d, NEW f, f.event \in {"delta", "part_done", "delta_done", "item_done", "failed"}
    PROVE  \E q, e : ReadResponses(f, d) = Read(q, e)
<1>1. CASE f.event = "delta"
  BY <1>1 DEF ReadResponses, StreamDelta
<1>2. CASE f.event = "part_done"
  BY <1>2 DEF ReadResponses, StreamPartDone
<1>3. CASE f.event = "delta_done"
  BY <1>3 DEF ReadResponses
<1>4. CASE f.event = "failed"
  BY <1>4 DEF ReadResponses
<1>5. CASE f.event = "item_done"
  <2>1. ReadResponses(f, d) = StreamItemDone(f, d)
    BY <1>5 DEF ReadResponses
  <2>2. \E q, e : StreamItemDone(f, d) = Read(q, e)
    BY DEF StreamItemDone
  <2> QED  BY <2>1, <2>2
<1> QED  BY <1>1, <1>2, <1>3, <1>4, <1>5

\* The frame is read without anything that begins.
Passes(f, d) == \E e : ReadsMildly("responses", f, d, e, {}, FALSE) /\ After(e, d)

\* A frame of a block that has begun passes.
LEMMA TalkPasses ==
    ASSUME NEW d, NEW f, f.event \in {"delta", "part_done", "delta_done", "item_done", "failed"},
           TalkStep(ReadResponses(f, d), d)
    PROVE  Passes(f, d)
<1>1. PICK q, e : ReadResponses(f, d) = Read(q, e)
  BY SomethingIsRead
<1>2. ReadsMildly("responses", f, d, e, {}, FALSE) /\ After(e, d)
  BY <1>1, TalkStepIsMild
<1> QED  BY <1>2 DEF Passes

\* The frames of a Responses stream that pass.
LEMMA FramesPass ==
    ASSUME NEW d, Sound(d), NEW j \in Nat, NEW kind, NEW text, NEW item
    PROVE  /\ Passes(ItemDelta(j, 0, kind, text), d) /\ Passes(DeltaDone(j, kind, text), d)
           /\ Passes(PartDone(j, 0, text), d) /\ Passes(ItemDone(j, item), d)
           /\ Passes(Failed(text), d)
<1>1. Passes(ItemDelta(j, 0, kind, text), d)
  <2>1. ItemDelta(j, 0, kind, text).event = "delta"
    BY DEF ItemDelta
  <2> QED  BY <2>1, ItemDeltaTalks, TalkPasses
<1>2. Passes(DeltaDone(j, kind, text), d)
  <2>1. DeltaDone(j, kind, text).event = "delta_done"
    BY DEF DeltaDone
  <2> QED  BY <2>1, OthersTalk, TalkPasses
<1>3. Passes(PartDone(j, 0, text), d)
  <2>1. PartDone(j, 0, text).event = "part_done"
    BY DEF PartDone
  <2> QED  BY <2>1, PartDoneTalks, TalkPasses
<1>4. Passes(ItemDone(j, item), d)
  <2>1. ItemDone(j, item).event = "item_done"
    BY DEF ItemDone
  <2> QED  BY <2>1, ItemDoneTalks, TalkPasses
<1>5. Passes(Failed(text), d)
  <2>1. Failed(text).event = "failed"
    BY DEF Failed
  <2>2. TalkStep(ReadResponses(Failed(text), d), d)
    BY OthersTalk
  <2> QED  BY <2>1, <2>2, TalkPasses
<1> QED  BY <1>1, <1>2, <1>3, <1>4, <1>5

\* One such frame, two and three.
LEMMA PassesLead ==
    ASSUME NEW d, Sound(d), NEW f, Passes(f, d), NEW B, NEW D, HasCall(D) <=> HasCall(B)
    PROVE  /\ Leads("responses", <<f>>, d, B, D)
           /\ \A g : (\A m : Sound(m) => Passes(g, m)) =>
                 /\ Leads("responses", <<f, g>>, d, B, D)
                 /\ \A h : (\A m : Sound(m) => Passes(h, m)) => Leads("responses", <<f, g, h>>, d, B, D)
<1>1. PICK e : ReadsMildly("responses", f, d, e, {}, FALSE) /\ After(e, d)
  BY DEF Passes
<1>2. Leads("responses", <<f>>, d, B, D)
  <2>1. Hints("responses", <<f>>, d, e, {}, FALSE)
    BY <1>1 DEF Hints
  <2> QED  BY <1>1, <2>1, QuietLeads
<1>3. ASSUME NEW g, \A m : Sound(m) => Passes(g, m)
      PROVE  /\ Leads("responses", <<f, g>>, d, B, D)
             /\ \A h : (\A m : Sound(m) => Passes(h, m)) => Leads("responses", <<f, g, h>>, d, B, D)
  <2>1. Passes(g, e)
    BY <1>1, <1>3 DEF After
  <2>2. PICK k : ReadsMildly("responses", g, e, k, {}, FALSE) /\ After(k, e)
    BY <2>1 DEF Passes
  <2>3. After(k, d)
    BY <1>1, <2>2, AfterBoth
  <2>4. Leads("responses", <<f, g>>, d, B, D)
    <3>1. Hints("responses", <<f, g>>, d, k, {}, FALSE)
      BY <1>1, <2>2 DEF Hints
    <3> QED  BY <2>3, <3>1, QuietLeads
  <2>5. ASSUME NEW h, \A m : Sound(m) => Passes(h, m)
        PROVE  Leads("responses", <<f, g, h>>, d, B, D)
    <3>1. Passes(h, k)
      BY <2>2, <2>5 DEF After
    <3>2. PICK l : ReadsMildly("responses", h, k, l, {}, FALSE) /\ After(l, k)
      BY <3>1 DEF Passes
    <3>3. After(l, d)
      BY <2>3, <3>2, AfterBoth
    <3>4. Hints("responses", <<f, g, h>>, d, l, {}, FALSE)
      BY <1>1, <2>2, <3>2 DEF Hints
    <3> QED  BY <3>3, <3>4, QuietLeads
  <2> QED  BY <2>4, <2>5
<1> QED  BY <1>2, <1>3

-----------------------------------------------------------------------------
(* A block that opens, in any protocol.                                    *)

\* Only the Responses reader needs to be sound.
SoundFor(p, d) == p = "responses" => Sound(d)

\* An upstream of each protocol opens a block.
LEMMA OpenLeads ==
    ASSUME NEW p \in Protocols, egress = p, NEW S, NEW B \in Seq(S), NEW b \in S, Opening(p, B, b),
           NEW s, Carries(p, s, B), SoundFor(p, s.decode), NEW D, D = Append(B, b)
    PROVE  Leads(p, OpenFrames(b.kind, b.at, b.text), s.decode, B, D)
<1>1. PICK d : d = s.decode
  OBVIOUS
<1>2. Answer(p, B) /\ ShowsAnswer(p, s, B)
  BY DEF Carries
<1>3. IsSaid(p, b)
  BY DEF Opening
<1>4. Len(B) \in Nat
  OBVIOUS
<1>5. CASE p = "openai"
  <2>1. OpenAiAnswer(B) /\ OpenAiShows(s, B) /\ IsSaid("openai", b)
    BY <1>2, <1>3, <1>5, AnswerIs DEF ShowsAnswer
  <2>2. CASE b.kind = "tool"
    <3>1. b.text = << >> /\ b.at = Cardinality(Calls(B))
      BY <1>5, <2>2 DEF Opening
    <3>2. OpenFrames(b.kind, b.at, b.text) = <<CallChunk(b.at, Name, << >>)>>
      BY <1>5, <2>2, <3>1, OpenFramesAre
    <3>3. \E e : Extends("openai", <<CallChunk(b.at, Name, << >>)>>, s.decode, e, B, Append(B, b))
      BY <2>1, <2>2, <3>1, OpenAiCallHints
    <3> QED  BY <1>5, <3>2, <3>3 DEF Leads
  <2>3. CASE b.kind # "tool"
    <3>1. b.text # << >> /\ \A j \in 1 .. Len(B) : B[j].kind # b.kind
      BY <1>5, <2>3 DEF Opening
    <3>2. b.kind \in {"text", "reasoning"}
      <4>1. b.kind \in {"text", "tool", "reasoning"}
        BY <1>3, <1>5, KindsAre
      <4> QED  BY <2>3, <4>1
    <3>3. OpenFrames(b.kind, b.at, b.text) = <<Speech(b.kind, b.text)>>
      BY <1>5, <3>2, OpenFramesAre
    <3>4. \E e : Extends("openai", <<Speech(b.kind, b.text)>>, s.decode, e, B, Append(B, b))
      BY <2>1, <3>1, <3>2, OpenAiTextHints
    <3> QED  BY <1>5, <3>3, <3>4 DEF Leads
  <2> QED  BY <2>2, <2>3
<1>6. CASE p = "anthropic"
  <2>1. IsSaid("anthropic", b) /\ b.at = Len(B)
    BY <1>3, <1>6 DEF Opening
  <2>2. PICK name : name = IF b.kind = "tool" THEN Name
                           ELSE IF b.kind = "redacted" THEN Redacted ELSE << >>
    OBVIOUS
  <2>3. OpenFrames(b.kind, b.at, b.text) = <<ContentBlockStart(b.at, b.kind, name)>>
    BY <1>6, <2>2, OpenFramesAre
  <2>4. \E e : Extends("anthropic", <<ContentBlockStart(b.at, b.kind, name)>>, s.decode, e, B, Append(B, b))
    BY <2>1, AnthropicOpenHints
  <2> QED  BY <1>6, <2>3, <2>4 DEF Leads
<1>7. CASE p = "responses"
  <2>1. ResponsesShows(s, B) /\ IsSaid("responses", b) /\ b.at = Len(B)
    BY <1>2, <1>3, <1>7 DEF ShowsAnswer, Opening
  <2>2. b.kind \notin {"reasoning", "redacted"}
    BY <1>3, <1>7, KindsAre
  <2>3. Sound(d) /\ b.at \in Nat /\ b.at \notin DOMAIN d.items
    <3>1. DOMAIN d.items \subseteq 0 .. Len(B) - 1
      BY <1>1, <2>1 DEF ResponsesShows, ResponsesAgrees, ResponsesDecoder
    <3> QED  BY <1>1, <1>4, <1>7, <2>1, <3>1 DEF SoundFor
  <2>4. HasCall(D) <=> HasCall(B) \/ b.kind = "tool"
    BY CallAppended
  <2>5. CASE b.kind = "text"
    <3>1. OpenFrames(b.kind, b.at, b.text) =
            <<ItemAdded(b.at, "message", << >>), PartAdded(b.at, 0, "text")>>
      BY <1>7, <2>5, OpenFramesAre
    <3>2. HasCall(D) <=> HasCall(B)
      BY <2>4, <2>5
    <3>3. Leads("responses", <<ItemAdded(b.at, "message", << >>), PartAdded(b.at, 0, "text")>>, d, B, D)
      BY <2>3, <3>2, ResponsesTextLeads
    <3> QED  BY <1>1, <1>7, <3>1, <3>3
  <2>6. CASE b.kind # "text"
    <3>1. PICK name : name = IF b.kind = "tool" THEN Name ELSE << >>
      OBVIOUS
    <3>2. OpenFrames(b.kind, b.at, b.text) = <<ItemAdded(b.at, b.kind, name)>>
      BY <1>7, <2>2, <2>6, <3>1, OpenFramesAre
    <3>3. Leads("responses", <<ItemAdded(b.at, b.kind, name)>>, d, B, D)
      BY <2>3, <2>4, ResponsesItemLeads
    <3> QED  BY <1>1, <1>7, <3>2, <3>3
  <2> QED  BY <2>5, <2>6
<1> QED  BY <1>5, <1>6, <1>7 DEF Protocols
-----------------------------------------------------------------------------
(* A piece of a block, the end of one and an error, in any protocol.       *)

\* One frame, read with one event that talks or with none.
LEMMA MildLeads ==
    ASSUME NEW p, p # "responses", NEW f, NEW d, NEW e, NEW q, AllTalk(q),
           ReadResponseEvents(p, f, d) = Read(q, e), NEW B, NEW D, Len(B) \in Nat, Len(D) = Len(B),
           HasCall(D) <=> HasCall(B), p \in {"openai", "anthropic"}
    PROVE  ReadsMildly(p, f, d, e, {}, FALSE) /\ Leads(p, <<f>>, d, B, D)
<1>1. PICK J, v : J = {} /\ v = FALSE
  OBVIOUS
<1>2. Mild(q, J, v)
  BY <1>1 DEF Mild
<1>3. ReadsMildly(p, f, d, e, J, v) /\ Hints(p, <<f>>, d, e, J, v)
  BY <1>2, FrameHints
<1>4. Free(p, d, B) \in Nat /\ Free(p, e, D) = Free(p, d, B)
  BY DEF Free
<1>5. Sees(p, e, d, FALSE)
  BY DEF Sees
<1>6. Hints(p, <<f>>, d, e, {}, FALSE)
  BY <1>1, <1>3
<1>7. Extends(p, <<f>>, d, e, B, D)
  BY <1>4, <1>5, <1>6, ExtendsQuietly
<1> QED  BY <1>1, <1>3, <1>7 DEF Leads

\* No event, and one that talks.
LEMMA FewTalk ==
    ASSUME NEW a
    PROVE  AllTalk(<< >>) /\ (IsTalk(a) => AllTalk(<<a>>))
<1>1. << >> \in Seq({a}) /\ <<a>> \in Seq({a})
  OBVIOUS
<1>2. IsList(<< >>) /\ IsList(<<a>>)
  BY <1>1 DEF IsList
<1>3. AllTalk(<< >>)
  BY <1>2 DEF AllTalk
<1>4. IsTalk(a) => AllTalk(<<a>>)
  <2>1. \A i \in 1 .. Len(<<a>>) : <<a>>[i] = a
    OBVIOUS
  <2> QED  BY <1>2, <2>1 DEF AllTalk
<1> QED  BY <1>3, <1>4

\* An upstream of each protocol says a piece.
LEMMA PieceLeads ==
    ASSUME NEW p \in Protocols, egress = p, NEW S, NEW B \in Seq(S), NEW j \in 1 .. Len(B),
           NEW text, NEW b, b.kind = B[j].kind, b.at = B[j].at, NEW D, Becomes(D, B, j, b),
           NEW s, Carries(p, s, B), SoundFor(p, s.decode)
    PROVE  Leads(p, PieceFrames(B[j], text), s.decode, B, D)
<1>1. PICK d, a : d = s.decode /\ a = B[j]
  OBVIOUS
<1>2. Answer(p, B) /\ ShowsAnswer(p, s, B) /\ IsSaid(p, a)
  BY <1>1 DEF Carries, Answer
<1>3. Len(D) = Len(B) /\ Len(B) \in Nat /\ (HasCall(D) <=> HasCall(B))
  BY CallChanged
<1>4. CASE p = "openai"
  <2>1. a.kind \in {"text", "tool", "reasoning"}
    BY <1>2, <1>4, KindsAre
  <2>2. PieceFrames(a, text) = <<PieceChunk(a, text)>>
    BY <1>4, <2>1, PieceFramesAre
  <2>3. DecoderAgrees(d, B) /\ DOMAIN B = 1 .. Len(B)
    BY <1>1, <1>2, <1>4 DEF ShowsAnswer, OpenAiShows, OpenAiAgrees
  <2>4. PICK q : q = PieceEvents(j, a, text)
    OBVIOUS
  <2>5. ReadOpenAi(PieceChunk(a, text), d) = Read(q, d)
    BY <1>1, <2>1, <2>3, <2>4, ReadPiece
  <2>6. AllTalk(q)
    <3>1. j \in Nat /\ FieldOf(a.kind) \in SpeechKinds
      BY <1>3, <2>1 DEF FieldOf, SpeechKinds
    <3>2. IsTalk(BlockDelta(j, FieldOf(a.kind), text))
      BY <3>1, TalkAre
    <3> QED  BY <2>4, <3>2, FewTalk DEF PieceEvents
  <2>7. ReadResponseEvents(p, PieceChunk(a, text), d) = Read(q, d)
    BY <1>4, <2>5 DEF ReadResponseEvents
  <2>8. Leads(p, <<PieceChunk(a, text)>>, d, B, D)
    BY <1>3, <1>4, <2>6, <2>7, MildLeads
  <2> QED  BY <1>1, <2>2, <2>8
<1>5. CASE p = "anthropic"
  <2>1. PICK k, f : k = SaidKind(a.kind) /\ f = ContentBlockDelta(a.at, k, text)
    OBVIOUS
  <2>2. PieceFrames(a, text) = <<f>>
    BY <1>5, <2>1, PieceFramesAre
  <2>3. PICK q : q = IF k = "other" THEN << >> ELSE <<BlockDelta(a.at, k, text)>>
    OBVIOUS
  <2>4. ReadResponseEvents(p, f, d) = Read(q, d)
    BY <1>5, <2>1, <2>3, AnthropicPiece DEF ReadResponseEvents
  <2>5. AllTalk(q)
    <3>1. a.at \in Nat
      BY <1>1, <1>2, <1>3, <1>5 DEF Answer
    <3>2. k = "other" \/ k \in SpeechKinds
      BY <2>1 DEF SaidKind, DeltaKindOf, SpeechKinds
    <3>3. k \in SpeechKinds => IsTalk(BlockDelta(a.at, k, text))
      BY <3>1, TalkAre
    <3> QED  BY <2>3, <3>2, <3>3, FewTalk
  <2>6. Leads(p, <<f>>, d, B, D)
    BY <1>3, <1>5, <2>4, <2>5, MildLeads
  <2> QED  BY <1>1, <2>2, <2>6
<1>6. CASE p = "responses"
  <2>1. PICK k, f : k = PieceKind(a.kind) /\ f = ItemDelta(a.at, 0, k, text)
    OBVIOUS
  <2>2. PieceFrames(a, text) = <<f>>
    BY <1>6, <2>1, PieceFramesAre
  <2>3. a.at \in Nat /\ Sound(d)
    BY <1>1, <1>2, <1>3, <1>6 DEF Answer, SoundFor
  <2>4. Passes(f, d)
    <3>1. PICK item : item = d
      OBVIOUS
    <3> QED  BY <2>1, <2>3, FramesPass
  <2>5. Leads("responses", <<f>>, d, B, D)
    BY <1>3, <2>3, <2>4, PassesLead
  <2> QED  BY <1>1, <1>6, <2>2, <2>5
<1> QED  BY <1>4, <1>5, <1>6 DEF Protocols

\* A piece of an Anthropic stream is mild.
LEMMA AnthropicPieceMild ==
    ASSUME NEW i \in Nat, NEW k \in SpeechKinds, NEW text, NEW d
    PROVE  ReadsMildly("anthropic", ContentBlockDelta(i, k, text), d, d, {}, FALSE)
<1>1. PICK q, J, v : q = <<BlockDelta(i, k, text)>> /\ J = {} /\ v = FALSE
  OBVIOUS
<1>2. k # "other"
  BY DEF SpeechKinds
<1>3. ReadResponseEvents("anthropic", ContentBlockDelta(i, k, text), d) = Read(q, d)
  BY <1>1, <1>2, AnthropicPiece DEF ReadResponseEvents
<1>4. IsTalk(BlockDelta(i, k, text))
  BY TalkAre
<1>5. Mild(q, J, v)
  BY <1>1, <1>4, TalkIsMild
<1> QED  BY <1>1, <1>3, <1>5, FrameHints

\* So is the stop of a block.
LEMMA AnthropicCloseMild ==
    ASSUME NEW i \in Nat, NEW d
    PROVE  \E e : ReadsMildly("anthropic", ContentBlockStop(i), d, e, {}, FALSE)
<1>1. PICK J, v : J = {} /\ v = FALSE
  OBVIOUS
<1>2. PICK e : ReadAnthropic(ContentBlockStop(i), d) \in {Read(<< >>, e), Read(<<BlockStop(i)>>, e)}
  BY AnthropicClose
<1>3. PICK q : q \in {<< >>, <<BlockStop(i)>>} /\ ReadAnthropic(ContentBlockStop(i), d) = Read(q, e)
  BY <1>2
<1>4. IsTalk(BlockStop(i))
  <2>1. PICK k \in SpeechKinds : TRUE
    BY DEF SpeechKinds
  <2> QED  BY TalkAre
<1>5. Mild(q, J, v)
  BY <1>1, <1>3, <1>4, TalkIsMild
<1>6. ReadResponseEvents("anthropic", ContentBlockStop(i), d) = Read(q, e)
  BY <1>3 DEF ReadResponseEvents
<1>7. ReadsMildly("anthropic", ContentBlockStop(i), d, e, J, v)
  BY <1>5, <1>6, FrameHints
<1> QED  BY <1>1, <1>7

\* An upstream closes a block.
LEMMA CloseLeads ==
    ASSUME NEW p \in Protocols, egress = p, p # "openai", NEW S, NEW B \in Seq(S), NEW j \in 1 .. Len(B),
           NEW opaque, NEW late, NEW b, b.kind = B[j].kind, b.at = B[j].at, NEW D, Becomes(D, B, j, b),
           NEW s, Carries(p, s, B), SoundFor(p, s.decode)
    PROVE  Leads(p, CloseFrames(B[j], opaque, late), s.decode, B, D)
<1>1. PICK d, a, i : d = s.decode /\ a = B[j] /\ i = B[j].at
  OBVIOUS
<1>2. Answer(p, B) /\ ShowsAnswer(p, s, B) /\ IsSaid(p, a)
  BY <1>1 DEF Carries, Answer
<1>3. Len(D) = Len(B) /\ Len(B) \in Nat /\ (HasCall(D) <=> HasCall(B))
  BY CallChanged
<1>4. i \in Nat /\ a.at = i
  BY <1>1, <1>2, <1>3 DEF Answer
<1>5. CASE p = "anthropic"
  <2>1. PICK e : ReadsMildly("anthropic", ContentBlockStop(i), d, e, {}, FALSE)
    BY <1>4, AnthropicCloseMild
  <2>2. Hints("anthropic", CloseFrames(a, opaque, late), d, e, {}, FALSE)
    <3>1. CASE opaque = << >>
      <4>1. CloseFrames(a, opaque, late) = <<ContentBlockStop(i)>>
        BY <1>4, <1>5, <3>1, AnthropicCloseFrames
      <4> QED  BY <2>1, <4>1 DEF Hints
    <3>2. CASE opaque # << >>
      <4>1. CloseFrames(a, opaque, late) = <<ContentBlockDelta(i, "signature", opaque), ContentBlockStop(i)>>
        BY <1>4, <1>5, <3>2, AnthropicCloseFrames
      <4>2. "signature" \in SpeechKinds
        BY DEF SpeechKinds
      <4>3. ReadsMildly("anthropic", ContentBlockDelta(i, "signature", opaque), d, d, {}, FALSE)
        BY <1>4, <4>2, AnthropicPieceMild
      <4> QED  BY <2>1, <4>1, <4>3 DEF Hints
    <3> QED  BY <3>1, <3>2
  <2>3. Free("anthropic", d, B) \in Nat /\ Free("anthropic", e, D) = Free("anthropic", d, B)
    BY <1>3 DEF Free
  <2>4. Sees("anthropic", e, d, FALSE)
    BY DEF Sees
  <2>5. Extends("anthropic", CloseFrames(a, opaque, late), d, e, B, D)
    BY <1>3, <2>2, <2>3, <2>4, ExtendsQuietly
  <2> QED  BY <1>1, <1>5, <2>5 DEF Leads
<1>6. CASE p = "responses"
  <2>1. Sound(d)
    BY <1>1, <1>6 DEF SoundFor
  <2>2. PICK text, kind, item : /\ text = a.text \o late /\ kind = DeltaKindOf(a.kind)
                                /\ item = Item(IF a.kind = "text" THEN "message" ELSE a.kind,
                                               a.name, text, opaque)
    OBVIOUS
  <2>3. CloseFrames(a, opaque, late) =
          <<DeltaDone(i, kind, text)>>
            \o (IF a.kind = "text" THEN <<PartDone(i, 0, text)>> ELSE << >>)
            \o <<ItemDone(i, item)>>
    BY <1>4, <1>6, <2>2 DEF CloseFrames
  <2>4. PICK f, g, h : f = DeltaDone(i, kind, text) /\ g = PartDone(i, 0, text) /\ h = ItemDone(i, item)
    OBVIOUS
  <2>5. ASSUME NEW m, Sound(m)
        PROVE  Passes(f, m) /\ Passes(g, m) /\ Passes(h, m)
    BY <1>4, <2>4, <2>5, FramesPass
  <2>6. Leads("responses", CloseFrames(a, opaque, late), d, B, D)
    <3>1. CASE a.kind = "text"
      <4>1. CloseFrames(a, opaque, late) = <<f, g, h>>
        BY <2>3, <2>4, <3>1, PutTogether
      <4>2. Leads("responses", <<f, g, h>>, d, B, D)
        BY <1>3, <2>1, <2>5, PassesLead
      <4> QED  BY <4>1, <4>2
    <3>2. CASE a.kind # "text"
      <4>1. CloseFrames(a, opaque, late) = <<f, h>>
        BY <2>3, <2>4, <3>2, PutTogether
      <4>2. Leads("responses", <<f, h>>, d, B, D)
        BY <1>3, <2>1, <2>5, PassesLead
      <4> QED  BY <4>1, <4>2
    <3> QED  BY <3>1, <3>2
  <2> QED  BY <1>1, <1>6, <2>6
<1> QED  BY <1>5, <1>6 DEF Protocols

\* An upstream reports an error.
LEMMA FailLeads ==
    ASSUME NEW p \in Protocols, NEW B, Len(B) \in Nat, NEW s, Carries(p, s, B), SoundFor(p, s.decode)
    PROVE  Leads(p, <<ErrorFrame(p)>>, s.decode, B, B)
<1>1. PICK d, text, f : d = s.decode /\ text = Trouble /\ f = ErrorFrame(p)
  OBVIOUS
<1>2. ShowsAnswer(p, s, B)
  BY DEF Carries
<1>3. CASE p = "openai"
  <2>1. f = [Chunk EXCEPT !.choices = FALSE, !.error = text]
    BY <1>1, <1>3 DEF ErrorFrame
  <2>2. f.choices = FALSE /\ f.present = FALSE
    BY <2>1 DEF Chunk
  <2>3. [d EXCEPT !.started = TRUE] = d /\ d.started = TRUE
    <3>1. OpenAiState(d)
      BY <1>1, <1>2, <1>3 DEF ShowsAnswer, OpenAiShows, OpenAiAgrees, DecoderAgrees
    <3> QED  BY <3>1 DEF OpenAiState
  <2>4. ReadOpenAi(f, d) = Read(<< >>, d)
    <3>1. PICK one : one = Read(<< >>, d)
      OBVIOUS
    <3>2. ReadOpenAi(f, d) = Read(one.events \o << >>, one.state)
      BY <2>2, <2>3, <3>1 DEF ReadOpenAi
    <3>3. one.events = << >> /\ one.state = d
      BY <3>1 DEF Read
    <3> QED  BY <3>2, <3>3, EventsAre
  <2>5. PICK q : q = << >>
    OBVIOUS
  <2>6. AllTalk(q)
    BY <2>5, FewTalk
  <2>7. ReadResponseEvents(p, f, d) = Read(q, d)
    BY <1>3, <2>4, <2>5 DEF ReadResponseEvents
  <2>8. Leads(p, <<f>>, d, B, B)
    BY <1>3, <2>6, <2>7, MildLeads
  <2> QED  BY <1>1, <2>8
<1>4. CASE p = "anthropic"
  <2>1. f = AnthropicError(text)
    BY <1>1, <1>4 DEF ErrorFrame
  <2>2. PICK q : q = <<ErrorEvent(text)>>
    OBVIOUS
  <2>3. AllTalk(q)
    <3>1. IsTalk(ErrorEvent(text))
      BY DEF IsTalk
    <3> QED  BY <2>2, <3>1, FewTalk
  <2>4. ReadResponseEvents(p, f, d) = Read(q, d)
    BY <1>4, <2>1, <2>2, AnthropicTrouble DEF ReadResponseEvents
  <2>5. Leads(p, <<f>>, d, B, B)
    BY <1>4, <2>3, <2>4, MildLeads
  <2> QED  BY <1>1, <2>5
<1>5. CASE p = "responses"
  <2>1. f = Failed(text) /\ Sound(d)
    BY <1>1, <1>5 DEF ErrorFrame, SoundFor
  <2>2. PICK j, kind, item : j \in Nat
    OBVIOUS
  <2>3. Passes(f, d)
    BY <2>1, <2>2, FramesPass
  <2>4. Leads("responses", <<f>>, d, B, B)
    BY <2>1, <2>3, PassesLead
  <2> QED  BY <1>1, <1>5, <2>4
<1> QED  BY <1>3, <1>4, <1>5 DEF Protocols

-----------------------------------------------------------------------------
(* The translator, the client and the reader while the answer is open.     *)

\* The client's scan of what it has received.
ClientOf(p, frames) == ScanFrames(p, NewScan(p), frames)

\* The usage that is kept of the start, if any.
StartKept(p) == IF p = "anthropic" THEN <<InputOnly>> ELSE << >>

\* The writer has begun no item that the reader could still give a number, and
\* a call if and only if there is one.
InStep(e, n, B) ==
    ingress = "responses" =>
        DOMAIN e.items \subseteq 0 .. n - 1 /\ (HasTool(e.items) <=> HasCall(B))
\* The Responses reader has seen a call if and only if the answer has one.
Saw(p, d, B) == p = "responses" => Sound(d) /\ (d.sawFunctionCall <=> HasCall(B))

\* The answer B is under way, the client has heard of no end, and reader and
\* writer are in step.
Listens(t, frames, d, B) ==
    /\ UnderWay(t) /\ t.decode = d /\ t.out = << >> /\ t.start = StartKept(egress)
    /\ Saw(egress, d, B) /\ InStep(t.encode, Free(egress, d, B), B)
    /\ IsList(frames) /\ Client(ingress, ClientOf(ingress, frames), t.encode)

\* What goes out is no longer there.
LEMMA OutSet ==
    ASSUME NEW t, IsTrans(t), NEW u, u = [t EXCEPT !.out = << >>]
    PROVE  /\ IsTrans(u) /\ u.out = << >> /\ u.decode = t.decode /\ u.encode = t.encode
           /\ u.start = t.start /\ u.stopped = t.stopped /\ u.pending = t.pending
<1>1. PICK x : x = << >>
  OBVIOUS
<1>2. TransOf(u, t.decode, t.encode, t.windows, t.start, t.stopped, t.pending, t.skipped, x)
  BY <1>1, TransSet DEF IsTrans
<1>3. u.out = x /\ u.decode = t.decode /\ u.encode = t.encode /\ u.windows = t.windows
      /\ u.start = t.start /\ u.stopped = t.stopped /\ u.pending = t.pending
  BY <1>2 DEF TransOf
<1>4. IsList(x)
  BY <1>1, ListsAre
<1>5. IsTranslator(u)
  BY <1>2 DEF TransOf, IsTranslator
<1> QED  BY <1>1, <1>3, <1>4, <1>5 DEF IsTrans

\* What the client hears quietly, after all it has heard before.
LEMMA ClientGoesOn ==
    ASSUME NEW p, NEW z, IsList(z), NEW e, NEW g, Client(p, ClientOf(p, z), e),
           NEW frames, Unheard(p, frames, e, g)
    PROVE  /\ IsList(z \o frames) /\ Client(p, ClientOf(p, z \o frames), g)
           /\ SameEnd(ClientOf(p, z \o frames), ClientOf(p, z))
<1>1. IsList(frames)
  BY DEF Unheard
<1>2. IsList(z \o frames)
  BY <1>1, ListsJoin
<1>3. ClientOf(p, z \o frames) = ScanFrames(p, ClientOf(p, z), frames)
  BY <1>1, ScannedInTwo DEF ClientOf
<1> QED  BY <1>2, <1>3 DEF Unheard

\* The client listens on, after frames that lead from the answer B to D.
LEMMA ListensOn ==
    ASSUME ingress \in Protocols, NEW t, NEW z, NEW s, IsScan(s), NEW B, Listens(t, z, s.decode, B),
           NEW frames, NEW D, Leads(egress, frames, s.decode, B, D),
           NEW u, u = FeedFrames(t, frames), NEW r, r = ScanFrames(egress, s, frames)
    PROVE  Listens([u EXCEPT !.out = << >>], z \o u.out, r.decode, D)
<1>1. PICK d, w : d = s.decode /\ w = [u EXCEPT !.out = << >>]
  OBVIOUS
<1>2. UnderWay(t) /\ t.decode = d /\ t.out = << >> /\ t.start = StartKept(egress)
  BY <1>1 DEF Listens
<1>3. PICK e : Extends(egress, frames, d, e, B, D) /\ (egress = "responses" => Sound(e))
  BY <1>1 DEF Leads
<1>4. PICK J : \E v \in BOOLEAN :
        /\ Hints(egress, frames, d, e, J, v)
        /\ Free(egress, d, B) \in Nat /\ Free(egress, e, D) \in Nat
        /\ Free(egress, d, B) <= Free(egress, e, D)
        /\ J \subseteq {Free(egress, d, B)}
        /\ J # {} => Free(egress, d, B) < Free(egress, e, D)
        /\ HasCall(D) <=> HasCall(B) \/ v
        /\ egress = "responses" => (e.sawFunctionCall <=> d.sawFunctionCall \/ v)
  BY <1>3 DEF Extends
<1>5. PICK v \in BOOLEAN :
        /\ Hints(egress, frames, d, e, J, v)
        /\ Free(egress, d, B) \in Nat /\ Free(egress, e, D) \in Nat
        /\ Free(egress, d, B) <= Free(egress, e, D)
        /\ J \subseteq {Free(egress, d, B)}
        /\ J # {} => Free(egress, d, B) < Free(egress, e, D)
        /\ HasCall(D) <=> HasCall(B) \/ v
        /\ egress = "responses" => (e.sawFunctionCall <=> d.sawFunctionCall \/ v)
  BY <1>4
<1>6. r.decode = e
  BY <1>1, <1>5, HintsHeard
<1>7. PICK n, m : n = Free(egress, d, B) /\ m = Free(egress, e, D)
  OBVIOUS
<1>8. n \in Nat /\ m \in Nat /\ n <= m /\ J \subseteq {n} /\ (J # {} => n < m)
  BY <1>5, <1>7
<1>9. InStep(t.encode, n, B)
  BY <1>1, <1>7 DEF Listens
<1>10. Unbegun(t, J)
  <2> SUFFICES ASSUME ingress = "responses" PROVE J \cap DOMAIN t.encode.items = {}
    BY DEF Unbegun
  <2>1. DOMAIN t.encode.items \subseteq 0 .. n - 1
    BY <1>9 DEF InStep
  <2>2. n \notin 0 .. n - 1
    BY <1>8
  <2> QED  BY <1>8, <2>1, <2>2
<1>11. Fed(u, t, e, J, v)
  BY <1>2, <1>5, <1>10, HintsFed
<1>12. PICK y : y = [t EXCEPT !.decode = e]
  OBVIOUS
<1>13. y.encode = t.encode /\ y.start = t.start /\ y.out = t.out /\ UnderWay(y) /\ y.decode = e
  BY <1>2, <1>12, ReaderSet
<1>14. Mutters(u, y, J, v)
  BY <1>11, <1>12 DEF Fed
<1>15. PICK out : u.out = << >> \o out /\ Unheard(ingress, out, t.encode, u.encode)
  BY <1>2, <1>13, <1>14 DEF Mutters
<1>16. u.out = out
  <2>1. IsList(out)
    BY <1>15 DEF Unheard
  <2> QED  BY <1>15, <2>1, ListWithNothing
<1>17. IsList(z \o out) /\ Client(ingress, ClientOf(ingress, z \o out), u.encode)
  <2>1. IsList(z) /\ Client(ingress, ClientOf(ingress, z), t.encode)
    BY DEF Listens
  <2> QED  BY <1>15, <2>1, ClientGoesOn
<1>18. UnderWay(u)
  BY <1>13, <1>14, StillUnderWay
<1>19. u.decode = e /\ u.start = StartKept(egress)
  BY <1>2, <1>13, <1>14 DEF Mutters
<1>20. UnderWay(w) /\ w.decode = e /\ w.out = << >> /\ w.start = StartKept(egress) /\ w.encode = u.encode
  BY <1>1, <1>18, <1>19, OutSet DEF UnderWay
<1>21. InStep(u.encode, m, D)
  <2> SUFFICES ASSUME ingress = "responses"
               PROVE  DOMAIN u.encode.items \subseteq 0 .. m - 1 /\ (HasTool(u.encode.items) <=> HasCall(D))
    BY DEF InStep
  <2>1. /\ DOMAIN u.encode.items = DOMAIN t.encode.items \cup J
        /\ HasTool(u.encode.items) <=> (HasTool(t.encode.items) \/ v)
    BY <1>13, <1>14 DEF Mutters, Begins
  <2>2. DOMAIN t.encode.items \subseteq 0 .. n - 1 /\ (HasTool(t.encode.items) <=> HasCall(B))
    BY <1>9 DEF InStep
  <2>3. 0 .. n - 1 \subseteq 0 .. m - 1 /\ (n < m => n \in 0 .. m - 1)
    BY <1>8
  <2>4. J \subseteq 0 .. m - 1
    BY <1>8, <2>3
  <2> QED  BY <1>5, <2>1, <2>2, <2>3, <2>4
<1>22. Saw(egress, e, D)
  BY <1>1, <1>3, <1>5 DEF Listens, Saw
<1> QED
  BY <1>1, <1>6, <1>7, <1>16, <1>17, <1>20, <1>21, <1>22 DEF Listens

-----------------------------------------------------------------------------
(* The answer begins.                                                      *)

\* The translator u is t with the frames written and the writer in the state g.
Emits(u, t, frames, g) ==
    /\ IsTrans(u) /\ u.decode = t.decode /\ u.start = t.start
    /\ u.stopped = t.stopped /\ u.pending = t.pending
    /\ u.out = t.out \o frames /\ u.encode = g

\* What is written goes out.
LEMMA TakeEmits ==
    ASSUME NEW t, IsTrans(t), NEW frames, IsList(frames), NEW g, Encoder(ingress, g),
           NEW w, w = Written(frames, g)
    PROVE  Emits(Take(t, w), t, frames, g)
<1>1. w.frames = frames /\ w.state = g
  BY WrittenIs
<1>2. IsTranslator(t) /\ AreWindows(t.windows) /\ IsList(t.out)
  BY DEF IsTrans
<1>3. PICK x : x = t.out \o frames
  OBVIOUS
<1>4. PICK a : a = [t EXCEPT !.encode = g]
  OBVIOUS
<1>5. TransOf(a, t.decode, g, t.windows, t.start, t.stopped, t.pending, t.skipped, t.out)
  BY <1>2, <1>4, TransSet
<1>6. PICK b : b = [a EXCEPT !.out = x]
  OBVIOUS
<1>7. TransOf(b, t.decode, g, t.windows, t.start, t.stopped, t.pending, t.skipped, x)
  <2>1. IsTranslator(a)
    BY <1>5 DEF TransOf, IsTranslator
  <2>2. TransOf(b, a.decode, a.encode, a.windows, a.start, a.stopped, a.pending, a.skipped, x)
    BY <1>6, <2>1, TransSet
  <2> QED  BY <1>5, <2>2 DEF TransOf
<1>8. Take(t, w) = b
  <2>1. Take(t, w) = [t EXCEPT !.encode = g, !.out = t.out \o frames]
    BY <1>1 DEF Take
  <2>2. Take(t, w) = [t EXCEPT !.encode = g, !.out = x]
    BY <1>3, <2>1
  <2> QED  BY <1>4, <1>6, <2>2
<1>9. IsList(x)
  BY <1>2, <1>3, ListsJoin
<1>10. IsTrans(b)
  BY <1>2, <1>7, <1>9 DEF IsTrans, TransOf, IsTranslator
<1>11. Emits(b, t, frames, g)
  BY <1>3, <1>7, <1>10 DEF Emits, TransOf
<1> QED  BY <1>8, <1>11

\* A start or an end that is told before the stop is written as it is.
LEMMA PlainTranslated ==
    ASSUME NEW t, UnderWay(t), NEW ev, ev.type \in {"message_start", "message_delta"},
           NEW frames, IsList(frames), NEW g, Encoder(ingress, g),
           WriteResponseEvent(ingress, ev, t.encode) = Written(frames, g)
    PROVE  Emits(TranslateSet(t, ev), t, frames, g)
<1>1. IsTrans(t) /\ t.stopped = FALSE /\ t.pending = FALSE
  BY DEF UnderWay
<1>2. PICK probe : probe = WriteResponseEvent(ingress, ev, t.encode)
  OBVIOUS
<1>3. TranslateSet(t, ev) = SkipOrEmit(t, ev, probe)
  <2>1. [t EXCEPT !.stopped = @ \/ ev.type = "message_stop"] = t
    BY NotStopped
  <2> QED  BY <1>1, <1>2, <2>1 DEF TranslateSet
<1>4. SkipOrEmit(t, ev, probe) = RestoreAndEmit(t, ev)
  BY DEF SkipOrEmit, Probes
<1>5. FlushBefore(t, ev) = t
  BY DEF FlushBefore
<1>6. RestoreEvent(t, ev) = [state |-> t, ev |-> ev]
  BY DEF RestoreEvent, IsPlainDelta
<1>7. PICK w : w = EmitIrEvent(t, ev)
  OBVIOUS
<1>8. RestoreAndEmit(t, ev) = EmitStopAfter(w)
  <2>1. PICK r : r = [state |-> t, ev |-> ev]
    OBVIOUS
  <2>2. r.state = t /\ r.ev = ev
    BY <2>1
  <2>3. RestoreAndEmit(t, ev) = EmitRestored(r)
    BY <1>5, <1>6, <2>1 DEF RestoreAndEmit
  <2> QED  BY <1>7, <2>2, <2>3 DEF EmitRestored, IsPlainDelta
<1>9. Emits(w, t, frames, g)
  BY <1>1, <1>7, TakeEmits DEF EmitIrEvent
<1>10. w.pending = FALSE
  BY <1>1, <1>9 DEF Emits
<1> QED  BY <1>3, <1>4, <1>8, <1>9, <1>10 DEF EmitStopAfter

\* The frame with which a client's stream begins.
StartFrame(p, usage) ==
    CASE p = "openai" -> [Chunk EXCEPT !.role = TRUE]
      [] p = "anthropic" -> AnthropicStart(usage)
      [] p = "responses" -> Created

\* The start of a message is written as one frame.
LEMMA StartIsWritten ==
    ASSUME NEW p \in Protocols, NEW usage, NEW present, NEW e
    PROVE  WriteResponseEvent(p, MessageStart(usage, present), e) = Written(<<StartFrame(p, usage)>>, e)
<1>1. PICK ev : ev = MessageStart(usage, present)
  OBVIOUS
<1>2. ev.type = "message_start" /\ ev.usage = usage
  BY <1>1 DEF MessageStart
<1>3. CASE p = "openai"
  BY <1>1, <1>2, <1>3 DEF WriteResponseEvent, WriteOpenAi, StartFrame
<1>4. CASE p = "anthropic"
  BY <1>1, <1>2, <1>4 DEF WriteResponseEvent, WriteAnthropic, StartFrame
<1>5. CASE p = "responses"
  BY <1>1, <1>2, <1>5 DEF WriteResponseEvent, WriteResponses, StartFrame
<1> QED  BY <1>3, <1>4, <1>5 DEF Protocols

\* A writer that has written nothing, and the reader of what it writes.
LEMMA NewEncoder ==
    ASSUME NEW p \in Protocols
    PROVE  /\ Encoder(p, Encode0(p)) /\ Reader(p, Decode0(p), Encode0(p))
           /\ p = "responses" => Encode0(p).items = Empty /\ HasTool(Encode0(p).items) = FALSE
<1>1. DOMAIN Empty = {}
  BY DEF Empty
<1>2. CASE p = "openai"
  <2>1. Decode0(p) = OpenAiDecode
    BY <1>2 DEF Decode0
  <2>2. OpenAiDecode = ReaderOf(FALSE, Closed, Closed, Empty)
    BY DEF OpenAiDecode, ReaderOf
  <2>3. Indices(DOMAIN Empty)
    BY <1>1, FS_EmptySet DEF Indices
  <2>4. OpenAiClient(OpenAiDecode)
    BY <2>2, <2>3 DEF OpenAiClient
  <2> QED  BY <1>2, <2>1, <2>4 DEF Reader, Encoder
<1>3. CASE p = "anthropic"
  BY <1>3 DEF Reader, Encoder
<1>4. CASE p = "responses"
  <2>1. PICK e, d : e = Encode0(p) /\ d = Decode0(p)
    OBVIOUS
  <2>2. e = EncodeOf(Empty, None, NoUsage, FALSE)
    BY <1>4, <2>1 DEF Encode0, ResponsesEncode, EncodeOf
  <2>3. e.items = Empty
    BY <2>2 DEF EncodeOf
  <2>4. HasTool(e.items) = FALSE
    BY <1>1, <2>3 DEF HasTool
  <2>5. Encoder(p, e)
    BY <1>1, <2>2 DEF Encoder
  <2>6. d = StateOf(FALSE, Empty, Empty, 0, FALSE)
    BY <1>4, <2>1 DEF Decode0, ResponsesDecode, StateOf
  <2>7. DOMAIN Empty \subseteq {} /\ DOMAIN Empty \subseteq FirstParts
    BY <1>1
  <2>8. PICK I, w : I = DOMAIN e.items /\ w = HasTool(e.items)
    OBVIOUS
  <2>9. I = {} /\ w = FALSE
    BY <1>1, <2>3, <2>4, <2>8
  <2>10. ResponsesClient(d, I, w)
    BY <2>6, <2>7, <2>9 DEF ResponsesClient
  <2>11. Reader(p, d, e)
    BY <1>4, <2>8, <2>10 DEF Reader
  <2> QED  BY <2>1, <2>3, <2>4, <2>5, <2>11
<1> QED  BY <1>2, <1>3, <1>4 DEF Protocols

\* The client that has received it.
LEMMA ClientBegins ==
    ASSUME NEW p \in Protocols, NEW usage
    PROVE  Client(p, ClientOf(p, <<StartFrame(p, usage)>>), Encode0(p))
<1>1. PICK s, e, f : s = NewScan(p) /\ e = Encode0(p) /\ f = StartFrame(p, usage)
  OBVIOUS
<1>2. IsScan(s) /\ s.decode = Decode0(p)
  BY <1>1, NewScanIs DEF Pristine, Untold
<1>3. Client(p, s, e)
  BY <1>1, <1>2, NewEncoder DEF Client
<1>4. CASE p \in {"openai", "responses"}
  <2>1. QuietFrame(p, f, e, e)
    <3>1. CASE p = "openai"
      <4>1. f = [Chunk EXCEPT !.role = TRUE]
        BY <1>1, <3>1 DEF StartFrame
      <4>2. f.tools = << >> /\ f.finish = None /\ f.present = FALSE
        BY <4>1 DEF Chunk
      <4> QED  BY <3>1, <4>2, ChunkQuiet DEF OneCallAtMost
    <3>2. CASE p = "responses"
      <4>1. f = Created
        BY <1>1, <3>2 DEF StartFrame
      <4>2. PICK I, w : I = DOMAIN e.items /\ w = HasTool(e.items)
        OBVIOUS
      <4>3. w \in BOOLEAN
        BY <4>2 DEF HasTool
      <4>4. QuietSteps(f, I, w, I, w)
        BY <4>1, CreatedQuiet DEF QuietSteps
      <4>5. w <=> HasTool(e.items)
        BY <4>2
      <4> QED  BY <3>2, <4>2, <4>3, <4>4, <4>5, StepIsQuiet
    <3> QED  BY <1>4, <3>1, <3>2
  <2>2. Unheard(p, <<f>>, e, e)
    BY <2>1, FrameUnheard
  <2>3. Client(p, ScanFrames(p, s, <<f>>), e)
    BY <1>3, <2>2 DEF Unheard
  <2> QED  BY <1>1, <2>3 DEF ClientOf
<1>5. CASE p = "anthropic"
  <2>1. f = AnthropicStart(usage)
    BY <1>1, <1>5 DEF StartFrame
  <2>2. PICK c, d : c = ScanFrames(p, s, <<f>>) /\ d = s.decode
    OBVIOUS
  <2>3. c = ScanFrame(p, s, f)
    BY <2>2, OneFrame
  <2>4. ReadResponseEvents(p, f, d) = Read(<<MessageStart(usage, TRUE)>>, d)
    BY <1>5, <2>1, AnthropicBegin DEF ReadResponseEvents
  <2>5. c = ApplyEvents(s, Read(<<MessageStart(usage, TRUE)>>, d))
    BY <2>2, <2>3, <2>4 DEF ScanFrame
  <2>6. PICK a : a = [s EXCEPT !.decode = d]
    OBVIOUS
  <2>7. c = ApplyEvent(a, MessageStart(usage, TRUE))
    BY <2>5, <2>6, OneEvent
  <2>8. IsScan(a)
    BY <1>2, <2>6, DecoderSet DEF Stays
  <2>9. Counts(c, a, usage.input, a.usage.output, TRUE)
    BY <2>7, <2>8, AnswerStarts
  <2>10. IsScan(c)
    BY <2>9 DEF Counts
  <2> QED  BY <1>1, <1>5, <2>2, <2>10 DEF Client, Reader, ClientOf
<1> QED  BY <1>4, <1>5 DEF Protocols

\* The first frame of the upstream is read as a start.
LEMMA FirstIsRead ==
    ASSUME NEW p \in Protocols
    PROVE  \E e : /\ ReadResponseEvents(p, FirstFrame(p), Decode0(p)) =
                       Read(<<MessageStart(StartUsage(p), p = "anthropic")>>, e)
                  /\ Saw(p, e, << >>) /\ HasCall(<< >>) = FALSE
<1>1. HasCall(<< >>) = FALSE
  BY DEF HasCall
<1>2. CASE p = "openai"
  <2>1. PICK f, d : f = FirstFrame(p) /\ d = Decode0(p)
    OBVIOUS
  <2>2. f = [Chunk EXCEPT !.role = TRUE] /\ d = OpenAiDecode
    BY <1>2, <2>1 DEF FirstFrame, Decode0
  <2>3. /\ f.choices = TRUE /\ f.reasoning = << >> /\ f.content = << >> /\ f.tools = << >>
        /\ f.finish = None /\ f.present = FALSE
    BY <2>2 DEF Chunk
  <2>4. PICK e : e = [OpenAiDecode EXCEPT !.started = TRUE]
    OBVIOUS
  <2>5. OpenAiDecode.started = FALSE
    BY DEF OpenAiDecode
  <2>6. PICK r : r = Read(<<MessageStart(NoUsage, FALSE)>>, e)
    OBVIOUS
  <2>7. r.events = <<MessageStart(NoUsage, FALSE)>> /\ r.state = e
    BY <2>6, ReadIs
  <2>8. \A field, meta : OpenAiText(r, field, meta, << >>) = r
    BY DEF OpenAiText
  <2>9. FoldLeft(ProcessToolCallDelta, r, << >>) = r
    BY NoCall
  <2>10. ReadOpenAi(f, d) = Read(r.events \o << >>, r.state)
    BY <2>2, <2>3, <2>4, <2>5, <2>6, <2>8, <2>9 DEF ReadOpenAi
  <2>11. ReadResponseEvents(p, f, d) = ReadOpenAi(f, d)
    BY <1>2 DEF ReadResponseEvents
  <2>12. <<MessageStart(NoUsage, FALSE)>> \o << >> = <<MessageStart(NoUsage, FALSE)>>
    BY ListWithNothing, ListsAre
  <2> QED  BY <1>1, <1>2, <2>1, <2>7, <2>10, <2>11, <2>12 DEF Saw, StartUsage
<1>3. CASE p = "anthropic"
  <2>1. FirstFrame(p) = AnthropicStart(InputOnly) /\ StartUsage(p) = InputOnly
    BY <1>3 DEF FirstFrame, StartUsage
  <2>2. PICK d : d = Decode0(p)
    OBVIOUS
  <2>3. ReadResponseEvents(p, FirstFrame(p), d) = Read(<<MessageStart(InputOnly, TRUE)>>, d)
    BY <1>3, <2>1, AnthropicBegin DEF ReadResponseEvents
  <2> QED  BY <1>1, <1>3, <2>1, <2>2, <2>3 DEF Saw
<1>4. CASE p = "responses"
  <2>1. FirstFrame(p) = Created /\ StartUsage(p) = NoUsage /\ Decode0(p) = ResponsesDecode
    BY <1>4 DEF FirstFrame, StartUsage, Decode0
  <2>2. PICK e : e = [ResponsesDecode EXCEPT !.started = TRUE]
    OBVIOUS
  <2>3. /\ ReadResponses(Created, ResponsesDecode) = Read(<<MessageStart(NoUsage, FALSE)>>, e)
        /\ Holds(e, Empty, Empty, 0)
    BY <2>2, ResponsesBegin
  <2>4. e.sawFunctionCall = FALSE
    BY <2>2 DEF ResponsesDecode
  <2>5. DOMAIN Empty = {}
    BY DEF Empty
  <2>6. GoodItems(Empty) /\ GoodParts(Empty)
    BY <2>5 DEF GoodItems, GoodParts
  <2>7. Sound(e)
    <3>1. PICK n \in Nat : n = 0
      OBVIOUS
    <3> QED  BY <2>3, <2>6, <3>1, HoldsSound
  <2>8. ReadResponseEvents(p, Created, ResponsesDecode) = ReadResponses(Created, ResponsesDecode)
    BY <1>4 DEF ReadResponseEvents
  <2> QED  BY <1>1, <1>4, <2>1, <2>3, <2>4, <2>7, <2>8 DEF Saw
<1> QED  BY <1>2, <1>3, <1>4 DEF Protocols

\* A translator that has read nothing.
LEMMA NewIsUnderWay ==
    ASSUME ingress \in Protocols, NEW t, t = NewTranslate
    PROVE  /\ UnderWay(t) /\ t.decode = Decode0(egress) /\ t.encode = Encode0(ingress)
           /\ t.start = << >> /\ t.out = << >>
<1>1. PICK d, e, x, w : d = Decode0(egress) /\ e = Encode0(ingress) /\ x = << >> /\ w = Empty
  OBVIOUS
<1>2. t = [decode |-> d, encode |-> e, windows |-> w, start |-> x, stopped |-> FALSE, pending |-> FALSE,
           skipped |-> {}, out |-> x]
  BY <1>1 DEF NewTranslate
<1>3. /\ t.decode = d /\ t.encode = e /\ t.windows = w /\ t.start = x /\ t.stopped = FALSE
      /\ t.pending = FALSE /\ t.skipped = {} /\ t.out = x
  BY <1>2
<1>4. IsTranslator(t)
  BY <1>2, <1>3 DEF IsTranslator, TransOf
<1>5. DOMAIN w = {}
  BY <1>1 DEF Empty
<1>6. AreWindows(w)
  BY <1>5, FS_EmptySet DEF AreWindows, Indices
<1>7. IsList(x)
  BY <1>1, ListsAre
<1>8. Encoder(ingress, e)
  BY <1>1, NewEncoder
<1> QED  BY <1>1, <1>3, <1>4, <1>6, <1>7, <1>8 DEF UnderWay, IsTrans

\* The usage of the start is kept.
LEMMA StartIsKept ==
    ASSUME NEW p, NEW s, UnderWay(s), s.start = << >>,
           NEW t, t = LockUsage(s, MessageStart(StartUsage(p), p = "anthropic"))
    PROVE  /\ UnderWay(t) /\ t.start = StartKept(p) /\ t.decode = s.decode /\ t.encode = s.encode
           /\ t.out = s.out
<1>1. PICK a : a = MessageStart(StartUsage(p), p = "anthropic")
  OBVIOUS
<1>2. a.type = "message_start" /\ a.usage = StartUsage(p) /\ a.present = (p = "anthropic")
  BY <1>1 DEF MessageStart
<1>3. CASE p # "anthropic"
  <2>1. t = s
    BY <1>1, <1>2, <1>3 DEF LockUsage
  <2> QED  BY <1>3, <2>1 DEF StartKept
<1>4. CASE p = "anthropic"
  <2>1. PICK x : x = <<InputOnly>>
    OBVIOUS
  <2>2. t = [s EXCEPT !.start = x]
    BY <1>1, <1>2, <1>4, <2>1 DEF LockUsage, StartUsage
  <2>3. IsTrans(s) /\ IsTranslator(s)
    BY DEF UnderWay, IsTrans
  <2>4. TransOf(t, s.decode, s.encode, s.windows, x, s.stopped, s.pending, s.skipped, s.out)
    BY <2>2, <2>3, TransSet
  <2>5. IsTrans(t)
    BY <2>3, <2>4 DEF IsTrans, TransOf, IsTranslator
  <2> QED  BY <1>4, <2>1, <2>4, <2>5 DEF StartKept, UnderWay, TransOf
<1> QED  BY <1>3, <1>4

\* The first frame of the upstream, at the translator.
LEMMA BeginListens ==
    ASSUME ingress \in Protocols, egress \in Protocols, NEW t, t = NewTranslate,
           NEW s, s = NewScan(egress), NEW f, f = FirstFrame(egress),
           NEW u, u = FeedFrames(t, <<f>>), NEW r, r = ScanFrames(egress, s, <<f>>)
    PROVE  Listens([u EXCEPT !.out = << >>], u.out, r.decode, << >>)
<1>1. /\ UnderWay(t) /\ t.decode = Decode0(egress) /\ t.encode = Encode0(ingress)
      /\ t.start = << >> /\ t.out = << >>
  BY NewIsUnderWay
<1>2. IsScan(s) /\ s.decode = Decode0(egress)
  BY NewScanIs DEF Pristine, Untold
<1>3. PICK d, a, usage, present : /\ d = Decode0(egress) /\ a = MessageStart(usage, present)
                                  /\ usage = StartUsage(egress) /\ present = (egress = "anthropic")
  OBVIOUS
<1>4. PICK e : /\ ReadResponseEvents(egress, f, d) = Read(<<a>>, e)
               /\ Saw(egress, e, << >>) /\ HasCall(<< >>) = FALSE
  BY <1>3, FirstIsRead
<1>5. r.decode = e
  <2>1. r = ApplyEvents(s, Read(<<a>>, e))
    BY <1>2, <1>3, <1>4, OneFrame DEF ScanFrame
  <2>2. PICK x : x = [s EXCEPT !.decode = e]
    OBVIOUS
  <2>3. r = ApplyEvent(x, a)
    BY <2>1, <2>2, OneEvent
  <2>4. IsScan(x) /\ x.decode = e
    BY <1>2, <2>2, DecoderSet DEF Stays
  <2>5. a.type = "message_start" /\ a.usage = usage /\ a.present = present
    BY <1>3 DEF MessageStart
  <2>6. CASE egress = "anthropic"
    <3>1. r = [x EXCEPT !.usage.input = a.usage.input, !.seen = TRUE]
      BY <1>3, <2>3, <2>5, <2>6 DEF ApplyEvent
    <3> QED  BY <2>4, <3>1 DEF IsScan
  <2>7. CASE egress # "anthropic"
    <3>1. present = FALSE
      BY <1>3, <2>7
    <3>2. r = x
      BY <1>3, <2>3, <3>1, QuietEvent
    <3> QED  BY <2>4, <3>2
  <2> QED  BY <2>6, <2>7
<1>6. PICK x : x = [t EXCEPT !.decode = e]
  OBVIOUS
<1>7. UnderWay(x) /\ x.decode = e /\ x.encode = t.encode /\ x.start = t.start /\ x.out = t.out
  <2>1. UnderWay(x)
    BY <1>1, <1>6, ReaderSet
  <2>2. x.decode = e
    BY <1>1, <1>6, ReaderSet
  <2>3. x.encode = t.encode
    BY <1>1, <1>6, ReaderSet
  <2>4. x.start = t.start /\ x.out = t.out
    BY <1>1, <1>6, ReaderSet
  <2> QED  BY <2>1, <2>2, <2>3, <2>4
<1>8. u = TranslateEvent(x, a)
  <2>1. u = FeedFrame(t, f)
    BY FeedsOne
  <2>2. u = TranslateEvents(t, Read(<<a>>, e))
    BY <1>1, <1>3, <1>4, <2>1 DEF FeedFrame
  <2> QED  BY <1>6, <2>2, OneTurn
<1>9. PICK y : y = LockUsage(x, a)
  OBVIOUS
<1>10. UnderWay(y) /\ y.start = StartKept(egress) /\ y.decode = e /\ y.encode = t.encode /\ y.out = << >>
  <2>1. y = LockUsage(x, MessageStart(StartUsage(egress), egress = "anthropic"))
    BY <1>3, <1>9
  <2> QED  BY <1>1, <1>7, <2>1, StartIsKept
<1>11. u = TranslateSet(y, a) /\ a.type = "message_start"
  <2>1. a.type = "message_start"
    BY <1>3 DEF MessageStart
  <2>2. Backfilled(x, a) = a /\ RestoredStart(a) = a
    BY <2>1 DEF Backfilled, RestoredStart
  <2> QED  BY <1>8, <1>9, <2>1, <2>2 DEF TranslateEvent
<1>12. PICK out : out = <<StartFrame(ingress, usage)>>
  OBVIOUS
<1>13. IsList(out)
  BY <1>12, ListsAre
<1>14. WriteResponseEvent(ingress, a, y.encode) = Written(out, y.encode)
  BY <1>3, <1>12, StartIsWritten
<1>15. PICK g : g = y.encode
  OBVIOUS
<1>16. Encoder(ingress, g)
  BY <1>10, <1>15 DEF UnderWay, IsTrans
<1>17. Emits(u, y, out, g)
  <2>1. WriteResponseEvent(ingress, a, y.encode) = Written(out, g)
    BY <1>14, <1>15
  <2> QED  BY <1>10, <1>11, <1>13, <1>16, <2>1, PlainTranslated
<1>18. u.out = out
  <2>1. u.out = << >> \o out
    BY <1>10, <1>17 DEF Emits
  <2> QED  BY <1>13, <2>1, ListWithNothing
<1>19. UnderWay(u)
  BY <1>10, <1>17 DEF Emits, UnderWay
<1>20. u.decode = e /\ u.encode = Encode0(ingress) /\ u.start = StartKept(egress)
  BY <1>1, <1>10, <1>15, <1>17 DEF Emits
<1>21. PICK w : w = [u EXCEPT !.out = << >>]
  OBVIOUS
<1>22. UnderWay(w) /\ w.decode = e /\ w.out = << >> /\ w.start = StartKept(egress) /\ w.encode = u.encode
  BY <1>19, <1>20, <1>21, OutSet DEF UnderWay
<1>23. Client(ingress, ClientOf(ingress, out), w.encode)
  BY <1>12, <1>20, <1>22, ClientBegins
<1>24. PICK n : n = Free(egress, e, << >>)
  OBVIOUS
<1>25. InStep(w.encode, n, << >>)
  <2>1. ingress = "responses" => w.encode.items = Empty /\ HasTool(w.encode.items) = FALSE
    BY <1>20, <1>22, NewEncoder
  <2>2. DOMAIN Empty = {}
    BY DEF Empty
  <2> QED  BY <1>4, <2>1, <2>2 DEF InStep
<1> QED
  BY <1>4, <1>5, <1>13, <1>18, <1>21, <1>22, <1>23, <1>24, <1>25 DEF Listens

-----------------------------------------------------------------------------
(* The end of the answer, at the translator and at the client.             *)

\* The client knows the end, but for the stop reason that a late usage hides
\* from an Anthropic client.
Knows(c, stop, usage, late) ==
    /\ usage.output > 0 => c.usage = usage
    /\ ~ (ingress = "anthropic" /\ late) => c.stop = stop
\* A writer to a Responses client keeps the end until its last frame.
WillTell(e, stop, usage) ==
    /\ EndedAs(e) = stop
    /\ usage.output > 0 => e.present = TRUE /\ e.usage = usage /\ usage = Usage
EndIn(c, e, stop, usage, late, waits) ==
    IF ingress = "responses" /\ waits THEN WillTell(e, stop, usage) ELSE Knows(c, stop, usage, late)

\* What the client has received are the frames z and what is on its way.
HearsEnd(t, z, stop, usage, late, waits) ==
    /\ IsTrans(t) /\ IsList(z)
    /\ Client(ingress, ClientOf(ingress, z \o t.out), t.encode)
    /\ EndIn(ClientOf(ingress, z \o t.out), t.encode, stop, usage, late, waits)

\* The client after frames more.
LEMMA ClientAfter ==
    ASSUME NEW p, NEW z, IsList(z), NEW a, IsList(a), NEW b, IsList(b)
    PROVE  ClientOf(p, z \o (a \o b)) = ScanFrames(p, ClientOf(p, z \o a), b)
<1>1. z \o (a \o b) = (z \o a) \o b
  BY ListsAssociate
<1>2. IsList(z \o a)
  BY ListsJoin
<1> QED  BY <1>1, <1>2, ScannedInTwo DEF ClientOf

\* What is muttered does not touch what is known of the end.
LEMMA MuttersHeard ==
    ASSUME NEW t, NEW z, NEW stop, NEW usage, NEW late, NEW waits,
           HearsEnd(t, z, stop, usage, late, waits), NEW u, Mutters(u, t, {}, FALSE)
    PROVE  HearsEnd(u, z, stop, usage, late, waits)
<1>1. PICK frames : u.out = t.out \o frames /\ Unheard(ingress, frames, t.encode, u.encode)
  BY DEF Mutters
<1>2. IsTrans(t) /\ IsTrans(u) /\ IsList(z) /\ IsList(t.out) /\ IsList(frames)
  BY <1>1 DEF HearsEnd, Mutters, Unheard, IsTrans
<1>3. PICK c, r : c = ClientOf(ingress, z \o t.out) /\ r = ClientOf(ingress, z \o u.out)
  OBVIOUS
<1>4. r = ScanFrames(ingress, c, frames)
  BY <1>1, <1>2, <1>3, ClientAfter
<1>5. Client(ingress, c, t.encode) /\ EndIn(c, t.encode, stop, usage, late, waits)
  BY <1>3 DEF HearsEnd
<1>6. SameEnd(r, c) /\ Client(ingress, r, u.encode)
  BY <1>1, <1>4, <1>5 DEF Unheard
<1>7. EndIn(r, u.encode, stop, usage, late, waits)
  <2>1. CASE ingress = "responses" /\ waits
    <3>1. /\ u.encode.stop = t.encode.stop /\ u.encode.usage = t.encode.usage
          /\ u.encode.present = t.encode.present
          /\ HasTool(u.encode.items) <=> HasTool(t.encode.items)
      BY <2>1 DEF Mutters, Begins
    <3>2. EndedAs(u.encode) = EndedAs(t.encode)
      BY <3>1 DEF EndedAs
    <3>3. WillTell(t.encode, stop, usage)
      BY <1>5, <2>1 DEF EndIn
    <3>4. WillTell(u.encode, stop, usage)
      BY <3>1, <3>2, <3>3 DEF WillTell
    <3> QED  BY <2>1, <3>4 DEF EndIn
  <2>2. CASE ~ (ingress = "responses" /\ waits)
    <3>1. Knows(c, stop, usage, late)
      BY <1>5, <2>2 DEF EndIn
    <3>2. r.stop = c.stop /\ r.usage = c.usage
      BY <1>6 DEF SameEnd
    <3>3. Knows(r, stop, usage, late)
      BY <3>1, <3>2 DEF Knows
    <3> QED  BY <2>2, <3>3 DEF EndIn
  <2> QED  BY <2>1, <2>2
<1> QED  BY <1>2, <1>3, <1>6, <1>7 DEF HearsEnd

\* What the client is told of a usage with both numbers is what it knows.
LEMMA UsageIsKnown ==
    ASSUME NEW old, NEW usage, usage = Usage
    PROVE  [input |-> KnownNumber(old.input, usage.input),
            output |-> KnownNumber(old.output, usage.output)] = usage
<1>1. usage.input = 3 /\ usage.output = 2 /\ usage = [input |-> 3, output |-> 2]
  BY DEF Usage
<1>2. KnownNumber(old.input, 3) = 3 /\ KnownNumber(old.output, 2) = 2
  BY DEF KnownNumber
<1> QED  BY <1>1, <1>2

\* The last event tells what was kept.
LEMMA StopHeard ==
    ASSUME ingress \in Protocols, NEW t, NEW z, NEW stop, stop # None, NEW usage, NEW late,
           usage.output > 0 => usage = Usage,
           HearsEnd(t, z, stop, usage, late, TRUE), NEW u, u = EmitIrEvent(t, MessageStop)
    PROVE  /\ HearsEnd(u, z, stop, usage, late, FALSE)
           /\ \E frames, g : Emits(u, t, frames, g)
<1>1. PICK e : e = t.encode
  OBVIOUS
<1>2. IsTrans(t) /\ IsList(z) /\ IsList(t.out) /\ Encoder(ingress, e)
  BY <1>1 DEF HearsEnd, IsTrans
<1>3. StopWrites(ingress, WriteResponseEvent(ingress, MessageStop, e), e)
  BY <1>2, StopIsWritten
<1>4. PICK frames : /\ WriteResponseEvent(ingress, MessageStop, e) = Written(frames, e)
                    /\ ingress # "responses" => Unheard(ingress, frames, e, e)
                    /\ ingress = "responses" =>
                          Told(ingress, frames, e, e, EndedAs(e), IF e.present THEN e.usage ELSE NoUsage)
  BY <1>3 DEF StopWrites
<1>5. IsList(frames)
  BY <1>4 DEF Unheard, Told
<1>6. Emits(u, t, frames, e)
  BY <1>1, <1>2, <1>4, <1>5, TakeEmits DEF EmitIrEvent
<1>7. IsTrans(u) /\ u.out = t.out \o frames /\ u.encode = e
  BY <1>6 DEF Emits
<1>8. PICK c, r : c = ClientOf(ingress, z \o t.out) /\ r = ClientOf(ingress, z \o u.out)
  OBVIOUS
<1>9. r = ScanFrames(ingress, c, frames)
  BY <1>2, <1>5, <1>7, <1>8, ClientAfter
<1>10. Client(ingress, c, e) /\ EndIn(c, e, stop, usage, late, TRUE)
  BY <1>1, <1>8 DEF HearsEnd
<1>11. CASE ingress # "responses"
  <2>1. SameEnd(r, c) /\ Client(ingress, r, e)
    BY <1>4, <1>9, <1>10, <1>11 DEF Unheard
  <2>2. Knows(c, stop, usage, late)
    BY <1>10, <1>11 DEF EndIn
  <2>3. r.stop = c.stop /\ r.usage = c.usage
    BY <2>1 DEF SameEnd
  <2>4. Knows(r, stop, usage, late)
    BY <2>2, <2>3 DEF Knows
  <2>5. EndIn(r, e, stop, usage, late, FALSE)
    BY <2>4 DEF EndIn
  <2> QED  BY <1>2, <1>6, <1>7, <1>8, <2>1, <2>5 DEF HearsEnd
<1>12. CASE ingress = "responses"
  <2>1. PICK v : v = IF e.present THEN e.usage ELSE NoUsage
    OBVIOUS
  <2>2. Tells2(r, c, EndedAs(e), v) /\ Client(ingress, r, e)
    BY <1>4, <1>9, <1>10, <1>12, <2>1 DEF Told
  <2>3. WillTell(e, stop, usage)
    BY <1>10, <1>12 DEF EndIn
  <2>4. r.stop = stop
    BY <2>2, <2>3 DEF Tells2, WillTell
  <2>5. ASSUME usage.output > 0 PROVE r.usage = usage
    <3>1. v = usage /\ usage = Usage
      BY <2>1, <2>3, <2>5 DEF WillTell
    <3>2. r.usage = [input |-> KnownNumber(c.usage.input, v.input),
                     output |-> KnownNumber(c.usage.output, v.output)]
      BY <2>2 DEF Tells2
    <3>3. PICK old : old = c.usage
      OBVIOUS
    <3>4. [input |-> KnownNumber(old.input, usage.input),
           output |-> KnownNumber(old.output, usage.output)] = usage
      BY <3>1, UsageIsKnown
    <3> QED  BY <3>1, <3>2, <3>3, <3>4
  <2>6. EndIn(r, e, stop, usage, late, FALSE)
    BY <2>4, <2>5 DEF EndIn, Knows
  <2> QED  BY <1>2, <1>6, <1>7, <1>8, <2>2, <2>6 DEF HearsEnd
<1> QED  BY <1>11, <1>12

\* What is on its way arrives.
LEMMA HeardArrives ==
    ASSUME NEW t, NEW z, NEW stop, NEW usage, NEW late, NEW waits,
           HearsEnd(t, z, stop, usage, late, waits), NEW u, u = [t EXCEPT !.out = << >>]
    PROVE  HearsEnd(u, z \o t.out, stop, usage, late, waits)
<1>1. IsTrans(t) /\ IsList(z) /\ IsList(t.out)
  BY DEF HearsEnd, IsTrans
<1>2. IsTrans(u) /\ u.out = << >> /\ u.encode = t.encode
  BY <1>1, OutSet
<1>3. IsList(z \o t.out)
  BY <1>1, ListsJoin
<1>4. (z \o t.out) \o u.out = z \o t.out
  BY <1>2, <1>3, ListWithNothing
<1> QED  BY <1>2, <1>3, <1>4 DEF HearsEnd

\* What is written of an end, and what the client knows of it then.
EndGoesOut(t, z, ev, stop, usage, late) ==
    \E frames, g :
        /\ WriteResponseEvent(ingress, ev, t.encode) = Written(frames, g)
        /\ IsList(frames) /\ Encoder(ingress, g)
        /\ \A u : Emits(u, t, frames, g) => HearsEnd(u, z, stop, usage, late, TRUE)

\* The reason with which a client's stream may end, for the items that were written.
EndFits(e, stop) ==
    ingress = "responses" =>
        stop = "max_tokens" \/ stop = (IF HasTool(e.items) THEN "tool_use" ELSE "end_turn")

\* The end goes out: the client is told, or the writer keeps it.
LEMMA EndGoes ==
    ASSUME ingress \in Protocols, NEW t, IsTrans(t), NEW z, IsList(z),
           Client(ingress, ClientOf(ingress, z \o t.out), t.encode),
           NEW stop, stop # None, EndFits(t.encode, stop),
           NEW usage, NEW present \in BOOLEAN, usage.output > 0 => usage = Usage /\ present = TRUE
    PROVE  EndGoesOut(t, z, MessageDelta(stop, usage, present), stop, usage, FALSE)
<1>1. PICK e, c, p, ev : /\ e = t.encode /\ c = ClientOf(ingress, z \o t.out) /\ p = ingress
                         /\ ev = MessageDelta(stop, usage, present)
  OBVIOUS
<1>2. p \in Protocols /\ Encoder(p, e) /\ Client(p, c, e) /\ IsList(t.out)
  BY <1>1 DEF IsTrans
<1>3. DeltaWrites(p, WriteResponseEvent(p, ev, e), e, stop, usage, present)
  BY <1>1, <1>2, DeltaIsWritten
<1>4. PICK frames, g :
        /\ WriteResponseEvent(p, ev, e) = Written(frames, g) /\ Encoder(p, g)
        /\ p = "openai" => Told(p, frames, e, g, stop, usage)
        /\ p = "anthropic" => Told(p, frames, e, g, WriteAnthropicStop(stop), usage)
        /\ p = "responses" => frames = << >> /\ Keeps(g, e, stop, usage, present)
  BY <1>3 DEF DeltaWrites
<1>5. WriteAnthropicStop(stop) = stop
  BY DEF WriteAnthropicStop
<1>6. p # "responses" => Told(p, frames, e, g, stop, usage)
  BY <1>2, <1>4, <1>5 DEF Protocols
<1>7. IsList(frames)
  BY <1>4, <1>6, ListsAre DEF Told
<1>8. ASSUME NEW u, Emits(u, t, frames, g) PROVE HearsEnd(u, z, stop, usage, FALSE, TRUE)
  <2>1. IsTrans(u) /\ u.out = t.out \o frames /\ u.encode = g
    BY <1>8 DEF Emits
  <2>2. PICK r : r = ClientOf(p, z \o u.out)
    OBVIOUS
  <2>3. r = ScanFrames(p, c, frames)
    BY <1>1, <1>2, <1>7, <2>1, <2>2, ClientAfter
  <2>4. CASE p # "responses"
    <3>1. Tells2(r, c, stop, usage) /\ Client(p, r, g)
      BY <1>2, <1>6, <2>3, <2>4 DEF Told
    <3>2. r.stop = stop
      BY <3>1 DEF Tells2
    <3>3. ASSUME usage.output > 0 PROVE r.usage = usage
      <4>1. usage = Usage
        BY <3>3
      <4>2. PICK old : old = c.usage
        OBVIOUS
      <4>3. r.usage = [input |-> KnownNumber(old.input, usage.input),
                       output |-> KnownNumber(old.output, usage.output)]
        BY <3>1, <4>2 DEF Tells2
      <4> QED  BY <4>1, <4>3, UsageIsKnown
    <3>4. Knows(r, stop, usage, FALSE)
      BY <3>2, <3>3 DEF Knows
    <3>5. EndIn(r, g, stop, usage, FALSE, TRUE)
      BY <1>1, <2>4, <3>4 DEF EndIn
    <3> QED  BY <1>1, <2>1, <2>2, <3>1, <3>5 DEF HearsEnd
  <2>5. CASE p = "responses"
    <3>1. frames = << >> /\ Keeps(g, e, stop, usage, present)
      BY <1>4, <2>5
    <3>2. g.items = e.items /\ g.stop = stop
      BY <3>1 DEF Keeps
    <3>3. usage.output > 0 => g.present = TRUE /\ g.usage = usage /\ usage = Usage
      BY <3>1 DEF Keeps
    <3>4. EndedAs(g) = stop
      BY <1>1, <2>5, <3>2 DEF EndedAs, EndFits
    <3>5. EndIn(r, g, stop, usage, FALSE, TRUE)
      BY <1>1, <2>5, <3>3, <3>4 DEF EndIn, WillTell
    <3>6. r = c
      BY <1>1, <1>2, <2>1, <2>2, <3>1, ListWithNothing
    <3>7. Client(p, r, g)
      BY <1>2, <2>5, <3>2, <3>6 DEF Client, Reader
    <3> QED  BY <1>1, <2>1, <2>2, <3>5, <3>7 DEF HearsEnd
  <2> QED  BY <2>4, <2>5
<1> QED  BY <1>1, <1>4, <1>7, <1>8 DEF EndGoesOut

\* The usage that comes after the stop.
LEMMA LateUsageGoes ==
    ASSUME ingress \in Protocols, NEW t, NEW z, NEW stop, NEW usage, NEW late,
           HearsEnd(t, z, stop, usage, late, TRUE)
    PROVE  EndGoesOut(t, z, MessageDelta(None, Usage, TRUE), stop, Usage, TRUE)
<1>1. PICK e, c, p, ev, v, n : /\ e = t.encode /\ c = ClientOf(ingress, z \o t.out) /\ p = ingress
                               /\ v = Usage /\ n = None /\ ev = MessageDelta(n, v, TRUE)
  OBVIOUS
<1>2. /\ p \in Protocols /\ Encoder(p, e) /\ Client(p, c, e) /\ IsList(t.out) /\ IsList(z)
      /\ EndIn(c, e, stop, usage, late, TRUE)
  BY <1>1 DEF HearsEnd, IsTrans
<1>3. v # NoUsage /\ v.output = 2
  BY <1>1 DEF Usage, NoUsage
<1>4. PICK w : w = WriteResponseEvent(p, ev, e)
  OBVIOUS
<1>5. DeltaWrites(p, w, e, n, v, TRUE)
  BY <1>1, <1>2, <1>3, <1>4, DeltaIsWritten
<1>6. PICK frames, g :
        /\ w = Written(frames, g) /\ Encoder(p, g)
        /\ p = "openai" => Told(p, frames, e, g, n, v)
        /\ p = "anthropic" => Told(p, frames, e, g, WriteAnthropicStop(n), v)
        /\ p = "responses" => frames = << >> /\ Keeps(g, e, n, v, TRUE)
  BY <1>5 DEF DeltaWrites
<1>7. IsList(frames)
  BY <1>2, <1>6, ListsAre DEF Told, Protocols
<1>8. ASSUME NEW u, Emits(u, t, frames, g) PROVE HearsEnd(u, z, stop, v, TRUE, TRUE)
  <2>1. IsTrans(u) /\ u.out = t.out \o frames /\ u.encode = g
    BY <1>8 DEF Emits
  <2>2. PICK r : r = ClientOf(p, z \o u.out)
    OBVIOUS
  <2>3. r = ScanFrames(p, c, frames)
    BY <1>1, <1>2, <1>7, <2>1, <2>2, ClientAfter
  <2>4. CASE p # "responses"
    <3>1. PICK m : (p = "openai" => m = n) /\ Told(p, frames, e, g, m, v)
      BY <1>2, <1>6, <2>4 DEF Protocols
    <3>2. Tells2(r, c, m, v) /\ Client(p, r, g)
      BY <1>2, <2>3, <3>1 DEF Told
    <3>3. Knows(c, stop, usage, late)
      BY <1>1, <1>2, <2>4 DEF EndIn
    <3>4. p = "openai" => r.stop = stop
      BY <1>1, <3>1, <3>2, <3>3 DEF Tells2, Knows
    <3>5. r.usage = v
      <4>1. PICK old : old = c.usage
        OBVIOUS
      <4>2. r.usage = [input |-> KnownNumber(old.input, v.input),
                       output |-> KnownNumber(old.output, v.output)]
        BY <3>2, <4>1 DEF Tells2
      <4> QED  BY <1>1, <4>2, UsageIsKnown
    <3>6. Knows(r, stop, v, TRUE)
      BY <1>1, <1>2, <2>4, <3>4, <3>5 DEF Knows, Protocols
    <3>7. EndIn(r, g, stop, v, TRUE, TRUE)
      BY <1>1, <2>4, <3>6 DEF EndIn
    <3> QED  BY <1>1, <1>2, <2>1, <2>2, <3>2, <3>7 DEF HearsEnd
  <2>5. CASE p = "responses"
    <3>1. frames = << >> /\ Keeps(g, e, n, v, TRUE)
      BY <1>6, <2>5
    <3>2. g.items = e.items /\ g.stop = e.stop /\ g.usage = v /\ g.present = TRUE
      BY <1>1, <3>1 DEF Keeps
    <3>3. WillTell(e, stop, usage)
      BY <1>1, <1>2, <2>5 DEF EndIn
    <3>4. EndedAs(g) = stop
      BY <3>2, <3>3 DEF EndedAs, WillTell
    <3>5. EndIn(r, g, stop, v, TRUE, TRUE)
      BY <1>1, <2>5, <3>2, <3>4 DEF EndIn, WillTell
    <3>6. r = c
      BY <1>1, <1>2, <2>1, <2>2, <3>1, ListWithNothing
    <3>7. Client(p, r, g)
      BY <1>2, <2>5, <3>2, <3>6 DEF Client, Reader
    <3> QED  BY <1>1, <1>2, <2>1, <2>2, <3>5, <3>7 DEF HearsEnd
  <2> QED  BY <2>4, <2>5
<1> QED  BY <1>1, <1>4, <1>6, <1>7, <1>8 DEF EndGoesOut

\* The answer is over for the translator u, and the client hears the rest of
\* the end now or when the stream ends.
Over(u, z, stop, usage, late) ==
    /\ u.stopped = TRUE /\ u.pending = (CrossProto /\ late = FALSE)
    /\ HearsEnd(u, z, stop, usage, late, u.pending)

\* What waits matters to a Responses client only.
LEMMA WaitsApart ==
    ASSUME NEW t, NEW z, NEW stop, NEW usage, NEW late, NEW v, NEW w,
           HearsEnd(t, z, stop, usage, late, v), ingress = "responses" => (v <=> w)
    PROVE  HearsEnd(t, z, stop, usage, late, w)
<1>1. PICK c : c = ClientOf(ingress, z \o t.out)
  OBVIOUS
<1>2. EndIn(c, t.encode, stop, usage, late, v) => EndIn(c, t.encode, stop, usage, late, w)
  BY DEF EndIn
<1> QED  BY <1>1, <1>2 DEF HearsEnd

\* The translator u is t with the flags stopped and pending, and hears the same.
Flagged(u, t, s, p, z, stop, usage, late, waits) ==
    /\ HearsEnd(u, z, stop, usage, late, waits) /\ IsTrans(u)
    /\ u.decode = t.decode /\ u.start = t.start /\ u.stopped = s /\ u.pending = p

\* Setting a flag changes nothing of what is heard.
LEMMA FlagSet ==
    ASSUME NEW t, NEW z, NEW stop, NEW usage, NEW late, NEW waits,
           HearsEnd(t, z, stop, usage, late, waits), NEW x
    PROVE  /\ Flagged([t EXCEPT !.stopped = x], t, x, t.pending, z, stop, usage, late, waits)
           /\ Flagged([t EXCEPT !.pending = x], t, t.stopped, x, z, stop, usage, late, waits)
<1>1. IsTrans(t) /\ IsTranslator(t)
  BY DEF HearsEnd, IsTrans
<1>2. ASSUME NEW u, NEW s, NEW p,
             TransOf(u, t.decode, t.encode, t.windows, t.start, s, p, t.skipped, t.out)
      PROVE  Flagged(u, t, s, p, z, stop, usage, late, waits)
  <2>1. IsTranslator(u)
    BY <1>2 DEF TransOf, IsTranslator
  <2>2. IsTrans(u)
    BY <1>1, <1>2, <2>1 DEF IsTrans, TransOf
  <2>3. u.out = t.out /\ u.encode = t.encode
    BY <1>2 DEF TransOf
  <2> QED  BY <1>2, <2>2, <2>3 DEF HearsEnd, TransOf, Flagged
<1>3. /\ TransOf([t EXCEPT !.stopped = x], t.decode, t.encode, t.windows, t.start, x, t.pending, t.skipped, t.out)
      /\ TransOf([t EXCEPT !.pending = x], t.decode, t.encode, t.windows, t.start, t.stopped, x, t.skipped, t.out)
  BY <1>1, TransSet
<1> QED  BY <1>2, <1>3

\* The stop, once the end is told.
LEMMA StopTranslated ==
    ASSUME ingress \in Protocols, NEW t, UnderWay(t), NEW z, NEW stop, stop # None,
           NEW usage, usage.output > 0 => usage = Usage,
           HearsEnd(t, z, stop, usage, FALSE, TRUE), NEW u, u = TranslateEvent(t, MessageStop)
    PROVE  Over(u, z, stop, usage, FALSE) /\ u.decode = t.decode
<1>1. PICK ev : ev = MessageStop
  OBVIOUS
<1>2. ev.type = "message_stop"
  BY <1>1 DEF MessageStop
<1>3. u = TranslateSet(t, ev)
  <2>1. LockUsage(t, ev) = t /\ Backfilled(t, ev) = ev /\ RestoredStart(ev) = ev
    BY <1>2 DEF LockUsage, Backfilled, RestoredStart
  <2> QED  BY <1>1, <2>1 DEF TranslateEvent
<1>4. t.stopped = FALSE /\ t.pending = FALSE /\ IsTrans(t)
  BY DEF UnderWay
<1>5. CASE CrossProto
  <2>1. u = [t EXCEPT !.stopped = TRUE, !.pending = TRUE]
    BY <1>2, <1>3, <1>4, <1>5 DEF TranslateSet
  <2>2. PICK a : a = [t EXCEPT !.stopped = TRUE]
    OBVIOUS
  <2>3. u = [a EXCEPT !.pending = TRUE]
    BY <2>1, <2>2
  <2>4. PICK late, waits, x : late = FALSE /\ waits = TRUE /\ x = TRUE
    OBVIOUS
  <2>5. Flagged(a, t, x, t.pending, z, stop, usage, late, waits)
    BY <2>2, <2>4, FlagSet
  <2>6. HearsEnd(a, z, stop, usage, late, waits) /\ a.stopped = x /\ a.decode = t.decode
    BY <2>5 DEF Flagged
  <2>7. Flagged(u, a, a.stopped, x, z, stop, usage, late, waits)
    <3>1. PICK b : b = [a EXCEPT !.pending = x]
      OBVIOUS
    <3>2. HearsEnd(a, z, stop, usage, late, waits)
      BY <2>6
    <3>3. Flagged(b, a, a.stopped, x, z, stop, usage, late, waits)
      BY <3>1, <3>2, FlagSet
    <3> QED  BY <2>3, <2>4, <3>1, <3>3
  <2>8. /\ HearsEnd(u, z, stop, usage, late, waits) /\ u.stopped = TRUE /\ u.pending = TRUE
        /\ u.decode = t.decode
    BY <2>4, <2>6, <2>7 DEF Flagged
  <2> QED  BY <1>5, <2>4, <2>8 DEF Over
<1>6. CASE ~ CrossProto
  <2>1. PICK a : a = [t EXCEPT !.stopped = TRUE]
    OBVIOUS
  <2>2. u = SkipOrEmit(a, ev, WriteResponseEvent(ingress, ev, t.encode))
    <3>1. [t EXCEPT !.stopped = @ \/ ev.type = "message_stop"] = a
      BY <1>2, <2>1
    <3> QED  BY <1>3, <1>4, <1>6, <3>1 DEF TranslateSet
  <2>3. u = RestoreAndEmit(a, ev)
    BY <1>6, <2>2 DEF SkipOrEmit, Probes
  <2>4. /\ HearsEnd(a, z, stop, usage, FALSE, TRUE) /\ IsTrans(a) /\ a.stopped = TRUE
        /\ a.pending = FALSE /\ a.decode = t.decode
    <3>1. PICK late, waits, x : late = FALSE /\ waits = TRUE /\ x = TRUE
      OBVIOUS
    <3>2. Flagged(a, t, x, t.pending, z, stop, usage, late, waits)
      BY <2>1, <3>1, FlagSet
    <3> QED  BY <1>4, <3>1, <3>2 DEF Flagged
  <2>5. PICK b : b = FlushBefore(a, ev)
    OBVIOUS
  <2>6. Mutters(b, a, {}, FALSE)
    <3>1. b = a \/ b = EmitFlushAll(a)
      BY <1>2, <2>5 DEF FlushBefore
    <3>2. Mutters(a, a, {}, FALSE)
      BY <2>4, MuttersNothing
    <3>3. Mutters(EmitFlushAll(a), a, {}, FALSE)
      BY <2>4, FlushAllMutters
    <3> QED  BY <3>1, <3>2, <3>3
  <2>7. HearsEnd(b, z, stop, usage, FALSE, TRUE)
    BY <2>4, <2>6, MuttersHeard
  <2>8. b.stopped = TRUE /\ b.pending = FALSE /\ b.decode = t.decode
    BY <2>4, <2>6 DEF Mutters
  <2>9. u = EmitIrEvent(b, MessageStop)
    <3>1. RestoreEvent(b, ev) = [state |-> b, ev |-> ev]
      BY <1>2 DEF RestoreEvent, IsPlainDelta
    <3>2. PICK r : r = [state |-> b, ev |-> ev]
      OBVIOUS
    <3>3. r.state = b /\ r.ev = ev
      BY <3>2
    <3>4. u = EmitRestored(r)
      BY <2>3, <2>5, <3>1, <3>2 DEF RestoreAndEmit
    <3> QED  BY <1>1, <1>2, <1>6, <3>3, <3>4 DEF EmitRestored, IsPlainDelta, EmitStopAfter
  <2>10. HearsEnd(u, z, stop, usage, FALSE, FALSE) /\ \E frames, g : Emits(u, b, frames, g)
    BY <2>7, <2>9, StopHeard
  <2>11. u.stopped = TRUE /\ u.pending = FALSE /\ u.decode = t.decode
    BY <2>8, <2>10 DEF Emits
  <2> QED  BY <1>6, <2>10, <2>11 DEF Over
<1> QED  BY <1>5, <1>6

\* The usage with which an answer ends, as the client hears it.
LastUsage(p, present) == IF present THEN Usage ELSE StartUsage(p)

\* An end without input is given that of the start.
LEMMA InputIsKept ==
    ASSUME egress \in Protocols, NEW t, t.start = StartKept(egress), NEW stop, NEW present \in BOOLEAN
    PROVE  /\ Backfilled(t, MessageDelta(stop, EndUsage(egress, present), present)) =
                MessageDelta(stop, LastUsage(egress, present), present)
           /\ LastUsage(egress, present).output > 0 => LastUsage(egress, present) = Usage /\ present = TRUE
<1>1. PICK a, x, l : /\ a = MessageDelta(stop, x, present) /\ x = EndUsage(egress, present)
                     /\ l = LastUsage(egress, present)
  OBVIOUS
<1>2. a.type = "message_delta" /\ a.usage = x
  BY <1>1 DEF MessageDelta
<1>3. /\ Usage = [input |-> 3, output |-> 2] /\ NoUsage = [input |-> 0, output |-> 0]
      /\ OutputOnly = [input |-> 0, output |-> 2] /\ InputOnly = [input |-> 3, output |-> 0]
  BY DEF Usage, NoUsage, OutputOnly, InputOnly
<1>4. l.output > 0 => l = Usage /\ present = TRUE
  BY <1>1, <1>3 DEF LastUsage, StartUsage
<1>5. CASE egress # "anthropic"
  <2>1. t.start = << >>
    BY <1>5 DEF StartKept
  <2>2. Backfilled(t, a) = a
    BY <2>1 DEF Backfilled
  <2>3. x = l
    BY <1>1, <1>5 DEF EndUsage, LastUsage, StartUsage
  <2> QED  BY <1>1, <1>4, <2>2, <2>3
<1>6. CASE egress = "anthropic"
  <2>1. PICK i : i = InputOnly
    OBVIOUS
  <2>2. t.start = <<i>> /\ t.start # << >> /\ t.start[1] = i /\ i.input = 3
    BY <1>3, <1>6, <2>1 DEF StartKept
  <2>3. x.input = 0
    BY <1>1, <1>3, <1>6 DEF EndUsage
  <2>4. Backfilled(t, a) = [a EXCEPT !.usage.input = 3]
    BY <1>2, <2>2, <2>3 DEF Backfilled
  <2>5. [x EXCEPT !.input = 3] = l
    BY <1>1, <1>3, <1>6 DEF EndUsage, LastUsage, StartUsage
  <2>6. [a EXCEPT !.usage.input = 3] = [a EXCEPT !.usage = [x EXCEPT !.input = 3]]
    BY <1>2
  <2>7. [a EXCEPT !.usage = l] = MessageDelta(stop, l, present)
    BY <1>1 DEF MessageDelta
  <2> QED  BY <1>1, <1>4, <2>4, <2>5, <2>6, <2>7
<1> QED  BY <1>5, <1>6

\* The event a and message_stop, at the translator t, which become u.
TellsTheEnd(u, t, z, a, stop, usage) ==
    /\ Over(u, z, stop, usage, FALSE) /\ u.decode = t.decode
    /\ UnderWay(TranslateEvent(t, a)) /\ TranslateEvent(t, a).decode = t.decode

\* The end and the stop, one after the other: the client hears the end then, or
\* when the stream is over.
LEMMA EndTranslated ==
    ASSUME ingress \in Protocols, egress \in Protocols, NEW t, UnderWay(t), t.start = StartKept(egress),
           NEW z, IsList(z), Client(ingress, ClientOf(ingress, z \o t.out), t.encode),
           NEW stop, stop # None, EndFits(t.encode, stop), NEW present \in BOOLEAN,
           NEW a, a = MessageDelta(stop, EndUsage(egress, present), present),
           NEW u, u = TranslateEvent(TranslateEvent(t, a), MessageStop)
    PROVE  TellsTheEnd(u, t, z, a, stop, LastUsage(egress, present))
<1>1. PICK l : l = LastUsage(egress, present)
  OBVIOUS
<1>2. PICK ev : ev = MessageDelta(stop, l, present)
  OBVIOUS
<1>3. ev.type = "message_delta"
  BY <1>2 DEF MessageDelta
<1>4. Backfilled(t, a) = ev /\ (l.output > 0 => l = Usage /\ present = TRUE)
  BY <1>1, <1>2, InputIsKept
<1>5. PICK w : w = TranslateEvent(t, a)
  OBVIOUS
<1>6. w = TranslateSet(t, ev)
  <2>1. a.type = "message_delta"
    BY DEF MessageDelta
  <2>2. LockUsage(t, a) = t /\ RestoredStart(ev) = ev
    BY <1>3, <2>1 DEF LockUsage, RestoredStart
  <2> QED  BY <1>4, <1>5, <2>2 DEF TranslateEvent
<1>7. EndGoesOut(t, z, ev, stop, l, FALSE)
  <2>1. IsTrans(t)
    BY DEF UnderWay
  <2> QED  BY <1>2, <1>4, <2>1, EndGoes
<1>8. PICK frames, g :
        /\ WriteResponseEvent(ingress, ev, t.encode) = Written(frames, g)
        /\ IsList(frames) /\ Encoder(ingress, g)
        /\ \A y : Emits(y, t, frames, g) => HearsEnd(y, z, stop, l, FALSE, TRUE)
  BY <1>7 DEF EndGoesOut
<1>9. Emits(w, t, frames, g)
  BY <1>3, <1>6, <1>8, PlainTranslated
<1>10. HearsEnd(w, z, stop, l, FALSE, TRUE)
  BY <1>8, <1>9
<1>11. UnderWay(w) /\ w.decode = t.decode
  BY <1>9 DEF Emits, UnderWay
<1>12. Over(u, z, stop, l, FALSE) /\ u.decode = w.decode
  BY <1>4, <1>5, <1>10, <1>11, StopTranslated
<1> QED  BY <1>1, <1>5, <1>11, <1>12 DEF TellsTheEnd

\* The translator that is about to hear of the end.
ReadyToStop(t, z, d, stop) ==
    /\ UnderWay(t) /\ t.decode = d /\ t.start = StartKept(egress) /\ IsList(z)
    /\ Client(ingress, ClientOf(ingress, z \o t.out), t.encode) /\ EndFits(t.encode, stop)

\* What an answer may stop for.
StopsFor(B) == {"max_tokens", IF HasCall(B) THEN "tool_use" ELSE "end_turn"}

\* The translator that listens is ready for the end after one more frame.
LEMMA ListensThenFed ==
    ASSUME NEW t, NEW z, NEW d, NEW B, Listens(t, z, d, B), NEW e, NEW u,
           Fed(u, t, e, {}, FALSE),
           NEW stop \in StopsFor(B)
    PROVE  ReadyToStop(u, z, e, stop)
<1>1. t.out = << >> /\ t.start = StartKept(egress) /\ IsList(z)
  BY DEF Listens
<1>0. UnderWay(t)
  BY DEF Listens
<1>2. PICK y : y = [t EXCEPT !.decode = e]
  OBVIOUS
<1>3. UnderWay(y) /\ y.decode = e /\ y.encode = t.encode /\ y.start = t.start /\ y.out = t.out
  BY ONLY <1>0, <1>2, ReaderSet
<1>4. Mutters(u, y, {}, FALSE)
  BY <1>2 DEF Fed
<1>5. PICK frames : u.out = << >> \o frames /\ Unheard(ingress, frames, t.encode, u.encode)
  BY <1>1, <1>3, <1>4 DEF Mutters
<1>6. u.out = frames
  <2>1. IsList(frames)
    BY <1>5 DEF Unheard
  <2> QED  BY <1>5, <2>1, ListWithNothing
<1>7. Client(ingress, ClientOf(ingress, z \o u.out), u.encode)
  <2>1. Client(ingress, ClientOf(ingress, z), t.encode)
    BY DEF Listens
  <2> QED  BY <1>1, <1>5, <1>6, <2>1, ClientGoesOn
<1>8. UnderWay(u)
  BY <1>3, <1>4, StillUnderWay
<1>9. u.decode = e /\ u.start = StartKept(egress)
  BY <1>1, <1>3, <1>4 DEF Mutters
<1>10. EndFits(u.encode, stop)
  <2> SUFFICES ASSUME ingress = "responses"
               PROVE  stop = "max_tokens"
                      \/ stop = (IF HasTool(u.encode.items) THEN "tool_use" ELSE "end_turn")
    BY DEF EndFits
  <2>1. HasTool(u.encode.items) <=> HasTool(t.encode.items)
    BY <1>3, <1>4 DEF Mutters, Begins
  <2>2. HasTool(t.encode.items) <=> HasCall(B)
    BY DEF Listens, InStep
  <2> QED  BY <2>1, <2>2 DEF StopsFor
<1> QED  BY <1>1, <1>7, <1>8, <1>9, <1>10 DEF ReadyToStop

\* A frame under which nothing is written yet.
LEMMA ReadyAtOnce ==
    ASSUME NEW t, UnderWay(t), NEW e, NEW u, u = [t EXCEPT !.decode = e]
    PROVE  Fed(u, t, e, {}, FALSE)
<1>1. IsTrans(u)
  BY ReaderSet DEF UnderWay
<1>2. Mutters(u, u, {}, FALSE)
  BY <1>1, MuttersNothing
<1> QED  BY <1>2 DEF Fed

\* The reader's state as it is.
LEMMA SameReader ==
    ASSUME NEW t, IsTranslator(t), NEW d, t.decode = d
    PROVE  [t EXCEPT !.decode = d] = t
<1>1. PICK u : u = [t EXCEPT !.decode = d]
  OBVIOUS
<1>2. TransOf(u, d, t.encode, t.windows, t.start, t.stopped, t.pending, t.skipped, t.out)
  BY <1>1, TransSet
<1>3. u = t
  BY <1>2 DEF TransOf, IsTranslator
<1> QED  BY <1>1, <1>3

\* The last frame of a Responses upstream.
LEMMA UpstreamFinishes ==
    ASSUME NEW d, NEW B, Saw("responses", d, B), NEW stop \in StopsFor(B), NEW usage, NEW present
    PROVE  ReadResponses(Finished(IF stop = "max_tokens" THEN "incomplete" ELSE "completed",
                                  << >>, usage, present), d) =
             Read(<<MessageDelta(stop, usage, present), MessageStop>>, d)
<1>1. PICK f : f = Finished(IF stop = "max_tokens" THEN "incomplete" ELSE "completed",
                            << >>, usage, present)
  OBVIOUS
<1>2. /\ f.event = (IF stop = "max_tokens" THEN "incomplete" ELSE "completed")
      /\ f.usage = usage /\ f.present = present
  BY <1>1 DEF Finished
<1>3. d.sawFunctionCall <=> HasCall(B)
  BY DEF Saw
<1>4. \A x : StreamFinished(f, x) = <<MessageDelta(x, usage, present), MessageStop>>
  BY <1>2 DEF StreamFinished
<1>5. CASE stop = "max_tokens"
  <2>1. f.event = "incomplete"
    BY <1>2, <1>5
  <2>2. ReadResponses(f, d) = Read(StreamFinished(f, "max_tokens"), d)
    BY <2>1 DEF ReadResponses
  <2> QED  BY <1>1, <1>4, <1>5, <2>2
<1>6. CASE stop # "max_tokens"
  <2>1. f.event = "completed"
    BY <1>2, <1>6
  <2>2. ReadResponses(f, d) = Read(StreamFinished(f, IF d.sawFunctionCall THEN "tool_use" ELSE "end_turn"), d)
    BY <2>1 DEF ReadResponses
  <2>3. (IF d.sawFunctionCall THEN "tool_use" ELSE "end_turn") = stop
    BY <1>3, <1>6 DEF StopsFor
  <2> QED  BY <1>1, <1>4, <2>2, <2>3
<1> QED  BY <1>5, <1>6
-----------------------------------------------------------------------------
\* The frames with which the upstream stops, at the translator.
StoppedAs(u, z, stop, usage, late) ==
    /\ Over(u, z, stop, usage, late)
    /\ egress = "openai" /\ late = FALSE => OpenAiState(u.decode)

\* The frames with which an upstream stops make the answer over.
LEMMA StopsOver ==
    ASSUME ingress \in Protocols, egress \in Protocols, NEW S, NEW B \in Seq(S),
           NEW s, Carries(egress, s, B), NEW t, NEW z, Listens(t, z, s.decode, B),
           NEW stop \in StopsFor(B), NEW present \in BOOLEAN,
           NEW u, u = FeedFrames(t, StopFrames(stop, EndUsage(egress, present), present))
    PROVE  StoppedAs(u, z, stop, LastUsage(egress, present), FALSE)

<1>1. PICK d, usage, a : /\ d = s.decode /\ usage = EndUsage(egress, present)
                         /\ a = MessageDelta(stop, usage, present)
  OBVIOUS
<1>2. UnderWay(t) /\ t.decode = d /\ Saw(egress, d, B)
  BY <1>1 DEF Listens
<1>3. stop # None
  BY DEF StopsFor, None
<1>4. ASSUME NEW x, NEW e, ReadyToStop(x, z, e, stop),
             NEW v, v = TranslateEvent(TranslateEvent(x, a), MessageStop)
      PROVE  TellsTheEnd(v, x, z, a, stop, LastUsage(egress, present)) /\ x.decode = e
  <2>1. UnderWay(x) /\ x.start = StartKept(egress) /\ IsList(z)
    BY <1>4 DEF ReadyToStop
  <2>2. Client(ingress, ClientOf(ingress, z \o x.out), x.encode)
    BY <1>4 DEF ReadyToStop
  <2>3. EndFits(x.encode, stop)
    BY <1>4 DEF ReadyToStop
  <2>4. a = MessageDelta(stop, EndUsage(egress, present), present)
    BY <1>1
  <2>5. v = TranslateEvent(TranslateEvent(x, a), MessageStop)
    BY <1>4
  <2>6. ingress \in Protocols /\ egress \in Protocols /\ present \in BOOLEAN
    OBVIOUS
  <2>7. TellsTheEnd(v, x, z, a, stop, LastUsage(egress, present))
    BY ONLY <2>1, <2>2, <2>3, <2>4, <2>5, <2>6, <1>3, EndTranslated
  <2> QED  BY <1>4, <2>7 DEF ReadyToStop
<1>8. ASSUME NEW x, NEW e, Fed(x, t, e, {}, FALSE)
      PROVE  ReadyToStop(x, z, e, stop)
  <2>1. Listens(t, z, d, B)
    BY <1>1
  <2>2. stop \in StopsFor(B)
    OBVIOUS
  <2> QED  BY ONLY <1>8, <2>1, <2>2, ListensThenFed
<1>5. CASE egress = "openai"
  <2>1. PICK f : f = StopChunk(stop, usage, present)
    OBVIOUS
  <2>2. u = FeedFrame(t, f)
    BY <1>1, <1>5, <2>1, StopFramesAre, FeedsOne
  <2>3. DecoderAgrees(d, B)
    BY <1>1, <1>5 DEF Carries, ShowsAnswer, OpenAiShows, OpenAiAgrees
  <2>4. PICK q, e : /\ q \in Seq(Stops) /\ OpenAiState(e)
                    /\ ReadOpenAi(f, d) = Read(q \o <<a, MessageStop>>, e)
    BY <1>1, <1>3, <2>1, <2>3, ReadStopChunk
  <2>5. u = TranslateEvents(t, Read(q \o <<a, MessageStop>>, e))
    BY <1>2, <1>5, <2>2, <2>4 DEF FeedFrame, ReadResponseEvents
  <2>6. AllTalk(q)
    <3>1. IsList(q)
      BY <2>4 DEF IsList
    <3>2. \A i \in 1 .. Len(q) : q[i] \in Stops
      BY <2>4
    <3> QED  BY <3>1, <3>2 DEF AllTalk, IsTalk, Stops
  <2>7. PICK x : /\ Fed(x, t, e, {}, FALSE)
                 /\ u = TranslateEvent(TranslateEvent(x, a), MessageStop)
    <3>1. PICK b : b = MessageStop
      OBVIOUS
    <3>0. ingress \in Protocols /\ UnderWay(t)
      BY <1>2
    <3>2. TalkThen(t, q, a, b, e)
      BY ONLY <3>0, <2>6, TalkBeforeTwo
    <3> QED  BY <2>5, <3>1, <3>2 DEF TalkThen
  <2>8. ReadyToStop(x, z, e, stop)
    BY <1>8, <2>7
  <2> QED  BY <1>4, <2>4, <2>7, <2>8 DEF StoppedAs, TellsTheEnd
<1>6. CASE egress = "anthropic"
  <2>1. PICK f, g : f = AnthropicDelta(stop, usage, present) /\ g = AnthropicStop
    OBVIOUS
  <2>2. u = FeedFrame(FeedFrame(t, f), g)
    BY <1>1, <1>6, <2>1, StopFramesAre, FeedsTwo
  <2>3. ReadAnthropic(f, d) = Read(<<a>>, d)
    <3>1. (IF present THEN usage ELSE NoUsage) = usage
      BY <1>1 DEF EndUsage
    <3> QED  BY <1>1, <2>1, <3>1, AnthropicUsage
  <2>4. PICK x : x = [t EXCEPT !.decode = d]
    OBVIOUS
  <2>5. FeedFrame(t, f) = TranslateEvent(x, a)
    <3>1. FeedFrame(t, f) = TranslateEvents(t, Read(<<a>>, d))
      BY <1>2, <1>6, <2>3 DEF FeedFrame, ReadResponseEvents
    <3> QED  BY <2>4, <3>1, OneTurn
  <2>6. Fed(x, t, d, {}, FALSE)
    BY <1>2, <2>4, ReadyAtOnce
  <2>7. ReadyToStop(x, z, d, stop)
    BY <1>8, <2>6
  <2>8. PICK w : w = TranslateEvent(x, a)
    OBVIOUS
  <2>9. UnderWay(w) /\ w.decode = d
    BY <1>4, <2>7, <2>8 DEF TellsTheEnd
  <2>10. IsTranslator(w)
    BY <2>9 DEF UnderWay, IsTrans
  <2>11. ReadAnthropic(g, w.decode) = Read(<<MessageStop>>, d)
    BY <2>1, <2>9, AnthropicEnd
  <2>12. u = TranslateEvents(w, Read(<<MessageStop>>, d))
    BY <1>6, <2>2, <2>5, <2>8, <2>11 DEF FeedFrame, ReadResponseEvents
  <2>13. u = TranslateEvent([w EXCEPT !.decode = d], MessageStop)
    BY <2>12, OneTurn
  <2>14. u = TranslateEvent(TranslateEvent(x, a), MessageStop)
    BY <2>8, <2>9, <2>10, <2>13, SameReader
  <2> QED  BY <1>4, <1>6, <2>7, <2>14 DEF StoppedAs, TellsTheEnd
<1>7. CASE egress = "responses"
  <2>1. PICK f : f = Finished(IF stop = "max_tokens" THEN "incomplete" ELSE "completed", << >>, usage, present)
    OBVIOUS
  <2>2. u = FeedFrame(t, f)
    BY <1>1, <1>7, <2>1, StopFramesAre, FeedsOne
  <2>3. ReadResponses(f, d) = Read(<<a, MessageStop>>, d)
    BY <1>1, <1>2, <1>7, <2>1, UpstreamFinishes
  <2>4. PICK x : x = [t EXCEPT !.decode = d]
    OBVIOUS
  <2>5. u = TranslateEvents(t, Read(<<a, MessageStop>>, d))
    BY <1>2, <1>7, <2>2, <2>3 DEF FeedFrame, ReadResponseEvents
  <2>6. u = TranslateEvent(TranslateEvent(x, a), MessageStop)
    BY <2>4, <2>5, TwoTurns
  <2>7. Fed(x, t, d, {}, FALSE)
    BY <1>2, <2>4, ReadyAtOnce
  <2>8. ReadyToStop(x, z, d, stop)
    BY <1>8, <2>7
  <2> QED  BY <1>4, <1>7, <2>6, <2>8 DEF StoppedAs, TellsTheEnd
<1> QED  BY <1>5, <1>6, <1>7 DEF Protocols

-----------------------------------------------------------------------------
(* The usage that comes after the stop.                                    *)

\* The end that was waiting goes out, if there is one.
LEMMA WaitingGoes ==
    ASSUME ingress \in Protocols, NEW t, NEW z, NEW stop, stop # None, NEW usage,
           usage.output > 0 => usage = Usage, NEW late,
           HearsEnd(t, z, stop, usage, late, t.pending), t.pending \in BOOLEAN,
           t.pending = TRUE => CrossProto, NEW u, u = EmitStopAfter(t)
    PROVE  Flagged(u, t, t.stopped, FALSE, z, stop, usage, late, FALSE)
<1>1. PICK no : no = FALSE
  OBVIOUS
<1>2. CASE t.pending = TRUE
  <2>1. PICK a : a = [t EXCEPT !.pending = no]
    OBVIOUS
  <2>2. PICK waits : waits = t.pending
    OBVIOUS
  <2>3. HearsEnd(t, z, stop, usage, late, waits)
    BY <2>2
  <2>4. Flagged(a, t, t.stopped, no, z, stop, usage, late, waits)
    BY <2>1, <2>3, FlagSet
  <2>5. HearsEnd(a, z, stop, usage, late, TRUE)
    BY <1>2, <2>2, <2>4 DEF Flagged
  <2>6. u = EmitIrEvent(a, MessageStop)
    BY <1>1, <1>2, <2>1 DEF EmitStopAfter
  <2>7. HearsEnd(u, z, stop, usage, late, FALSE)
    BY <2>5, <2>6, StopHeard
  <2>8. \E frames, g : Emits(u, a, frames, g)
    BY <2>5, <2>6, StopHeard
  <2>9. /\ IsTrans(u) /\ u.decode = a.decode /\ u.start = a.start /\ u.stopped = a.stopped
        /\ u.pending = a.pending
    BY <2>8 DEF Emits
  <2> QED  BY <1>1, <2>4, <2>7, <2>9 DEF Flagged
<1>3. CASE t.pending = FALSE
  <2>1. u = t
    BY <1>3 DEF EmitStopAfter
  <2>2. IsTrans(t)
    BY DEF HearsEnd
  <2> QED  BY <1>3, <2>1, <2>2 DEF Flagged
<1> QED  BY <1>2, <1>3

\* The late usage is no event before the stop, and still passes.
LEMMA LateUsageTranslated ==
    ASSUME ingress \in Protocols, egress = "openai", NEW t, NEW z, NEW stop, stop # None, NEW usage,
           Over(t, z, stop, usage, FALSE),
           NEW u, u = TranslateEvent(t, MessageDelta(None, Usage, TRUE))
    PROVE  Over(u, z, stop, Usage, TRUE)
<1>1. PICK ev : ev = MessageDelta(None, Usage, TRUE)
  OBVIOUS
<1>2. ev.type = "message_delta" /\ ev.usage = Usage
  BY <1>1 DEF MessageDelta
<1>3. Usage.input = 3 /\ Usage.output = 2
  BY DEF Usage
<1>4. u = TranslateSet(t, ev)
  <2>1. Backfilled(t, ev) = ev
    BY <1>2, <1>3 DEF Backfilled
  <2>2. LockUsage(t, ev) = t /\ RestoredStart(ev) = ev
    BY <1>2 DEF LockUsage, RestoredStart
  <2> QED  BY <1>1, <2>1, <2>2 DEF TranslateEvent
<1>5. t.stopped = TRUE /\ t.pending = CrossProto /\ HearsEnd(t, z, stop, usage, FALSE, t.pending)
  BY DEF Over, CrossProto
<1>6. IsTrans(t) /\ IsTranslator(t)
  BY <1>5 DEF HearsEnd, IsTrans
<1>7. PassesAfterStop(t, ev)
  <2>1. ~ IsZero(ev.usage)
    BY <1>2, <1>3 DEF IsZero, NoUsage
  <2>2. CASE CrossProto
    BY <1>2, <1>5, <2>1, <2>2 DEF PassesAfterStop
  <2>3. CASE ~ CrossProto
    BY <1>2, <2>1, <2>3 DEF PassesAfterStop
  <2> QED  BY <2>2, <2>3
<1>8. [t EXCEPT !.stopped = @ \/ ev.type = "message_stop"] = t
  <2>1. PICK b : b = (t.stopped \/ ev.type = "message_stop")
    OBVIOUS
  <2>2. PICK y : y = [t EXCEPT !.stopped = b]
    OBVIOUS
  <2>3. TransOf(y, t.decode, t.encode, t.windows, t.start, b, t.pending, t.skipped, t.out)
    BY <1>6, <2>2, TransSet
  <2>4. b = t.stopped
    BY <1>5, <2>1
  <2>5. y = t
    BY <1>6, <2>3, <2>4 DEF TransOf, IsTranslator
  <2> QED  BY <2>1, <2>2, <2>5
<1>9. u = RestoreAndEmit(t, ev)
  <2>1. u = SkipOrEmit(t, ev, WriteResponseEvent(ingress, ev, t.encode))
    BY <1>2, <1>4, <1>7, <1>8 DEF TranslateSet
  <2> QED  BY <1>2, <2>1 DEF SkipOrEmit, Probes
<1>10. PICK w : w = EmitIrEvent(t, ev)
  OBVIOUS
<1>11. u = EmitStopAfter(w)
  <2>1. FlushBefore(t, ev) = t
    BY <1>2 DEF FlushBefore
  <2>2. RestoreEvent(t, ev) = [state |-> t, ev |-> ev]
    BY <1>2 DEF RestoreEvent, IsPlainDelta
  <2>3. PICK r : r = [state |-> t, ev |-> ev]
    OBVIOUS
  <2>4. r.state = t /\ r.ev = ev
    BY <2>3
  <2>5. u = EmitRestored(r)
    BY <1>9, <2>1, <2>2, <2>3 DEF RestoreAndEmit
  <2> QED  BY <1>2, <1>10, <2>4, <2>5 DEF EmitRestored, IsPlainDelta
<1>12. HearsEnd(t, z, stop, usage, FALSE, TRUE)
  <2>1. CASE CrossProto
    BY <1>5, <2>1
  <2>2. CASE ~ CrossProto
    <3>1. PICK late, v, y : late = FALSE /\ v = FALSE /\ y = TRUE
      OBVIOUS
    <3>2. HearsEnd(t, z, stop, usage, late, v)
      <4>1. t.pending = FALSE
        BY <1>5, <2>2
      <4> QED  BY <1>5, <3>1, <4>1
    <3>3. ingress = "responses" => (v <=> y)
      BY <2>2 DEF CrossProto
    <3>4. HearsEnd(t, z, stop, usage, late, y)
      BY <3>2, <3>3, WaitsApart
    <3> QED  BY <3>1, <3>4
  <2> QED  BY <2>1, <2>2
<1>13. EndGoesOut(t, z, ev, stop, Usage, TRUE)
  BY <1>1, <1>12, LateUsageGoes
<1>14. PICK frames, g :
         /\ WriteResponseEvent(ingress, ev, t.encode) = Written(frames, g)
         /\ IsList(frames) /\ Encoder(ingress, g)
         /\ \A y : Emits(y, t, frames, g) => HearsEnd(y, z, stop, Usage, TRUE, TRUE)
  BY <1>13 DEF EndGoesOut
<1>15. Emits(w, t, frames, g)
  BY <1>6, <1>10, <1>14, TakeEmits DEF EmitIrEvent
<1>16. /\ HearsEnd(w, z, stop, Usage, TRUE, TRUE) /\ w.stopped = TRUE /\ w.pending = CrossProto
       /\ w.decode = t.decode
  BY <1>5, <1>14, <1>15 DEF Emits
<1>17. HearsEnd(w, z, stop, Usage, TRUE, w.pending)
  <2>1. CASE CrossProto
    BY <1>16, <2>1
  <2>2. CASE ~ CrossProto
    <3>1. PICK usage2, late, v, y : usage2 = Usage /\ late = TRUE /\ v = TRUE /\ y = w.pending
      OBVIOUS
    <3>2. HearsEnd(w, z, stop, usage2, late, v)
      BY <1>16, <3>1
    <3>3. ingress = "responses" => (v <=> y)
      BY <2>2 DEF CrossProto
    <3>4. HearsEnd(w, z, stop, usage2, late, y)
      BY <3>2, <3>3, WaitsApart
    <3> QED  BY <3>1, <3>4
  <2> QED  BY <2>1, <2>2
<1>18. Flagged(u, w, w.stopped, FALSE, z, stop, Usage, TRUE, FALSE)
  <2>1. PICK usage2, late : usage2 = Usage /\ late = TRUE
    OBVIOUS
  <2>2. HearsEnd(w, z, stop, usage2, late, w.pending)
    BY <1>17, <2>1
  <2>3. w.pending \in BOOLEAN /\ (w.pending = TRUE => CrossProto)
    BY <1>16 DEF CrossProto
  <2>4. Flagged(u, w, w.stopped, FALSE, z, stop, usage2, late, FALSE)
    BY <1>11, <2>1, <2>2, <2>3, WaitingGoes
  <2> QED  BY <2>1, <2>4
<1> QED  BY <1>16, <1>18 DEF Over, Flagged

\* The frame with the late usage, at the translator.
LEMMA LateUsageOver ==
    ASSUME ingress \in Protocols, egress = "openai", NEW t, NEW z, NEW stop, stop # None, NEW usage,
           StoppedAs(t, z, stop, usage, FALSE),
           NEW f, f = [Chunk EXCEPT !.choices = FALSE, !.usage = Usage, !.present = TRUE],
           NEW u, u = FeedFrames(t, <<f>>)
    PROVE  StoppedAs(u, z, stop, Usage, TRUE)
<1>1. PICK d : d = t.decode
  OBVIOUS
<1>2. f.choices = FALSE /\ f.present = TRUE /\ f.usage = Usage
  BY DEF Chunk
<1>3. [d EXCEPT !.started = TRUE] = d /\ d.started = TRUE
  BY <1>1 DEF OpenAiState, StoppedAs
<1>4. ReadOpenAi(f, d) = Read(<<MessageDelta(None, Usage, TRUE)>>, d)
  <2>1. PICK one, m : one = Read(<< >>, d) /\ m = MessageDelta(None, Usage, TRUE)
    OBVIOUS
  <2>2. ReadOpenAi(f, d) = Read(one.events \o <<m>>, one.state)
    BY <1>2, <1>3, <2>1 DEF ReadOpenAi
  <2>3. one.events = << >> /\ one.state = d
    BY <2>1 DEF Read
  <2>4. << >> \o <<m>> = <<m>>
    BY EventsAre
  <2> QED  BY <2>1, <2>2, <2>3, <2>4
<1>5. u = TranslateEvents(t, Read(<<MessageDelta(None, Usage, TRUE)>>, d))
  <2>1. u = FeedFrame(t, f)
    BY FeedsOne
  <2> QED  BY <1>1, <1>4, <2>1 DEF FeedFrame, ReadResponseEvents
<1>6. u = TranslateEvent(t, MessageDelta(None, Usage, TRUE))
  <2>1. IsTranslator(t)
    BY DEF StoppedAs, Over, HearsEnd, IsTrans
  <2>2. [t EXCEPT !.decode = d] = t
    BY <1>1, <2>1, SameReader
  <2>3. PICK ev : ev = MessageDelta(None, Usage, TRUE)
    OBVIOUS
  <2>4. TranslateEvents(t, Read(<<ev>>, d)) = TranslateEvent([t EXCEPT !.decode = d], ev)
    BY OneTurn
  <2> QED  BY <1>5, <2>2, <2>3, <2>4
<1>7. Over(t, z, stop, usage, FALSE)
  BY DEF StoppedAs
<1>8. Over(u, z, stop, Usage, TRUE)
  BY <1>6, <1>7, LateUsageTranslated
<1> QED  BY <1>8 DEF StoppedAs
-----------------------------------------------------------------------------
(* The stream ends.                                                        *)

\* The scan of a whole stream.
ClientAt(p, frames) == ScanFrames(p, NewScan(p), IF p = "openai" THEN Front(frames) ELSE frames)

\* The frame that closes a stream of OpenAI's is not read.
LEMMA DoneIsNotRead ==
    ASSUME NEW z, IsList(z), NEW t, IsTranslator(t), IsList(t.out), NEW u, u = EmitDone(t)
    PROVE  ClientAt(ingress, z \o u.out) = ClientOf(ingress, z \o t.out)
<1>1. CASE ingress = "openai"
  <2>1. PICK a, b : a = t.out /\ b = Append(a, Done)
    OBVIOUS
  <2>2. u.out = b
    <3>1. PICK x : x = [t EXCEPT !.out = b]
      OBVIOUS
    <3>2. x.out = b
      BY <3>1, TransSet DEF TransOf
    <3> QED  BY <1>1, <2>1, <3>1, <3>2 DEF EmitDone
  <2>3. b = a \o <<Done>> /\ IsList(<<Done>>) /\ IsList(a)
    <3>1. PICK S : a \in Seq(S)
      BY <2>1 DEF IsList
    <3>2. a \o <<Done>> = Append(a, Done)
      BY <3>1
    <3>3. IsList(<<Done>>)
      BY ListsAre
    <3> QED  BY <2>1, <3>2, <3>3
  <2>4. PICK y : y = z \o a
    OBVIOUS
  <2>5. IsList(y)
    BY <2>3, <2>4, ListsJoin
  <2>6. z \o b = y \o <<Done>>
    BY <2>3, <2>4, ListsAssociate
  <2>7. Front(y \o <<Done>>) = y
    <3>1. PICK S : y \in Seq(S)
      BY <2>5 DEF IsList
    <3>2. PICK T : T = S \cup {Done}
      OBVIOUS
    <3>3. y \in Seq(T) /\ Done \in T
      BY <3>1, <3>2
    <3>4. y \o <<Done>> \in Seq(T) /\ Len(y \o <<Done>>) = Len(y) + 1 /\ Len(y) \in Nat
          /\ \A i \in 1 .. Len(y) : (y \o <<Done>>)[i] = y[i]
      BY <3>3
    <3> QED  BY <3>3, <3>4 DEF Front
  <2> QED  BY <1>1, <2>1, <2>2, <2>4, <2>6, <2>7 DEF ClientAt, ClientOf
<1>2. CASE ingress # "openai"
  BY <1>2 DEF ClientAt, ClientOf, EmitDone
<1> QED  BY <1>1, <1>2

\* The client that has received the whole stream knows the end of the answer.
LEMMA OverFinishes ==
    ASSUME ingress \in Protocols, NEW t, NEW z, NEW stop, stop # None, NEW usage,
           usage.output > 0 => usage = Usage, NEW late, Over(t, z, stop, usage, late),
           NEW aborted, NEW u, u = FinishStream(t, aborted)
    PROVE  Knows(ClientAt(ingress, z \o u.out), stop, usage, late)
<1>1. PICK a, b, w : a = EmitFlushAll(t) /\ b = EmitAbort(a, aborted) /\ w = EmitStopAfter(b)
  OBVIOUS
<1>2. u = EmitDone(w)
  BY <1>1 DEF FinishStream
<1>3. PICK waits : waits = t.pending
  OBVIOUS
<1>4. HearsEnd(t, z, stop, usage, late, waits) /\ IsTrans(t) /\ IsList(z)
  BY <1>3 DEF Over, HearsEnd
<1>5. Mutters(a, t, {}, FALSE)
  BY <1>1, <1>4, FlushAllMutters
<1>6. HearsEnd(a, z, stop, usage, late, waits)
  BY <1>4, <1>5, MuttersHeard
<1>7. IsTrans(a) /\ a.pending = t.pending
  BY <1>5 DEF Mutters
<1>8. Mutters(b, a, {}, FALSE)
  <2>1. PICK x : x = << >>
    OBVIOUS
  <2>2. PICK ev : ev = ErrorEvent(x)
    OBVIOUS
  <2>3. IsTalk(ev)
    BY <2>2 DEF IsTalk
  <2>4. Mutters(EmitIrEvent(a, ev), a, {}, FALSE)
    BY <1>7, <2>3, TalkMutters
  <2>5. Mutters(a, a, {}, FALSE)
    BY <1>7, MuttersNothing
  <2> QED  BY <1>1, <2>1, <2>2, <2>4, <2>5 DEF EmitAbort
<1>9. HearsEnd(b, z, stop, usage, late, waits)
  BY <1>6, <1>8, MuttersHeard
<1>10. b.pending = t.pending
  BY <1>7, <1>8 DEF Mutters
<1>11. Flagged(w, b, b.stopped, FALSE, z, stop, usage, late, FALSE)
  <2>1. HearsEnd(b, z, stop, usage, late, b.pending)
    BY <1>3, <1>9, <1>10
  <2>2. b.pending \in BOOLEAN /\ (b.pending = TRUE => CrossProto)
    BY <1>10 DEF Over, CrossProto
  <2> QED  BY <1>1, <2>1, <2>2, WaitingGoes
<1>12. HearsEnd(w, z, stop, usage, late, FALSE)
  BY <1>11 DEF Flagged
<1>13. IsTrans(w) /\ Knows(ClientOf(ingress, z \o w.out), stop, usage, late)
  BY <1>12 DEF HearsEnd, EndIn
<1>14. ClientAt(ingress, z \o u.out) = ClientOf(ingress, z \o w.out)
  <2>1. IsTranslator(w) /\ IsList(w.out)
    BY <1>13 DEF IsTrans
  <2> QED  BY <1>2, <1>4, <2>1, DoneIsNotRead
<1> QED  BY <1>13, <1>14

-----------------------------------------------------------------------------
(* What the client hears of the end: an invariant, and what it implies.    *)

\* The answer is over, and the client has heard or will hear how it ended.
EndWaits(t, z, u) ==
    /\ u.stop # None /\ u.late \in BOOLEAN /\ (u.late = TRUE => u.present = TRUE)
    /\ u.usage.output > 0 => u.usage = Usage
    /\ StoppedAs(t, z, u.stop, u.usage, u.late)

\* The inductive invariant: while the answer is open the client listens; once it has
\* stopped the client knows the end or will hear it when the stream is over.
EndInv ==
    /\ RecordInv
    /\ up.phase \in {"idle", "open", "stopped", "failed", "done"}
    /\ up.phase \in {"idle", "open", "failed"} => up.stop = None
    /\ up.phase \in {"idle", "open"} => up.late = FALSE
    /\ up.phase = "idle" => tr = NewTranslate /\ sent = << >>
    /\ up.phase = "open" => Listens(tr, sent, scan.decode, up.blocks)
    /\ up.phase = "stopped" => EndWaits(tr, sent, up)
    /\ EndReachesTheClient

\* The route is the same in the next state.
LEMMA ListensNext ==
    ASSUME route' = route, NEW t, NEW z, NEW d, NEW B, Listens(t, z, d, B),
           tr' = t, sent' = z, scan'.decode = d, up'.blocks = B
    PROVE  Listens(tr, sent, scan.decode, up.blocks)'
  BY DEF Listens, UnderWay, IsTrans, InStep, ingress, egress

\* EndWaits in the next state, by its arguments there.
LEMMA EndWaitsNext ==
    ASSUME route' = route, NEW t, NEW z, NEW u, EndWaits(t, z, u), tr' = t, sent' = z, up' = u
    PROVE  EndWaits(tr, sent, up)'
<1>1. CrossProto' = CrossProto /\ ingress' = ingress /\ egress' = egress
  BY DEF CrossProto, ingress, egress
<1>2. PICK stop, usage, late : stop = u.stop /\ usage = u.usage /\ late = u.late
  OBVIOUS
<1>3. HearsEnd(t, z, stop, usage, late, t.pending)
  BY <1>2 DEF EndWaits, StoppedAs, Over
<1>4. EndIn(ClientOf(ingress, z \o t.out), t.encode, stop, usage, late, t.pending)
  BY <1>3 DEF HearsEnd
<1>5. EndIn(ClientOf(ingress, sent \o tr.out), tr.encode, up.stop, up.usage, up.late, tr.pending)'
  BY <1>1, <1>2, <1>4 DEF EndIn, Knows
<1>6. HearsEnd(tr, sent, up.stop, up.usage, up.late, tr.pending)'
  BY <1>1, <1>3, <1>5 DEF HearsEnd, IsTrans
<1>7. Over(tr, sent, up.stop, up.usage, up.late)'
  BY <1>1, <1>6 DEF EndWaits, StoppedAs, Over
<1>8. (egress' = "openai" /\ up'.late = FALSE) => OpenAiState(tr'.decode)
  BY <1>1 DEF EndWaits, StoppedAs
<1> QED  BY <1>1, <1>7, <1>8 DEF EndWaits, StoppedAs

\* The end of the upstream's answer, after one field of it is set.
EndTo(v, stop, late) == IsUpstream(v) /\ v.stop = stop /\ v.late = late

\* One field of the upstream is set.
LEMMA EndSet ==
    ASSUME NEW u, IsUpstream(u), NEW x
    PROVE  /\ EndTo([u EXCEPT !.blocks = x], u.stop, u.late)
           /\ EndTo([u EXCEPT !.stop = x], x, u.late)
           /\ EndTo([u EXCEPT !.usage = x], u.stop, u.late)
           /\ EndTo([u EXCEPT !.present = x], u.stop, u.late)
           /\ EndTo([u EXCEPT !.late = x], u.stop, x)
           /\ EndTo([u EXCEPT !.aborted = x], u.stop, u.late)
           /\ EndTo([u EXCEPT !.phase = x], u.stop, u.late)
<1>1. EndTo([u EXCEPT !.blocks = x], u.stop, u.late)
  BY DEF EndTo, IsUpstream
<1>2. EndTo([u EXCEPT !.stop = x], x, u.late)
  BY DEF EndTo, IsUpstream
<1>3. EndTo([u EXCEPT !.usage = x], u.stop, u.late)
  BY DEF EndTo, IsUpstream
<1>4. EndTo([u EXCEPT !.present = x], u.stop, u.late)
  BY DEF EndTo, IsUpstream
<1>5. EndTo([u EXCEPT !.late = x], u.stop, x)
  BY DEF EndTo, IsUpstream
<1>6. EndTo([u EXCEPT !.aborted = x], u.stop, u.late)
  BY DEF EndTo, IsUpstream
<1>7. EndTo([u EXCEPT !.phase = x], u.stop, u.late)
  BY DEF EndTo, IsUpstream
<1> QED  BY <1>1, <1>2, <1>3, <1>4, <1>5, <1>6, <1>7
\* Several fields of it are set.
LEMMA EndsSet ==
    ASSUME NEW u, IsUpstream(u), NEW usage, NEW present, NEW phase, NEW stop, NEW late, NEW aborted
    PROVE  /\ EndTo([u EXCEPT !.phase = phase, !.aborted = aborted], u.stop, u.late)
           /\ EndTo([u EXCEPT !.phase = phase, !.usage = usage, !.present = present], u.stop, u.late)
           /\ EndTo([u EXCEPT !.phase = phase, !.stop = stop, !.present = present, !.usage = usage],
                    stop, u.late)
           /\ EndTo([u EXCEPT !.present = present, !.usage = usage, !.late = late], u.stop, late)
<1>1. EndTo([u EXCEPT !.phase = phase, !.aborted = aborted], u.stop, u.late)
  <2>1. PICK w : w = [u EXCEPT !.phase = phase]
    OBVIOUS
  <2>2. EndTo(w, u.stop, u.late)
    BY <2>1, EndSet
  <2>3. EndTo([w EXCEPT !.aborted = aborted], w.stop, w.late)
    BY <2>2, EndSet DEF EndTo
  <2> QED  BY <2>1, <2>2, <2>3 DEF EndTo
<1>2. EndTo([u EXCEPT !.phase = phase, !.usage = usage, !.present = present], u.stop, u.late)
  <2>1. PICK w : w = [u EXCEPT !.phase = phase]
    OBVIOUS
  <2>2. EndTo(w, u.stop, u.late)
    BY <2>1, EndSet
  <2>3. PICK x : x = [w EXCEPT !.usage = usage]
    OBVIOUS
  <2>4. EndTo(x, w.stop, w.late)
    BY <2>2, <2>3, EndSet DEF EndTo
  <2>5. EndTo([x EXCEPT !.present = present], x.stop, x.late)
    BY <2>4, EndSet DEF EndTo
  <2> QED  BY <2>1, <2>2, <2>3, <2>4, <2>5 DEF EndTo
<1>3. EndTo([u EXCEPT !.phase = phase, !.stop = stop, !.present = present, !.usage = usage],
            stop, u.late)
  <2>1. PICK w : w = [u EXCEPT !.phase = phase]
    OBVIOUS
  <2>2. EndTo(w, u.stop, u.late)
    BY <2>1, EndSet
  <2>3. PICK x : x = [w EXCEPT !.stop = stop]
    OBVIOUS
  <2>4. EndTo(x, stop, w.late)
    BY <2>2, <2>3, EndSet DEF EndTo
  <2>5. PICK y : y = [x EXCEPT !.present = present]
    OBVIOUS
  <2>6. EndTo(y, x.stop, x.late)
    BY <2>4, <2>5, EndSet DEF EndTo
  <2>7. EndTo([y EXCEPT !.usage = usage], y.stop, y.late)
    BY <2>6, EndSet DEF EndTo
  <2> QED  BY <2>1, <2>2, <2>3, <2>4, <2>5, <2>6, <2>7 DEF EndTo
<1>4. EndTo([u EXCEPT !.present = present, !.usage = usage, !.late = late], u.stop, late)
  <2>1. PICK w : w = [u EXCEPT !.present = present]
    OBVIOUS
  <2>2. EndTo(w, u.stop, u.late)
    BY <2>1, EndSet
  <2>3. PICK x : x = [w EXCEPT !.usage = usage]
    OBVIOUS
  <2>4. EndTo(x, w.stop, w.late)
    BY <2>2, <2>3, EndSet DEF EndTo
  <2>5. EndTo([x EXCEPT !.late = late], x.stop, late)
    BY <2>4, EndSet DEF EndTo
  <2> QED  BY <2>1, <2>2, <2>3, <2>4, <2>5 DEF EndTo
<1> QED  BY <1>1, <1>2, <1>3, <1>4

\* Nothing is heard of an end that has not come.
LEMMA NoEndYet ==
    ASSUME up.phase # "done" \/ up.stop = None
    PROVE  EndReachesTheClient
  BY DEF EndReachesTheClient, Complete, Ended

\* Both ends of the route speak a protocol.
LEMMA BothProtocols ==
    ASSUME RecordInv
    PROVE  ingress \in Protocols /\ egress \in Protocols
  BY DEF RecordInv, ingress, egress

\* The answer is still open after the step.
LEMMA StillOpen ==
    ASSUME EndInv, RecordInv', route' = route, NEW t, NEW z, NEW d, NEW D, Listens(t, z, d, D),
           tr' = t, sent' = z, scan'.decode = d, up'.blocks = D,
           up'.phase = "open", up'.stop = None, up'.late = FALSE
    PROVE  EndInv'
<1>1. Listens(tr, sent, scan.decode, up.blocks)'
  BY ListensNext
<1>2. EndReachesTheClient'
  BY DEF EndReachesTheClient, Complete, Ended
<1> QED  BY <1>1, <1>2 DEF EndInv

\* The upstream says something more, and D is its answer then.
SaysMore(frames, D) ==
    /\ Receive(frames) /\ up' = [up EXCEPT !.blocks = D]
    /\ Leads(egress, frames, scan.decode, up.blocks, D)

\* The invariant is kept where the answer goes on.
LEMMA GoesOn ==
    ASSUME EndInv, RecordInv', up.phase = "open", NEW frames, NEW D, SaysMore(frames, D)
    PROVE  EndInv'
<1>1. ingress \in Protocols /\ egress \in Protocols
  BY BothProtocols DEF EndInv
<1>2. /\ route' = route /\ scan' = ScanFrames(egress, scan, frames)
      /\ tr' = [FeedFrames(tr, frames) EXCEPT !.out = << >>]
      /\ sent' = sent \o FeedFrames(tr, frames).out
  BY DEF SaysMore, Receive, Deliver
<1>3. PICK u, r : u = FeedFrames(tr, frames) /\ r = ScanFrames(egress, scan, frames)
  OBVIOUS
<1>4. PICK t, z, d, B : t = tr /\ z = sent /\ d = scan.decode /\ B = up.blocks
  OBVIOUS
<1>5. Listens(t, z, d, B)
  BY <1>4 DEF EndInv
<1>6. PICK w, y : w = [u EXCEPT !.out = << >>] /\ y = z \o u.out
  OBVIOUS
<1>7. Listens(w, y, r.decode, D)
  <2>1. IsScan(scan)
    BY DEF EndInv, RecordInv, Recorded
  <2>2. PICK s : s = scan
    OBVIOUS
  <2>3. IsScan(s) /\ Listens(t, z, s.decode, B) /\ r = ScanFrames(egress, s, frames) /\ u = FeedFrames(t, frames)
    BY <1>3, <1>4, <1>5, <2>1, <2>2
  <2>4. Leads(egress, frames, s.decode, B, D)
    BY <1>4, <2>2 DEF SaysMore
  <2>5. Listens([u EXCEPT !.out = << >>], z \o u.out, r.decode, D)
    BY <1>1, <2>3, <2>4, ListensOn
  <2> QED  BY <1>6, <2>5
<1>8. IsUpstream(up) /\ up.stop = None /\ up.late = FALSE
  BY DEF EndInv, RecordInv, Recorded
<1>9. EndTo(up', None, FALSE)
  <2>1. PICK v : v = [up EXCEPT !.blocks = D]
    OBVIOUS
  <2>2. EndTo(v, up.stop, up.late)
    BY <1>8, <2>1, EndSet
  <2> QED  BY <1>8, <2>1, <2>2 DEF SaysMore, EndTo
<1>10. up'.blocks = D /\ up'.phase = "open"
  <2>1. UpTo([up EXCEPT !.blocks = D], D, up.usage, up.present, up.phase)
    BY <1>8, UpsSet
  <2> QED  BY <2>1 DEF SaysMore, UpTo
<1>11. up'.stop = None /\ up'.late = FALSE
  BY <1>9 DEF EndTo
<1>12. tr' = w /\ sent' = y /\ scan'.decode = r.decode
  BY <1>2, <1>3, <1>4, <1>6
<1> QED  BY <1>2, <1>7, <1>10, <1>11, <1>12, StillOpen

\* While the answer is open the reader is sound.
LEMMA ReaderIsSound ==
    ASSUME EndInv, up.phase = "open"
    PROVE  SoundFor(egress, scan.decode)
  BY DEF EndInv, Listens, Saw, SoundFor

\* A block is opened.
LEMMA OpenBlockEnds ==
    ASSUME EndInv, NEW kind \in KindsOf(egress), NEW piece \in Pieces \cup {<< >>},
           OpenBlock(kind, piece)
    PROVE  EndInv'
<1>0. RecordInv /\ RecordInv'
  BY OpenBlockRecords DEF EndInv
<1>1. PICK p, B : p = egress /\ p \in Protocols /\ B = up.blocks
  BY <1>0, EgressIs
<1>2. up.phase = "open"
  BY DEF OpenBlock
<1>3. Carries(p, scan, B) /\ B \in Seq(AnswerBlock(p))
  BY <1>0, <1>1, <1>2, OpenCarriesNow
<1>4. piece \in Seq(Tokens)
  BY PieceIsText
<1>5. PICK b : b = Opened(p, B, kind, piece)
  OBVIOUS
<1>6. Opening(p, B, b) /\ b.kind = kind /\ b.text = piece
  <2>1. piece # << >> <=> p = "openai" /\ kind # "tool"
    BY <1>1 DEF OpenBlock
  <2>2. p = "openai" => kind = "tool" \/ \A j \in DOMAIN B : B[j].kind # kind
    BY <1>1 DEF OpenBlock
  <2>3. kind \in KindsOf(p)
    BY <1>1
  <2> QED
    BY <1>1, <1>3, <1>4, <1>5, <2>1, <2>2, <2>3, OpenedIs
<1>7. /\ up' = [up EXCEPT !.blocks = Append(B, b)]
      /\ Receive(OpenFrames(kind, b.at, piece))
  BY <1>1, <1>5 DEF OpenBlock, Opened, Calls
<1>8. b \in AnswerBlock(p)
  BY <1>6, SaidBlock DEF Opening
<1>9. PICK frames, D : frames = OpenFrames(b.kind, b.at, b.text) /\ D = Append(B, b)
  OBVIOUS
<1>10. Leads(p, frames, scan.decode, B, D)
  <2>1. PICK s : s = scan
    OBVIOUS
  <2>2. Carries(p, s, B) /\ SoundFor(p, s.decode)
    BY <1>1, <1>2, <1>3, <2>1, ReaderIsSound
  <2>3. Leads(p, OpenFrames(b.kind, b.at, b.text), s.decode, B, D)
    BY <1>1, <1>3, <1>6, <1>8, <1>9, <2>2, OpenLeads
  <2> QED  BY <1>9, <2>1, <2>3
<1>11. SaysMore(frames, D)
  BY <1>1, <1>6, <1>7, <1>9, <1>10 DEF SaysMore
<1> QED  BY <1>0, <1>2, <1>11, GoesOn

\* A piece is said.
LEMMA SayEnds ==
    ASSUME EndInv, NEW i \in DOMAIN up.blocks, NEW piece \in Pieces, Say(i, piece)
    PROVE  EndInv'
<1>0. RecordInv /\ RecordInv'
  BY SayRecords DEF EndInv
<1>1. PICK p, B : p = egress /\ p \in Protocols /\ B = up.blocks
  BY <1>0, EgressIs
<1>2. up.phase = "open"
  BY DEF Say
<1>3. Carries(p, scan, B) /\ Answer(p, B) /\ B \in Seq(AnswerBlock(p))
  BY <1>0, <1>1, <1>2, OpenCarriesNow
<1>5. i \in 1 .. Len(B)
  <2>1. i \in DOMAIN B
    BY <1>1
  <2> QED
    BY <1>3, <2>1
<1>6. IsSaid(p, B[i])
  BY <1>3, <1>5 DEF Answer
<1>7. PICK b : b = [B[i] EXCEPT !.text = B[i].text \o piece]
  OBVIOUS
<1>8. b.kind = B[i].kind /\ b.at = B[i].at
  <2>1. PICK a, text : a = B[i] /\ text = a.text \o piece
    OBVIOUS
  <2>2. a = [kind |-> a.kind, name |-> a.name, text |-> a.text, opaque |-> a.opaque,
             open |-> a.open, at |-> a.at]
    BY <1>6, <2>1 DEF IsSaid
  <2>3. b = [kind |-> a.kind, name |-> a.name, text |-> text, opaque |-> a.opaque,
             open |-> a.open, at |-> a.at]
    BY <1>7, <2>1, <2>2
  <2> QED  BY <2>1, <2>3
<1>9. PICK D : D = [B EXCEPT ![i] = b]
  OBVIOUS
<1>10. /\ up' = [up EXCEPT !.blocks = D]
       /\ Receive(PieceFrames(B[i], piece))
  <2>1. up' = [up EXCEPT !.blocks[i].text = up.blocks[i].text \o piece]
    BY DEF Say
  <2>2. up' = [up EXCEPT !.blocks = [up.blocks EXCEPT ![i] = [up.blocks[i] EXCEPT !.text = up.blocks[i].text \o piece]]]
    BY <2>1
  <2> QED
    BY <1>1, <1>7, <1>9, <2>2 DEF Say
<1>11. PICK frames : frames = PieceFrames(B[i], piece)
  OBVIOUS
<1>12. Leads(p, frames, scan.decode, B, D)
  <2>1. PICK s : s = scan
    OBVIOUS
  <2>2. Carries(p, s, B) /\ SoundFor(p, s.decode)
    BY <1>1, <1>2, <1>3, <2>1, ReaderIsSound
  <2>3. Becomes(D, B, i, b)
    BY <1>9 DEF Becomes
  <2>4. Leads(p, PieceFrames(B[i], piece), s.decode, B, D)
    BY <1>1, <1>3, <1>5, <1>8, <2>2, <2>3, PieceLeads
  <2> QED  BY <1>11, <2>1, <2>4
<1>13. SaysMore(frames, D)
  BY <1>1, <1>10, <1>11, <1>12 DEF SaysMore
<1> QED  BY <1>0, <1>2, <1>13, GoesOn

\* A block is closed.
LEMMA CloseBlockEnds ==
    ASSUME EndInv, NEW i \in DOMAIN up.blocks, NEW opaque \in Opaques(up.blocks[i].kind),
           NEW late \in Pieces \cup {<< >>}, CloseBlock(i, opaque, late)
    PROVE  EndInv'
<1>0. RecordInv /\ RecordInv'
  BY CloseBlockRecords DEF EndInv
<1>1. PICK p, B : p = egress /\ p \in Protocols /\ B = up.blocks
  BY <1>0, EgressIs
<1>2. up.phase = "open" /\ p # "openai"
  BY <1>1 DEF CloseBlock
<1>3. Carries(p, scan, B) /\ Answer(p, B) /\ B \in Seq(AnswerBlock(p))
  BY <1>0, <1>1, <1>2, OpenCarriesNow
<1>5. i \in 1 .. Len(B)
  <2>1. i \in DOMAIN B
    BY <1>1
  <2> QED
    BY <1>3, <2>1
<1>6. IsSaid(p, B[i])
  BY <1>3, <1>5 DEF Answer
<1>7. PICK b : b = AtEnd(B[i], opaque, late)
  OBVIOUS
<1>8. b.kind = B[i].kind /\ b.at = B[i].at
  <2>1. PICK a, text, hidden : /\ a = B[i] /\ text = a.text \o late
                               /\ hidden = IF a.kind = "thinking" THEN opaque ELSE a.opaque
    OBVIOUS
  <2>2. a = [kind |-> a.kind, name |-> a.name, text |-> a.text, opaque |-> a.opaque,
             open |-> a.open, at |-> a.at]
    BY <1>6, <2>1 DEF IsSaid
  <2>3. PICK c : c = [a EXCEPT !.open = FALSE]
    OBVIOUS
  <2>4. c = [kind |-> a.kind, name |-> a.name, text |-> a.text, opaque |-> a.opaque,
             open |-> FALSE, at |-> a.at]
    BY <2>2, <2>3
  <2>5. PICK d : d = [c EXCEPT !.text = text]
    OBVIOUS
  <2>6. d = [kind |-> a.kind, name |-> a.name, text |-> text, opaque |-> a.opaque,
             open |-> FALSE, at |-> a.at]
    BY <2>4, <2>5
  <2>7. b = [d EXCEPT !.opaque = hidden]
    BY <1>7, <2>1, <2>3, <2>5 DEF AtEnd
  <2>8. b.kind = a.kind /\ b.at = a.at
    BY <2>6, <2>7
  <2> QED  BY <2>1, <2>8
<1>9. PICK D : D = [B EXCEPT ![i] = b]
  OBVIOUS
<1>10. up' = [up EXCEPT !.blocks = D]
  <2>1. PICK text, hidden : /\ text = up.blocks[i].text \o late
                            /\ hidden = IF up.blocks[i].kind = "thinking" THEN opaque ELSE up.blocks[i].opaque
    OBVIOUS
  <2>2. up' = [up EXCEPT !.blocks[i].open = FALSE, !.blocks[i].text = text, !.blocks[i].opaque = hidden]
    BY <2>1 DEF CloseBlock
  <2> QED
    BY <1>1, <1>5, <1>7, <1>9, <2>1, <2>2 DEF AtEnd
<1>11. PICK frames : frames = CloseFrames(B[i], opaque, late)
  OBVIOUS
<1>12. Receive(frames)
  BY <1>1, <1>11 DEF CloseBlock
<1>13. Leads(p, frames, scan.decode, B, D)
  <2>1. PICK s : s = scan
    OBVIOUS
  <2>2. Carries(p, s, B) /\ SoundFor(p, s.decode)
    BY <1>1, <1>2, <1>3, <2>1, ReaderIsSound
  <2>3. Becomes(D, B, i, b)
    BY <1>9 DEF Becomes
  <2>4. Leads(p, CloseFrames(B[i], opaque, late), s.decode, B, D)
    BY <1>1, <1>2, <1>3, <1>5, <1>8, <2>2, <2>3, CloseLeads
  <2> QED  BY <1>11, <2>1, <2>4
<1>14. SaysMore(frames, D)
  BY <1>1, <1>10, <1>12, <1>13 DEF SaysMore
<1> QED  BY <1>0, <1>2, <1>14, GoesOn

\* Initially nothing is read and nothing is written.
LEMMA EndInit ==
    ASSUME Init
    PROVE  EndInv
<1>1. RecordInv
  BY RecordInit
<1>2. /\ up.phase = "idle" /\ up.stop = None /\ up.late = FALSE
      /\ tr = NewTranslate /\ sent = << >>
  BY DEF Init
<1> QED  BY <1>1, <1>2, NoEndYet DEF EndInv

\* The answer begins.
LEMMA BeginEnds ==
    ASSUME EndInv, Begin
    PROVE  EndInv'
<1>0. RecordInv /\ RecordInv'
  BY BeginRecords DEF EndInv
<1>1. PICK p : p = egress /\ p \in Protocols
  BY <1>0, EgressIs
<1>2. /\ up.phase = "idle" /\ tr = NewTranslate /\ sent = << >> /\ scan = NewScan(p)
      /\ up.stop = None /\ up.late = FALSE /\ up.blocks = << >> /\ IsUpstream(up)
  BY <1>0, <1>1 DEF Begin, EndInv, RecordInv, Recorded
<1>3. PICK f : f = FirstFrame(p)
  OBVIOUS
<1>4. Receive(<<f>>)
  <2>1. CASE p = "openai"
    BY <1>1, <1>3, <2>1 DEF Begin, FirstFrame
  <2>2. CASE p = "anthropic"
    BY <1>1, <1>3, <2>2 DEF Begin, FirstFrame
  <2>3. CASE p = "responses"
    BY <1>1, <1>3, <2>3 DEF Begin, FirstFrame
  <2> QED
    BY <1>1, <2>1, <2>2, <2>3 DEF Protocols
<1>5. PICK t, s, u, r : /\ t = tr /\ s = scan /\ u = FeedFrames(t, <<f>>)
                        /\ r = ScanFrames(egress, s, <<f>>)
  OBVIOUS
<1>6. PICK w : w = [u EXCEPT !.out = << >>]
  OBVIOUS
<1>7. Listens(w, u.out, r.decode, << >>)
  <2>1. ingress \in Protocols /\ egress \in Protocols
    BY <1>0, BothProtocols
  <2>2. t = NewTranslate /\ s = NewScan(egress) /\ f = FirstFrame(egress)
    BY <1>1, <1>2, <1>3, <1>5
  <2>3. Listens([u EXCEPT !.out = << >>], u.out, r.decode, << >>)
    BY <1>5, <2>1, <2>2, BeginListens
  <2> QED  BY <1>6, <2>3
<1>8. PICK z : z = sent \o u.out
  OBVIOUS
<1>9. Listens(w, z, r.decode, << >>)
  <2>1. z = u.out
    BY <1>2, <1>7, <1>8, ListWithNothing DEF Listens
  <2> QED  BY <1>7, <2>1
<1>10. route' = route /\ tr' = w /\ sent' = z /\ scan'.decode = r.decode
  BY <1>4, <1>5, <1>6, <1>8 DEF Receive, Deliver
<1>11. PICK usage, present :
         /\ up' = [up EXCEPT !.phase = "open", !.usage = usage, !.present = present]
  <2>1. PICK usage, present : /\ usage = (IF p = "anthropic" THEN InputOnly ELSE up.usage)
                              /\ present = (p = "anthropic")
    OBVIOUS
  <2>2. up' = [up EXCEPT !.phase = "open",
                         !.usage = IF p = "anthropic" THEN InputOnly ELSE up.usage,
                         !.present = (p = "anthropic")]
    BY <1>1 DEF Begin
  <2> QED  BY <2>1, <2>2
<1>12. up'.blocks = << >> /\ up'.phase = "open"
  <2>1. UpTo([up EXCEPT !.phase = "open", !.usage = usage, !.present = present],
             up.blocks, usage, present, "open")
    BY <1>2, UpsSet
  <2> QED  BY <1>2, <1>11, <2>1 DEF UpTo
<1>13. up'.stop = None /\ up'.late = FALSE
  <2>1. EndTo([up EXCEPT !.phase = "open", !.usage = usage, !.present = present], up.stop, up.late)
    BY <1>2, EndsSet
  <2> QED  BY <1>2, <1>11, <2>1 DEF EndTo
<1> QED  BY <1>0, <1>9, <1>10, <1>12, <1>13, StillOpen

\* The answer breaks off.
LEMMA BreaksOff ==
    ASSUME EndInv, RecordInv', up'.phase = "failed", up'.stop = None
    PROVE  EndInv'
<1>1. EndReachesTheClient'
  BY DEF EndReachesTheClient, Complete, Ended
<1> QED  BY <1>1 DEF EndInv

\* The upstream fails.
LEMMA FailEnds ==
    ASSUME EndInv, Fail
    PROVE  EndInv'
<1>1. RecordInv' /\ IsUpstream(up) /\ up.stop = None
  BY FailRecords DEF EndInv, Fail, RecordInv, Recorded
<1>2. PICK v : v = [up EXCEPT !.phase = "failed"]
  OBVIOUS
<1>3. EndTo(v, up.stop, up.late) /\ UpTo(v, up.blocks, up.usage, up.present, "failed")
  BY <1>1, <1>2, EndSet, UpSet
<1>4. up' = v
  BY <1>2 DEF Fail
<1> QED  BY <1>1, <1>3, <1>4, BreaksOff DEF EndTo, UpTo

\* The stream is cut off for its length.
LEMMA OverflowEnds ==
    ASSUME EndInv, Overflow
    PROVE  EndInv'
<1>1. RecordInv' /\ IsUpstream(up) /\ up.stop = None
  BY OverflowRecords DEF EndInv, Overflow, RecordInv, Recorded
<1>2. PICK aborted : aborted = TRUE
  OBVIOUS
<1>3. PICK v : v = [up EXCEPT !.phase = "failed", !.aborted = aborted]
  OBVIOUS
<1>4. EndTo(v, up.stop, up.late)
  BY <1>1, <1>3, EndsSet
<1>5. UpTo(v, up.blocks, up.usage, up.present, "failed")
  BY <1>1, <1>3, UpsSet
<1>6. up' = v
  BY <1>2, <1>3 DEF Overflow
<1> QED  BY <1>1, <1>4, <1>5, <1>6, BreaksOff DEF EndTo, UpTo
-----------------------------------------------------------------------------
\* The answer is over after the step.
LEMMA NowOver ==
    ASSUME EndInv, RecordInv', route' = route, NEW t, NEW z, NEW u, EndWaits(t, z, u),
           tr' = t, sent' = z, up' = u, u.phase = "stopped"
    PROVE  EndInv'
<1>1. EndWaits(tr, sent, up)'
  BY EndWaitsNext
<1>2. EndReachesTheClient'
  BY DEF EndReachesTheClient, Complete, Ended
<1> QED  BY <1>1, <1>2 DEF EndInv

\* What goes out is received.
LEMMA StoppedArrives ==
    ASSUME NEW u, NEW z, NEW stop, NEW usage, NEW late, StoppedAs(u, z, stop, usage, late),
           NEW w, w = [u EXCEPT !.out = << >>]
    PROVE  StoppedAs(w, z \o u.out, stop, usage, late)
<1>1. PICK waits : waits = u.pending
  OBVIOUS
<1>2. HearsEnd(u, z, stop, usage, late, waits)
  BY <1>1 DEF StoppedAs, Over
<1>3. HearsEnd(w, z \o u.out, stop, usage, late, waits)
  BY <1>2, HeardArrives
<1>4. IsTrans(u)
  BY <1>2 DEF HearsEnd
<1>5. w.decode = u.decode /\ w.stopped = u.stopped /\ w.pending = u.pending
  BY <1>4, OutSet
<1> QED  BY <1>1, <1>3, <1>5 DEF StoppedAs, Over

\* The upstream stops.
LEMMA StopEnds ==
    ASSUME EndInv, NEW stop \in StopReasons, NEW present \in BOOLEAN, Stop(stop, present)
    PROVE  EndInv'
<1>0. RecordInv /\ RecordInv'
  BY StopRecords DEF EndInv
<1>1. PICK p, B : p = egress /\ p \in Protocols /\ B = up.blocks
  BY <1>0, EgressIs
<1>2. /\ up.phase = "open" /\ up.stop = None /\ up.late = FALSE /\ IsUpstream(up)
      /\ Listens(tr, sent, scan.decode, up.blocks)
  BY <1>0 DEF Stop, EndInv, RecordInv, Recorded
<1>3. /\ Carries(p, scan, B) /\ B \in Seq(AnswerBlock(p))
      /\ up.usage = StartUsage(p) /\ up.present = (p = "anthropic")
  BY <1>0, <1>1, <1>2, OpenCarriesNow
<1>4. PICK usage, said : usage = LastUsage(p, present) /\ said = (up.present \/ present)
  OBVIOUS
<1>5. up' = [up EXCEPT !.phase = "stopped", !.stop = stop, !.present = said, !.usage = usage]
  <2>1. up' = [up EXCEPT !.phase = "stopped", !.stop = stop, !.present = up.present \/ present,
                         !.usage = IF present THEN Usage ELSE up.usage]
    BY DEF Stop
  <2>2. (IF present THEN Usage ELSE up.usage) = usage
    BY <1>3, <1>4 DEF LastUsage
  <2> QED  BY <1>4, <2>1, <2>2
<1>6. PICK frames : frames = StopFrames(stop, EndUsage(p, present), present)
  OBVIOUS
<1>7. Receive(frames)
  BY <1>1, <1>6 DEF Stop, EndUsage
<1>8. stop \in StopsFor(B)
  <2>1. (\E b \in Range(B) : b.kind = "tool") <=> HasCall(B)
    <3>1. Range(B) = {B[j] : j \in 1 .. Len(B)}
      BY <1>3 DEF Range
    <3> QED  BY <3>1 DEF HasCall
  <2> QED  BY <1>1, <2>1 DEF Stop, StopsFor
<1>9. PICK t, z, s, u, w : /\ t = tr /\ z = sent /\ s = scan /\ u = FeedFrames(t, frames)
                           /\ w = [u EXCEPT !.out = << >>]
  OBVIOUS
<1>10. StoppedAs(u, z, stop, usage, FALSE)
  <2>1. ingress \in Protocols /\ egress \in Protocols
    BY <1>0, BothProtocols
  <2>2. Carries(egress, s, B) /\ B \in Seq(AnswerBlock(p))
    BY <1>1, <1>3, <1>9
  <2>3. Listens(t, z, s.decode, B)
    BY <1>1, <1>2, <1>9
  <2>4. u = FeedFrames(t, StopFrames(stop, EndUsage(egress, present), present))
    BY <1>1, <1>6, <1>9
  <2>5. StoppedAs(u, z, stop, LastUsage(egress, present), FALSE)
    BY <1>8, <2>1, <2>2, <2>3, <2>4, StopsOver
  <2> QED  BY <1>1, <1>4, <2>5
<1>11. PICK y, late : y = z \o u.out /\ late = FALSE
  OBVIOUS
<1>12. StoppedAs(w, y, stop, usage, late)
  BY <1>9, <1>10, <1>11, StoppedArrives
<1>13. PICK v : v = up'
  OBVIOUS
<1>14. UpTo(v, B, usage, said, "stopped")
  <2>1. UpTo([up EXCEPT !.phase = "stopped", !.stop = stop, !.present = said, !.usage = usage],
             up.blocks, usage, said, "stopped")
    BY <1>2, UpsSet
  <2> QED  BY <1>1, <1>5, <1>13, <2>1
<1>15. EndTo(v, stop, late)
  <2>1. EndTo([up EXCEPT !.phase = "stopped", !.stop = stop, !.present = said, !.usage = usage],
              stop, up.late)
    BY <1>2, EndsSet
  <2> QED  BY <1>2, <1>5, <1>11, <1>13, <2>1
<1>16. EndWaits(w, y, v)
  <2>1. stop # None
    BY <1>8 DEF StopsFor, None
  <2>2. usage.output > 0 => usage = Usage
    <3>1. StartUsage(p).output = 0
      BY DEF StartUsage, InputOnly, NoUsage
    <3> QED  BY <1>4, <3>1 DEF LastUsage
  <2>3. v.stop = stop /\ v.late = FALSE /\ v.usage = usage
    BY <1>11, <1>14, <1>15 DEF UpTo, EndTo
  <2> QED  BY <1>11, <1>12, <2>1, <2>2, <2>3 DEF EndWaits
<1>17. route' = route /\ tr' = w /\ sent' = y
  BY <1>7, <1>9, <1>11 DEF Receive, Deliver
<1>18. v.phase = "stopped"
  BY <1>14 DEF UpTo
<1> QED  BY <1>0, <1>13, <1>16, <1>17, <1>18, NowOver

\* The usage comes after the stop.
LEMMA LateUsageEnds ==
    ASSUME EndInv, LateUsage
    PROVE  EndInv'
<1>0. RecordInv /\ RecordInv'
  BY LateUsageRecords DEF EndInv
<1>1. /\ up.phase = "stopped" /\ egress = "openai" /\ ~ up.present /\ IsUpstream(up)
      /\ EndWaits(tr, sent, up)
  BY <1>0 DEF LateUsage, EndInv, RecordInv, Recorded
<1>2. PICK f : f = [Chunk EXCEPT !.choices = FALSE, !.usage = Usage, !.present = TRUE]
  OBVIOUS
<1>3. Receive(<<f>>)
  BY <1>2 DEF LateUsage
<1>4. PICK t, z, u, w, y : /\ t = tr /\ z = sent /\ u = FeedFrames(t, <<f>>)
                           /\ w = [u EXCEPT !.out = << >>] /\ y = z \o u.out
  OBVIOUS
<1>5. PICK stop, usage : stop = up.stop /\ usage = up.usage
  OBVIOUS
<1>6. stop # None /\ StoppedAs(t, z, stop, usage, FALSE)
  <2>1. up.late = FALSE
    BY <1>1 DEF EndWaits
  <2> QED  BY <1>1, <1>4, <1>5, <2>1 DEF EndWaits
<1>7. StoppedAs(u, z, stop, Usage, TRUE)
  <2>1. ingress \in Protocols
    BY <1>0, BothProtocols
  <2> QED  BY <1>1, <1>2, <1>4, <1>6, <2>1, LateUsageOver
<1>8. PICK new, late : new = Usage /\ late = TRUE
  OBVIOUS
<1>9. StoppedAs(w, y, stop, new, late)
  BY <1>4, <1>7, <1>8, StoppedArrives
<1>10. PICK v : v = up'
  OBVIOUS
<1>11. v = [up EXCEPT !.present = TRUE, !.usage = Usage, !.late = late]
  BY <1>8, <1>10 DEF LateUsage
<1>12. UpTo(v, up.blocks, Usage, TRUE, "stopped")
  <2>1. UpTo([up EXCEPT !.present = TRUE, !.usage = Usage, !.late = late],
             up.blocks, Usage, TRUE, up.phase)
    BY <1>1, UpsSet
  <2> QED  BY <1>1, <1>11, <2>1
<1>13. EndTo(v, stop, late)
  <2>1. EndTo([up EXCEPT !.present = TRUE, !.usage = Usage, !.late = late], up.stop, late)
    BY <1>1, EndsSet
  <2> QED  BY <1>5, <1>11, <2>1
<1>14. EndWaits(w, y, v)
  BY <1>6, <1>8, <1>9, <1>12, <1>13 DEF EndWaits, UpTo, EndTo
<1>15. route' = route /\ tr' = w /\ sent' = y
  BY <1>3, <1>4 DEF Receive, Deliver
<1>16. v.phase = "stopped"
  BY <1>12 DEF UpTo
<1> QED  BY <1>0, <1>10, <1>14, <1>15, <1>16, NowOver
-----------------------------------------------------------------------------

\* The stream is over, and the client hears what was kept.
LEMMA FinishEnds ==
    ASSUME EndInv, Finish
    PROVE  EndInv'
<1>0. RecordInv /\ RecordInv'
  BY FinishRecords DEF EndInv
<1>1. IsUpstream(up) /\ up.phase \in {"idle", "open", "stopped", "failed"}
  BY <1>0 DEF EndInv, Finish, RecordInv, Recorded
<1>2. /\ UpTo(up', up.blocks, up.usage, up.present, "done")
      /\ EndTo(up', up.stop, up.late)
  BY <1>1, UpSet, EndSet DEF Finish
<1>3. CASE up.phase # "stopped"
  <2>1. up'.stop = None
    BY <1>1, <1>2, <1>3 DEF EndInv, EndTo
  <2>2. EndReachesTheClient'
    BY <2>1 DEF EndReachesTheClient, Complete
  <2> QED  BY <1>0, <1>2, <2>2 DEF EndInv, UpTo
<1>4. CASE up.phase = "stopped"
  <2>1. EndWaits(tr, sent, up)
    BY <1>4 DEF EndInv
  <2>2. PICK t, z, u, stop, usage, late, aborted :
          /\ t = tr /\ z = sent /\ u = FinishStream(t, aborted)
          /\ stop = up.stop /\ usage = up.usage /\ late = up.late /\ aborted = up.aborted
    OBVIOUS
  <2>3. route' = route /\ sent' = z \o u.out
    BY <2>2 DEF Finish, Deliver
  <2>4. Knows(ClientAt(ingress, z \o u.out), stop, usage, late)
    <3>1. /\ ingress \in Protocols /\ stop # None /\ (usage.output > 0 => usage = Usage)
          /\ Over(t, z, stop, usage, late)
      BY <1>0, <2>1, <2>2, BothProtocols DEF EndWaits, StoppedAs
    <3> QED  BY <2>2, <3>1, OverFinishes
  <2>5. PICK c : c = ClientAt(ingress, z \o u.out)
    OBVIOUS
  <2>6. Heard(ingress, z \o u.out) = Snapshot(c)
    BY <2>5 DEF Heard, ClientAt
  <2>7. Snapshot(c).usage = c.usage /\ Snapshot(c).stop = c.stop
    BY DEF Snapshot
  <2>8. ingress' = ingress /\ up'.usage = usage /\ up'.stop = stop /\ up'.late = late
    BY <1>2, <2>2, <2>3 DEF ingress, UpTo, EndTo
  <2>9. EndReachesTheClient'
    BY <2>3, <2>4, <2>5, <2>6, <2>7, <2>8 DEF EndReachesTheClient, Knows
  <2> QED  BY <1>0, <1>2, <2>9 DEF EndInv, UpTo
<1> QED  BY <1>3, <1>4

\* The invariant is inductive.
LEMMA EndInductive ==
    ASSUME EndInv, [Next]_vars
    PROVE  EndInv'
<1>1. CASE Begin
  BY <1>1, BeginEnds
<1>2. CASE \E kind \in KindsOf(egress), piece \in Pieces \cup {<< >>} : OpenBlock(kind, piece)
  BY <1>2, OpenBlockEnds
<1>3. CASE \E i \in DOMAIN up.blocks, piece \in Pieces : Say(i, piece)
  BY <1>3, SayEnds
<1>4. CASE \E i \in DOMAIN up.blocks : \E opaque \in Opaques(up.blocks[i].kind),
              late \in Pieces \cup {<< >>} : CloseBlock(i, opaque, late)
  BY <1>4, CloseBlockEnds
<1>5. CASE \E stop \in StopReasons, present \in BOOLEAN : Stop(stop, present)
  BY <1>5, StopEnds
<1>6. CASE LateUsage
  BY <1>6, LateUsageEnds
<1>7. CASE Fail
  BY <1>7, FailEnds
<1>8. CASE Overflow
  BY <1>8, OverflowEnds
<1>9. CASE Finish
  BY <1>9, FinishEnds
<1>10. CASE UNCHANGED vars
  <2>1. RecordInv'
    BY <1>10, RecordInductive DEF EndInv
  <2>2. route' = route /\ up' = up /\ tr' = tr /\ scan' = scan /\ sent' = sent
    BY <1>10 DEF vars
  <2>3. up.phase = "open" => Listens(tr, sent, scan.decode, up.blocks)'
    BY <2>2, ListensNext DEF EndInv
  <2>4. up.phase = "stopped" => EndWaits(tr, sent, up)'
    BY <2>2, EndWaitsNext DEF EndInv
  <2>5. EndReachesTheClient'
    BY <2>2 DEF EndInv, EndReachesTheClient, Complete, Ended, ingress
  <2>6. NewTranslate' = NewTranslate
    BY <2>2 DEF NewTranslate, ingress, egress
  <2> QED  BY <2>1, <2>2, <2>3, <2>4, <2>5, <2>6 DEF EndInv
<1> QED
  BY <1>1, <1>2, <1>3, <1>4, <1>5, <1>6, <1>7, <1>8, <1>9, <1>10 DEF Next

\* EndReachesTheClient: whatever protocols the upstream and the client speak,
\* whether mocks are restored or not, however many blocks the answer has and
\* wherever its usage comes, a client whose stream ends after the upstream's
\* stop has heard the output usage and, but for an Anthropic client whose usage
\* came late, the reason of the stop.
THEOREM EndsReachTheClient == Spec => []EndReachesTheClient
<1>1. Init => EndInv
  BY EndInit
<1>2. EndInv /\ [Next]_vars => EndInv'
  BY EndInductive
<1>3. EndInv => EndReachesTheClient
  BY DEF EndInv
<1> QED
  BY <1>1, <1>2, <1>3, PTL DEF Spec

=============================================================================
