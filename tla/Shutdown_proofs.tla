-------------------------- MODULE Shutdown_proofs --------------------------
(***************************************************************************)
(* Proofs about Shutdown for every set of clients, requests and watchers   *)
(* and every limit: when the barrier is passed, the rows that are due are  *)
(* written.                                                                *)
(*                                                                         *)
(* The invariant follows a row that is due: it is in the channel ahead of  *)
(* the flush, in the batch, or written.  It is inductive because nothing   *)
(* becomes due once the flush is in the channel: the drain left no         *)
(* connection open, so no handler is alive, and what the stream tasks      *)
(* still record is due to nobody who has an answer.                        *)
(***************************************************************************)
EXTENDS Shutdown, SequenceTheorems, TLAPS

\* The rows that must not be lost: what was redacted, and the answers that a
\* client has, or may still get, in full.
Due == {Redact(c) : c \in {x \in Clients : Pushed(x) /\ request[x].hits}}
       \cup {Usage(c) : c \in {x \in Clients : /\ conn[x] \in {"open", "served"}
                                               /\ task[x] = "over" /\ request[x].post}}

\* Row stands in the channel with no flush ahead of it.
Ahead(row) == \E i \in DOMAIN channel : channel[i] = row /\ \A j \in 1..i : channel[j] # Flush

Safe(row) == row \in written \/ row \in Range(writer) \/ Ahead(row)

NoFlush(s) == Flush \notin Range(s)

\* Handlers live in connections, and who is served is through with its task.
ConnectionInv ==
    \A c \in Clients : /\ task[c] \in InHandler => conn[c] = "open" /\ pipe[c] = << >>
                       /\ conn[c] = "none" => pipe[c] = << >>
                       /\ conn[c] = "served" => task[c] \in {"over", "failed"}

BarrierInv ==
    /\ phase \in {"serving", "draining"} =>
         NoFlush(channel) /\ NoFlush(writer) /\ ~ acked /\ barrier = "none"
    /\ phase \in {"flushing", "exited"} => Connected = {}
    /\ Flush \in Range(writer) => Due \subseteq written \cup Range(writer)
    /\ acked => Due \subseteq written
    /\ barrier = "passed" => acked

IInv == TypeOK /\ ConnectionInv /\ BarrierInv /\ \A row \in Due : Safe(row)
-----------------------------------------------------------------------------
\* The rows are commands, and none of them is a flush.
LEMMA RowsAreNoFlush ==
    /\ Flush \in Commands
    /\ \A c \in Clients : /\ Usage(c) \in Commands /\ Usage(c) # Flush
                          /\ Redact(c) \in Commands /\ Redact(c) # Flush
  BY DEF Commands, Usage, Redact, Flush

LEMMA DueAreRows ==
    /\ Due \subseteq Commands \ {Flush}
    /\ (Due \subseteq Commands \ {Flush})'
  BY RowsAreNoFlush DEF Due

\* What a sequence holds after an element more, and after one less.
LEMMA AppendAdds ==
    ASSUME NEW S, NEW s \in Seq(S), NEW e \in S
    PROVE  /\ Append(s, e) \in Seq(S)
           /\ DOMAIN Append(s, e) = 1..(Len(s) + 1) /\ DOMAIN s = 1..Len(s)
           /\ \A i \in 1..Len(s) : Append(s, e)[i] = s[i]
           /\ Append(s, e)[Len(s) + 1] = e
           /\ Range(Append(s, e)) = Range(s) \cup {e}
  <1>1. /\ Append(s, e) \in Seq(S) /\ Len(Append(s, e)) = Len(s) + 1
        /\ DOMAIN Append(s, e) = 1..(Len(s) + 1) /\ DOMAIN s = 1..Len(s)
        /\ \A i \in 1..Len(s) : Append(s, e)[i] = s[i]
        /\ Append(s, e)[Len(s) + 1] = e
    OBVIOUS
  <1>2. Range(Append(s, e)) = Range(s) \cup {e}
    BY <1>1 DEF Range
  <1> QED BY <1>1, <1>2

LEMMA TailDrops ==
    ASSUME NEW S, NEW s \in Seq(S), s # << >>
    PROVE  /\ Head(s) \in S /\ Head(s) = s[1] /\ 1 \in DOMAIN s /\ Tail(s) \in Seq(S)
           /\ DOMAIN s = 1..Len(s) /\ DOMAIN Tail(s) = 1..(Len(s) - 1) /\ Len(s) \in Nat \ {0}
           /\ \A i \in 1..(Len(s) - 1) : Tail(s)[i] = s[i + 1]
           /\ Range(Tail(s)) \subseteq Range(s)
  <1>1. /\ Head(s) \in S /\ Head(s) = s[1] /\ 1 \in DOMAIN s /\ Tail(s) \in Seq(S)
        /\ DOMAIN s = 1..Len(s) /\ DOMAIN Tail(s) = 1..(Len(s) - 1) /\ Len(s) \in Nat \ {0}
        /\ \A i \in 1..(Len(s) - 1) : Tail(s)[i] = s[i + 1]
    OBVIOUS
  <1>2. Range(Tail(s)) \subseteq Range(s)
    BY <1>1 DEF Range
  <1> QED BY <1>1, <1>2

\* A row that is safe stays so when a command is sent, and a row that is sent
\* while there is no flush is safe.
LEMMA SendingIsSafe ==
    ASSUME TypeOK, NEW command \in Commands, channel' = Append(channel, command),
           UNCHANGED <<writer, written>>
    PROVE  /\ \A row \in Commands : Safe(row) => Safe(row)'
           /\ NoFlush(channel) /\ command # Flush => Safe(command)'
  <1>1. channel \in Seq(Commands)
    BY DEF TypeOK
  <1> HIDE DEF Commands
  <1>2. ASSUME NEW row, Ahead(row) PROVE Ahead(row)'
    BY <1>1, <1>2, AppendAdds DEF Ahead
  <1>3. ASSUME NoFlush(channel), command # Flush PROVE Ahead(command)'
    <2>1. \A j \in 1..(Len(channel) + 1) : channel'[j] # Flush
      BY <1>1, <1>3, AppendAdds DEF NoFlush, Range
    <2>2. Len(channel) + 1 \in DOMAIN channel' /\ channel'[Len(channel) + 1] = command
      BY <1>1, AppendAdds
    <2> QED BY <2>1, <2>2 DEF Ahead
  <1> QED BY <1>2, <1>3 DEF Safe

\* A row that is safe stays so when the writer takes a command; and when that
\* is the flush, nothing safe is left behind in the channel.
LEMMA ReceivingIsSafe ==
    ASSUME TypeOK, channel # << >>, Receive, UNCHANGED written
    PROVE  \A row \in Commands \ {Flush} : Safe(row) =>
             /\ Safe(row)'
             /\ Head(channel) = Flush => row \in written \/ row \in Range(writer)
  <1>1. channel \in Seq(Commands) /\ writer \in Seq(Commands)
    BY DEF TypeOK
  <1> HIDE DEF Commands
  <1>2. /\ Head(channel) \in Commands /\ Range(writer') = Range(writer) \cup {Head(channel)}
    BY <1>1, TailDrops, AppendAdds DEF Receive
  <1>3. ASSUME NEW row \in Commands \ {Flush}, Ahead(row), row # Head(channel)
        PROVE  Ahead(row)'
    <2>1. PICK i \in DOMAIN channel : channel[i] = row /\ \A j \in 1..i : channel[j] # Flush
      BY <1>3 DEF Ahead
    <2>2. i \in 2..Len(channel)
      BY <1>1, <1>3, <2>1, TailDrops
    <2>3. i - 1 \in DOMAIN channel' /\ channel'[i - 1] = row
      BY <1>1, <2>1, <2>2, TailDrops DEF Receive
    <2>4. \A j \in 1..(i - 1) : channel'[j] # Flush
      BY <1>1, <2>1, <2>2, TailDrops DEF Receive
    <2> QED BY <2>3, <2>4 DEF Ahead
  <1>4. ASSUME NEW row, Ahead(row) PROVE Head(channel) # Flush
    <2>1. PICK i \in DOMAIN channel : channel[i] = row /\ \A j \in 1..i : channel[j] # Flush
      BY <1>4 DEF Ahead
    <2>2. 1 \in 1..i
      BY <1>1, <2>1, TailDrops
    <2> QED BY <1>1, <2>1, <2>2, TailDrops
  <1> QED BY <1>2, <1>3, <1>4 DEF Safe

LEMMA WritingIsSafe ==
    ASSUME Write
    PROVE  \A row \in Commands \ {Flush} : Safe(row) => Safe(row)'
  BY DEF Write, Safe, Ahead
-----------------------------------------------------------------------------
\* The steps of the proxy that leave the statistics alone, and those that may
\* record a row.
Quiet(c) == \/ Connect(c) \/ Reads(c) \/ Disconnect(c) \/ Headers(c) \/ SendFails(c)
            \/ NextChunk(c) \/ SendItem(c) \/ SendTail(c)
Records(c) == PushEvent(c) \/ BodyEnds(c) \/ Finish(c)

\* What a channel holds is items, whatever becomes of it.
LEMMA PipeItems ==
    ASSUME TypeOK, NEW c \in Clients
    PROVE  /\ << >> \in Seq(Items)
           /\ Append(pipe[c], "data") \in Seq(Items) /\ Append(pipe[c], "error") \in Seq(Items)
           /\ pipe[c] # << >> => Tail(pipe[c]) \in Seq(Items)
  <1>1. pipe[c] \in Seq(Items) /\ "data" \in Items /\ "error" \in Items
    BY DEF TypeOK, Items
  <1> QED
    BY <1>1, AppendAdds, TailDrops

LEMMA TypeStep ==
    ASSUME TypeOK, [Next]_vars
    PROVE  TypeOK'
  <1> USE DEF TypeOK, InHandler, InTask
  <1>1. ASSUME NEW c \in Clients, Quiet(c) PROVE TypeOK'
    <2>1. CASE Connect(c)
      BY <2>1 DEF Connect, Moves, server, usage
    <2>2. CASE Reads(c)
      <3>1. CASE Read(c) /\ Head(pipe[c]) = "error"
        BY <3>1, PipeItems DEF Read, Leaves, server, usage
      <3>2. CASE Read(c) /\ Head(pipe[c]) # "error"
        BY <3>2, PipeItems DEF Read, server, usage
      <3>3. CASE Served(c)
        BY <3>3, PipeItems DEF Served, Leaves, server, usage
      <3> QED
        BY <2>2, <3>1, <3>2, <3>3 DEF Reads
    <2>3. CASE Disconnect(c)
      BY <2>3, PipeItems DEF Disconnect, Leaves, Moves, server, usage
    <2>4. CASE Headers(c) \/ SendFails(c)
      BY <2>4, PipeItems DEF Headers, SendFails, Moves, Puts, server, usage
    <2>5. CASE NextChunk(c)
      <3>1. task' \in [Clients -> {"idle", "failed", "over", "cancelled"} \cup InHandler \cup InTask]
        BY <2>5 DEF NextChunk, Moves
      <3>2. said' \in [Clients -> Nat]
        BY <2>5 DEF NextChunk
      <3> QED
        BY <2>5, <3>1, <3>2 DEF NextChunk, server, usage
    <2>6. CASE SendItem(c) \/ SendTail(c)
      <3>1. CASE SendItem(c) /\ Listening(c) /\ task[c] = "send"
        BY <3>1, PipeItems DEF SendItem, Moves, Puts, server, usage
      <3>2. CASE SendItem(c) /\ Listening(c) /\ task[c] = "error"
        BY <3>2, PipeItems DEF SendItem, Moves, Puts, server, usage
      <3>3. CASE SendItem(c) /\ ~ Listening(c)
        BY <3>3 DEF SendItem, Moves, server, usage
      <3>4. CASE SendTail(c)
        BY <3>4, PipeItems DEF SendTail, Moves, Puts, server, usage
      <3> QED
        BY <2>6, <3>1, <3>2, <3>3, <3>4 DEF SendItem
    <2> QED
      BY <1>1, <2>1, <2>2, <2>3, <2>4, <2>5, <2>6 DEF Quiet
  <1>2. ASSUME NEW c \in Clients, Records(c) PROVE TypeOK'
    <2>1. CASE PushEvent(c)
      <3>1. channel' \in Seq(Commands)
        BY <2>1, RowsAreNoFlush, AppendAdds DEF PushEvent, Dispatch
      <3> QED
        BY <2>1, <3>1 DEF PushEvent, Moves, server
    <2>2. CASE BodyEnds(c)
      <3>1. channel' \in Seq(Commands)
        BY <2>2, RowsAreNoFlush, AppendAdds DEF BodyEnds, RecordResponse, Dispatch
      <3> QED
        BY <2>2, <3>1, PipeItems DEF BodyEnds, Moves, Puts, server
    <2>3. CASE Finish(c)
      <3>1. channel' \in Seq(Commands)
        BY <2>3, RowsAreNoFlush, AppendAdds DEF Finish, RecordResponse, Dispatch
      <3> QED
        BY <2>3, <3>1 DEF Finish, Moves, server
    <2> QED
      BY <1>2, <2>1, <2>2, <2>3 DEF Records
  <1>3. CASE Recv
    <2>1. channel' \in Seq(Commands) /\ writer' \in Seq(Commands)
      BY <1>3, TailDrops, AppendAdds DEF Recv, Receive
    <2> QED
      BY <1>3, <2>1 DEF Recv, server, proxy
  <1>4. CASE Write
    BY <1>4 DEF Write, Range, server, proxy
  <1>5. ASSUME NEW w \in Watchers, Watch(w) \/ CloseWatch(w) \/ LeaveWatch(w) PROVE TypeOK'
    BY <1>5 DEF Watch, CloseWatch, LeaveWatch, proxy, usage
  <1>6. CASE Signal \/ Stop
    <2>1. DrainDone => channel' \in Seq(Commands)
      BY RowsAreNoFlush, AppendAdds DEF DrainDone
    <2> QED
      BY <1>6, <2>1 DEF Signal, Stop, DrainDone, BarrierPassed, BarrierFailed, proxy, usage
  <1>7. CASE UNCHANGED vars
    BY <1>7 DEF vars, server, proxy, usage
  <1> QED
    BY <1>1, <1>2, <1>3, <1>4, <1>5, <1>6, <1>7
    DEF Next, Handler, StreamTask, WriterLoop, Quiet, Records

LEMMA ConnectionStep ==
    ASSUME TypeOK, ConnectionInv, [Next]_vars
    PROVE  ConnectionInv'
  <1> USE DEF TypeOK, ConnectionInv, InHandler, InTask
  <1>1. ASSUME NEW c \in Clients, Quiet(c) PROVE ConnectionInv'
    <2>1. CASE Connect(c)
      BY <2>1 DEF Connect, Moves
    <2>2. CASE Reads(c)
      <3>1. CASE Read(c)
        <4>1. conn' = conn \/ conn' = [conn EXCEPT ![c] = "broken"]
          BY <3>1 DEF Read, Leaves
        <4>2. task[c] \notin InHandler /\ conn[c] = "open"
          BY <3>1 DEF Read
        <4>3. pipe' = [pipe EXCEPT ![c] = pipe'[c]] /\ task' = task
          BY <3>1 DEF Read, Leaves
        <4> QED
          BY <4>1, <4>2, <4>3
      <3>2. CASE Served(c)
        BY <3>2 DEF Served, Leaves
      <3> QED
        BY <2>2, <3>1, <3>2 DEF Reads
    <2>3. CASE Disconnect(c)
      BY <2>3 DEF Disconnect, Leaves, Moves
    <2>4. CASE Headers(c) \/ SendFails(c)
      BY <2>4 DEF Headers, SendFails, Moves, Puts
    <2>5. CASE NextChunk(c)
      BY <2>5 DEF NextChunk, Moves
    <2>6. CASE SendItem(c) \/ SendTail(c)
      BY <2>6 DEF SendItem, SendTail, Moves, Puts, Listening
    <2> QED
      BY <1>1, <2>1, <2>2, <2>3, <2>4, <2>5, <2>6 DEF Quiet
  <1>2. ASSUME NEW c \in Clients, Records(c) PROVE ConnectionInv'
    BY <1>2 DEF Records, PushEvent, BodyEnds, Finish, Moves, Puts
  <1>3. CASE WriterLoop
    BY <1>3 DEF WriterLoop, Recv, Write, proxy
  <1>4. ASSUME NEW w \in Watchers, Watch(w) \/ CloseWatch(w) \/ LeaveWatch(w)
        PROVE  ConnectionInv'
    BY <1>4 DEF Watch, CloseWatch, LeaveWatch, proxy
  <1>5. CASE Signal \/ Stop
    BY <1>5 DEF Signal, Stop, DrainDone, BarrierPassed, BarrierFailed, proxy
  <1>6. CASE UNCHANGED vars
    BY <1>6 DEF vars, proxy
  <1> QED
    BY <1>1, <1>2, <1>3, <1>4, <1>5, <1>6 DEF Next, Handler, StreamTask, Quiet, Records
-----------------------------------------------------------------------------
\* What is due after a step: no more than before, unless a row is recorded, and
\* nothing more once the drain is over.
LEMMA QuietDue ==
    ASSUME TypeOK, ConnectionInv, NEW c \in Clients, Quiet(c)
    PROVE  Due' \subseteq Due /\ UNCHANGED <<phase, barrier, usage>>
  <1> USE DEF TypeOK, Due, Pushed, InHandler, InTask
  <1>1. CASE Connect(c)
    BY <1>1 DEF Connect, Moves, server
  <1>2. CASE Read(c)
    BY <1>2 DEF Read, Leaves, server
  <1>3. CASE Served(c)
    BY <1>3 DEF Served, Leaves, server
  <1>4. CASE Disconnect(c)
    BY <1>4 DEF Disconnect, Leaves, Moves, server
  <1>5. CASE Headers(c) \/ SendFails(c)
    BY <1>5 DEF Headers, SendFails, Moves, server
  <1>6. CASE NextChunk(c)
    BY <1>6 DEF NextChunk, Moves, server
  <1>7. CASE SendItem(c) \/ SendTail(c)
    BY <1>7 DEF SendItem, SendTail, Moves, server
  <1> QED
    BY <1>1, <1>2, <1>3, <1>4, <1>5, <1>6, <1>7 DEF Quiet, Reads

\* Only a connection that is accepted makes one more.
LEMMA QuietConnections ==
    ASSUME TypeOK, NEW c \in Clients, Quiet(c)
    PROVE  phase = "serving" \/ Connected' \subseteq Connected
  <1> USE DEF TypeOK, Connected
  <1>1. CASE Connect(c)
    BY <1>1 DEF Connect
  <1>2. CASE Reads(c)
    BY <1>2 DEF Reads, Read, Served, Leaves
  <1>3. CASE Disconnect(c)
    BY <1>3 DEF Disconnect, Leaves
  <1>4. CASE Headers(c) \/ SendFails(c) \/ NextChunk(c) \/ SendItem(c) \/ SendTail(c)
    BY <1>4 DEF Headers, SendFails, NextChunk, SendItem, SendTail
  <1> QED
    BY <1>1, <1>2, <1>3, <1>4 DEF Quiet

LEMMA RecordsDue ==
    ASSUME TypeOK, ConnectionInv, NEW c \in Clients, Records(c)
    PROVE  /\ \/ UNCHANGED channel /\ Due' \subseteq Due
              \/ \E row \in Commands \ {Flush} :
                   channel' = Append(channel, row) /\ Due' \subseteq Due \cup {row}
           /\ Connected = {} => Due' \subseteq Due
           /\ UNCHANGED <<phase, barrier, conn, writer, written, acked>>
  <1> USE DEF TypeOK, Due, Pushed, InHandler, InTask, ConnectionInv, Connected
  <1>1. CASE PushEvent(c)
    <2>1. task' = [task EXCEPT ![c] = "sent"] /\ UNCHANGED <<request, conn>> /\ conn[c] = "open"
      BY <1>1 DEF PushEvent, Moves
    <2>2. Due' \subseteq IF request[c].hits THEN Due \cup {Redact(c)} ELSE Due
      BY <2>1
    <2> QED
      BY <1>1, <2>1, <2>2, RowsAreNoFlush DEF PushEvent, Dispatch, server
  <1>2. CASE BodyEnds(c) \/ Finish(c)
    <2>1. /\ task' = [task EXCEPT ![c] = "over"] /\ UNCHANGED <<request, conn>>
          /\ task[c] \in {"buffering", "record"} /\ conn[c] # "served"
      BY <1>2 DEF BodyEnds, Finish, Moves
    <2>2. Due' \subseteq IF request[c].post THEN Due \cup {Usage(c)} ELSE Due
      BY <2>1
    <2>3. Connected = {} => Due' \subseteq Due
      BY <2>1
    <2> QED
      BY <1>2, <2>1, <2>2, <2>3, RowsAreNoFlush
      DEF BodyEnds, Finish, RecordResponse, Dispatch, server
  <1> QED
    BY <1>1, <1>2 DEF Records
-----------------------------------------------------------------------------
SafeInv == \A row \in Due : Safe(row)

LEMMA QuietStep ==
    ASSUME IInv, NEW c \in Clients, Quiet(c)
    PROVE  BarrierInv' /\ SafeInv'
  <1>1. Due' \subseteq Due /\ UNCHANGED <<phase, barrier, channel, writer, written, acked>>
    BY QuietDue DEF IInv, usage
  <1>2. phase = "serving" \/ Connected' \subseteq Connected
    BY QuietConnections DEF IInv
  <1>3. BarrierInv'
    BY <1>1, <1>2 DEF IInv, BarrierInv, NoFlush
  <1>4. SafeInv'
    BY <1>1 DEF IInv, SafeInv, Safe, Ahead
  <1> QED
    BY <1>3, <1>4

LEMMA RecordStep ==
    ASSUME IInv, NEW c \in Clients, Records(c)
    PROVE  BarrierInv' /\ SafeInv'
  <1>1. UNCHANGED <<phase, barrier, conn, writer, written, acked>>
    BY RecordsDue DEF IInv
  <1>2. Connected' = Connected
    BY <1>1 DEF Connected
  <1>3. CASE UNCHANGED channel /\ Due' \subseteq Due
    BY <1>1, <1>2, <1>3 DEF IInv, BarrierInv, NoFlush, SafeInv, Safe, Ahead
  <1>4. ASSUME NEW row \in Commands \ {Flush}, channel' = Append(channel, row),
               Due' \subseteq Due \cup {row}
        PROVE  BarrierInv' /\ SafeInv'
    <2>1. channel \in Seq(Commands)
      BY DEF IInv, TypeOK
    <2>2. Range(channel') = Range(channel) \cup {row}
      BY <1>4, <2>1, AppendAdds
    <2>3. BarrierInv'
      <3>1. CASE phase \in {"serving", "draining"}
        BY <1>1, <1>4, <2>2, <3>1 DEF IInv, BarrierInv, NoFlush
      <3>2. CASE phase \in {"flushing", "exited"}
        <4>1. Due' \subseteq Due
          BY <3>2, RecordsDue DEF IInv, BarrierInv
        <4> QED
          BY <1>1, <1>2, <3>2, <4>1 DEF IInv, BarrierInv, NoFlush
      <3> QED
        BY <3>1, <3>2 DEF IInv, TypeOK
    <2>4. \A r \in Commands : Safe(r) => Safe(r)'
      BY <1>1, <1>4, SendingIsSafe DEF IInv
    <2>5. CASE phase \in {"serving", "draining"}
      <3>1. Safe(row)'
        BY <1>1, <1>4, <2>5, SendingIsSafe DEF IInv, BarrierInv
      <3> QED
        BY <1>4, <2>3, <2>4, <3>1, DueAreRows DEF IInv, SafeInv
    <2>6. CASE phase \in {"flushing", "exited"}
      <3>1. Due' \subseteq Due
        BY <2>6, RecordsDue DEF IInv, BarrierInv
      <3> QED
        BY <2>3, <2>4, <3>1, DueAreRows DEF IInv, SafeInv
    <2> QED
      BY <2>5, <2>6 DEF IInv, TypeOK
  <1> QED
    BY <1>3, <1>4, RecordsDue DEF IInv

\* Nothing that the writer or the server does changes what is due.
LEMMA DueUnchanged ==
    ASSUME UNCHANGED proxy
    PROVE  Due' = Due /\ Connected' = Connected
  BY DEF proxy, Due, Pushed, Connected

LEMMA ReceiveStep ==
    ASSUME IInv, Recv
    PROVE  BarrierInv' /\ SafeInv'
  <1>1. /\ channel # << >> /\ Receive
        /\ UNCHANGED <<phase, barrier, written, acked>>
        /\ Due' = Due /\ Connected' = Connected
    BY DueUnchanged DEF Recv, server
  <1>2. /\ channel \in Seq(Commands) /\ writer \in Seq(Commands)
        /\ Head(channel) \in Range(channel) /\ Range(channel') \subseteq Range(channel)
        /\ Range(writer') = Range(writer) \cup {Head(channel)}
    <2>1. channel \in Seq(Commands) /\ writer \in Seq(Commands)
      BY DEF IInv, TypeOK
    <2>2. Head(channel) \in Range(channel) /\ Range(channel') \subseteq Range(channel)
      BY <1>1, <2>1, TailDrops DEF Receive, Range
    <2> QED
      BY <1>1, <2>1, <2>2, TailDrops, AppendAdds DEF Receive
  <1>3. \A row \in Due : /\ Safe(row)'
                         /\ Head(channel) = Flush => row \in written \/ row \in Range(writer)
    BY <1>1, DueAreRows, ReceivingIsSafe DEF IInv
  <1>4. Flush \in Range(writer') => Due' \subseteq written' \cup Range(writer')
    BY <1>1, <1>2, <1>3 DEF IInv, BarrierInv
  <1>5. BarrierInv'
    BY <1>1, <1>2, <1>4 DEF IInv, BarrierInv, NoFlush
  <1> QED
    BY <1>1, <1>3, <1>5 DEF SafeInv

LEMMA WriteStep ==
    ASSUME IInv, Write
    PROVE  BarrierInv' /\ SafeInv'
  <1>1. /\ UNCHANGED <<phase, barrier, channel>> /\ Due' = Due /\ Connected' = Connected
        /\ written' = written \cup (Range(writer) \ {Flush})
        /\ acked' = (acked \/ Flush \in Range(writer))
        /\ Range(writer') = {}
    BY DueUnchanged DEF Write, server, Range
  <1>2. acked' => Due' \subseteq written'
    BY <1>1, DueAreRows DEF IInv, BarrierInv
  <1>3. BarrierInv'
    BY <1>1, <1>2 DEF IInv, BarrierInv, NoFlush
  <1> QED
    BY <1>1, <1>3, DueAreRows, WritingIsSafe DEF IInv, SafeInv

LEMMA ServerStep ==
    ASSUME IInv, Signal \/ Stop \/ (\E w \in Watchers : Watch(w) \/ CloseWatch(w) \/ LeaveWatch(w))
    PROVE  BarrierInv' /\ SafeInv'
  <1> USE DEF IInv, BarrierInv, NoFlush
  <1>1. Due' = Due /\ Connected' = Connected
    BY DueUnchanged DEF Signal, Stop, DrainDone, BarrierPassed, BarrierFailed, Watch, CloseWatch,
                        LeaveWatch, proxy
  <1>2. CASE DrainDone
    <2>1. UNCHANGED <<barrier, writer, written, acked>> /\ phase' = "flushing" /\ Connected = {}
      BY <1>2 DEF DrainDone
    <2>2. BarrierInv'
      BY <1>1, <1>2, <2>1 DEF DrainDone
    <2>3. \A row \in Commands : Safe(row) => Safe(row)'
      BY <1>2, RowsAreNoFlush, SendingIsSafe DEF DrainDone
    <2> QED
      BY <1>1, <2>2, <2>3, DueAreRows DEF SafeInv
  <1>3. CASE Signal \/ BarrierPassed \/ BarrierFailed
    BY <1>1, <1>3 DEF Signal, BarrierPassed, BarrierFailed, usage, SafeInv, Safe, Ahead
  <1>4. CASE \E w \in Watchers : Watch(w) \/ CloseWatch(w) \/ LeaveWatch(w)
    BY <1>1, <1>4 DEF Watch, CloseWatch, LeaveWatch, usage, SafeInv, Safe, Ahead
  <1> QED
    BY <1>2, <1>3, <1>4 DEF Stop

\* The invariant holds at the start and is kept.
THEOREM RowsAreSafe == Spec => []IInv
  <1>1. Init => IInv
    <2> SUFFICES ASSUME Init PROVE IInv
      OBVIOUS
    <2>1. TypeOK
      <3>1. << >> \in Seq(Items) /\ << >> \in Seq(Commands)
        OBVIOUS
      <3>2. pipe \in [Clients -> Seq(Items)]
        BY <3>1 DEF Init
      <3> QED
        BY <3>1, <3>2 DEF Init, TypeOK
    <2>2. ConnectionInv
      BY DEF Init, ConnectionInv, InHandler
    <2>3. Due = {}
      BY DEF Init, Due, Pushed, InTask
    <2>4. BarrierInv
      BY DEF Init, BarrierInv, NoFlush, Range
    <2> QED
      BY <2>1, <2>2, <2>3, <2>4 DEF IInv
  <1>2. ASSUME IInv, [Next]_vars PROVE IInv'
    <2>1. TypeOK' /\ ConnectionInv'
      BY <1>2, TypeStep, ConnectionStep DEF IInv
    <2>2. BarrierInv' /\ SafeInv'
      <3>1. CASE UNCHANGED vars
        BY <1>2, <3>1, DueUnchanged
        DEF vars, server, usage, IInv, BarrierInv, NoFlush, SafeInv, Safe, Ahead
      <3> QED
        BY <1>2, <3>1, QuietStep, RecordStep, ReceiveStep, WriteStep, ServerStep
        DEF Next, Handler, StreamTask, WriterLoop, Quiet, Records
    <2> QED
      BY <2>1, <2>2 DEF IInv, SafeInv
  <1> QED
    BY <1>1, <1>2, PTL DEF Spec

\* When the server has passed its barrier, the audit holds every row of what was
\* redacted and the statistics every answer a client has in full.
THEOREM TailIsNotLost == Spec => []TailIsStored
  <1>1. IInv => TailIsStored
    BY DEF IInv, BarrierInv, TailIsStored, Due
  <1> QED
    BY <1>1, RowsAreSafe, PTL

\* Every variable of a stopping server stays in its type.
THEOREM TypesAreKept == Spec => []TypeOK
  BY RowsAreSafe, PTL DEF IInv
=============================================================================
