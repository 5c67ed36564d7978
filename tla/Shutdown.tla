------------------------------ MODULE Shutdown ------------------------------
(***************************************************************************)
(* A stop of the server (serve in server.rs) and what is still under way:  *)
(* requests with their handlers and stream tasks (proxy/), the endless     *)
(* streams of /api/events, and the thread that writes the statistics       *)
(* (usage/store.rs).  A row of the statistics is <<"usage", c>> or         *)
(* <<"redact", c>>, named by the client whose request it is about.         *)
(***************************************************************************)
EXTENDS Naturals, Sequences, SequencesExt, FiniteSets

CONSTANTS
    Clients,      \* each makes one request
    Watchers,     \* clients of /api/events
    Requests,     \* [streamed, post, hits]: a task of its own copies the answer,
                  \* the method is POST, secrets are found in it
    Capacity,     \* of the channel between a stream task and its client
    BatchMax,     \* BATCH_MAX
    MaxChunks     \* bound on the chunks of an answer

ASSUME ShutdownAssumption ==
    /\ Requests \subseteq [streamed : BOOLEAN, post : BOOLEAN, hits : BOOLEAN]
    /\ {Capacity, BatchMax} \subseteq Nat \ {0}
    /\ MaxChunks \in Nat

VARIABLES
    phase,       \* serve: "serving", "draining", "flushing", "exited"
    barrier,     \* what flush returned: "none", "passed", "failed"
    watching,    \* the open streams of /api/events
    request,     \* per client: what it asked for
    conn,        \* per client: "none", "open", "served", "broken", "gone"
    task,        \* per client: the handler, then the stream task
    pipe,        \* per client: its channel, "data" or "error" items
    said,        \* per client: the chunks of the answer so far
    channel,     \* the commands on their way to the writer
    writer,      \* the batch of writer_loop
    written,     \* rows in the database, or counted as dropped
    acked        \* the writer has answered the flush

server == <<phase, barrier, watching>>
proxy == <<request, conn, task, pipe, said>>
usage == <<channel, writer, written, acked>>
vars == <<server, proxy, usage>>

Flush == <<"flush">>
Usage(c) == <<"usage", c>>
Redact(c) == <<"redact", c>>

\* Who runs until the connection ends, and who runs on its own.
InHandler == {"reading", "sent", "buffering"}
InTask == {"next", "send", "error", "tail", "record"}

Init ==
    /\ phase = "serving" /\ barrier = "none" /\ watching = {}
    /\ request \in [Clients -> Requests]
    /\ conn = [c \in Clients |-> "none"]
    /\ task = [c \in Clients |-> "idle"]
    /\ pipe = [c \in Clients |-> << >>]
    /\ said = [c \in Clients |-> 0]
    /\ channel = << >> /\ writer = << >>
    /\ written = {} /\ acked = FALSE

Running == phase # "exited"
-----------------------------------------------------------------------------
\* The proxy.

\* UsageStore::dispatch, where there is a row to record.
Dispatch(wanted, row) == channel' = IF wanted THEN Append(channel, row) ELSE channel

Moves(c, pc) == task' = [task EXCEPT ![c] = pc]
Puts(c, item) == pipe' = [pipe EXCEPT ![c] = Append(@, item)]
HasRoom(c) == Len(pipe[c]) < Capacity

\* Connections are accepted until the signal.
Connect(c) ==
    /\ phase = "serving" /\ conn[c] = "none"
    /\ conn' = [conn EXCEPT ![c] = "open"]
    /\ Moves(c, "reading")
    /\ UNCHANGED <<server, request, pipe, said, usage>>

\* push_event_and_wire_usage: the body is in, the node is pushed, what was
\* redacted is recorded, and the request goes upstream.
PushEvent(c) ==
    /\ Running /\ task[c] = "reading"
    /\ Moves(c, "sent")
    /\ Dispatch(request[c].hits, Redact(c))
    /\ UNCHANGED <<server, request, conn, pipe, said, writer, written, acked>>

\* The upstream answers: a stream gets a task of its own, anything else is
\* read by the handler.
Headers(c) ==
    /\ Running /\ task[c] = "sent"
    /\ Moves(c, IF request[c].streamed THEN "next" ELSE "buffering")
    /\ UNCHANGED <<server, request, conn, pipe, said, usage>>

\* send_upstream_or_fail: no answer, so nothing to count.
SendFails(c) ==
    /\ Running /\ task[c] = "sent"
    /\ Moves(c, "failed")
    /\ Puts(c, "data")
    /\ UNCHANGED <<server, request, conn, said, usage>>

\* record_response: the answers to POST are counted.
RecordResponse(c) == Dispatch(request[c].post, Usage(c))

\* fan_out_buffered_ir and its like: attach, count, answer, without an await.
BodyEnds(c) ==
    /\ Running /\ task[c] = "buffering"
    /\ Moves(c, "over")
    /\ RecordResponse(c)
    /\ Puts(c, "data")
    /\ UNCHANGED <<server, request, conn, said, writer, written, acked>>

\* fanout_stream_task: next_chunk yields a chunk, an error (a time-out is one)
\* or the end; an item (a chunk may give none) is sent, which waits while the
\* channel is full.
NextChunk(c) ==
    /\ Running /\ task[c] = "next"
    /\ \/ /\ said[c] < MaxChunks /\ said' = [said EXCEPT ![c] = @ + 1]
          /\ \E pc \in {"send", "next"} : Moves(c, pc)
       \/ Moves(c, "error") /\ UNCHANGED said
       \/ Moves(c, "tail") /\ UNCHANGED said
    /\ UNCHANGED <<server, request, conn, pipe, usage>>

\* The client's half of the channel is gone with its connection.
Listening(c) == conn[c] = "open"

SendItem(c) ==
    /\ Running /\ task[c] \in {"send", "error"}
    /\ Listening(c) => HasRoom(c)
    /\ Moves(c, IF Listening(c) /\ task[c] = "send" THEN "next" ELSE "tail")
    /\ IF Listening(c) THEN Puts(c, IF task[c] = "send" THEN "data" ELSE "error")
       ELSE UNCHANGED pipe
    /\ UNCHANGED <<server, request, conn, said, usage>>

\* finish_tail, where there is one and somebody to hear it.
SendTail(c) ==
    /\ Running /\ task[c] = "tail"
    /\ \/ Listening(c) /\ HasRoom(c) /\ Puts(c, "data")
       \/ UNCHANGED pipe
    /\ Moves(c, "record")
    /\ UNCHANGED <<server, request, conn, said, usage>>

\* Attached and counted; the channel closes when the task is over.
Finish(c) ==
    /\ Running /\ task[c] = "record"
    /\ Moves(c, "over")
    /\ RecordResponse(c)
    /\ UNCHANGED <<server, request, conn, pipe, said, writer, written, acked>>

Leaves(c, how) ==
    /\ conn' = [conn EXCEPT ![c] = how]
    /\ pipe' = [pipe EXCEPT ![c] = << >>]

\* An error in the body ends the connection.
Read(c) ==
    /\ Running /\ conn[c] = "open" /\ pipe[c] # << >>
    /\ IF Head(pipe[c]) = "error" THEN Leaves(c, "broken")
       ELSE pipe' = [pipe EXCEPT ![c] = Tail(@)] /\ UNCHANGED conn
    /\ UNCHANGED <<server, request, task, said, usage>>

\* The body has come to its end: the client has the whole answer.
Served(c) ==
    /\ Running /\ conn[c] = "open" /\ pipe[c] = << >> /\ task[c] \in {"over", "failed"}
    /\ Leaves(c, "served")
    /\ UNCHANGED <<server, request, task, said, usage>>

\* Faulty variant: a stream task is no better off than a handler.
DisconnectAll(c) ==
    /\ Running /\ conn[c] = "open"
    /\ Leaves(c, "gone")
    /\ Moves(c, IF task[c] \in InHandler \cup InTask THEN "cancelled" ELSE task[c])
    /\ UNCHANGED <<server, request, said, usage>>

\* The client hangs up: its handler is dropped at the await it is in (a record
\* that has been pushed is settled by its guard), a stream task goes on.
Disconnect(c) ==
    /\ Running /\ conn[c] = "open"
    /\ Leaves(c, "gone")
    /\ Moves(c, IF task[c] = "reading" THEN "idle"
                ELSE IF task[c] \in InHandler THEN "cancelled" ELSE task[c])
    /\ UNCHANGED <<server, request, said, usage>>
-----------------------------------------------------------------------------
\* The writer thread.

Receive ==
    /\ writer' = Append(writer, Head(channel))
    /\ channel' = Tail(channel)

\* try_recv: more commands, up to BATCH_MAX events; a flush ends the batch,
\* unless it is its first command.
MoreFits ==
    /\ writer # << >> /\ Flush \notin Range(Tail(writer))
    /\ Len(SelectSeq(writer, LAMBDA command : command # Flush)) < BatchMax

\* Faulty variant: a flush that ends a batch is answered ahead of the writing.
RecvAcking ==
    /\ Running /\ channel # << >> /\ (writer = << >> \/ MoreFits)
    /\ Receive
    /\ acked' = (acked \/ Head(channel) = Flush)
    /\ UNCHANGED <<server, proxy, written>>

\* recv waits for the first command.
Recv ==
    /\ Running /\ channel # << >> /\ (writer = << >> \/ MoreFits)
    /\ Receive
    /\ UNCHANGED <<server, proxy, written, acked>>

\* Batch::write: a row is inserted or counted as dropped; then ack_all.
Write ==
    /\ Running /\ writer # << >> /\ ~ (MoreFits /\ channel # << >>)
    /\ written' = written \cup (Range(writer) \ {Flush})
    /\ acked' = (acked \/ Flush \in Range(writer))
    /\ writer' = << >>
    /\ UNCHANGED <<server, proxy, channel>>
-----------------------------------------------------------------------------
\* The server.

Watch(w) ==
    /\ phase = "serving" /\ w \notin watching
    /\ watching' = watching \cup {w}
    /\ UNCHANGED <<phase, barrier, proxy, usage>>

\* Faulty variant: the stream ends with its client only.
CloseWatchByClient(w) == FALSE /\ UNCHANGED vars

\* take_until(shutdown): the flag ends a stream of events.
CloseWatch(w) ==
    /\ phase = "draining" /\ w \in watching
    /\ watching' = watching \ {w}
    /\ UNCHANGED <<phase, barrier, proxy, usage>>

LeaveWatch(w) ==
    /\ Running /\ w \in watching
    /\ watching' = watching \ {w}
    /\ UNCHANGED <<phase, barrier, proxy, usage>>

\* shutdown_signal: the flag is set and no connection is accepted any more.
Signal ==
    /\ phase = "serving"
    /\ phase' = "draining"
    /\ UNCHANGED <<barrier, watching, proxy, usage>>

Connected == {c \in Clients : conn[c] = "open"}

\* with_graceful_shutdown returns when every connection is over; the barrier.
DrainDone ==
    /\ phase = "draining" /\ Connected = {} /\ watching = {}
    /\ phase' = "flushing"
    /\ channel' = Append(channel, Flush)
    /\ UNCHANGED <<barrier, watching, proxy, writer, written, acked>>

BarrierPassed ==
    /\ phase = "flushing" /\ acked
    /\ phase' = "exited" /\ barrier' = "passed"
    /\ UNCHANGED <<watching, proxy, usage>>

\* recv_timeout: five seconds are over.
BarrierFailed ==
    /\ phase = "flushing"
    /\ phase' = "exited" /\ barrier' = "failed"
    /\ UNCHANGED <<watching, proxy, usage>>

Reads(c) == Read(c) \/ Served(c)
Handler(c) == PushEvent(c) \/ Headers(c) \/ SendFails(c) \/ BodyEnds(c)
StreamTask(c) == NextChunk(c) \/ SendItem(c) \/ SendTail(c) \/ Finish(c)
WriterLoop == Recv \/ Write
Stop == DrainDone \/ BarrierPassed \/ BarrierFailed

Next ==
    \/ \E c \in Clients : Connect(c) \/ Reads(c) \/ Disconnect(c) \/ Handler(c) \/ StreamTask(c)
    \/ \E w \in Watchers : Watch(w) \/ CloseWatch(w) \/ LeaveWatch(w)
    \/ WriterLoop
    \/ Signal
    \/ Stop

\* Threads run; a client sends its request and reads its answer, and hangs up or
\* not; an upstream answers or runs into a time-out (FWD-4).  A user need not
\* stop the server, and who watches events need not leave.
Fairness ==
    /\ \A c \in Clients : /\ WF_vars(Reads(c))
                          /\ WF_vars(Handler(c) \/ (task[c] = "reading" /\ Disconnect(c)))
                          /\ WF_vars(StreamTask(c))
    /\ \A w \in Watchers : WF_vars(CloseWatch(w))
    /\ WF_vars(WriterLoop)
    /\ WF_vars(Stop)

Spec == Init /\ [][Next]_vars /\ Fairness
-----------------------------------------------------------------------------
\* Properties.

Items == {"data", "error"}
Commands == {Flush} \cup {Usage(c) : c \in Clients} \cup {Redact(c) : c \in Clients}

TypeOK ==
    /\ phase \in {"serving", "draining", "flushing", "exited"}
    /\ barrier \in {"none", "passed", "failed"}
    /\ watching \subseteq Watchers
    /\ request \in [Clients -> Requests]
    /\ conn \in [Clients -> {"none", "open", "served", "broken", "gone"}]
    /\ task \in [Clients -> {"idle", "failed", "over", "cancelled"} \cup InHandler \cup InTask]
    /\ pipe \in [Clients -> Seq(Items)]
    /\ said \in [Clients -> Nat]
    /\ {channel, writer} \subseteq Seq(Commands)
    /\ written \subseteq Commands \ {Flush}
    /\ acked \in BOOLEAN

Pushed(c) == task[c] \in {"sent", "buffering", "failed", "over", "cancelled"} \cup InTask

\* FWD-8, USAGE-8: when the barrier is passed, nothing that was redacted is
\* missing from the audit, whatever became of its request, and no answer that
\* a client has got in full is missing from the statistics.
TailIsStored ==
    barrier = "passed" => \A c \in Clients :
        /\ Pushed(c) /\ request[c].hits => Redact(c) \in written
        /\ conn[c] = "served" /\ task[c] = "over" /\ request[c].post => Usage(c) \in written

\* FWD-8: a stop comes to its end, whoever is connected.
ShutdownEnds == phase = "draining" ~> phase = "exited"

\* USAGE-5: a streamed answer to a POST is counted whether or not its client
\* stays, as long as the process does.
StreamsAreCounted ==
    \A c \in Clients : task[c] = "next" /\ request[c].post ~> Usage(c) \in written \/ phase = "exited"

\* The comment on the barrier (server.rs), USAGE-8: when the drain is over, the
\* events of every request under way are in the channel.  Refuted by a client
\* that hangs up, or whose stream breaks, before the task of its stream is over.
DrainedMeansRecorded == phase \in {"flushing", "exited"} => \A c \in Clients : task[c] \notin InTask
=============================================================================
