-------------------------- MODULE CompanyTerminal --------------------------
(***************************************************************************)
(* One terminal of the company and the browsers that show it: the goroutines*)
(* that read from, write to and wait for its process (company/instances.go), *)
(* and the connection of every viewer (company/terminal.go).                 *)
(*                                                                         *)
(* Output is numbered in chunks; a viewer gets the replay of the last ones    *)
(* and then a stream of its own, and is dropped when that is full. Input goes  *)
(* through one queue and is acknowledged to the viewer that typed it.          *)
(***************************************************************************)
EXTENDS Naturals, Sequences

CONSTANTS
  Viewers,
  ReplayLimit,   \* Bound: 256 KiB of replay.
  StreamLimit,   \* Bound: the 64 chunks a viewer may be behind.
  QueueLimit,    \* Bound: the 8 inputs that wait for the process.
  AckLimit,      \* Bound: the 8 acknowledgements that wait for a viewer.
  MaxChunks,     \* Bound: what the process prints.
  MaxInputs      \* Bound: what the viewers type.

VARIABLES
  process,    \* "running" or "ended"
  held,       \* Whether a descendant keeps the terminal open after the process.
  produced,   \* How many chunks were printed,
  published,  \* and how many of them the reader has taken.
  reader,     \* The reading goroutine: "reading" or "done".
  writer,     \* The writing goroutine: what it does, for whom, and how it went.
  queue,      \* inputQueue: the viewers whose inputs wait.
  exit,       \* The goroutine that waits for the process.
  cut,        \* Whether the drain's timer ended it.
  view,       \* [Viewers -> where the connection is]
  stream,     \* [Viewers -> [chunks, open, dropped]]: its channel, open while subscribed.
  acks,       \* [Viewers -> Seq(BOOLEAN)]: its channel of write results.
  shown,      \* Ghost: the chunks each viewer was shown.
  typed,      \* Ghost: how many inputs viewers queued,
  written,    \* how many of each were written whole,
  acked       \* and how many of each were acknowledged.

vars == <<process, held, produced, published, reader, writer, queue, exit, cut, view, stream,
          acks, shown, typed, written, acked>>

viewers == <<view, stream, acks, shown, acked>>
output == <<produced, published, reader>>
input == <<writer, queue, typed, written>>

TypeOK ==
  /\ reader \in {"reading", "done"} /\ published <= produced
  /\ writer.at \in {"idle", "writing", "acking", "done"} /\ Len(queue) <= QueueLimit
  /\ exit \in {"waiting", "draining", "closing", "closed", "exited", "done"}
  /\ view \in [Viewers -> {"none", "greeting", "streaming", "ended", "left"}]
  /\ \A v \in Viewers : Len(stream[v].chunks) <= StreamLimit /\ Len(acks[v]) <= AckLimit

NoWrite == [at |-> "idle", of |-> <<>>, ok |-> TRUE]

Init ==
  /\ process = "running" /\ held = FALSE /\ produced = 0 /\ published = 0
  /\ reader = "reading" /\ writer = NoWrite /\ queue = <<>> /\ exit = "waiting" /\ cut = FALSE
  /\ view = [v \in Viewers |-> "none"]
  /\ stream = [v \in Viewers |-> [chunks |-> <<>>, open |-> FALSE, dropped |-> FALSE]]
  /\ acks = [v \in Viewers |-> <<>>] /\ shown = [v \in Viewers |-> <<>>]
  /\ typed = 0 /\ written = [v \in Viewers |-> 0] /\ acked = [v \in Viewers |-> 0]

PtyOpen == exit \notin {"closed", "exited", "done"}
StopInput == exit # "waiting"   \* The channel of that name is closed.
Exited == exit \in {"exited", "done"}

----------------------------------------------------------------------------
(* The process and its output.                                               *)

Prints ==
  /\ (process = "running" \/ held) /\ PtyOpen /\ produced < MaxChunks
  /\ produced' = produced + 1
  /\ UNCHANGED <<process, held, published, reader, input, exit, cut, viewers>>

\* It ends by itself, or kill ends it; a descendant may live on.
ProcessEnds ==
  /\ process = "running" /\ process' = "ended" /\ held' \in BOOLEAN
  /\ UNCHANGED <<output, input, exit, cut, viewers>>

\* mutant: a viewer is one chunk too far behind before it is dropped.
OfferOneMore(s, chunk) ==
  IF ~s.open THEN s
  ELSE IF Len(s.chunks) <= StreamLimit THEN [s EXCEPT !.chunks = Append(@, chunk)]
  ELSE [s EXCEPT !.open = FALSE, !.dropped = TRUE]

\* publish: a viewer that is too far behind is dropped, the others go on.
Offer(s, chunk) ==
  IF ~s.open THEN s
  ELSE IF Len(s.chunks) < StreamLimit THEN [s EXCEPT !.chunks = Append(@, chunk)]
  ELSE [s EXCEPT !.open = FALSE, !.dropped = TRUE]

Publish ==
  /\ reader = "reading" /\ PtyOpen /\ published < produced
  /\ published' = published + 1
  /\ stream' = [v \in Viewers |-> Offer(stream[v], published + 1)]
  /\ UNCHANGED <<process, held, produced, reader, input, exit, cut, view, acks, shown, acked>>

\* The terminal reports its end when nobody holds it open, or is closed here.
ReaderEnds ==
  /\ reader = "reading"
  /\ ~PtyOpen \/ (process = "ended" /\ ~held /\ published = produced)
  /\ reader' = "done"
  /\ UNCHANGED <<process, held, produced, published, input, exit, cut, viewers>>

----------------------------------------------------------------------------
(* The writer: one input at a time, whole, then its acknowledgement.          *)

WriterTakes ==
  /\ writer.at = "idle" /\ queue # <<>> /\ queue' = Tail(queue)
  /\ writer' = [at |-> "writing", of |-> <<Head(queue)>>, ok |-> TRUE]
  /\ UNCHANGED <<process, held, output, exit, cut, viewers, typed, written>>

\* A process that does not read blocks the write until the terminal is closed.
Writes ==
  /\ writer.at = "writing" /\ (process = "running" \/ held) /\ PtyOpen
  /\ writer' = [writer EXCEPT !.at = "acking"]
  /\ written' = [written EXCEPT ![Head(writer.of)] = @ + 1]
  /\ UNCHANGED <<process, held, output, queue, exit, cut, viewers, typed>>

WriteFails ==
  /\ writer.at = "writing" /\ (~PtyOpen \/ (process = "ended" /\ ~held))
  /\ writer' = [writer EXCEPT !.at = "acking", !.ok = FALSE]
  /\ UNCHANGED <<process, held, output, queue, exit, cut, viewers, typed, written>>

\* mutant: a viewer that left is waited for.
NeverLeaves(v) == FALSE

\* The viewer's context is done.
Gone(v) == view[v] \in {"ended", "left"}

Acknowledge ==
  /\ writer.at = "acking"
  /\ LET v == Head(writer.of) IN
     \/ Len(acks[v]) < AckLimit /\ acks' = [acks EXCEPT ![v] = Append(@, writer.ok)]
     \/ Gone(v) /\ acks' = acks
  /\ writer' = [NoWrite EXCEPT !.at = IF writer.ok THEN "idle" ELSE "done"]
  /\ UNCHANGED <<process, held, output, queue, exit, cut, view, stream, shown, acked, typed,
                 written>>

WriterStops ==
  /\ writer.at = "idle" /\ StopInput /\ writer' = [writer EXCEPT !.at = "done"]
  /\ UNCHANGED <<process, held, output, queue, exit, cut, viewers, typed, written>>

----------------------------------------------------------------------------
(* The goroutine that waits for the process.                                 *)

ExitGoes(step) == exit' = step /\ UNCHANGED <<process, held, output, input>>

Waits == exit = "waiting" /\ process = "ended" /\ ExitGoes("draining") /\ UNCHANGED <<cut, viewers>>

\* mutant: Wait wins the race with the reader.
DrainSkipped == TRUE

DrainIsOver == reader = "done"

\* What the process printed last is still read, for 250 ms at most.
Drains ==
  /\ exit = "draining" /\ ExitGoes("closing") /\ UNCHANGED viewers
  /\ \/ DrainIsOver /\ cut' = cut
     \/ reader # "done" /\ cut' = TRUE

ClosesPty == exit = "closing" /\ ExitGoes("closed") /\ UNCHANGED <<cut, viewers>>

\* Both goroutines are over: the state is set and the streams end.
SetsExited ==
  /\ exit = "closed" /\ reader = "done" /\ writer.at = "done" /\ ExitGoes("exited")
  /\ stream' = [v \in Viewers |-> [stream[v] EXCEPT !.open = FALSE]]
  /\ UNCHANGED <<cut, view, acks, shown, acked>>

\* onExit, and the done channel.
Finishes == exit = "exited" /\ ExitGoes("done") /\ UNCHANGED <<cut, viewers>>

----------------------------------------------------------------------------
(* A viewer's connection.                                                    *)

Connection(v) == UNCHANGED <<process, held, output, exit, cut>>
Leaves(v) == /\ view' = [view EXCEPT ![v] = "left"]
             /\ stream' = [stream EXCEPT ![v].open = FALSE]

\* subscribe: the replay and the stream start in one critical section.
Replay == SubSeq([i \in 1..published |-> i],
                 IF published > ReplayLimit THEN published - ReplayLimit + 1 ELSE 1, published)

Attach(v) ==
  /\ view[v] = "none" /\ view' = [view EXCEPT ![v] = "greeting"]
  /\ stream' = [stream EXCEPT ![v].open = ~Exited]
  /\ shown' = [shown EXCEPT ![v] = Replay]
  /\ Connection(v) /\ UNCHANGED <<input, acks, acked>>

\* The replay is written before the first streamed chunk.
Greet(v) ==
  /\ view[v] = "greeting" /\ view' = [view EXCEPT ![v] = "streaming"]
  /\ Connection(v) /\ UNCHANGED <<input, stream, acks, shown, acked>>

\* The client goes away, or a write to it takes more than five seconds.
Disconnects(v) ==
  /\ view[v] \in {"greeting", "streaming"} /\ Leaves(v)
  /\ Connection(v) /\ UNCHANGED <<input, acks, shown, acked>>

\* queueInput; where it fails the connection ends.
Types(v) ==
  /\ view[v] = "streaming" /\ typed < MaxInputs /\ typed' = typed + 1
  /\ IF StopInput \/ writer.at = "done" \/ Len(queue) = QueueLimit
     THEN Leaves(v) /\ queue' = queue
     ELSE queue' = Append(queue, v) /\ UNCHANGED <<view, stream>>
  /\ Connection(v) /\ UNCHANGED <<writer, written, acks, shown, acked>>

Shows(v) ==
  /\ view[v] = "streaming" /\ stream[v].chunks # <<>>
  /\ shown' = [shown EXCEPT ![v] = Append(@, Head(stream[v].chunks))]
  /\ stream' = [stream EXCEPT ![v].chunks = Tail(@)]
  /\ Connection(v) /\ UNCHANGED <<input, view, acks, acked>>

StreamEnds(v) ==
  /\ view[v] = "streaming" /\ stream[v].chunks = <<>> /\ ~stream[v].open
  /\ view' = [view EXCEPT ![v] = "ended"]
  /\ Connection(v) /\ UNCHANGED <<input, stream, acks, shown, acked>>

TakesAck(v) ==
  /\ view[v] = "streaming" /\ acks[v] # <<>> /\ acks' = [acks EXCEPT ![v] = Tail(@)]
  /\ IF Head(acks[v])
     THEN acked' = [acked EXCEPT ![v] = @ + 1] /\ UNCHANGED <<view, stream>>
     ELSE Leaves(v) /\ acked' = acked
  /\ Connection(v) /\ UNCHANGED <<input, shown>>

\* The writer is gone though the process is not: the terminal takes no input.
SeesWriterGone(v) ==
  /\ view[v] = "streaming" /\ writer.at = "done" /\ ~StopInput /\ Leaves(v)
  /\ Connection(v) /\ UNCHANGED <<input, acks, shown, acked>>

Serves(v) == \/ Greet(v) \/ Shows(v) \/ StreamEnds(v) \/ TakesAck(v) \/ SeesWriterGone(v)

\* What is being written to the client times out.
Stalls(v) == (view[v] = "greeting" \/ stream[v].chunks # <<>> \/ acks[v] # <<>>) /\ Disconnects(v)

----------------------------------------------------------------------------
Next ==
  \/ Prints \/ ProcessEnds \/ Publish \/ ReaderEnds
  \/ WriterTakes \/ Writes \/ WriteFails \/ Acknowledge \/ WriterStops
  \/ Waits \/ Drains \/ ClosesPty \/ SetsExited \/ Finishes
  \/ \E v \in Viewers : Attach(v) \/ Types(v) \/ Disconnects(v) \/ Serves(v)

\* The goroutines run on, and a connection is served or times out. The process
\* may never read its input or end, and a viewer may stay and type nothing.
Fairness ==
  /\ WF_vars(Publish \/ ReaderEnds)
  /\ WF_vars(WriterTakes \/ WriteFails \/ Acknowledge \/ WriterStops)
  /\ \A v \in Viewers : WF_vars(Serves(v) \/ Stalls(v))
  /\ WF_vars(Waits \/ Drains \/ ClosesPty \/ SetsExited \/ Finishes)

Spec == Init /\ [][Next]_vars /\ Fairness

----------------------------------------------------------------------------
Consecutive(s) == \A i \in 1..(Len(s) - 1) : s[i + 1] = s[i] + 1

\* A viewer is shown the output without a gap, a repetition or a reordering
\* where its replay meets its stream, and what waits for it follows on.
ShownInOrder == \A v \in Viewers : Consecutive(shown[v] \o stream[v].chunks)

\* The last words of the process reach a viewer whose stream ended with it,
\* unless it was dropped, or a descendant kept the terminal open over the drain.
LastWordsAreShown ==
  \A v \in Viewers :
    view[v] = "ended" /\ ~stream[v].dropped /\ ~cut /\ produced > 0 =>
      shown[v] # <<>> /\ shown[v][Len(shown[v])] = produced

\* An input is acknowledged to the viewer that typed it, once it is written.
AcksAreHonest == \A v \in Viewers : acked[v] <= written[v]

TerminalIsTrue == [](ShownInOrder /\ LastWordsAreShown /\ AcksAreHonest)

\* When the process has ended its terminal is reported as exited, whatever its
\* viewers do: one that left, stopped reading or is dropped holds nothing up.
ExitIsReported == []<>(process = "ended" => exit = "done")
=============================================================================
