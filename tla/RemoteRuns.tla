---------------------------- MODULE RemoteRuns ----------------------------
(***************************************************************************)
(* A run submitted through the HTTP/SSE channel (adapters/channels/        *)
(* httpsse): the client opens the event stream of the thread, posts the    *)
(* submission, and joins the answer of the post with the terminal event of *)
(* the stream.  They travel on two connections, either of which may fail.  *)
(*                                                                         *)
(* There are five goroutines: execute, the reader of the stream, the       *)
(* forwarder that filters the run's events into the handle, the handlers   *)
(* of the server, and the client's own, which reads events when it likes.  *)
(* A send on a closed channel ends the client's process.                   *)
(***************************************************************************)
EXTENDS Naturals, Sequences

CONSTANTS
    Run,            \* the run
    Buffer,         \* DefaultRunEventBuffer: capacity of every channel of events
    MaxEmits,       \* bound: events of the run before its last
    MaxForeign,     \* bound: events of other runs of the thread
    MaxFaults       \* bound: failures of a connection, undecodable events

ASSUME RemoteAssumption ==
    /\ Buffer \in Nat \ {0}
    /\ MaxEmits \in Nat /\ MaxForeign \in Nat /\ MaxFaults \in Nat

VARIABLES
    pc,             \* where runHandle.execute stands
    server,         \* the run at the server
    published,      \* number of events of the run the server has published
    foreign,        \* number of events of other runs it has published
    wire,           \* events in the server's subscription and on the connection
    conn,           \* the connection of the event stream
    reader,         \* the goroutine of openEventStream
    hand,           \* the event it has decoded, if any
    out,            \* the channel it sends to; closed when it has ended
    errs,           \* its channel of errors
    forwarder,      \* what forwardRunEvents does
    forwardErr,     \* it returned an error
    carried,        \* the event it emits, if any
    unread,         \* number of events in the channel of the handle
    stream,         \* what was put into it: how many, and the last
    result, doneClosed, eventsClosed,   \* see RunContract
    cancelled,      \* the context of the stream has ended
    ctxDone,        \* the context of the run has ended
    lost,           \* an event was given up on after its timeout
    older,          \* the emit under way began before the wait of execute under way
    crashed,        \* the client's process has panicked
    faults

serverVars == <<server, published, foreign>>
readerVars == <<reader, hand, errs>>
forwardVars == <<forwarder, forwardErr, carried, unread, stream, lost, older>>
handleVars == <<pc, result, doneClosed, eventsClosed, cancelled>>
vars == <<serverVars, wire, conn, readerVars, out, forwardVars, handleVars, ctxDone, crashed,
          faults>>

Terminal == {"RunCompleted", "RunFailed"}
Event(own, n, kind) == [own |-> own, n |-> n, kind |-> kind]

Init ==
    /\ pc = "open" /\ server = "idle" /\ published = 0 /\ foreign = 0
    /\ wire = << >> /\ conn = "none"
    /\ reader = "none" /\ hand = << >> /\ out = << >> /\ errs = "open"
    /\ forwarder = "none" /\ forwardErr = FALSE /\ carried = << >>
    /\ unread = 0 /\ stream = [size |-> 0, last |-> Event(TRUE, 0, "")]
    /\ result = "none" /\ doneClosed = FALSE /\ eventsClosed = FALSE
    /\ cancelled = FALSE /\ ctxDone = FALSE /\ lost = FALSE /\ older = FALSE
    /\ crashed = FALSE
    /\ faults = 0

Step(from, to) == pc = from /\ pc' = to
Fault == faults < MaxFaults /\ faults' = faults + 1
RequestFails == Fault \/ (ctxDone /\ UNCHANGED faults)
SetResult(k) == result' = k

(* A wait of execute and an emit both take a second: one that began before *)
(* the wait is over before it.  Steps that wait for nobody take no time.   *)
WaitBegins ==
    /\ older' = (forwarder = "emitting")
    /\ UNCHANGED <<forwarder, forwardErr, carried, unread, stream, lost>>
ForwarderBlocked ==
    \/ forwarder = "waiting" /\ out = << >> /\ reader # "ended"
    \/ forwarder = "emitting" /\ unread = Buffer /\ ~older

-----------------------------------------------------------------------------
(* The server.                                                             *)

(* The context of the stream, which is one of the run, has ended.          *)
Stopped == cancelled \/ ctxDone

(* The stream is being written to.                                         *)
Connected == conn = "open" /\ ~Stopped

(* handleEvents has subscribed before it answers, so every event of the    *)
(* run finds the subscription, and waits for room in it.                   *)
Deliver(e) ==
    \/ Connected /\ Len(wire) < Buffer /\ wire' = Append(wire, e)
    \/ ~Connected /\ UNCHANGED wire

(* handleSubmit: Open and normalizeRemoteSubmission accept the submission  *)
(* or refuse it.                                                           *)
handleSubmit ==
    /\ pc = "post" /\ server = "idle"
    /\ server' \in {"running", "refused"}
    /\ UNCHANGED <<published, foreign, wire, conn, readerVars, out, forwardVars, handleVars,
                   ctxDone, crashed, faults>>

Emits(kind, next) ==
    /\ server = "running"
    /\ Deliver(Event(TRUE, published + 1, kind))
    /\ published' = published + 1
    /\ server' = next
    /\ UNCHANGED <<foreign, conn, readerVars, out, forwardVars, handleVars, ctxDone, crashed,
                   faults>>

RunEmits == published < MaxEmits /\ Emits("emitted", "running")
RunCompletes == Emits("RunCompleted", "completed")

(* A run fails: with a RunFailed event when one of its events could not be *)
(* persisted, otherwise without one.                                       *)
RunFails ==
    \/ Emits("RunFailed", "failed")
    \/ /\ server = "running" /\ server' = "failed"
       /\ UNCHANGED <<published, foreign, wire, conn, readerVars, out, forwardVars, handleVars,
                      ctxDone, crashed, faults>>

(* Another run of the thread.                                              *)
ForeignEmits ==
    /\ Connected /\ foreign < MaxForeign
    /\ Deliver(Event(FALSE, 0, "RunCompleted"))
    /\ foreign' = foreign + 1
    /\ UNCHANGED <<server, published, conn, readerVars, out, forwardVars, handleVars, ctxDone,
                   crashed, faults>>

(* The connection is lost, or handleEvents returns and it ends.            *)
StreamBreaks ==
    /\ conn = "open" /\ Fault
    /\ conn' \in {"broken", "ended"}
    /\ UNCHANGED <<serverVars, wire, readerVars, out, forwardVars, handleVars, ctxDone, crashed>>

-----------------------------------------------------------------------------
(* execute.                                                                *)

openEventStream ==
    /\ Step("open", "post")
    /\ conn' = "open" /\ reader' = "reading" /\ forwarder' = "waiting"
    /\ UNCHANGED <<serverVars, wire, hand, errs, out, forwardErr, carried, unread, stream, lost,
                   older, result, doneClosed, eventsClosed, cancelled, ctxDone, crashed, faults>>

(* Mutant: the handle ends without a result.                               *)
OpenFails_NoResult ==
    /\ Step("open", "close") /\ RequestFails
    /\ UNCHANGED <<serverVars, wire, conn, readerVars, out, forwardVars, result, doneClosed,
                   eventsClosed, cancelled, ctxDone, crashed>>

(* No stream: nothing is submitted.                                        *)
OpenFails ==
    /\ Step("open", "close") /\ RequestFails
    /\ SetResult("failed")
    /\ UNCHANGED <<serverVars, wire, conn, readerVars, out, forwardVars, doneClosed,
                   eventsClosed, cancelled, ctxDone, crashed>>

(* postJSON returns the server's answer, a result or an error.             *)
PostReturns ==
    /\ \/ server = "completed" /\ Step("post", "await") /\ SetResult("ok")
       \/ server \in {"failed", "refused"} /\ Step("post", "cancel") /\ SetResult("failed")
    /\ WaitBegins
    /\ UNCHANGED <<serverVars, wire, conn, readerVars, out, doneClosed, eventsClosed, cancelled,
                   ctxDone, crashed, faults>>

(* The request or its answer is lost, or the context has ended.  The run   *)
(* may go on at the server.                                                *)
PostFails ==
    /\ Step("post", "cancel") /\ RequestFails
    /\ SetResult("failed")
    /\ UNCHANGED <<serverVars, wire, conn, readerVars, out, forwardVars, doneClosed,
                   eventsClosed, cancelled, ctxDone, crashed>>

(* Mutant: the error of the forwarder is dropped.                          *)
AwaitForwarder_IgnoresError ==
    /\ forwarder = "ended" /\ Step("await", "cancel")
    /\ UNCHANGED <<serverVars, wire, conn, readerVars, out, forwardVars, result, doneClosed,
                   eventsClosed, cancelled, ctxDone, crashed, faults>>

AwaitForwarder ==
    /\ forwarder = "ended" /\ Step("await", "cancel")
    /\ IF forwardErr THEN SetResult("failed") ELSE UNCHANGED result
    /\ UNCHANGED <<serverVars, wire, conn, readerVars, out, forwardVars, doneClosed,
                   eventsClosed, cancelled, ctxDone, crashed, faults>>

(* A second has passed and the terminal event has not come.                *)
AwaitTimesOut ==
    /\ ForwarderBlocked /\ Step("await", "cancel")
    /\ SetResult("failed")
    /\ UNCHANGED <<serverVars, wire, conn, readerVars, out, forwardVars, doneClosed,
                   eventsClosed, cancelled, ctxDone, crashed, faults>>

(* cancel(): the context of the stream, then the reader has ended.         *)
CancelStream ==
    /\ Step("cancel", "cancelling")
    /\ cancelled' = TRUE
    /\ UNCHANGED <<serverVars, wire, conn, readerVars, out, forwardVars, result, doneClosed,
                   eventsClosed, ctxDone, crashed, faults>>

ReaderGone ==
    /\ reader = "ended" /\ Step("cancelling", "drain")
    /\ WaitBegins
    /\ UNCHANGED <<serverVars, wire, conn, readerVars, out, result, doneClosed, eventsClosed,
                   cancelled, ctxDone, crashed, faults>>

(* The forwarder has ended, or another second has passed.                  *)
Drained ==
    /\ forwarder = "ended" \/ ForwarderBlocked
    /\ Step("drain", "close")
    /\ UNCHANGED <<serverVars, wire, conn, readerVars, out, forwardVars, result, doneClosed,
                   eventsClosed, cancelled, ctxDone, crashed, faults>>

CloseEvents ==
    /\ Step("close", "done")
    /\ eventsClosed' = TRUE
    /\ UNCHANGED <<serverVars, wire, conn, readerVars, out, forwardVars, result, doneClosed,
                   cancelled, ctxDone, crashed, faults>>

(* The deferred close(r.done).                                             *)
CloseDone ==
    /\ Step("done", "over")
    /\ doneClosed' = TRUE
    /\ UNCHANGED <<serverVars, wire, conn, readerVars, out, forwardVars, result, eventsClosed,
                   cancelled, ctxDone, crashed, faults>>

-----------------------------------------------------------------------------
(* The reader of openEventStream.                                          *)

ReaderReads ==
    /\ reader = "reading" /\ wire # << >>
    /\ reader' = "sending" /\ hand' = <<Head(wire)>> /\ wire' = Tail(wire)
    /\ UNCHANGED <<serverVars, conn, errs, out, forwardVars, handleVars, ctxDone, crashed, faults>>

(* flushSSEEvent: into the channel, or dropped when the context has ended. *)
flushSSEEvent ==
    /\ reader = "sending"
    /\ \/ Len(out) < Buffer /\ out' = out \o hand
       \/ Stopped /\ UNCHANGED out
    /\ reader' = "reading" /\ hand' = << >>
    /\ UNCHANGED <<serverVars, wire, conn, errs, forwardVars, handleVars, ctxDone, crashed, faults>>

ReaderEnds(e) ==
    /\ reader' = "ended" /\ errs' = e
    /\ UNCHANGED <<serverVars, wire, conn, hand, out, forwardVars, handleVars, ctxDone, crashed>>

(* An event that is too long or cannot be decoded.                         *)
DecodeFails == reader = "reading" /\ wire # << >> /\ Fault /\ ReaderEnds("error")

ReadFails == reader = "reading" /\ conn = "broken" /\ ReaderEnds("error") /\ UNCHANGED faults

(* The end of the stream, or of its context, is no error.                  *)
ReadEnds ==
    /\ reader = "reading"
    /\ Stopped \/ (conn = "ended" /\ wire = << >>)
    /\ ReaderEnds("closed") /\ UNCHANGED faults

-----------------------------------------------------------------------------
(* forwardRunEvents.                                                       *)

ForwardTakes ==
    /\ forwarder = "waiting" /\ out # << >>
    /\ out' = Tail(out)
    /\ IF Head(out).own THEN forwarder' = "emitting" /\ carried' = <<Head(out)>>
                        ELSE UNCHANGED <<forwarder, carried>>
    /\ older' = FALSE
    /\ UNCHANGED <<serverVars, wire, conn, readerVars, forwardErr, unread, stream, lost,
                   handleVars, ctxDone, crashed, faults>>

(* The stream reports an error, possibly before its last events are taken, *)
(* or is closed and empty: the terminal event did not come.                *)
ForwardFails ==
    /\ forwarder = "waiting"
    /\ errs = "error" \/ (reader = "ended" /\ out = << >>)
    /\ forwarder' = "ended" /\ forwardErr' = TRUE
    /\ UNCHANGED <<serverVars, wire, conn, readerVars, out, carried, unread, stream, lost,
                   older, handleVars, ctxDone, crashed, faults>>

Forwarded ==
    /\ forwarder' = IF carried[1].kind \in Terminal THEN "ended" ELSE "waiting"
    /\ carried' = << >>
    /\ UNCHANGED <<serverVars, wire, conn, readerVars, out, forwardErr, older, handleVars,
                   ctxDone, crashed, faults>>

(* emit: into the channel of the handle, or given up after a second.       *)
ForwardEmits ==
    /\ forwarder = "emitting" /\ ~eventsClosed /\ unread < Buffer
    /\ unread' = unread + 1
    /\ stream' = [size |-> stream.size + 1, last |-> carried[1]]
    /\ UNCHANGED lost
    /\ Forwarded

(* Mutant: emit waits for the client.                                      *)
ForwardTimesOut_Never == forwarder = "" /\ UNCHANGED vars

ForwardTimesOut ==
    /\ forwarder = "emitting" /\ ~eventsClosed /\ unread = Buffer
    /\ lost' = TRUE
    /\ UNCHANGED <<unread, stream>>
    /\ Forwarded

(* The channel was closed under the send.                                  *)
ForwardPanics ==
    /\ forwarder = "emitting" /\ eventsClosed
    /\ crashed' = TRUE
    /\ UNCHANGED <<serverVars, wire, conn, readerVars, out, forwardVars, handleVars, ctxDone,
                   faults>>

-----------------------------------------------------------------------------
(* The client.                                                             *)

ReadEvent ==
    /\ unread > 0 /\ unread' = unread - 1
    /\ UNCHANGED <<serverVars, wire, conn, readerVars, out, forwarder, forwardErr, carried,
                   stream, lost, older, handleVars, ctxDone, crashed, faults>>

ContextEnds ==
    /\ ~ctxDone /\ ctxDone' = TRUE
    /\ UNCHANGED <<serverVars, wire, conn, readerVars, out, forwardVars, handleVars, crashed,
                   faults>>

-----------------------------------------------------------------------------
Server == handleSubmit \/ RunEmits \/ RunCompletes \/ RunFails

Execute ==
    \/ openEventStream
    \/ OpenFails
    \/ PostReturns
    \/ PostFails
    \/ AwaitForwarder
    \/ AwaitTimesOut
    \/ CancelStream
    \/ ReaderGone
    \/ Drained
    \/ CloseEvents
    \/ CloseDone

Reader == ReaderReads \/ flushSSEEvent \/ DecodeFails \/ ReadFails \/ ReadEnds
Forward == ForwardTakes \/ ForwardFails \/ ForwardEmits \/ ForwardTimesOut \/ ForwardPanics

Next ==
    /\ ~crashed
    /\ \/ Server \/ ForeignEmits \/ StreamBreaks
       \/ Execute \/ Reader \/ Forward
       \/ ReadEvent \/ ContextEnds

(* Goroutines that can go on do so, and the run at the server ends.        *)
(* Nothing is assumed of the client and of the connections.                *)
Fairness ==
    /\ WF_vars(~crashed /\ Server)
    /\ WF_vars(~crashed /\ Execute)
    /\ WF_vars(~crashed /\ Reader)
    /\ WF_vars(~crashed /\ Forward)

Spec == Init /\ [][Next]_vars
FairSpec == Spec /\ Fairness

-----------------------------------------------------------------------------
(* Properties.                                                             *)

(* Every variable has its type and channels respect their capacity.        *)
TypeOK ==
    /\ Len(wire) <= Buffer /\ Len(out) <= Buffer /\ unread \in 0 .. Buffer
    /\ published \in 0 .. MaxEmits + 1
    /\ reader = "sending" <=> hand # << >>
    /\ forwarder = "emitting" <=> carried # << >>
    /\ result \in {"none", "ok", "failed"} /\ faults \in 0 .. MaxFaults

(* A handle that reports success speaks of a run that completed, whose     *)
(* terminal event came through the stream as well: a client that keeps up  *)
(* and does not give up has been given every event of the run.  A run that *)
(* failed or was refused is never reported as a success.                   *)
OkIsComplete ==
    doneClosed /\ result = "ok" =>
        /\ server = "completed" /\ forwarder = "ended" /\ ~forwardErr
        /\ lost \/ ctxDone \/ (stream.size = published /\ stream.last.kind = "RunCompleted")

(* What the client reads is of its run and in the order of publication.    *)
StreamInOrder == stream' # stream => stream'.last.own /\ stream'.last.n > stream.last.n

(* What the remote client reads is what the run did: in order, and all of  *)
(* it when the handle reports success.                                     *)
StreamIsFaithful == [][StreamInOrder /\ OkIsComplete']_vars

(* The remote handle is what the client interface promises, as the direct  *)
(* one is.  The result that Wait returns is decided when the terminal      *)
(* event has come, or was waited for in vain.                              *)
Contract == INSTANCE RunContract WITH
    Runs <- {Run},
    result <- [r \in {Run} |-> IF pc = "await" THEN "none" ELSE result],
    doneClosed <- [r \in {Run} |-> doneClosed],
    eventsClosed <- [r \in {Run} |-> eventsClosed]

ImplementsContract == Contract!Spec

(* The handle ends and so does the run at the server, although the client  *)
(* may never read and connections fail, unless the process panics.         *)
RemoteRunEnds ==
    /\ <>(crashed \/ (doneClosed /\ eventsClosed))
    /\ server = "running" ~> (crashed \/ server # "running")

(* No send meets a closed channel.                                         *)
NoSendOnClosed == ~(eventsClosed /\ forwarder = "emitting")
=============================================================================
