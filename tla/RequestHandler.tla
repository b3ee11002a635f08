--------------------------- MODULE RequestHandler ---------------------------
(***************************************************************************)
(* request_handler_lib_02v1.c over sender_lib.c: requests arrive from the  *)
(* radio interrupt in packets, are taken apart and answered by handlers    *)
(* that the main loop runs from the app_scheduler queue.                   *)
(*                                                                         *)
(* Handlers run one after the other and only from the main loop; the radio *)
(* and the timers interrupt them anywhere.  What they may disturb while a  *)
(* handler runs is what the handler waits for or tests twice, so a handler *)
(* is one step except where it busy-waits (sender_await_data,              *)
(* sender_transmit) or looks twice at a FIFO the radio fills.              *)
(*                                                                         *)
(* A request is two cells: its length header and its body.  Each cell      *)
(* carries, for the properties only, the number of the request it belongs  *)
(* to.  A notification's timepoint is the number of the request whose      *)
(* packet it announced.                                                    *)
(***************************************************************************)
EXTENDS Integers, Sequences, FiniteSets

CONSTANTS
  Kinds,               \* the kinds of stored data a client can pull
  Requests,            \* the requests the client may send, pairs <<type, kind>>
  SchedSize,           \* slots of the scheduler queue (APP_SCHED_INIT)
  NotificationSize,    \* notifications receive_notification_fifo holds
  RxSize,              \* cells rx_fifo holds
  TxSize,              \* responses tx_fifo holds
  MaxRetries,          \* RESPONSE_MAX_TRANSMIT_RETRIES
  MaxChunks,           \* bound: chunks a data request finds
  MaxRequests,         \* bound: requests the client sends
  MaxConnections,      \* bound: connections the client makes
  StorageBusy          \* TRUE: reading the next chunk may answer "busy"

None == "none"

(* Handlers and request types are pairs of a name and a kind of data. *)
Process == <<"process_receive_notification", None>>
Send == <<"send_response", None>>
Stream == <<"stream_response_handler", None>>
Status == <<"status_response_handler", None>>
Start == <<"start_response_handler", None>>
Test == <<"test_response_handler", None>>
DataResponse(k) == <<"data_response_handler", k>>
RequestHandlerFor(req) == <<"request_handler", req[1], req[2]>>

(* A "rejected" request starts a sampling or a stream with parameters that *)
(* app_timer_start turns away each time, such as a period of 0.            *)
RequestTypes ==
  ({"status", "start", "stop", "start_stream", "stop_stream", "test",
    "restart", "rejected", "undecodable"} \X {None})
  \cup ({"data"} \X Kinds)

ASSUME RequestsAssumption == Requests \subseteq RequestTypes
ASSUME SizesAssumption ==
  /\ {SchedSize, NotificationSize, RxSize, TxSize} \subseteq Nat \ {0}
  /\ {MaxRetries, MaxChunks, MaxRequests, MaxConnections} \subseteq Nat
  /\ StorageBusy \in BOOLEAN

ResponseHandlers ==
  {Status, Start, Test, Stream} \cup {DataResponse(k) : k \in Kinds}
RequestHandlers == {RequestHandlerFor(req) : req \in RequestTypes}
Handlers == {Process, Send} \cup ResponseHandlers \cup RequestHandlers

NoHandler == <<None, None>>
NoIterator == -1

VARIABLES
  badge,     \* the state of the firmware
  client     \* the other end of the link

vars == <<badge, client>>

InitBadge ==
  [ sched |-> <<>>,               \* the scheduler's queue
    pc |-> "loop",                \* where the running handler waits
    notifications |-> <<>>,       \* receive_notification_fifo
    rx |-> <<>>,                  \* rx_fifo
    tx |-> 0,                     \* responses in tx_fifo
    connected |-> FALSE,
    transmitting |-> FALSE,
    processing_receive_notification |-> FALSE,
    processing_response |-> FALSE,
    streaming_started |-> FALSE,
    streaming |-> FALSE,          \* some STREAMING_* bit of the configuration
    iterators |-> [k \in Kinds |-> NoIterator],   \* chunks left to read
    response_timestamp |-> 0,
    request |-> [req |-> NoHandler, ticks |-> 0, number |-> 0],
    response |-> [which |-> NoHandler, retries |-> 0, success |-> NoHandler] ]

Init ==
  /\ badge = InitBadge
  /\ client = [link |-> FALSE, half |-> NoHandler, requests |-> 0,
               connections |-> 0]

-----------------------------------------------------------------------------
(* Helpers of the handlers: each takes and returns a badge. *)

(* app_sched_event_put, whose NRF_ERROR_NO_MEM no caller looks at. *)
Put(b, h) ==
  IF Len(b.sched) < SchedSize THEN [b EXCEPT !.sched = Append(@, h)] ELSE b

SenderReset(b) ==
  [b EXCEPT !.connected = FALSE, !.transmitting = FALSE, !.tx = 0,
            !.rx = <<>>]

FinishAndReschedule(b) ==
  Put([b EXCEPT !.processing_receive_notification = FALSE], Process)

(* Mutant: an error leaves the flag of the response it interrupted. *)
FinishErrorKeepsFlag(b) ==
  [SenderReset(b) EXCEPT
     !.pc = "loop",
     !.notifications = <<>>,
     !.processing_receive_notification = FALSE,
     !.streaming_started = FALSE,
     !.iterators = [k \in Kinds |-> NoIterator]]

(* Mutant: an error leaves the iterators of the series it interrupted. *)
FinishErrorKeepsIterators(b) ==
  [SenderReset(b) EXCEPT
     !.pc = "loop",
     !.notifications = <<>>,
     !.processing_receive_notification = FALSE,
     !.processing_response = FALSE,
     !.streaming_started = FALSE]

(* finish_error: both FIFOs, both flags, the stream and the iterators are  *)
(* reset; handlers already in the scheduler's queue stay there.            *)
FinishError(b) ==
  [SenderReset(b) EXCEPT
     !.pc = "loop",
     !.notifications = <<>>,
     !.processing_receive_notification = FALSE,
     !.processing_response = FALSE,
     !.streaming_started = FALSE,
     !.iterators = [k \in Kinds |-> NoIterator]]

(* What send_response does once sender_transmit has queued the response. *)
Sent(b) ==
  LET c == [b EXCEPT !.pc = "loop", !.tx = @ + 1, !.transmitting = TRUE,
                     !.processing_response = FALSE]
  IN  IF b.response.success = NoHandler THEN c ELSE Put(c, b.response.success)

(* sender_transmit gave up waiting for room: the response stays pending. *)
NoMem(b) == Put([b EXCEPT !.pc = "loop"], Send)

(* send_response up to the wait for room; waiting names the wait. *)
SendResponse(b, waiting) ==
  LET c == [b EXCEPT !.response.retries = @ + 1]
  IN  CASE b.response.retries > MaxRetries -> FinishError(b)
        [] b.response.retries <= MaxRetries /\ ~b.connected -> FinishError(c)
        [] b.response.retries <= MaxRetries /\ b.connected /\ b.tx < TxSize ->
             Sent(c)
        [] OTHER -> [c EXCEPT !.pc = waiting]

(* start_response has succeeded and the handler fills response_event. *)
Respond(b, which, success) ==
  [b EXCEPT !.processing_response = TRUE,
            !.response = [which |-> which, retries |-> 0, success |-> success]]

(* Mutant: a stream that goes on is queued once more than it runs. *)
StreamTailMut(b, cfg) ==
  LET stopped == [b EXCEPT !.streaming = @ /\ b.streaming_started]
  IN  IF cfg /\ b.streaming_started
        THEN Put(Put(stopped, Stream), Stream)
        ELSE [stopped EXCEPT !.streaming_started = FALSE]

(* The end of stream_response_handler; cfg is the configuration it read    *)
(* before it sent.                                                         *)
StreamTail(b, cfg) ==
  LET stopped == [b EXCEPT !.streaming = @ /\ b.streaming_started]
  IN  IF cfg /\ b.streaming_started
        THEN Put(stopped, Stream)
        ELSE [stopped EXCEPT !.streaming_started = FALSE]

-----------------------------------------------------------------------------
(* The request handlers.  An outcome is what the module they call answers: *)
(* "ok" with n chunks found, "empty" (NRF_ERROR_INVALID_STATE), "busy"     *)
(* (try again) or "error".  A start request is put back whatever the error *)
(* is, one that will not go away included.                                 *)

Outcomes(req) ==
  CASE req[1] = "data" ->
         ({"ok"} \X (0 .. MaxChunks)) \cup ({"empty", "busy"} \X {0})
    [] req[1] = "status" -> {"ok", "busy", "error"} \X {0}
    [] req[1] \in {"start", "start_stream"} -> {"ok", "busy"} \X {0}
    [] req[1] = "rejected" -> {<<"busy", 0>>}
    [] req[1] = "undecodable" -> {<<"error", 0>>}
    [] OTHER -> {<<"ok", 0>>}

(* storer_find_..._chunk_from_timestamp leaves the iterator at the first   *)
(* chunk of the answer, or invalid.                                        *)
Find(b, k, o) ==
  [b EXCEPT !.iterators[k] = IF o[1] = "ok" THEN o[2] ELSE NoIterator]

StartStream(b) ==
  LET c == [b EXCEPT !.streaming = TRUE]
  IN  IF c.streaming_started THEN c
      ELSE Put([c EXCEPT !.streaming_started = TRUE], Stream)

(* One request handler, run for the first time by process_receive_-        *)
(* notification or again from the queue.                                   *)
Handle(b, req, o) ==
  CASE req[1] = "data" /\ o[1] # "busy" ->
         FinishAndReschedule(Put(Find(b, req[2], o), DataResponse(req[2])))
    [] req[1] = "data" /\ o[1] = "busy" ->
         Put(Find(b, req[2], o), RequestHandlerFor(req))
    [] req[1] # "data" /\ o[1] = "busy" -> Put(b, RequestHandlerFor(req))
    [] o[1] = "error" -> FinishError(b)
    [] req[1] = "status" /\ o[1] = "ok" -> Put(b, Status)
    [] req[1] = "start" /\ o[1] = "ok" -> Put(b, Start)
    [] req[1] = "start_stream" /\ o[1] = "ok" ->
         FinishAndReschedule(StartStream(b))
    [] req[1] = "stop_stream" ->
         FinishAndReschedule([b EXCEPT !.streaming = FALSE])
    [] req[1] = "test" -> FinishAndReschedule(Put(b, Test))
    [] req[1] = "stop" -> FinishAndReschedule(b)
    [] req[1] = "restart" -> InitBadge

-----------------------------------------------------------------------------
(* The main loop. *)

Runs(h) == badge.pc = "loop" /\ badge.sched # <<>> /\ Head(badge.sched) = h
Popped == [badge EXCEPT !.sched = Tail(@)]

(* process_receive_notification up to its first wait: a request in         *)
(* progress sends it to the back of the queue.                             *)
ProcessReceiveNotification ==
  /\ Runs(Process)
  /\ badge' =
       IF badge.processing_receive_notification THEN Put(Popped, Process)
       ELSE LET b == [Popped EXCEPT !.processing_receive_notification = TRUE]
            IN  CASE badge.notifications = <<>> -> [b EXCEPT !.pc = "flush"]
                  [] badge.notifications # <<>> /\ ~badge.connected ->
                       FinishError(b)
                  [] OTHER ->
                       [b EXCEPT !.pc = "header",
                                 !.response_timestamp =
                                    badge.notifications[1].timepoint]
  /\ UNCHANGED client

(* Mutant: an empty FIFO is left without finish_receive_notification. *)
FlushNotificationsMut ==
  /\ badge.pc = "flush"
  /\ badge' = [badge EXCEPT !.pc = "loop", !.notifications = <<>>]
  /\ UNCHANGED client

(* It found no notification and flushes the FIFO, whatever the radio has   *)
(* put there in the meantime.                                              *)
FlushNotifications ==
  /\ badge.pc = "flush"
  /\ badge' = [badge EXCEPT !.pc = "loop", !.notifications = <<>>,
                            !.processing_receive_notification = FALSE]
  /\ UNCHANGED client

(* The length header is there; a body cell taken for a header announces a  *)
(* length that never arrives or never decodes.                             *)
ReadHeader ==
  /\ badge.pc = "header"
  /\ badge.rx # <<>>
  /\ LET b == [badge EXCEPT !.rx = Tail(@)]
     IN  badge' = IF Head(badge.rx).part = "header" /\ badge.connected
                    THEN [b EXCEPT !.pc = "body"]
                    ELSE FinishError(b)
  /\ UNCHANGED client

(* sender_await_data has waited long enough. *)
AwaitTimeout ==
  /\ badge.pc \in {"header", "body"}
  /\ badge.rx = <<>>
  /\ badge' = FinishError(badge)
  /\ UNCHANGED client

(* The notifications left when a request of two cells is taken out of the  *)
(* FIFO, the last one touched shortened; NoNotifications when they do not  *)
(* cover it.                                                               *)
NoNotifications == <<[len |-> 0, timepoint |-> 0]>>

Consumed(ns) ==
  CASE ns # <<>> /\ ns[1].len = 2 -> Tail(ns)
    [] ns # <<>> /\ ns[1].len > 2 -> [ns EXCEPT ![1].len = @ - 2]
    [] Len(ns) >= 2 /\ ns[1].len = 1 /\ ns[2].len = 1 -> Tail(Tail(ns))
    [] Len(ns) >= 2 /\ ns[1].len = 1 /\ ns[2].len > 1 ->
         [Tail(ns) EXCEPT ![1].len = @ - 1]
    [] OTHER -> NoNotifications

(* The body is there: consume its notifications, decode, dispatch.  A      *)
(* request that does not decode leaves request_timepoint_ticks alone.      *)
ReadBody(o) ==
  /\ badge.pc = "body"
  /\ badge.rx # <<>>
  /\ LET cell == Head(badge.rx)
         b == [badge EXCEPT
                 !.pc = "loop", !.rx = Tail(@),
                 !.notifications = Consumed(@),
                 !.request = [req |-> cell.req,
                              ticks |-> badge.response_timestamp,
                              number |-> cell.number]]
         handled == /\ cell.part = "body"
                    /\ cell.req[1] # "undecodable"
                    /\ Consumed(badge.notifications) # NoNotifications
     IN  /\ o \in Outcomes(cell.req)
         /\ badge' = IF handled
                       THEN Handle(b, cell.req, o)
                       ELSE FinishError([b EXCEPT !.request = badge.request])
         /\ client' = IF handled /\ cell.req[1] = "restart"
                        THEN [client EXCEPT !.link = FALSE, !.half = NoHandler]
                        ELSE client

(* A request handler that was put back into the queue. *)
RetryRequest(req, o) ==
  /\ Runs(RequestHandlerFor(req))
  /\ o \in Outcomes(req)
  /\ badge' = Handle(Popped, req, o)
  /\ UNCHANGED client

(* Mutant: the response is filled without asking start_response. *)
StatusResponseMut(h) ==
  /\ h \in {Status, Start}
  /\ Runs(h)
  /\ badge' = SendResponse(
                FinishAndReschedule(Respond(Popped, h, NoHandler)), "transmit")
  /\ UNCHANGED client

(* status_response_handler and start_..._response_handler: the request is  *)
(* finished here, once its response holds response_timestamp.              *)
StatusResponse(h) ==
  /\ h \in {Status, Start}
  /\ Runs(h)
  /\ badge' = IF badge.processing_response THEN Put(Popped, h)
              ELSE SendResponse(
                     FinishAndReschedule(Respond(Popped, h, NoHandler)),
                     "transmit")
  /\ UNCHANGED client

TestResponse ==
  /\ Runs(Test)
  /\ badge' = IF badge.processing_response THEN Put(Popped, Test)
              ELSE SendResponse(Respond(Popped, Test, NoHandler), "transmit")
  /\ UNCHANGED client

(* ..._data_response_handler: the next chunk with this handler to follow,  *)
(* or the end header.  A busy storage puts the handler back with           *)
(* processing_response still set.                                          *)
DataResponseHandler(k, busy) ==
  /\ Runs(DataResponse(k))
  /\ busy => StorageBusy /\ badge.iterators[k] # NoIterator
  /\ LET left == badge.iterators[k]
         b == Respond(Popped, DataResponse(k),
                      IF left > 0 THEN DataResponse(k) ELSE NoHandler)
     IN  badge' =
           CASE badge.processing_response -> Put(Popped, DataResponse(k))
             [] ~badge.processing_response /\ busy ->
                  Put([b EXCEPT !.iterators[k] = NoIterator], DataResponse(k))
             [] OTHER ->
                  SendResponse([b EXCEPT !.iterators[k] =
                                  IF left > 0 THEN left - 1 ELSE NoIterator],
                               "transmit")
  /\ UNCHANGED client

(* stream_response_handler, with samples in the stream FIFOs or without. *)
StreamResponse(some) ==
  /\ Runs(Stream)
  /\ some => badge.streaming
  /\ LET b == Respond(Popped, Stream, NoHandler)
     IN  badge' =
           IF badge.processing_response THEN Put(Popped, Stream)
           ELSE IF some
             THEN LET c == SendResponse(b, "stream_transmit")
                  IN  IF c.pc = "loop" THEN StreamTail(c, TRUE) ELSE c
             ELSE StreamTail([b EXCEPT !.processing_response = FALSE],
                             badge.streaming)
  /\ UNCHANGED client

RetrySend ==
  /\ Runs(Send)
  /\ badge' = SendResponse(Popped, "transmit")
  /\ UNCHANGED client

(* The wait in sender_transmit ends: there is room, or time is up.  The    *)
(* connection is not looked at again.                                      *)
TransmitQueued ==
  /\ badge.pc \in {"transmit", "stream_transmit"}
  /\ LET b == IF badge.tx < TxSize THEN Sent(badge) ELSE NoMem(badge)
     IN  badge' = IF badge.pc = "transmit" THEN b ELSE StreamTail(b, TRUE)
  /\ UNCHANGED client

MainLoop ==
  \/ ProcessReceiveNotification \/ FlushNotifications
  \/ ReadHeader \/ AwaitTimeout
  \/ \E o \in {"ok", "empty", "busy", "error"} \X (0 .. MaxChunks) :
       \/ ReadBody(o)
       \/ \E req \in RequestTypes : RetryRequest(req, o)
  \/ \E h \in {Status, Start} : StatusResponse(h)
  \/ TestResponse
  \/ \E k \in Kinds, busy \in BOOLEAN : DataResponseHandler(k, busy)
  \/ \E some \in BOOLEAN : StreamResponse(some)
  \/ RetrySend \/ TransmitQueued

-----------------------------------------------------------------------------
(* Interrupts. *)

(* Mutant: the notification is written without asking for room. *)
OnReceiveMut(cells) ==
  badge' = Put([badge EXCEPT
                  !.rx = @ \o cells,
                  !.notifications =
                     Append(@, [len |-> Len(cells),
                                timepoint |-> client'.requests])], Process)

(* on_receive_callback and receive_notification_handler: bytes that do not *)
(* fit are dropped, and so is the notification when its FIFO is full.      *)
OnReceive(cells) ==
  LET room == RxSize - Len(badge.rx)
      b == [badge EXCEPT !.rx = @ \o SubSeq(cells, 1,
                                     IF Len(cells) <= room THEN Len(cells)
                                                           ELSE room)]
  IN  badge' = IF Len(badge.notifications) < NotificationSize
                 THEN Put([b EXCEPT !.notifications =
                             Append(@, [len |-> Len(cells),
                                        timepoint |-> client'.requests])],
                          Process)
                 ELSE b

Cell(p, req, n) == [part |-> p, req |-> req, number |-> n]

(* The client writes a request: in one packet or its header alone. *)
SendRequest(req, whole) ==
  /\ client.link
  /\ client.half = NoHandler
  /\ client.requests < MaxRequests
  /\ client' = [client EXCEPT !.requests = @ + 1,
                              !.half = IF whole THEN NoHandler ELSE req]
  /\ LET n == client.requests + 1
     IN  OnReceive(<<Cell("header", req, n)>> \o
                   (IF whole THEN <<Cell("body", req, n)>> ELSE <<>>))

(* ... and the rest of it. *)
SendRest ==
  /\ client.link
  /\ client.half # NoHandler
  /\ client' = [client EXCEPT !.half = NoHandler]
  /\ OnReceive(<<Cell("body", client.half, client.requests)>>)

(* transmit_queued_bytes on its timer. *)
TransmitTick ==
  /\ badge.transmitting
  /\ badge.tx > 0 => client.link
  /\ badge' = IF badge.tx = 0 THEN [badge EXCEPT !.transmitting = FALSE]
                              ELSE [badge EXCEPT !.tx = @ - 1]
  /\ UNCHANGED client

OnConnect ==
  /\ ~client.link
  /\ client.connections < MaxConnections
  /\ client' = [client EXCEPT !.link = TRUE, !.half = NoHandler,
                              !.connections = @ + 1]
  /\ badge' = [SenderReset(badge) EXCEPT !.connected = TRUE]

(* The link goes down: the client leaves, the radio loses it, or           *)
(* ble_disconnect is carried out.                                          *)
OnDisconnect ==
  /\ client.link
  /\ client' = [client EXCEPT !.link = FALSE, !.half = NoHandler]
  /\ badge' = SenderReset(badge)

(* The disconnect timeout: sender_disconnect, with the link up until the   *)
(* radio has closed it.                                                    *)
DisconnectTimeout ==
  /\ badge.connected
  /\ badge' = SenderReset(badge)
  /\ UNCHANGED client

(* A sampling timeout stops the streams. *)
SamplingTimeout ==
  /\ badge.streaming
  /\ badge' = [badge EXCEPT !.streaming = FALSE]
  /\ UNCHANGED client

Interrupt ==
  \/ \E req \in Requests, whole \in BOOLEAN : SendRequest(req, whole)
  \/ SendRest \/ TransmitTick
  \/ OnConnect \/ OnDisconnect \/ DisconnectTimeout \/ SamplingTimeout

Next == MainLoop \/ Interrupt

(* A request handler that its callee does not turn away. *)
Accepted ==
  \E req \in RequestTypes, n \in 0 .. MaxChunks : RetryRequest(req, <<"ok", n>>)

(* main.c's loop runs whatever is queued; a busy storage or sampling       *)
(* module does not stay busy each time it is asked.  Nothing is assumed of *)
(* rejected requests, which no outcome accepts.                            *)
Fairness == WF_vars(MainLoop) /\ SF_vars(Accepted)

Spec == Init /\ [][Next]_vars
FairSpec == Spec /\ Fairness

-----------------------------------------------------------------------------
(* Properties. *)

Queued == {badge.sched[i] : i \in 1 .. Len(badge.sched)}

(* Every queue stays within the memory it has. *)
TypeOK ==
  /\ badge.sched \in Seq(Handlers) /\ Len(badge.sched) <= SchedSize
  /\ badge.pc \in {"loop", "flush", "header", "body", "transmit",
                   "stream_transmit"}
  /\ Len(badge.notifications) <= NotificationSize
  /\ Len(badge.rx) <= RxSize
  /\ badge.tx \in 0 .. TxSize
  /\ {badge.connected, badge.transmitting, badge.streaming,
      badge.streaming_started, badge.processing_response,
      badge.processing_receive_notification} \subseteq BOOLEAN
  /\ badge.iterators \in [Kinds -> NoIterator .. MaxChunks]
  /\ badge.response.retries \in 0 .. MaxRetries + 1
  /\ badge.response.success \in ResponseHandlers \cup {NoHandler}

(* Handlers that hold processing_receive_notification until they run. *)
RequestOwners == RequestHandlers \cup {Status, Start}

(* A set flag always has a handler in the queue, or running, that will     *)
(* clear it: whatever errors, disconnects and stale handlers do to the     *)
(* flags, the request handler never waits for something nobody does.       *)
NoWedge ==
  /\ badge.processing_response =>
       Send \in Queued \/ badge.pc \in {"transmit", "stream_transmit"}
  /\ badge.processing_receive_notification =>
       \/ Queued \cap RequestOwners # {}
       \/ badge.pc \in {"flush", "header", "body"}
  /\ badge.notifications # <<>> =>
       Process \in Queued \/ badge.processing_receive_notification
  /\ badge.streaming_started =>
       Stream \in Queued \/ badge.pc = "stream_transmit"
  /\ badge.tx > 0 => badge.transmitting

(* What the queue may grow to without another packet: what is in it, a     *)
(* request twice more and a handler that finishes one once more, as they   *)
(* queue others and themselves; the cells that may become requests; what   *)
(* the running handler will queue; and the response that a stream may      *)
(* start on top of all while nobody else's is pending.                     *)
Count(b, S) == Cardinality({i \in 1 .. Len(b.sched) : b.sched[i] \in S})
Running(b) ==
  CASE b.pc \in {"header", "transmit"} -> 1
    [] b.pc = "body" -> 2
    [] b.pc = "stream_transmit" -> IF b.streaming_started THEN 2 ELSE 1
    [] OTHER -> 0
MayStream(b) ==
  b.streaming_started /\ (~b.processing_response \/ b.response.success # NoHandler)
Load(b) ==
  Len(b.sched) + Count(b, RequestOwners) + Count(b, RequestHandlers)
    + Len(b.rx) + Running(b) + (IF MayStream(b) THEN 1 ELSE 0)

(* Handlers that queue each other and themselves, retries of responses and *)
(* requests and the stale handlers that errors leave in the queue do not   *)
(* make it grow: no step of the main loop adds to the load, only packets   *)
(* do (app_sched_event_put is called from every handler).                  *)
HandlersDoNotMultiply == [][MainLoop => Load(badge') <= Load(badge)]_vars

(* There is room for what a step queues, at most two handlers, so that no  *)
(* app_sched_event_put, whose answer nobody looks at, drops one that owns  *)
(* a flag.  It is the client that sees to it: one that sends faster than   *)
(* the badge answers fills the queue.                                      *)
RoomLeft == Len(badge.sched) + 2 <= SchedSize

(* A response that waits for room in tx_fifo is not replaced by another    *)
(* before it was sent or given up, although response_event is one global.  *)
ResponseKept ==
  [][badge.processing_response /\ badge'.processing_response =>
       /\ badge'.response.which = badge.response.which
       /\ badge'.response.success = badge.response.success]_vars

(* An iterator is valid only while a series of data responses goes on: its *)
(* handler is queued, or follows the response being sent.  A valid one     *)
(* that nobody moves would keep the filesystem from storing over it.       *)
IteratorsOwned ==
  \A k \in Kinds : badge.iterators[k] # NoIterator =>
    \/ DataResponse(k) \in Queued
    \/ /\ badge.processing_response
       /\ badge.response.success = DataResponse(k)

(* request_handler_lib_02v1.h: "the ticks at the receive timepoint is      *)
(* saved to set the internal clock correctly": the timepoint a request is  *)
(* processed with is that of the packet that brought it.                   *)
OwnTimepoint == badge.request.ticks = badge.request.number

(* A start request that will never be accepted, back in the queue. *)
Rejected == RequestHandlerFor(<<"rejected", None>>)

(* The receiving side always comes to rest: what was received is taken up  *)
(* and finished, refused or given up (an error flushes what waits behind   *)
(* it).  Two things keep it from that.  A stream is ahead of the response  *)
(* in the queue and may take processing_response each time it is free; a   *)
(* start request with parameters that app_timer_start rejects is put back  *)
(* for ever, and every later request waits for it.                         *)
RequestsServed ==
  <>[](~badge.streaming_started) /\ [](Rejected \notin Queued) =>
    ((badge.processing_receive_notification \/ badge.notifications # <<>>)
       ~> (~badge.processing_receive_notification
             /\ badge.notifications = <<>>))

(* A response that was started is sent or given up in the end; nobody      *)
(* waits for processing_response forever.                                  *)
ResponseFinished == badge.processing_response ~> ~badge.processing_response
=============================================================================
