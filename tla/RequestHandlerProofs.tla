------------------------ MODULE RequestHandlerProofs ------------------------
(***************************************************************************)
(* What holds of the request handler for every size of its FIFOs, every    *)
(* number of retries, requests and connections, and any kinds of data.     *)
(*                                                                         *)
(* The handlers are compositions of functions from badges to badges, so    *)
(* the invariants are stated of a badge b, and there is one lemma for each *)
(* function: what it needs of a badge and what holds of its result.        *)
(***************************************************************************)
EXTENDS RequestHandler, TLAPS

Notes == [len : Nat, timepoint : Nat]
Cells == [part : {"header", "body"}, req : RequestTypes, number : Nat]

Steps == {"loop", "flush", "header", "body", "transmit", "stream_transmit"}
Iterators == [Kinds -> NoIterator .. MaxChunks]
RequestEvents == [req : RequestTypes \cup {NoHandler}, ticks : Nat, number : Nat]

(* What may follow a response once it is sent. *)
Followers == {DataResponse(k) : k \in Kinds} \cup {NoHandler}
ResponseEvents ==
  [which : ResponseHandlers \cup {NoHandler}, retries : 0 .. MaxRetries + 1,
   success : Followers]

Badges ==
  [ sched : Seq(Handlers),
    pc : Steps,
    notifications : Seq(Notes),
    rx : Seq(Cells),
    tx : 0 .. TxSize,
    connected : BOOLEAN,
    transmitting : BOOLEAN,
    processing_receive_notification : BOOLEAN,
    processing_response : BOOLEAN,
    streaming_started : BOOLEAN,
    streaming : BOOLEAN,
    iterators : Iterators,
    response_timestamp : Nat,
    request : RequestEvents,
    response : ResponseEvents ]

Typed(b) ==
  /\ b \in Badges
  /\ Len(b.sched) <= SchedSize
  /\ Len(b.notifications) <= NotificationSize
  /\ Len(b.rx) <= RxSize

ClientTyped ==
  client \in [link : BOOLEAN, half : RequestTypes \cup {NoHandler},
              requests : Nat, connections : Nat]

TInv == Typed(badge) /\ ClientTyped
-----------------------------------------------------------------------------
(* Types. *)

LEMMA Sizes ==
  /\ SchedSize \in Nat /\ SchedSize >= 1
  /\ NotificationSize \in Nat /\ NotificationSize >= 1
  /\ RxSize \in Nat /\ RxSize >= 1
  /\ TxSize \in Nat /\ TxSize >= 1
  /\ MaxRetries \in Nat /\ MaxChunks \in Nat
  /\ MaxRequests \in Nat /\ MaxConnections \in Nat
BY SizesAssumption

LEMMA HandlersTyped ==
  /\ Process \in Handlers /\ Send \in Handlers
  /\ ResponseHandlers \subseteq Handlers
  /\ \A req \in RequestTypes : RequestHandlerFor(req) \in Handlers
  /\ \A k \in Kinds : DataResponse(k) \in ResponseHandlers
  /\ {Status, Start, Test, Stream} \subseteq ResponseHandlers
  /\ Followers \subseteq ResponseHandlers \cup {NoHandler}
  /\ NoHandler \in Followers /\ \A k \in Kinds : DataResponse(k) \in Followers
BY DEF Handlers, ResponseHandlers, RequestHandlers, Followers

LEMMA PutTyped ==
  ASSUME NEW b, Typed(b), NEW h \in Handlers
  PROVE  Typed(Put(b, h))
<1>1. CASE Len(b.sched) < SchedSize
  <2>1. /\ Append(b.sched, h) \in Seq(Handlers)
        /\ Len(Append(b.sched, h)) = Len(b.sched) + 1
        /\ Len(b.sched) \in Nat
    BY DEF Typed, Badges
  <2>2. Put(b, h) \in Badges
    BY <1>1, <2>1 DEF Put, Typed, Badges
  <2> QED BY <1>1, <2>1, <2>2, Sizes DEF Put, Typed, Badges
<1>2. CASE ~(Len(b.sched) < SchedSize)
  BY <1>2 DEF Put
<1> QED BY <1>1, <1>2

LEMMA EmptyTyped ==
  /\ <<>> \in Seq(Cells) /\ <<>> \in Seq(Notes) /\ Len(<<>>) = 0
  /\ 0 \in 0 .. TxSize /\ 0 <= RxSize /\ 0 <= NotificationSize
BY Sizes

LEMMA NoIterators == [k \in Kinds |-> NoIterator] \in Iterators
BY Sizes DEF NoIterator, Iterators

LEMMA ResetTyped ==
  ASSUME NEW b, Typed(b)
  PROVE  Typed(SenderReset(b))
<1>1. SenderReset(b) \in Badges
  BY EmptyTyped DEF SenderReset, Typed, Badges
<1>2. /\ SenderReset(b).sched = b.sched
      /\ SenderReset(b).notifications = b.notifications
      /\ SenderReset(b).rx = <<>>
  BY DEF SenderReset, Typed, Badges
<1> QED BY <1>1, <1>2, EmptyTyped DEF Typed

LEMMA FinishErrorTyped ==
  ASSUME NEW b, Typed(b)
  PROVE  Typed(FinishError(b))
<1> DEFINE c == SenderReset(b)
<1>1. c \in Badges /\ Len(c.sched) <= SchedSize /\ Len(c.rx) <= RxSize
  BY ResetTyped DEF Typed
<1> HIDE DEF c
<1>2. FinishError(b) =
        [c EXCEPT !.pc = "loop", !.notifications = <<>>,
                  !.processing_receive_notification = FALSE,
                  !.processing_response = FALSE, !.streaming_started = FALSE,
                  !.iterators = [k \in Kinds |-> NoIterator]]
  BY DEF FinishError, c
<1>3. FinishError(b) \in Badges
  BY <1>1, <1>2, EmptyTyped, NoIterators DEF Badges, Steps
<1>4. /\ FinishError(b).sched = c.sched /\ FinishError(b).rx = c.rx
      /\ FinishError(b).notifications = <<>>
  BY <1>1, <1>2 DEF Badges
<1> QED BY <1>1, <1>3, <1>4, EmptyTyped DEF Typed

LEMMA FinishAndRescheduleTyped ==
  ASSUME NEW b, Typed(b)
  PROVE  Typed(FinishAndReschedule(b))
<1>1. Typed([b EXCEPT !.processing_receive_notification = FALSE])
  BY DEF Typed, Badges
<1> QED BY <1>1, PutTyped, HandlersTyped DEF FinishAndReschedule

LEMMA InitTyped == Typed(InitBadge)
BY Sizes, NoIterators, HandlersTyped DEF InitBadge, Typed, Badges, Steps, RequestEvents, ResponseEvents
LEMMA RespondTyped ==
  ASSUME NEW b, Typed(b), NEW which \in ResponseHandlers,
         NEW success \in Followers
  PROVE  Typed(Respond(b, which, success)) /\ Respond(b, which, success).pc = b.pc
<1> DEFINE e == [which |-> which, retries |-> 0, success |-> success]
<1>1. e \in ResponseEvents
  BY Sizes DEF ResponseEvents
<1> HIDE DEF e
<1>2. Respond(b, which, success) = [b EXCEPT !.processing_response = TRUE, !.response = e]
  BY DEF Respond, e
<1> QED BY <1>1, <1>2 DEF Typed, Badges

LEMMA SentTyped ==
  ASSUME NEW b, Typed(b), b.tx < TxSize
  PROVE  Typed(Sent(b))
<1> DEFINE c == [b EXCEPT !.pc = "loop", !.tx = @ + 1, !.transmitting = TRUE,
                          !.processing_response = FALSE]
<1>1. b.tx + 1 \in 0 .. TxSize
  BY Sizes DEF Typed, Badges
<1>2. Typed(c)
  BY <1>1 DEF Typed, Badges, Steps
<1>3. b.response.success \in ResponseHandlers \cup {NoHandler}
  BY HandlersTyped DEF Typed, Badges, ResponseEvents
<1>4. Sent(b) = IF b.response.success = NoHandler THEN c ELSE Put(c, b.response.success)
  BY DEF Sent
<1> HIDE DEF c
<1> QED BY <1>2, <1>3, <1>4, PutTyped, HandlersTyped

LEMMA NoMemTyped ==
  ASSUME NEW b, Typed(b)
  PROVE  Typed(NoMem(b))
<1>1. Typed([b EXCEPT !.pc = "loop"])
  BY DEF Typed, Badges, Steps
<1> QED BY <1>1, PutTyped, HandlersTyped DEF NoMem

(* send_response and its four outcomes. *)
Retried(b) == [b EXCEPT !.response.retries = @ + 1]

LEMMA SendResponseCases ==
  ASSUME NEW b, Typed(b), NEW waiting
  PROVE  \/ SendResponse(b, waiting) = FinishError(b)
         \/ /\ b.response.retries <= MaxRetries
            /\ \/ SendResponse(b, waiting) = FinishError(Retried(b))
               \/ b.tx < TxSize /\ SendResponse(b, waiting) = Sent(Retried(b))
               \/ SendResponse(b, waiting) = [Retried(b) EXCEPT !.pc = waiting]
<1>1. b.response.retries \in Nat
  BY Sizes DEF Typed, Badges, ResponseEvents
<1>2. b.response.retries > MaxRetries \/ b.response.retries <= MaxRetries
  BY <1>1, Sizes
<1> QED BY <1>2 DEF SendResponse, Retried

LEMMA RetriedTyped ==
  ASSUME NEW b, Typed(b), b.response.retries <= MaxRetries
  PROVE  /\ Typed(Retried(b))
         /\ Retried(b).response.success = b.response.success
         /\ Retried(b).response.which = b.response.which
         /\ Retried(b).tx = b.tx
<1> DEFINE e == [b.response EXCEPT !.retries = @ + 1]
<1>1. e \in ResponseEvents /\ e.success = b.response.success /\ e.which = b.response.which
  <2>1. b.response \in ResponseEvents
    BY DEF Typed, Badges
  <2>2. b.response.retries + 1 \in 0 .. MaxRetries + 1
    BY <2>1, Sizes DEF ResponseEvents
  <2> QED BY <2>1, <2>2 DEF ResponseEvents
<1> HIDE DEF e
<1>2. Retried(b) = [b EXCEPT !.response = e]
  BY DEF Retried, e
<1> QED BY <1>1, <1>2 DEF Typed, Badges

LEMMA SendResponseTyped ==
  ASSUME NEW b, Typed(b), NEW waiting \in {"transmit", "stream_transmit"}
  PROVE  Typed(SendResponse(b, waiting))
<1>1. CASE SendResponse(b, waiting) = FinishError(b)
  BY <1>1, FinishErrorTyped
<1>2. CASE b.response.retries <= MaxRetries
  <2>1. Typed(Retried(b)) /\ Retried(b).tx = b.tx
    BY <1>2, RetriedTyped
  <2>2. Typed(FinishError(Retried(b)))
    BY <2>1, FinishErrorTyped
  <2>3. b.tx < TxSize => Typed(Sent(Retried(b)))
    BY <2>1, SentTyped
  <2>4. Typed([Retried(b) EXCEPT !.pc = waiting])
    BY <2>1 DEF Typed, Badges, Steps
  <2> QED BY <1>1, <2>2, <2>3, <2>4, SendResponseCases
<1> QED BY <1>1, <1>2, SendResponseCases

LEMMA StreamTailTyped ==
  ASSUME NEW b, Typed(b), NEW cfg \in BOOLEAN
  PROVE  Typed(StreamTail(b, cfg))
<1> DEFINE stopped == [b EXCEPT !.streaming = @ /\ b.streaming_started]
<1>1. Typed(stopped)
  BY DEF Typed, Badges
<1>2. Typed([stopped EXCEPT !.streaming_started = FALSE])
  BY <1>1 DEF Typed, Badges
<1> QED BY <1>1, <1>2, PutTyped, HandlersTyped DEF StreamTail

LEMMA FindTyped ==
  ASSUME NEW b, Typed(b), NEW k \in Kinds, NEW o, o[2] \in 0 .. MaxChunks
  PROVE  Typed(Find(b, k, o)) /\ Find(b, k, o).pc = b.pc
<1> DEFINE i == IF o[1] = "ok" THEN o[2] ELSE NoIterator
<1>1. i \in NoIterator .. MaxChunks
  BY Sizes DEF NoIterator
<1> HIDE DEF i
<1>2. [b.iterators EXCEPT ![k] = i] \in Iterators
  BY <1>1 DEF Typed, Badges, Iterators
<1>3. Find(b, k, o) = [b EXCEPT !.iterators = [b.iterators EXCEPT ![k] = i]]
  BY DEF Find, i
<1> QED BY <1>2, <1>3 DEF Typed, Badges

LEMMA StartStreamTyped ==
  ASSUME NEW b, Typed(b)
  PROVE  Typed(StartStream(b))
<1> DEFINE c == [b EXCEPT !.streaming = TRUE]
<1>1. Typed(c) /\ Typed([c EXCEPT !.streaming_started = TRUE])
  BY DEF Typed, Badges
<1> QED BY <1>1, PutTyped, HandlersTyped DEF StartStream

(* What a request handler can do, request type by request type. *)
HandleData(b, k, o, req) ==
  \/ o[1] # "busy" /\ Handle(b, req, o) = FinishAndReschedule(Put(Find(b, k, o), DataResponse(k)))
  \/ o[1] = "busy" /\ Handle(b, req, o) = Put(Find(b, k, o), RequestHandlerFor(req))

HandleOther(b, req, o) ==
  \/ Handle(b, req, o) = Put(b, RequestHandlerFor(req))
  \/ Handle(b, req, o) = FinishError(b)
  \/ Handle(b, req, o) = Put(b, Status)
  \/ Handle(b, req, o) = Put(b, Start)
  \/ Handle(b, req, o) = FinishAndReschedule(StartStream(b))
  \/ Handle(b, req, o) = FinishAndReschedule([b EXCEPT !.streaming = FALSE])
  \/ Handle(b, req, o) = FinishAndReschedule(Put(b, Test))
  \/ Handle(b, req, o) = FinishAndReschedule(b)
  \/ Handle(b, req, o) = InitBadge

LEMMA OutcomesTyped ==
  ASSUME NEW req \in RequestTypes, NEW o \in Outcomes(req)
  PROVE  o[2] \in 0 .. MaxChunks
<1>1. 0 \in 0 .. MaxChunks
  BY Sizes
<1>2. CASE req[1] = "data"
  BY <1>1, <1>2 DEF Outcomes
<1>3. CASE req[1] = "status"
  BY <1>1, <1>3 DEF Outcomes
<1>4. CASE req[1] \in {"start", "start_stream"}
  BY <1>1, <1>4 DEF Outcomes
<1>5. CASE req[1] \in {"rejected", "undecodable"}
  BY <1>1, <1>5 DEF Outcomes
<1>6. CASE req[1] \notin {"data", "status", "start", "start_stream", "rejected", "undecodable"}
  BY <1>1, <1>6 DEF Outcomes
<1> QED BY <1>2, <1>3, <1>4, <1>5, <1>6

LEMMA HandleCases ==
  ASSUME NEW b, NEW req \in RequestTypes, NEW o \in Outcomes(req)
  PROVE  (req[2] \in Kinds /\ HandleData(b, req[2], o, req)) \/ HandleOther(b, req, o)
<1>1. \/ req[1] = "data" /\ req[2] \in Kinds
      \/ req[1] \in {"status", "start", "stop", "start_stream", "stop_stream", "test",
                     "restart", "rejected", "undecodable"}
  BY DEF RequestTypes
<1>2. CASE req[1] = "data" /\ req[2] \in Kinds
  <2>1. o[1] \in {"ok", "empty", "busy"}
    BY <1>2 DEF Outcomes
  <2>2. CASE o[1] = "busy"
    BY <1>2, <2>2 DEF Handle, HandleData
  <2>3. CASE o[1] \in {"ok", "empty"}
    BY <1>2, <2>3 DEF Handle, HandleData
  <2> QED BY <2>1, <2>2, <2>3
<1>3. CASE req[1] = "status"
  <2>1. o[1] \in {"ok", "busy", "error"}
    BY <1>3 DEF Outcomes
  <2> QED BY <1>3, <2>1 DEF Handle, HandleOther
<1>4. CASE req[1] \in {"start", "start_stream"}
  <2>1. o[1] \in {"ok", "busy"}
    BY <1>4 DEF Outcomes
  <2>2. CASE o[1] = "busy"
    BY <1>4, <2>2 DEF Handle, HandleOther
  <2>3. CASE o[1] = "ok" /\ req[1] = "start"
    BY <2>3 DEF Handle, HandleOther
  <2>4. CASE o[1] = "ok" /\ req[1] = "start_stream"
    BY <2>4 DEF Handle, HandleOther
  <2> QED BY <1>4, <2>1, <2>2, <2>3, <2>4
<1>5. CASE req[1] \in {"stop", "stop_stream", "test", "restart"}
  <2>1. o[1] = "ok"
    BY <1>5 DEF Outcomes
  <2>2. CASE req[1] \in {"stop", "stop_stream"}
    BY <2>1, <2>2 DEF Handle, HandleOther
  <2>3. CASE req[1] = "test"
    BY <2>1, <2>3 DEF Handle, HandleOther
  <2>4. CASE req[1] = "restart"
    BY <2>1, <2>4 DEF Handle, HandleOther
  <2> QED BY <1>5, <2>2, <2>3, <2>4
<1>6. CASE req[1] = "rejected"
  <2>1. o[1] = "busy"
    BY <1>6 DEF Outcomes
  <2> QED BY <1>6, <2>1 DEF Handle, HandleOther
<1>7. CASE req[1] = "undecodable"
  <2>1. o[1] = "error"
    BY <1>7 DEF Outcomes
  <2> QED BY <1>7, <2>1 DEF Handle, HandleOther
<1> QED BY <1>1, <1>2, <1>3, <1>4, <1>5, <1>6, <1>7

LEMMA HandleTyped ==
  ASSUME NEW b, Typed(b), NEW req \in RequestTypes, NEW o \in Outcomes(req)
  PROVE  Typed(Handle(b, req, o))
<1>1. CASE req[2] \in Kinds /\ HandleData(b, req[2], o, req)
  BY <1>1, FindTyped, OutcomesTyped, PutTyped, FinishAndRescheduleTyped, HandlersTyped
     DEF HandleData
<1>2. CASE HandleOther(b, req, o)
  <2>1. Typed([b EXCEPT !.streaming = FALSE])
    BY DEF Typed, Badges
  <2> QED BY <1>2, <2>1, PutTyped, FinishErrorTyped, FinishAndRescheduleTyped,
             StartStreamTyped, InitTyped, HandlersTyped DEF HandleOther
<1> QED BY <1>1, <1>2, HandleCases

LEMMA PoppedTyped ==
  ASSUME Typed(badge), NEW h, Runs(h)
  PROVE  Typed(Popped)
<1>1. /\ Tail(badge.sched) \in Seq(Handlers)
      /\ Len(Tail(badge.sched)) = Len(badge.sched) - 1
      /\ Len(badge.sched) \in Nat
  BY DEF Typed, Badges, Runs
<1>2. Popped \in Badges
  BY <1>1 DEF Popped, Typed, Badges
<1>3. /\ Popped.sched = Tail(badge.sched)
      /\ Popped.notifications = badge.notifications /\ Popped.rx = badge.rx
  BY DEF Popped, Typed, Badges
<1> QED BY <1>1, <1>2, <1>3, Sizes DEF Typed

LEMMA ConsumedTyped ==
  ASSUME NEW ns \in Seq(Notes), Len(ns) <= NotificationSize
  PROVE  Consumed(ns) \in Seq(Notes) /\ Len(Consumed(ns)) <= NotificationSize
<1>1. NoNotifications \in Seq(Notes) /\ Len(NoNotifications) = 1
  BY DEF NoNotifications, Notes
<1>2. CASE ns = <<>>
  <2>1. Consumed(ns) = NoNotifications
    BY <1>2 DEF Consumed
  <2> QED BY <1>1, <2>1, Sizes
<1>3. CASE ns # <<>>
  <2>1. Len(ns) \in Nat /\ Len(ns) >= 1 /\ ns[1] \in Notes /\ ns[1].len \in Nat
    <3>1. Len(ns) \in Nat /\ Len(ns) >= 1 /\ ns[1] \in Notes
      BY <1>3
    <3> QED BY <3>1 DEF Notes
  <2>2. Tail(ns) \in Seq(Notes) /\ Len(Tail(ns)) = Len(ns) - 1
    BY <1>3
  <2>3. CASE ns[1].len = 2
    BY <1>3, <2>1, <2>2, <2>3, Sizes DEF Consumed
  <2>4. CASE ns[1].len > 2
    <3>1. [ns[1] EXCEPT !.len = @ - 2] \in Notes
      BY <2>1, <2>4 DEF Notes
    <3>2. Consumed(ns) = [ns EXCEPT ![1] = [ns[1] EXCEPT !.len = @ - 2]]
      BY <1>3, <2>1, <2>4 DEF Consumed
    <3> QED BY <2>1, <3>1, <3>2
  <2>5. CASE ns[1].len = 1 /\ Len(ns) >= 2
    <3>1. ns[2] \in Notes /\ ns[2].len \in Nat /\ Tail(ns)[1] = ns[2]
      <4>1. ns[2] \in Notes /\ Tail(ns)[1] = ns[2]
        BY <2>1, <2>5
      <4> QED BY <4>1 DEF Notes
    <3>2. CASE ns[2].len = 1
      <4> DEFINE t == Tail(ns)
      <4>1. t \in Seq(Notes) /\ Len(t) = Len(ns) - 1 /\ Len(t) >= 1
        BY <2>1, <2>2, <2>5
      <4> HIDE DEF t
      <4>2. Tail(t) \in Seq(Notes) /\ Len(Tail(t)) = Len(t) - 1
        BY <4>1
      <4>3. Consumed(ns) = Tail(t)
        BY <1>3, <2>1, <2>5, <3>2 DEF Consumed, t
      <4> QED BY <2>1, <4>1, <4>2, <4>3, Sizes
    <3>3. CASE ns[2].len > 1
      <4> DEFINE t == Tail(ns)
      <4>1. t \in Seq(Notes) /\ Len(t) = Len(ns) - 1 /\ t[1] = ns[2] /\ 1 \in 1 .. Len(t)
        BY <2>1, <2>2, <2>5, <3>1
      <4>2. [t[1] EXCEPT !.len = @ - 1] \in Notes
        BY <3>1, <3>3, <4>1 DEF Notes
      <4>3. Consumed(ns) = [t EXCEPT ![1] = [t[1] EXCEPT !.len = @ - 1]]
        BY <1>3, <2>1, <2>5, <3>3 DEF Consumed
      <4> HIDE DEF t
      <4> QED BY <2>1, <4>1, <4>2, <4>3, Sizes
    <3>4. CASE ns[2].len = 0
      <4>1. Consumed(ns) = NoNotifications
        BY <2>1, <2>5, <3>4 DEF Consumed
      <4> QED BY <1>1, <4>1, Sizes
    <3> QED BY <3>1, <3>2, <3>3, <3>4
  <2>6. CASE ns[1].len = 0 \/ (ns[1].len = 1 /\ Len(ns) < 2)
    <3>1. Consumed(ns) = NoNotifications
      BY <2>1, <2>6 DEF Consumed
    <3> QED BY <1>1, <3>1, Sizes
  <2> QED BY <2>1, <2>3, <2>4, <2>5, <2>6
<1> QED BY <1>2, <1>3

(* The steps of the main loop. *)
LEMMA ProcessTyped ==
  ASSUME TInv, ProcessReceiveNotification
  PROVE  TInv'
<1> DEFINE b == [Popped EXCEPT !.processing_receive_notification = TRUE]
<1>1. Typed(Popped)
  BY PoppedTyped DEF ProcessReceiveNotification, TInv
<1>2. Typed(b)
  BY <1>1 DEF Typed, Badges
<1>3. CASE badge.processing_receive_notification
  BY <1>1, <1>3, PutTyped, HandlersTyped DEF ProcessReceiveNotification, TInv, ClientTyped
<1>4. CASE ~badge.processing_receive_notification /\ badge.notifications = <<>>
  <2>1. Typed([b EXCEPT !.pc = "flush"])
    BY <1>2 DEF Typed, Badges, Steps
  <2>2. badge' = [b EXCEPT !.pc = "flush"] /\ client' = client
    BY <1>4 DEF ProcessReceiveNotification
  <2> HIDE DEF b
  <2> QED BY <2>1, <2>2 DEF TInv, ClientTyped
<1>5. CASE /\ ~badge.processing_receive_notification
           /\ badge.notifications # <<>> /\ ~badge.connected
  <2>1. badge' = FinishError(b) /\ client' = client
    BY <1>5 DEF ProcessReceiveNotification
  <2> HIDE DEF b
  <2> QED BY <1>2, <2>1, FinishErrorTyped DEF TInv, ClientTyped
<1>6. CASE /\ ~badge.processing_receive_notification
           /\ badge.notifications # <<>> /\ badge.connected
  <2>1. badge.notifications[1].timepoint \in Nat
    <3>1. badge.notifications[1] \in Notes
      BY <1>6 DEF TInv, Typed, Badges
    <3> QED BY <3>1 DEF Notes
  <2>2. badge' = [b EXCEPT !.pc = "header",
                           !.response_timestamp = badge.notifications[1].timepoint]
        /\ client' = client
    BY <1>6 DEF ProcessReceiveNotification
  <2> HIDE DEF b
  <2>3. Typed(badge')
    BY <1>2, <2>1, <2>2 DEF Typed, Badges, Steps
  <2> QED BY <2>2, <2>3 DEF TInv, ClientTyped
<1> QED BY <1>3, <1>4, <1>5, <1>6

LEMMA ReadBodyCases ==
  ASSUME TInv, NEW o, ReadBody(o)
  PROVE  \E req, b :
           /\ req \in RequestTypes /\ Typed(b) /\ b.pc = "loop" /\ o \in Outcomes(req)
           /\ b.sched = badge.sched /\ b.rx = Tail(badge.rx)
           /\ b.processing_response = badge.processing_response
           /\ b.response = badge.response
           /\ b.processing_receive_notification = badge.processing_receive_notification
           /\ b.streaming_started = badge.streaming_started
           /\ b.tx = badge.tx /\ b.transmitting = badge.transmitting
           /\ b.iterators = badge.iterators
           /\ \/ badge' = FinishError(b)
              \/ /\ badge' = Handle(b, req, o)
                 /\ b.notifications # <<>> => badge.notifications # <<>>
<1> DEFINE cell == Head(badge.rx)
           e == [req |-> cell.req, ticks |-> badge.response_timestamp,
                 number |-> cell.number]
           b == [badge EXCEPT !.pc = "loop", !.rx = Tail(@),
                              !.notifications = Consumed(@), !.request = e]
           c == [b EXCEPT !.request = badge.request]
<1>1. /\ cell \in Cells /\ Tail(badge.rx) \in Seq(Cells)
      /\ Len(Tail(badge.rx)) <= RxSize
  BY Sizes DEF ReadBody, TInv, Typed, Badges
<1>2. /\ Consumed(badge.notifications) \in Seq(Notes)
      /\ Len(Consumed(badge.notifications)) <= NotificationSize
  BY ConsumedTyped DEF TInv, Typed, Badges
<1>3. cell.req \in RequestTypes /\ e \in RequestEvents
  BY <1>1 DEF Cells, RequestEvents, TInv, Typed, Badges
<1>4. badge \in Badges /\ badge.request \in RequestEvents
  BY DEF TInv, Typed, Badges
<1>5. \/ badge' = FinishError(c)
      \/ /\ badge' = Handle(b, cell.req, o)
         /\ Consumed(badge.notifications) # NoNotifications
  BY DEF ReadBody
<1>6. o \in Outcomes(cell.req)
  BY DEF ReadBody
<1> HIDE DEF cell, e
<1>7. b \in Badges /\ b.notifications = Consumed(badge.notifications)
      /\ b.rx = Tail(badge.rx) /\ b.sched = badge.sched
  BY <1>1, <1>2, <1>3, <1>4 DEF Badges, Steps
<1>8. Typed(b)
  BY <1>1, <1>2, <1>7 DEF Typed, TInv
<1>9. Typed(c)
  BY <1>4, <1>8 DEF Typed, Badges
<1>10. CASE badge' = FinishError(c)
  <2>1. /\ c.pc = "loop" /\ c.sched = badge.sched /\ c.rx = Tail(badge.rx)
        /\ c.processing_response = badge.processing_response
        /\ c.response = badge.response
        /\ c.processing_receive_notification = badge.processing_receive_notification
        /\ c.streaming_started = badge.streaming_started
        /\ c.tx = badge.tx /\ c.transmitting = badge.transmitting
        /\ c.iterators = badge.iterators
    BY <1>4 DEF Badges
  <2> HIDE DEF b, c
  <2> QED BY <1>3, <1>6, <1>9, <1>10, <2>1
<1>11. CASE badge' = Handle(b, cell.req, o) /\ Consumed(badge.notifications) # NoNotifications
  <2>1. /\ b.pc = "loop" /\ b.sched = badge.sched /\ b.rx = Tail(badge.rx)
        /\ b.processing_response = badge.processing_response
        /\ b.response = badge.response
        /\ b.processing_receive_notification = badge.processing_receive_notification
        /\ b.streaming_started = badge.streaming_started
        /\ b.tx = badge.tx /\ b.transmitting = badge.transmitting
        /\ b.iterators = badge.iterators
    BY <1>4 DEF Badges
  <2>2. badge.notifications # <<>>
    BY <1>11 DEF Consumed
  <2> HIDE DEF b, c
  <2> QED BY <1>3, <1>6, <1>8, <1>11, <2>1, <2>2
<1> QED BY <1>5, <1>10, <1>11

LEMMA ReceivedTyped ==
  ASSUME TInv, NEW cells \in Seq(Cells), client'.requests \in Nat, OnReceive(cells)
  PROVE  Typed(badge')
<1> DEFINE room == RxSize - Len(badge.rx)
           n == IF Len(cells) <= room THEN Len(cells) ELSE room
           rest == badge.rx \o SubSeq(cells, 1, n)
           b == [badge EXCEPT !.rx = rest]
           note == [len |-> Len(cells), timepoint |-> client'.requests]
           c == [b EXCEPT !.notifications = Append(@, note)]
<1>1. /\ badge.rx \in Seq(Cells) /\ Len(badge.rx) \in Nat /\ Len(badge.rx) <= RxSize
      /\ badge.notifications \in Seq(Notes) /\ badge \in Badges
      /\ Len(badge.notifications) <= NotificationSize /\ Len(badge.sched) <= SchedSize
  BY DEF TInv, Typed, Badges
<1>2. rest \in Seq(Cells) /\ Len(rest) <= RxSize
  <2>1. Len(cells) \in Nat
    OBVIOUS
  <2>2. room \in Nat
    BY <1>1, Sizes
  <2>3. n \in Nat /\ n <= Len(cells) /\ n <= RxSize - Len(badge.rx)
    BY <2>1, <2>2
  <2> HIDE DEF n
  <2> DEFINE head == SubSeq(cells, 1, n)
  <2>4. head \in Seq(Cells) /\ Len(head) = n
    BY <2>1, <2>3
  <2> HIDE DEF head
  <2> DEFINE old == badge.rx
  <2>5. old \in Seq(Cells) /\ Len(old) \in Nat
    BY <1>1
  <2>6. n <= RxSize - Len(old) /\ rest = old \o head
    BY <2>3 DEF head
  <2> HIDE DEF old, rest
  <2>7. old \o head \in Seq(Cells) /\ Len(old \o head) = Len(old) + Len(head)
    BY <2>4, <2>5
  <2> QED BY <2>3, <2>4, <2>5, <2>6, <2>7, Sizes
<1>3. note \in Notes
  BY DEF Notes
<1>4. badge' = IF Len(badge.notifications) < NotificationSize THEN Put(c, Process) ELSE b
  BY DEF OnReceive
<1> HIDE DEF rest, note
<1>5. Typed(b)
  BY <1>1, <1>2 DEF Typed, Badges
<1>6. Len(badge.notifications) < NotificationSize => Typed(c)
  <2> SUFFICES ASSUME Len(badge.notifications) < NotificationSize PROVE Typed(c)
    OBVIOUS
  <2>1. /\ Append(badge.notifications, note) \in Seq(Notes)
        /\ Len(Append(badge.notifications, note)) <= NotificationSize
    BY <1>1, <1>3, Sizes
  <2>2. b.notifications = badge.notifications
    BY <1>1 DEF Badges
  <2> HIDE DEF b
  <2> QED BY <1>5, <2>1, <2>2 DEF Typed, Badges
<1> HIDE DEF b, c
<1> QED BY <1>4, <1>5, <1>6, PutTyped, HandlersTyped

LEMMA MainLoopTyped ==
  ASSUME TInv, MainLoop
  PROVE  TInv'
<1> USE DEF TInv
<1>1. CASE ProcessReceiveNotification
  BY <1>1, ProcessTyped
<1>2. CASE FlushNotifications
  <2>1. Typed(badge')
    BY <1>2, EmptyTyped DEF FlushNotifications, Typed, Badges, Steps
  <2> QED BY <1>2, <2>1 DEF FlushNotifications, ClientTyped
<1>3. CASE ReadHeader
  <2> DEFINE b == [badge EXCEPT !.rx = Tail(@)]
  <2>1. Tail(badge.rx) \in Seq(Cells) /\ Len(Tail(badge.rx)) <= RxSize
    BY <1>3, Sizes DEF ReadHeader, Typed, Badges
  <2>2. Typed(b)
    BY <2>1 DEF Typed, Badges
  <2>3. badge' = [b EXCEPT !.pc = "body"] \/ badge' = FinishError(b)
    BY <1>3 DEF ReadHeader
  <2> HIDE DEF b
  <2>4. Typed([b EXCEPT !.pc = "body"])
    BY <2>2 DEF Typed, Badges, Steps
  <2> QED BY <1>3, <2>2, <2>3, <2>4, FinishErrorTyped DEF ReadHeader, ClientTyped
<1>4. CASE AwaitTimeout
  BY <1>4, FinishErrorTyped DEF AwaitTimeout, ClientTyped
<1>5. ASSUME NEW o \in {"ok", "empty", "busy", "error"} \X (0 .. MaxChunks), ReadBody(o)
      PROVE  TInv'
  <2>1. Typed(badge')
    BY <1>5, ReadBodyCases, HandleTyped, FinishErrorTyped
  <2>2. ClientTyped'
    BY <1>5 DEF ReadBody, ClientTyped
  <2> QED BY <2>1, <2>2
<1>6. ASSUME NEW o, NEW req \in RequestTypes, RetryRequest(req, o)
      PROVE  TInv'
  <2>1. Typed(Popped)
    BY <1>6, PoppedTyped DEF RetryRequest
  <2> QED BY <1>6, <2>1, HandleTyped DEF RetryRequest, ClientTyped
<1>7. ASSUME NEW h \in {Status, Start}, StatusResponse(h)
      PROVE  TInv'
  <2>1. Typed(Popped)
    BY <1>7, PoppedTyped DEF StatusResponse
  <2> DEFINE b == FinishAndReschedule(Respond(Popped, h, NoHandler))
  <2>2. Typed(b)
    BY <2>1, RespondTyped, FinishAndRescheduleTyped, HandlersTyped
  <2>3. badge' = Put(Popped, h) \/ badge' = SendResponse(b, "transmit")
    BY <1>7 DEF StatusResponse
  <2> HIDE DEF b
  <2> QED BY <1>7, <2>1, <2>2, <2>3, PutTyped, HandlersTyped, SendResponseTyped
          DEF StatusResponse, ClientTyped
<1>8. CASE TestResponse
  <2>1. Typed(Popped)
    BY <1>8, PoppedTyped DEF TestResponse
  <2> DEFINE b == Respond(Popped, Test, NoHandler)
  <2>2. Typed(b)
    BY <2>1, RespondTyped, HandlersTyped
  <2>3. badge' = Put(Popped, Test) \/ badge' = SendResponse(b, "transmit")
    BY <1>8 DEF TestResponse
  <2> HIDE DEF b
  <2> QED BY <1>8, <2>1, <2>2, <2>3, PutTyped, HandlersTyped, SendResponseTyped
          DEF TestResponse, ClientTyped
<1>9. ASSUME NEW k \in Kinds, NEW busy \in BOOLEAN, DataResponseHandler(k, busy)
      PROVE  TInv'
  <2> DEFINE left == badge.iterators[k]
             success == IF left > 0 THEN DataResponse(k) ELSE NoHandler
             b == Respond(Popped, DataResponse(k), success)
             next == IF left > 0 THEN left - 1 ELSE NoIterator
  <2>1. Typed(Popped)
    BY <1>9, PoppedTyped DEF DataResponseHandler
  <2>2. success \in Followers
    BY HandlersTyped
  <2>3. next \in NoIterator .. MaxChunks /\ NoIterator \in NoIterator .. MaxChunks
    BY Sizes DEF Typed, Badges, Iterators, NoIterator
  <2>4. \/ badge' = Put(Popped, DataResponse(k))
        \/ badge' = Put([b EXCEPT !.iterators[k] = NoIterator], DataResponse(k))
        \/ badge' = SendResponse([b EXCEPT !.iterators[k] = next], "transmit")
    BY <1>9 DEF DataResponseHandler
  <2> HIDE DEF success, next
  <2>5. Typed(b)
    BY <2>1, <2>2, RespondTyped, HandlersTyped
  <2> HIDE DEF b
  <2>6. \A i \in NoIterator .. MaxChunks : Typed([b EXCEPT !.iterators[k] = i])
    <3> SUFFICES ASSUME NEW i \in NoIterator .. MaxChunks
                 PROVE  Typed([b EXCEPT !.iterators[k] = i])
      OBVIOUS
    <3>1. [b.iterators EXCEPT ![k] = i] \in Iterators
      BY <2>5 DEF Typed, Badges, Iterators
    <3>2. [b EXCEPT !.iterators[k] = i] = [b EXCEPT !.iterators = [b.iterators EXCEPT ![k] = i]]
      OBVIOUS
    <3> QED BY <2>5, <3>1, <3>2 DEF Typed, Badges
  <2>7. Typed(badge')
    BY <2>1, <2>3, <2>4, <2>6, PutTyped, SendResponseTyped, HandlersTyped
  <2> QED BY <1>9, <2>7 DEF DataResponseHandler, ClientTyped
<1>10. ASSUME NEW some \in BOOLEAN, StreamResponse(some)
       PROVE  TInv'
  <2> DEFINE b == Respond(Popped, Stream, NoHandler)
             c == SendResponse(b, "stream_transmit")
             d == [b EXCEPT !.processing_response = FALSE]
  <2>1. Typed(Popped)
    BY <1>10, PoppedTyped DEF StreamResponse
  <2>2. Typed(b)
    BY <2>1, RespondTyped, HandlersTyped
  <2>3. \/ badge' = Put(Popped, Stream)
        \/ badge' = c \/ badge' = StreamTail(c, TRUE)
        \/ badge' = StreamTail(d, badge.streaming)
    BY <1>10 DEF StreamResponse
  <2>4. badge.streaming \in BOOLEAN
    BY DEF Typed, Badges
  <2> HIDE DEF b
  <2>5. Typed(d)
    BY <2>2 DEF Typed, Badges
  <2>6. Typed(c)
    BY <2>2, SendResponseTyped
  <2> HIDE DEF c, d
  <2>7. Typed(badge')
    BY <2>1, <2>3, <2>4, <2>5, <2>6, PutTyped, StreamTailTyped, HandlersTyped
  <2> QED BY <1>10, <2>7 DEF StreamResponse, ClientTyped
<1>11. CASE RetrySend
  BY <1>11, PoppedTyped, SendResponseTyped DEF RetrySend, ClientTyped
<1>12. CASE TransmitQueued
  <2>1. badge.tx < TxSize => Typed(Sent(badge))
    BY SentTyped
  <2>2. Typed(NoMem(badge))
    BY NoMemTyped
  <2>3. \E b : Typed(b) /\ (badge' = b \/ badge' = StreamTail(b, TRUE))
    BY <1>12, <2>1, <2>2 DEF TransmitQueued
  <2> QED BY <1>12, <2>3, StreamTailTyped DEF TransmitQueued, ClientTyped
<1> QED BY <1>1, <1>2, <1>3, <1>4, <1>5, <1>6, <1>7, <1>8, <1>9, <1>10, <1>11, <1>12
        DEF MainLoop

LEMMA InterruptTyped ==
  ASSUME TInv, Interrupt
  PROVE  TInv'
<1> USE DEF TInv
<1>1. ASSUME NEW req \in Requests, NEW whole \in BOOLEAN, SendRequest(req, whole)
      PROVE  TInv'
  <2> DEFINE n == client.requests + 1
             cells == <<Cell("header", req, n)>> \o
                        (IF whole THEN <<Cell("body", req, n)>> ELSE <<>>)
  <2>1. req \in RequestTypes /\ n \in Nat
    BY RequestsAssumption DEF ClientTyped
  <2>2. ClientTyped' /\ client'.requests \in Nat
    BY <1>1, <2>1 DEF SendRequest, ClientTyped
  <2>3. OnReceive(cells)
    BY <1>1 DEF SendRequest
  <2>4. cells \in Seq(Cells)
    <3> HIDE DEF n
    <3>1. Cell("header", req, n) \in Cells /\ Cell("body", req, n) \in Cells
      BY <2>1 DEF Cell, Cells
    <3> QED BY <3>1
  <2> HIDE DEF cells
  <2> QED BY <2>2, <2>3, <2>4, ReceivedTyped
<1>2. CASE SendRest
  <2> DEFINE cells == <<Cell("body", client.half, client.requests)>>
  <2>1. ClientTyped' /\ client'.requests \in Nat
    BY <1>2 DEF SendRest, ClientTyped
  <2>2. client.half \in RequestTypes /\ client.requests \in Nat
    BY <1>2 DEF SendRest, ClientTyped
  <2>3. cells \in Seq(Cells)
    BY <2>2 DEF Cell, Cells
  <2>4. OnReceive(cells)
    BY <1>2 DEF SendRest
  <2> HIDE DEF cells
  <2> QED BY <2>1, <2>3, <2>4, ReceivedTyped
<1>3. CASE TransmitTick
  <2>1. badge.tx # 0 => badge.tx - 1 \in 0 .. TxSize
    BY Sizes DEF Typed, Badges
  <2>2. Typed(badge')
    BY <1>3, <2>1 DEF TransmitTick, Typed, Badges
  <2> QED BY <1>3, <2>2 DEF TransmitTick, ClientTyped
<1>4. CASE OnConnect
  <2>1. Typed(SenderReset(badge))
    BY ResetTyped
  <2>2. Typed([SenderReset(badge) EXCEPT !.connected = TRUE])
    BY <2>1 DEF Typed, Badges
  <2>3. Typed(badge')
    BY <1>4, <2>2 DEF OnConnect
  <2>4. ClientTyped'
    <3>1. client.connections + 1 \in Nat
      BY DEF ClientTyped
    <3> QED BY <1>4, <3>1 DEF OnConnect, ClientTyped
  <2> QED BY <2>3, <2>4
<1>5. CASE OnDisconnect
  BY <1>5, ResetTyped DEF OnDisconnect, ClientTyped
<1>6. CASE DisconnectTimeout
  BY <1>6, ResetTyped DEF DisconnectTimeout, ClientTyped
<1>7. CASE SamplingTimeout
  <2>1. Typed(badge')
    BY <1>7 DEF SamplingTimeout, Typed, Badges
  <2> QED BY <1>7, <2>1 DEF SamplingTimeout, ClientTyped
<1> QED BY <1>1, <1>2, <1>3, <1>4, <1>5, <1>6, <1>7 DEF Interrupt

LEMMA TypeInit == Init => TInv
<1> SUFFICES ASSUME Init PROVE TInv
  OBVIOUS
<1>1. Typed(badge)
  BY InitTyped DEF Init
<1>2. ClientTyped
  BY DEF Init, ClientTyped
<1> QED BY <1>1, <1>2 DEF TInv

LEMMA TypeStep == TInv /\ [Next]_vars => TInv'
<1> SUFFICES ASSUME TInv, [Next]_vars PROVE TInv'
  OBVIOUS
<1>1. CASE UNCHANGED vars
  <2>1. badge' = badge /\ client' = client
    BY <1>1 DEF vars
  <2> QED BY <2>1 DEF TInv, ClientTyped, Typed
<1> QED BY <1>1, MainLoopTyped, InterruptTyped DEF Next

(* Every queue and FIFO stays within the memory it has, and the globals    *)
(* keep their types, whatever the client sends and however often the link  *)
(* breaks (app_sched_event_put, receive_notification_handler,              *)
(* on_receive_callback, sender_transmit).                                  *)
THEOREM TypeCorrect == Spec => []TypeOK
<1>1. TInv => TypeOK
  <2> SUFFICES ASSUME TInv PROVE TypeOK
    OBVIOUS
  <2>1. badge \in Badges /\ badge.response \in ResponseEvents
    BY DEF TInv, Typed, Badges
  <2>2. badge.response.retries \in 0 .. MaxRetries + 1
        /\ badge.response.success \in ResponseHandlers \cup {NoHandler}
    BY <2>1, HandlersTyped DEF ResponseEvents
  <2> QED BY <2>1, <2>2 DEF TInv, Typed, TypeOK, Badges, Steps, Iterators
<1> QED BY <1>1, TypeInit, TypeStep, PTL DEF Spec
-----------------------------------------------------------------------------
(* Who owns what.  InQueue(b) are the handlers in the queue of b; the six  *)
(* conjuncts of Owned are the parts of NoWedge and IteratorsOwned.         *)

InQueue(b) == {b.sched[i] : i \in 1 .. Len(b.sched)}

ResponseOwned(b) ==
  b.processing_response =>
    Send \in InQueue(b) \/ b.pc \in {"transmit", "stream_transmit"}

RequestOwned(b) ==
  b.processing_receive_notification =>
    \/ \E h \in RequestOwners : h \in InQueue(b)
    \/ b.pc \in {"flush", "header", "body"}

NotificationsOwned(b) ==
  b.notifications # <<>> =>
    Process \in InQueue(b) \/ b.processing_receive_notification

StreamOwned(b) ==
  b.streaming_started => Stream \in InQueue(b) \/ b.pc = "stream_transmit"

TxOwned(b) == b.tx > 0 => b.transmitting

DataOwned(b) ==
  \A k \in Kinds : b.iterators[k] # NoIterator =>
    \/ DataResponse(k) \in InQueue(b)
    \/ b.processing_response /\ b.response.success = DataResponse(k)

(* What holds of a badge whose handler goes on to send a response. *)
Sending(b) == NotificationsOwned(b) /\ TxOwned(b) /\ DataOwned(b)

Owned(b) ==
  ResponseOwned(b) /\ RequestOwned(b) /\ StreamOwned(b) /\ Sending(b)

(* The fields besides the queue. *)
Same(c, b) ==
  /\ c.pc = b.pc /\ c.notifications = b.notifications /\ c.tx = b.tx
  /\ c.transmitting = b.transmitting
  /\ c.processing_receive_notification = b.processing_receive_notification
  /\ c.processing_response = b.processing_response
  /\ c.streaming_started = b.streaming_started
  /\ c.iterators = b.iterators /\ c.response = b.response

LEMMA PutAdds ==
  ASSUME NEW b, Typed(b), NEW h \in Handlers
  PROVE  /\ Typed(Put(b, h)) /\ Same(Put(b, h), b)
         /\ InQueue(b) \subseteq InQueue(Put(b, h))
         /\ Len(b.sched) < SchedSize =>
              h \in InQueue(Put(b, h)) /\ Len(Put(b, h).sched) = Len(b.sched) + 1
<1>1. Typed(Put(b, h))
  BY PutTyped
<1>2. Same(Put(b, h), b)
  BY DEF Same, Put, Typed, Badges
<1> DEFINE s == b.sched
<1>3. s \in Seq(Handlers) /\ Len(s) \in Nat
  BY DEF Typed, Badges
<1>4. CASE Len(b.sched) < SchedSize
  <2>1. Put(b, h).sched = Append(s, h)
    BY <1>4 DEF Put, Typed, Badges
  <2> HIDE DEF s
  <2>2. /\ Len(Append(s, h)) = Len(s) + 1
        /\ \A i \in 1 .. Len(s) : Append(s, h)[i] = s[i]
        /\ Append(s, h)[Len(s) + 1] = h
    BY <1>3
  <2>3. InQueue(b) \subseteq InQueue(Put(b, h)) /\ h \in InQueue(Put(b, h))
    BY <1>3, <2>1, <2>2 DEF InQueue, s
  <2> QED BY <1>1, <1>2, <2>1, <2>2, <2>3 DEF s
<1>5. CASE ~(Len(b.sched) < SchedSize)
  BY <1>1, <1>2, <1>5 DEF Put
<1> QED BY <1>4, <1>5

LEMMA PopRemoves ==
  ASSUME Typed(badge), NEW h, Runs(h)
  PROVE  /\ Typed(Popped) /\ Same(Popped, badge)
         /\ \A x \in InQueue(badge) : x = h \/ x \in InQueue(Popped)
         /\ Len(Popped.sched) = Len(badge.sched) - 1
         /\ Popped.pc = "loop"
<1>1. Typed(Popped)
  BY PoppedTyped
<1>2. Same(Popped, badge) /\ Popped.sched = Tail(badge.sched)
  BY DEF Same, Popped, Typed, Badges
<1> DEFINE s == badge.sched
<1>3. s \in Seq(Handlers) /\ s # <<>> /\ Head(s) = h /\ Len(s) \in Nat
  BY DEF Typed, Badges, Runs
<1> HIDE DEF s
<1>4. /\ Len(Tail(s)) = Len(s) - 1 /\ s[1] = h
      /\ \A i \in 1 .. Len(s) - 1 : Tail(s)[i] = s[i + 1]
  BY <1>3
<1>5. ASSUME NEW x \in InQueue(badge), x # h
      PROVE  x \in InQueue(Popped)
  <2>1. PICK i \in 1 .. Len(s) : x = s[i]
    BY DEF InQueue, s
  <2>2. i # 1 /\ i - 1 \in 1 .. Len(s) - 1 /\ Tail(s)[i - 1] = s[i]
    BY <1>3, <1>4, <1>5, <2>1
  <2> QED BY <1>2, <1>4, <2>1, <2>2 DEF InQueue, s
<1> QED BY <1>1, <1>2, <1>4, <1>5 DEF s, Same, Runs

(* No two kinds of handlers are the same. *)
LEMMA HandlersDiffer ==
  /\ Process \notin {Send, Stream, Status, Start, Test, NoHandler}
  /\ Send \notin {Stream, Status, Start, Test, NoHandler}
  /\ Stream \notin {Status, Start, Test, NoHandler}
  /\ Test \notin {Status, Start}
  /\ \A k : DataResponse(k) \notin {Process, Send, Stream, Status, Start, Test, NoHandler}
  /\ \A j, k : DataResponse(j) = DataResponse(k) => j = k
  /\ \A req : RequestHandlerFor(req) \notin {Process, Send, Stream, Status, Start, Test}
  /\ \A req, k : RequestHandlerFor(req) # DataResponse(k)
BY DEF Process, Send, Stream, Status, Start, Test, NoHandler, None, DataResponse,
       RequestHandlerFor

(* A handler that is put into the queue takes nothing from anybody. *)
LEMMA PutOwned ==
  ASSUME NEW b, Typed(b), NEW h \in Handlers
  PROVE  /\ ResponseOwned(b) => ResponseOwned(Put(b, h))
         /\ RequestOwned(b) => RequestOwned(Put(b, h))
         /\ StreamOwned(b) => StreamOwned(Put(b, h))
         /\ Sending(b) => Sending(Put(b, h))
<1>1. Same(Put(b, h), b) /\ InQueue(b) \subseteq InQueue(Put(b, h))
  BY PutAdds
<1> QED BY <1>1 DEF Same, ResponseOwned, RequestOwned, StreamOwned, Sending,
                    NotificationsOwned, TxOwned, DataOwned

(* After an error nobody owns anything. *)
LEMMA ErrorFields ==
  ASSUME NEW b, Typed(b)
  PROVE  LET c == FinishError(b)
         IN  /\ ~c.processing_response /\ ~c.processing_receive_notification
             /\ ~c.streaming_started /\ c.notifications = <<>>
             /\ c.tx = 0 /\ c.pc = "loop" /\ c.sched = b.sched
             /\ c.response = b.response
             /\ c.iterators = [k \in Kinds |-> NoIterator]
BY DEF FinishError, SenderReset, Typed, Badges

LEMMA ErrorOwned ==
  ASSUME NEW b, Typed(b)
  PROVE  Owned(FinishError(b))
BY ErrorFields DEF Owned, ResponseOwned, RequestOwned, StreamOwned, Sending,
                   NotificationsOwned, TxOwned, DataOwned

LEMMA InitOwned == Owned(InitBadge)
BY DEF InitBadge, Owned, ResponseOwned, RequestOwned, StreamOwned, Sending,
       NotificationsOwned, TxOwned, DataOwned

(* The handler of a request that is finished. *)
LEMMA FinishedOwned ==
  ASSUME NEW b, Typed(b), Len(b.sched) < SchedSize, TxOwned(b), DataOwned(b)
  PROVE  LET c == FinishAndReschedule(b)
         IN  /\ RequestOwned(c) /\ Sending(c)
             /\ ResponseOwned(b) => ResponseOwned(c)
             /\ StreamOwned(b) => StreamOwned(c)
             /\ c.pc = b.pc /\ c.response = b.response
             /\ c.processing_response = b.processing_response
             /\ Len(c.sched) = Len(b.sched) + 1
<1> DEFINE d == [b EXCEPT !.processing_receive_notification = FALSE]
           c == Put(d, Process)
<1>1. /\ Typed(d) /\ d.sched = b.sched /\ ~d.processing_receive_notification
      /\ d.pc = b.pc /\ d.response = b.response
      /\ d.processing_response = b.processing_response
      /\ d.streaming_started = b.streaming_started
      /\ d.tx = b.tx /\ d.transmitting = b.transmitting /\ d.iterators = b.iterators
  BY DEF Typed, Badges
<1>2. c = FinishAndReschedule(b)
  BY DEF FinishAndReschedule
<1> HIDE DEF d
<1>3. /\ Same(c, d) /\ InQueue(d) \subseteq InQueue(c) /\ Process \in InQueue(c)
      /\ Len(c.sched) = Len(d.sched) + 1
  BY <1>1, PutAdds, HandlersTyped
<1>4. InQueue(d) = InQueue(b)
  BY <1>1 DEF InQueue
<1> HIDE DEF c
<1> QED BY <1>1, <1>2, <1>3, <1>4 DEF Same, RequestOwned, Sending, NotificationsOwned, TxOwned,
             DataOwned, ResponseOwned, StreamOwned

(* The response was queued, or given back to be tried again. *)
LEMMA SentOwned ==
  ASSUME NEW b, Typed(b), b.tx < TxSize, Len(b.sched) < SchedSize,
         b.pc \notin {"flush", "header", "body"}, RequestOwned(b), Sending(b)
  PROVE  LET c == Sent(b)
         IN  /\ ResponseOwned(c) /\ RequestOwned(c) /\ Sending(c) /\ c.pc = "loop"
             /\ b.pc # "stream_transmit" /\ StreamOwned(b) => StreamOwned(c)
             /\ Len(c.sched) <= Len(b.sched) + 1
             /\ ~c.processing_response
<1> DEFINE d == [b EXCEPT !.pc = "loop", !.tx = @ + 1, !.transmitting = TRUE,
                          !.processing_response = FALSE]
           h == b.response.success
<1>1. b.tx + 1 \in 0 .. TxSize
  BY Sizes DEF Typed, Badges
<1>2. /\ Typed(d) /\ d.sched = b.sched /\ d.pc = "loop" /\ d.transmitting
      /\ ~d.processing_response /\ d.notifications = b.notifications
      /\ d.processing_receive_notification = b.processing_receive_notification
      /\ d.streaming_started = b.streaming_started /\ d.iterators = b.iterators
  BY <1>1 DEF Typed, Badges, Steps
<1>3. h \in ResponseHandlers \cup {NoHandler}
  BY HandlersTyped DEF Typed, Badges, ResponseEvents
<1>4. Sent(b) = IF h = NoHandler THEN d ELSE Put(d, h)
  BY DEF Sent
<1> HIDE DEF d
<1>5. InQueue(d) = InQueue(b) /\ Len(b.sched) \in Nat
  BY <1>2 DEF InQueue, Typed, Badges
<1>6. ASSUME NEW c, Same(c, d), InQueue(b) \subseteq InQueue(c),
             h = NoHandler \/ h \in InQueue(c)
      PROVE  /\ ResponseOwned(c) /\ RequestOwned(c) /\ Sending(c) /\ c.pc = "loop"
             /\ b.pc # "stream_transmit" /\ StreamOwned(b) => StreamOwned(c)
             /\ ~c.processing_response
  <2>1. c.pc = "loop" /\ ~c.processing_response /\ ResponseOwned(c) /\ TxOwned(c)
    BY <1>2, <1>6 DEF Same, ResponseOwned, TxOwned
  <2>2. RequestOwned(c) /\ NotificationsOwned(c)
    BY <1>2, <1>6 DEF Same, RequestOwned, Sending, NotificationsOwned
  <2>3. b.pc # "stream_transmit" /\ StreamOwned(b) => StreamOwned(c)
    BY <1>2, <1>6 DEF Same, StreamOwned
  <2>4. DataOwned(c)
    <3> SUFFICES ASSUME NEW k \in Kinds, c.iterators[k] # NoIterator
                 PROVE  DataResponse(k) \in InQueue(c)
      BY DEF DataOwned
    <3>1. DataResponse(k) \in InQueue(b) \/ h = DataResponse(k)
      BY <1>2, <1>6 DEF Same, Sending, DataOwned
    <3>2. DataResponse(k) # NoHandler
      BY HandlersDiffer
    <3> QED BY <1>6, <3>1, <3>2
  <2> QED BY <2>1, <2>2, <2>3, <2>4 DEF Sending
<1>7. CASE h = NoHandler
  <2>1. Sent(b) = d /\ Same(d, d) /\ Len(d.sched) <= Len(b.sched) + 1
    BY <1>2, <1>4, <1>5, <1>7 DEF Same
  <2> QED BY <1>5, <1>6, <1>7, <2>1
<1>8. CASE h # NoHandler
  <2>1. h \in Handlers /\ Sent(b) = Put(d, h)
    BY <1>3, <1>4, <1>8, HandlersTyped
  <2> HIDE DEF h
  <2>2. /\ Same(Put(d, h), d) /\ InQueue(d) \subseteq InQueue(Put(d, h))
        /\ h \in InQueue(Put(d, h)) /\ Len(Put(d, h).sched) = Len(d.sched) + 1
    BY <1>2, <2>1, PutAdds
  <2>3. Len(Put(d, h).sched) <= Len(b.sched) + 1
    BY <1>2, <1>5, <2>2
  <2> QED BY <1>5, <1>6, <2>1, <2>2, <2>3
<1> QED BY <1>7, <1>8

LEMMA NoMemOwned ==
  ASSUME NEW b, Typed(b), Len(b.sched) < SchedSize,
         b.pc \notin {"flush", "header", "body"}, RequestOwned(b), Sending(b)
  PROVE  LET c == NoMem(b)
         IN  /\ ResponseOwned(c) /\ RequestOwned(c) /\ Sending(c) /\ c.pc = "loop"
             /\ b.pc # "stream_transmit" /\ StreamOwned(b) => StreamOwned(c)
             /\ Len(c.sched) = Len(b.sched) + 1
<1> DEFINE d == [b EXCEPT !.pc = "loop"]
           c == Put(d, Send)
<1>1. /\ Typed(d) /\ d.sched = b.sched /\ d.pc = "loop"
      /\ d.notifications = b.notifications /\ d.tx = b.tx
      /\ d.transmitting = b.transmitting /\ d.processing_response = b.processing_response
      /\ d.processing_receive_notification = b.processing_receive_notification
      /\ d.streaming_started = b.streaming_started /\ d.iterators = b.iterators
      /\ d.response = b.response
  BY DEF Typed, Badges, Steps
<1>2. c = NoMem(b)
  BY DEF NoMem
<1> HIDE DEF d
<1>3. /\ Same(c, d) /\ InQueue(d) \subseteq InQueue(c) /\ Send \in InQueue(c)
      /\ Len(c.sched) = Len(d.sched) + 1
  BY <1>1, PutAdds, HandlersTyped
<1>4. InQueue(d) = InQueue(b)
  BY <1>1 DEF InQueue
<1> HIDE DEF c
<1> QED BY <1>1, <1>2, <1>3, <1>4
        DEF Same, ResponseOwned, RequestOwned, Sending, NotificationsOwned, TxOwned,
            DataOwned, StreamOwned

(* Counting a retry changes nothing that is owned. *)
LEMMA RetriedOwned ==
  ASSUME NEW b, Typed(b), b.response.retries <= MaxRetries
  PROVE  LET c == Retried(b)
         IN  /\ c.pc = b.pc /\ c.sched = b.sched
             /\ RequestOwned(b) => RequestOwned(c)
             /\ StreamOwned(b) => StreamOwned(c)
             /\ Sending(b) => Sending(c)
<1> DEFINE c == Retried(b)
<1>1. /\ c.pc = b.pc /\ c.sched = b.sched /\ c.notifications = b.notifications
      /\ c.tx = b.tx /\ c.transmitting = b.transmitting
      /\ c.processing_receive_notification = b.processing_receive_notification
      /\ c.processing_response = b.processing_response
      /\ c.streaming_started = b.streaming_started /\ c.iterators = b.iterators
  BY DEF Retried, Typed, Badges
<1>2. c.response.success = b.response.success
  BY RetriedTyped
<1> HIDE DEF c
<1>3. InQueue(c) = InQueue(b)
  BY <1>1 DEF InQueue
<1>4. /\ RequestOwned(b) => RequestOwned(c)
      /\ StreamOwned(b) => StreamOwned(c)
      /\ Sending(b) => Sending(c)
  BY <1>1, <1>2, <1>3
     DEF RequestOwned, StreamOwned, Sending, NotificationsOwned, TxOwned, DataOwned
<1> QED BY <1>1, <1>4 DEF c

LEMMA WaitingOwned ==
  ASSUME NEW b, Typed(b), b.pc = "loop", RequestOwned(b), Sending(b),
         NEW waiting \in {"transmit", "stream_transmit"}
  PROVE  LET c == [b EXCEPT !.pc = waiting]
         IN  /\ c.pc = waiting /\ ResponseOwned(c) /\ RequestOwned(c) /\ Sending(c)
             /\ StreamOwned(b) \/ waiting = "stream_transmit" => StreamOwned(c)
<1> DEFINE c == [b EXCEPT !.pc = waiting]
<1>1. /\ c.pc = waiting /\ c.sched = b.sched /\ c.notifications = b.notifications
      /\ c.tx = b.tx /\ c.transmitting = b.transmitting
      /\ c.processing_receive_notification = b.processing_receive_notification
      /\ c.processing_response = b.processing_response
      /\ c.streaming_started = b.streaming_started /\ c.iterators = b.iterators
      /\ c.response = b.response
  BY DEF Typed, Badges
<1> HIDE DEF c
<1>2. InQueue(c) = InQueue(b)
  BY <1>1 DEF InQueue
<1>3. /\ ResponseOwned(c) /\ RequestOwned(c) /\ Sending(c)
      /\ StreamOwned(b) \/ waiting = "stream_transmit" => StreamOwned(c)
  BY <1>1, <1>2 DEF ResponseOwned, RequestOwned, StreamOwned, Sending, NotificationsOwned,
                    TxOwned, DataOwned
<1> QED BY <1>1, <1>3 DEF c

(* send_response finds or makes an owner for every response, whatever      *)
(* becomes of it.                                                          *)
LEMMA SendOwned ==
  ASSUME NEW b, Typed(b), Len(b.sched) < SchedSize, b.pc = "loop",
         NEW waiting \in {"transmit", "stream_transmit"}, RequestOwned(b), Sending(b)
  PROVE  LET c == SendResponse(b, waiting)
         IN  /\ ResponseOwned(c) /\ RequestOwned(c) /\ Sending(c)
             /\ StreamOwned(b) => StreamOwned(c)
             /\ \/ c.pc = waiting /\ (waiting = "stream_transmit" => StreamOwned(c))
                \/ c.pc = "loop" /\ Len(c.sched) <= Len(b.sched) + 1
<1>1. Len(b.sched) \in Nat
  BY DEF Typed, Badges
<1>2. \A d : Typed(d) /\ d.sched = b.sched =>
        /\ Owned(FinishError(d)) /\ FinishError(d).pc = "loop"
        /\ Len(FinishError(d).sched) <= Len(b.sched) + 1
  BY <1>1, ErrorFields, ErrorOwned
<1>3. CASE SendResponse(b, waiting) = FinishError(b)
  BY <1>2, <1>3 DEF Owned
<1>4. CASE b.response.retries <= MaxRetries
  <2> DEFINE d == Retried(b)
  <2>1. /\ Typed(d) /\ d.tx = b.tx /\ d.pc = "loop" /\ d.sched = b.sched
    BY <1>4, RetriedTyped, RetriedOwned
  <2>2. RequestOwned(d) /\ Sending(d) /\ (StreamOwned(b) => StreamOwned(d))
    BY <1>4, RetriedOwned
  <2> HIDE DEF d
  <2>3. CASE SendResponse(b, waiting) = FinishError(d)
    BY <1>2, <2>1, <2>3 DEF Owned
  <2>4. CASE b.tx < TxSize /\ SendResponse(b, waiting) = Sent(d)
    <3>1. /\ ResponseOwned(Sent(d)) /\ RequestOwned(Sent(d)) /\ Sending(Sent(d))
          /\ Sent(d).pc = "loop" /\ (StreamOwned(d) => StreamOwned(Sent(d)))
          /\ Len(Sent(d).sched) <= Len(d.sched) + 1
      BY <2>1, <2>2, <2>4, SentOwned
    <3> QED BY <2>1, <2>2, <2>4, <3>1
  <2>5. CASE SendResponse(b, waiting) = [d EXCEPT !.pc = waiting]
    BY <2>1, <2>2, <2>5, WaitingOwned
  <2> QED BY <1>3, <1>4, <2>3, <2>4, <2>5, SendResponseCases DEF d
<1> QED BY <1>3, <1>4, SendResponseCases

LEMMA StreamTailOwned ==
  ASSUME NEW b, Typed(b), Len(b.sched) < SchedSize, b.pc = "loop", NEW cfg \in BOOLEAN,
         ResponseOwned(b), RequestOwned(b), Sending(b)
  PROVE  Owned(StreamTail(b, cfg))
<1> DEFINE d == [b EXCEPT !.streaming = @ /\ b.streaming_started]
           e == [d EXCEPT !.streaming_started = FALSE]
<1>1. /\ Typed(d) /\ Same(d, b) /\ d.sched = b.sched
  BY DEF Same, Typed, Badges
<1>2. StreamTail(b, cfg) = IF cfg /\ b.streaming_started THEN Put(d, Stream) ELSE e
  BY DEF StreamTail
<1> HIDE DEF d
<1>3. InQueue(d) = InQueue(b)
  BY <1>1 DEF InQueue
<1>4. CASE cfg /\ b.streaming_started
  <2> DEFINE c == Put(d, Stream)
  <2>1. Same(c, d) /\ InQueue(d) \subseteq InQueue(c) /\ Stream \in InQueue(c)
    BY <1>1, PutAdds, HandlersTyped
  <2> HIDE DEF c
  <2>2. Owned(c)
    BY <1>1, <1>3, <2>1 DEF Same, Owned, ResponseOwned, RequestOwned, StreamOwned, Sending,
                            NotificationsOwned, TxOwned, DataOwned
  <2> QED BY <1>2, <1>4, <2>2 DEF c
<1>5. CASE ~(cfg /\ b.streaming_started)
  <2>1. /\ e.pc = d.pc /\ e.sched = d.sched /\ e.notifications = d.notifications
        /\ e.tx = d.tx /\ e.transmitting = d.transmitting
        /\ e.processing_receive_notification = d.processing_receive_notification
        /\ e.processing_response = d.processing_response
        /\ ~e.streaming_started /\ e.iterators = d.iterators /\ e.response = d.response
    BY <1>1 DEF Typed, Badges
  <2> HIDE DEF e
  <2>2. InQueue(e) = InQueue(b)
    BY <1>3, <2>1 DEF InQueue
  <2>3. Owned(e)
    BY <1>1, <2>1, <2>2 DEF Same, Owned, ResponseOwned, RequestOwned, StreamOwned, Sending,
                            NotificationsOwned, TxOwned, DataOwned
  <2> QED BY <1>2, <1>5, <2>3
<1> QED BY <1>4, <1>5

(* A request that is not finished goes to a handler that owns it. *)
LEMMA PutOwner ==
  ASSUME NEW b, Typed(b), Len(b.sched) < SchedSize, NEW h \in RequestOwners \cap Handlers,
         ResponseOwned(b), StreamOwned(b), Sending(b)
  PROVE  Owned(Put(b, h))
<1>1. h \in InQueue(Put(b, h))
  BY PutAdds
<1>2. RequestOwned(Put(b, h))
  BY <1>1 DEF RequestOwned
<1> QED BY <1>2, PutOwned DEF Owned

LEMMA OwnersAreHandlers ==
  /\ Status \in RequestOwners \cap Handlers /\ Start \in RequestOwners \cap Handlers
  /\ \A req \in RequestTypes : RequestHandlerFor(req) \in RequestOwners \cap Handlers
BY HandlersTyped DEF RequestOwners, RequestHandlers

LEMMA FinishOwned ==
  ASSUME NEW b, Typed(b), Len(b.sched) < SchedSize,
         ResponseOwned(b), StreamOwned(b), TxOwned(b), DataOwned(b)
  PROVE  Owned(FinishAndReschedule(b))
BY FinishedOwned DEF Owned

LEMMA FindFields ==
  ASSUME NEW b, Typed(b), NEW k \in Kinds, NEW o
  PROVE  LET f == Find(b, k, o)
         IN  /\ f.pc = b.pc /\ f.sched = b.sched /\ f.notifications = b.notifications
             /\ f.tx = b.tx /\ f.transmitting = b.transmitting
             /\ f.processing_receive_notification = b.processing_receive_notification
             /\ f.processing_response = b.processing_response
             /\ f.streaming_started = b.streaming_started /\ f.response = b.response
             /\ o[1] # "ok" => f.iterators[k] = NoIterator
             /\ \A j \in Kinds : j # k => f.iterators[j] = b.iterators[j]
<1> DEFINE i == IF o[1] = "ok" THEN o[2] ELSE NoIterator
           it == [b.iterators EXCEPT ![k] = i]
<1>1. Find(b, k, o) = [b EXCEPT !.iterators = it]
  BY DEF Find
<1>2. /\ it[k] = i
      /\ \A j \in Kinds : j # k => it[j] = b.iterators[j]
  BY DEF Typed, Badges, Iterators
<1>3. o[1] # "ok" => i = NoIterator
  OBVIOUS
<1> HIDE DEF it, i
<1> QED BY <1>1, <1>2, <1>3 DEF Typed, Badges

LEMMA HandleDataOwned ==
  ASSUME NEW b, Typed(b), b.pc = "loop", Len(b.sched) + 2 <= SchedSize,
         ResponseOwned(b), StreamOwned(b), Sending(b),
         NEW req \in RequestTypes, NEW o \in Outcomes(req),
         req[2] \in Kinds, HandleData(b, req[2], o, req)
  PROVE  Owned(Handle(b, req, o))
<1> DEFINE k == req[2]
           f == Find(b, k, o)
<1>1. Typed(f)
  BY FindTyped, OutcomesTyped
<1>2. /\ f.pc = b.pc /\ f.sched = b.sched /\ f.notifications = b.notifications
      /\ f.tx = b.tx /\ f.transmitting = b.transmitting
      /\ f.processing_receive_notification = b.processing_receive_notification
      /\ f.processing_response = b.processing_response
      /\ f.streaming_started = b.streaming_started /\ f.response = b.response
      /\ o[1] # "ok" => f.iterators[k] = NoIterator
      /\ \A j \in Kinds : j # k => f.iterators[j] = b.iterators[j]
  BY FindFields
<1>3. \/ o[1] # "busy" /\ Handle(b, req, o) = FinishAndReschedule(Put(f, DataResponse(k)))
      \/ o[1] = "busy" /\ Handle(b, req, o) = Put(f, RequestHandlerFor(req))
  BY DEF HandleData
<1>4. k \in Kinds
  OBVIOUS
<1> HIDE DEF f, k
<1>5. InQueue(f) = InQueue(b) /\ Len(b.sched) \in Nat
  BY <1>2 DEF InQueue, Typed, Badges
<1>6. ResponseOwned(f) /\ StreamOwned(f) /\ TxOwned(f) /\ NotificationsOwned(f)
  BY <1>2, <1>5 DEF ResponseOwned, StreamOwned, TxOwned, NotificationsOwned, Sending
<1>7. CASE Handle(b, req, o) = FinishAndReschedule(Put(f, DataResponse(k)))
  <2> DEFINE c == Put(f, DataResponse(k))
  <2>1. DataResponse(k) \in Handlers
    BY <1>4, HandlersTyped
  <2>2. Len(f.sched) < SchedSize
    BY <1>2, <1>5, Sizes
  <2>3. /\ Typed(c) /\ Same(c, f) /\ InQueue(f) \subseteq InQueue(c)
        /\ DataResponse(k) \in InQueue(c) /\ Len(c.sched) = Len(f.sched) + 1
    BY <1>1, <2>1, <2>2, PutAdds
  <2> HIDE DEF c
  <2>4. Len(c.sched) < SchedSize
    BY <1>2, <1>5, <2>3, Sizes
  <2>5. ResponseOwned(c) /\ StreamOwned(c) /\ TxOwned(c)
    BY <1>6, <2>3 DEF Same, ResponseOwned, StreamOwned, TxOwned
  <2>6. DataOwned(c)
    BY <1>2, <1>5, <2>3 DEF Same, Sending, DataOwned
  <2> QED BY <1>7, <2>3, <2>4, <2>5, <2>6, FinishOwned DEF c
<1>8. CASE o[1] = "busy" /\ Handle(b, req, o) = Put(f, RequestHandlerFor(req))
  <2>1. DataOwned(f)
    BY <1>2, <1>5, <1>8 DEF Sending, DataOwned
  <2>2. Len(f.sched) < SchedSize
    BY <1>2, <1>5, Sizes
  <2> QED BY <1>1, <1>6, <1>8, <2>1, <2>2, PutOwner, OwnersAreHandlers DEF Sending
<1> QED BY <1>3, <1>7, <1>8

LEMMA StartStreamOwned ==
  ASSUME NEW b, Typed(b), Len(b.sched) + 2 <= SchedSize,
         ResponseOwned(b), StreamOwned(b), Sending(b)
  PROVE  LET c == StartStream(b)
         IN  /\ Len(c.sched) < SchedSize
             /\ ResponseOwned(c) /\ StreamOwned(c) /\ TxOwned(c) /\ DataOwned(c)
<1> DEFINE c == [b EXCEPT !.streaming = TRUE]
           d == [c EXCEPT !.streaming_started = TRUE]
<1>1. /\ Typed(c) /\ Same(c, b) /\ c.sched = b.sched
  BY DEF Same, Typed, Badges
<1>2. StartStream(b) = IF c.streaming_started THEN c ELSE Put(d, Stream)
  BY DEF StartStream
<1>3. Len(b.sched) \in Nat /\ Len(b.sched) < SchedSize /\ Len(b.sched) + 1 < SchedSize
  BY Sizes DEF Typed, Badges
<1> HIDE DEF c
<1>4. InQueue(c) = InQueue(b)
  BY <1>1 DEF InQueue
<1>5. CASE c.streaming_started
  <2>1. ResponseOwned(c) /\ StreamOwned(c) /\ TxOwned(c) /\ DataOwned(c)
    BY <1>1, <1>4 DEF Same, ResponseOwned, StreamOwned, Sending, TxOwned, DataOwned
  <2> QED BY <1>1, <1>2, <1>3, <1>5, <2>1
<1>6. CASE ~c.streaming_started
  <2> DEFINE e == Put(d, Stream)
  <2>1. /\ Typed(d) /\ d.pc = c.pc /\ d.sched = c.sched /\ d.tx = c.tx
        /\ d.transmitting = c.transmitting
        /\ d.processing_response = c.processing_response
        /\ d.iterators = c.iterators /\ d.response = c.response
    BY <1>1 DEF Typed, Badges
  <2> HIDE DEF d
  <2>2. Len(d.sched) < SchedSize /\ InQueue(d) = InQueue(b)
    BY <1>1, <1>3, <1>4, <2>1 DEF InQueue
  <2>3. /\ Same(e, d) /\ InQueue(d) \subseteq InQueue(e) /\ Stream \in InQueue(e)
        /\ Len(e.sched) = Len(d.sched) + 1
    BY <2>1, <2>2, PutAdds, HandlersTyped
  <2> HIDE DEF e
  <2>4. ResponseOwned(e) /\ StreamOwned(e) /\ TxOwned(e) /\ DataOwned(e)
    BY <1>1, <2>1, <2>2, <2>3
       DEF Same, ResponseOwned, StreamOwned, Sending, TxOwned, DataOwned
  <2>5. Len(e.sched) < SchedSize
    BY <1>1, <1>3, <2>1, <2>3
  <2> QED BY <1>2, <1>6, <2>4, <2>5 DEF e
<1> QED BY <1>5, <1>6

LEMMA HandleOtherOwned ==
  ASSUME NEW b, Typed(b), b.pc = "loop", Len(b.sched) + 2 <= SchedSize,
         ResponseOwned(b), StreamOwned(b), Sending(b),
         NEW req \in RequestTypes, NEW o, HandleOther(b, req, o)
  PROVE  Owned(Handle(b, req, o))
<1>1. Len(b.sched) \in Nat /\ Len(b.sched) < SchedSize /\ Len(b.sched) + 1 < SchedSize
  BY Sizes DEF Typed, Badges
<1>2. Owned(Put(b, RequestHandlerFor(req))) /\ Owned(Put(b, Status)) /\ Owned(Put(b, Start))
  BY <1>1, PutOwner, OwnersAreHandlers
<1>3. Owned(FinishAndReschedule(StartStream(b)))
  BY StartStreamTyped, StartStreamOwned, FinishOwned
<1>4. Owned(FinishAndReschedule([b EXCEPT !.streaming = FALSE]))
  <2> DEFINE c == [b EXCEPT !.streaming = FALSE]
  <2>1. Typed(c) /\ Same(c, b) /\ c.sched = b.sched
    BY DEF Same, Typed, Badges
  <2> HIDE DEF c
  <2>2. InQueue(c) = InQueue(b)
    BY <2>1 DEF InQueue
  <2>3. ResponseOwned(c) /\ StreamOwned(c) /\ TxOwned(c) /\ DataOwned(c)
    BY <2>1, <2>2 DEF Same, ResponseOwned, StreamOwned, Sending, TxOwned, DataOwned
  <2>4. Owned(FinishAndReschedule(c))
    BY <1>1, <2>1, <2>3, FinishOwned
  <2> QED BY <2>4 DEF c
<1>5. Owned(FinishAndReschedule(Put(b, Test)))
  <2> DEFINE c == Put(b, Test)
  <2>1. Typed(c) /\ Len(c.sched) = Len(b.sched) + 1
    BY <1>1, PutAdds, HandlersTyped
  <2>2. ResponseOwned(c) /\ StreamOwned(c) /\ Sending(c)
    BY PutOwned, HandlersTyped
  <2> HIDE DEF c
  <2>3. Owned(FinishAndReschedule(c))
    BY <1>1, <2>1, <2>2, FinishOwned DEF Sending
  <2> QED BY <2>3 DEF c
<1>6. Owned(FinishAndReschedule(b))
  BY <1>1, FinishOwned DEF Sending
<1>7. Owned(FinishError(b)) /\ Owned(InitBadge)
  BY ErrorOwned, InitOwned
<1> QED BY <1>2, <1>3, <1>4, <1>5, <1>6, <1>7 DEF HandleOther

LEMMA HandleOwned ==
  ASSUME NEW b, Typed(b), b.pc = "loop", Len(b.sched) + 2 <= SchedSize,
         ResponseOwned(b), StreamOwned(b), Sending(b),
         NEW req \in RequestTypes, NEW o \in Outcomes(req)
  PROVE  Owned(Handle(b, req, o))
BY HandleCases, HandleDataOwned, HandleOtherOwned
-----------------------------------------------------------------------------
(* The steps. *)

LEMMA PoppedOwned ==
  ASSUME Typed(badge), Owned(badge), NEW h, Runs(h)
  PROVE  /\ h # Send => ResponseOwned(Popped)
         /\ h \notin RequestOwners => RequestOwned(Popped)
         /\ h # Stream => StreamOwned(Popped)
         /\ (h # Process \/ badge.processing_receive_notification) => NotificationsOwned(Popped)
         /\ TxOwned(Popped)
         /\ (\A k \in Kinds : h # DataResponse(k)) => DataOwned(Popped)
<1> DEFINE c == Popped
<1>1. /\ Same(c, badge) /\ \A x \in InQueue(badge) : x = h \/ x \in InQueue(c)
  BY PopRemoves
<1> HIDE DEF c
<1>2. /\ h # Send => ResponseOwned(c)
      /\ h \notin RequestOwners => RequestOwned(c)
      /\ h # Stream => StreamOwned(c)
      /\ (h # Process \/ badge.processing_receive_notification) => NotificationsOwned(c)
      /\ TxOwned(c)
  BY <1>1 DEF Same, Owned, ResponseOwned, RequestOwned, StreamOwned, Sending,
              NotificationsOwned, TxOwned
<1>3. (\A k \in Kinds : h # DataResponse(k)) => DataOwned(c)
  BY <1>1 DEF Same, Owned, Sending, DataOwned
<1> QED BY <1>2, <1>3 DEF c

LEMMA NotOwners ==
  /\ {Process, Send, Stream, Test} \cap RequestOwners = {}
  /\ \A k : DataResponse(k) \notin RequestOwners
BY HandlersDiffer DEF RequestOwners, RequestHandlers

(* A response handler that has start_response's leave fills response_event. *)
LEMMA RespondOwned ==
  ASSUME NEW b, Typed(b), ~b.processing_response, NEW which, NEW success
  PROVE  LET c == Respond(b, which, success)
         IN  /\ c.pc = b.pc /\ c.sched = b.sched
             /\ RequestOwned(b) => RequestOwned(c)
             /\ StreamOwned(b) => StreamOwned(c)
             /\ NotificationsOwned(b) => NotificationsOwned(c)
             /\ TxOwned(b) => TxOwned(c)
             /\ DataOwned(b) => DataOwned(c)
<1> DEFINE c == Respond(b, which, success)
<1>1. /\ c.pc = b.pc /\ c.sched = b.sched /\ c.notifications = b.notifications
      /\ c.tx = b.tx /\ c.transmitting = b.transmitting
      /\ c.processing_receive_notification = b.processing_receive_notification
      /\ c.streaming_started = b.streaming_started /\ c.iterators = b.iterators
  BY DEF Respond, Typed, Badges
<1> HIDE DEF c
<1>2. InQueue(c) = InQueue(b)
  BY <1>1 DEF InQueue
<1>3. /\ RequestOwned(b) => RequestOwned(c)
      /\ StreamOwned(b) => StreamOwned(c)
      /\ NotificationsOwned(b) => NotificationsOwned(c)
      /\ TxOwned(b) => TxOwned(c)
      /\ DataOwned(b) => DataOwned(c)
  BY <1>1, <1>2 DEF RequestOwned, StreamOwned, NotificationsOwned, TxOwned, DataOwned
<1> QED BY <1>1, <1>3 DEF c

(* A handler that has to wait goes to the back of the queue. *)
LEMMA PutBackOwned ==
  ASSUME Typed(badge), Owned(badge), NEW h \in Handlers, Runs(h),
         Len(Popped.sched) < SchedSize
  PROVE  Owned(Put(Popped, h))
<1> DEFINE c == Put(Popped, h)
<1>1. /\ Typed(Popped) /\ Same(Popped, badge)
      /\ \A x \in InQueue(badge) : x = h \/ x \in InQueue(Popped)
  BY PopRemoves
<1>2. Same(c, Popped) /\ InQueue(Popped) \subseteq InQueue(c) /\ h \in InQueue(c)
  BY <1>1, PutAdds
<1> HIDE DEF c
<1>3. Same(c, badge) /\ InQueue(badge) \subseteq InQueue(c)
  BY <1>1, <1>2 DEF Same
<1>4. Owned(c)
  BY <1>3 DEF Same, Owned, ResponseOwned, RequestOwned, StreamOwned, Sending,
              NotificationsOwned, TxOwned, DataOwned
<1> QED BY <1>4 DEF c

LEMMA MainLoopOwned ==
  ASSUME TInv, Owned(badge), RoomLeft, ~StorageBusy, MainLoop
  PROVE  Owned(badge')
<1>1. Typed(badge)
  BY DEF TInv
<1>2. Len(badge.sched) \in Nat /\ Len(badge.sched) < SchedSize
  BY <1>1, Sizes DEF RoomLeft, Typed, Badges
<1>3. ASSUME NEW h, Runs(h)
      PROVE  /\ Typed(Popped) /\ Popped.pc = "loop" /\ Same(Popped, badge)
             /\ Len(Popped.sched) \in Nat /\ Len(Popped.sched) < SchedSize
             /\ Len(Popped.sched) + 1 < SchedSize /\ Len(Popped.sched) + 2 <= SchedSize
  <2>1. /\ Typed(Popped) /\ Popped.pc = "loop" /\ Same(Popped, badge)
        /\ Len(Popped.sched) = Len(badge.sched) - 1
    BY <1>1, <1>3, PopRemoves
  <2>2. Len(Popped.sched) \in Nat
    BY <2>1 DEF Typed, Badges
  <2> QED BY <1>2, <2>1, <2>2, Sizes DEF RoomLeft
<1>4. CASE ProcessReceiveNotification
  <2> DEFINE b == [Popped EXCEPT !.processing_receive_notification = TRUE]
  <2>1. Runs(Process)
    BY <1>4 DEF ProcessReceiveNotification
  <2>2. /\ Typed(Popped) /\ ResponseOwned(Popped) /\ RequestOwned(Popped)
        /\ StreamOwned(Popped) /\ TxOwned(Popped) /\ DataOwned(Popped)
    BY <1>1, <1>3, <2>1, PoppedOwned, HandlersDiffer, NotOwners
  <2>3. CASE badge.processing_receive_notification
    <3>1. NotificationsOwned(Popped)
      BY <1>1, <2>1, <2>3, PoppedOwned
    <3>2. badge' = Put(Popped, Process)
      BY <1>4, <2>3 DEF ProcessReceiveNotification
    <3> QED BY <2>2, <3>1, <3>2, PutOwned, HandlersTyped DEF Owned, Sending
  <2>4. CASE ~badge.processing_receive_notification
    <3>1. Typed(b)
      BY <2>2 DEF Typed, Badges
    <3>2. CASE badge.notifications # <<>> /\ ~badge.connected
      <4>1. badge' = FinishError(b)
        BY <1>4, <2>4, <3>2 DEF ProcessReceiveNotification
      <4> HIDE DEF b
      <4> QED BY <3>1, <4>1, ErrorOwned
    <3>3. CASE ~(badge.notifications # <<>> /\ ~badge.connected)
      <4>1. \/ badge' = [b EXCEPT !.pc = "flush"]
            \/ badge' = [b EXCEPT !.pc = "header",
                           !.response_timestamp = badge.notifications[1].timepoint]
        BY <1>4, <2>4, <3>3 DEF ProcessReceiveNotification
      <4>2. /\ badge'.pc \in {"flush", "header"} /\ badge'.sched = Popped.sched
            /\ badge'.processing_receive_notification
            /\ badge'.processing_response = Popped.processing_response
            /\ badge'.streaming_started = Popped.streaming_started
            /\ badge'.tx = Popped.tx /\ badge'.transmitting = Popped.transmitting
            /\ badge'.iterators = Popped.iterators /\ badge'.response = Popped.response
        BY <2>2, <4>1 DEF Typed, Badges
      <4>3. InQueue(badge') = InQueue(Popped) /\ Popped.pc = "loop"
        BY <1>3, <2>1, <4>2 DEF InQueue
      <4>4. /\ ResponseOwned(badge') /\ RequestOwned(badge') /\ StreamOwned(badge')
            /\ TxOwned(badge') /\ NotificationsOwned(badge')
        BY <2>2, <4>2, <4>3
           DEF ResponseOwned, RequestOwned, StreamOwned, TxOwned, NotificationsOwned
      <4>5. DataOwned(badge')
        BY <2>2, <4>2, <4>3 DEF DataOwned
      <4> QED BY <4>4, <4>5 DEF Owned, Sending
    <3> QED BY <3>2, <3>3
  <2> QED BY <2>3, <2>4
<1>5. CASE FlushNotifications
  <2>1. /\ badge'.pc = "loop" /\ badge.pc = "flush" /\ badge'.sched = badge.sched
        /\ badge'.notifications = <<>> /\ ~badge'.processing_receive_notification
        /\ badge'.processing_response = badge.processing_response
        /\ badge'.streaming_started = badge.streaming_started
        /\ badge'.tx = badge.tx /\ badge'.transmitting = badge.transmitting
        /\ badge'.iterators = badge.iterators /\ badge'.response = badge.response
    BY <1>1, <1>5 DEF FlushNotifications, Typed, Badges
  <2>2. InQueue(badge') = InQueue(badge)
    BY <2>1 DEF InQueue
  <2> QED BY <2>1, <2>2 DEF Owned, ResponseOwned, RequestOwned, StreamOwned, Sending,
                            NotificationsOwned, TxOwned, DataOwned
<1>6. CASE ReadHeader
  <2> DEFINE b == [badge EXCEPT !.rx = Tail(@)]
  <2>1. Tail(badge.rx) \in Seq(Cells) /\ Len(Tail(badge.rx)) <= RxSize
    BY <1>1, <1>6, Sizes DEF ReadHeader, Typed, Badges
  <2>2. Typed(b)
    BY <1>1, <2>1 DEF Typed, Badges
  <2>3. badge' = [b EXCEPT !.pc = "body"] \/ badge' = FinishError(b)
    BY <1>6 DEF ReadHeader
  <2>4. CASE badge' = [b EXCEPT !.pc = "body"]
    <3>1. /\ badge'.pc = "body" /\ badge.pc = "header" /\ badge'.sched = badge.sched
          /\ badge'.notifications = badge.notifications
          /\ badge'.processing_receive_notification = badge.processing_receive_notification
          /\ badge'.processing_response = badge.processing_response
          /\ badge'.streaming_started = badge.streaming_started
          /\ badge'.tx = badge.tx /\ badge'.transmitting = badge.transmitting
          /\ badge'.iterators = badge.iterators /\ badge'.response = badge.response
      BY <1>1, <1>6, <2>4 DEF ReadHeader, Typed, Badges
    <3>2. InQueue(badge') = InQueue(badge)
      BY <3>1 DEF InQueue
    <3> QED BY <3>1, <3>2 DEF Owned, ResponseOwned, RequestOwned, StreamOwned, Sending,
                              NotificationsOwned, TxOwned, DataOwned
  <2> HIDE DEF b
  <2> QED BY <2>2, <2>3, <2>4, ErrorOwned
<1>7. CASE AwaitTimeout
  BY <1>1, <1>7, ErrorOwned DEF AwaitTimeout
<1>8. ASSUME NEW o, ReadBody(o)
      PROVE  Owned(badge')
  <2>1. PICK req, b :
           /\ req \in RequestTypes /\ Typed(b) /\ b.pc = "loop" /\ o \in Outcomes(req)
           /\ b.sched = badge.sched
           /\ b.processing_response = badge.processing_response
           /\ b.response = badge.response
           /\ b.processing_receive_notification = badge.processing_receive_notification
           /\ b.streaming_started = badge.streaming_started
           /\ b.tx = badge.tx /\ b.transmitting = badge.transmitting
           /\ b.iterators = badge.iterators
           /\ \/ badge' = FinishError(b)
              \/ /\ badge' = Handle(b, req, o)
                 /\ b.notifications # <<>> => badge.notifications # <<>>
    BY <1>8, ReadBodyCases
  <2>2. badge.pc = "body" /\ InQueue(b) = InQueue(badge)
    BY <1>8, <2>1 DEF ReadBody, InQueue
  <2>3. ResponseOwned(b) /\ StreamOwned(b) /\ TxOwned(b) /\ DataOwned(b)
    BY <2>1, <2>2 DEF Owned, ResponseOwned, StreamOwned, Sending, TxOwned, DataOwned
  <2>4. CASE badge' = FinishError(b)
    BY <2>1, <2>4, ErrorOwned
  <2>5. CASE badge' = Handle(b, req, o) /\ (b.notifications # <<>> => badge.notifications # <<>>)
    <3>1. NotificationsOwned(b)
      BY <2>1, <2>2, <2>5 DEF Owned, Sending, NotificationsOwned
    <3>2. Len(b.sched) + 2 <= SchedSize
      BY <2>1 DEF RoomLeft
    <3> QED BY <2>1, <2>3, <2>5, <3>1, <3>2, HandleOwned DEF Sending
  <2> QED BY <2>1, <2>4, <2>5
<1>9. ASSUME NEW o, NEW req \in RequestTypes, RetryRequest(req, o)
      PROVE  Owned(badge')
  <2>1. Runs(RequestHandlerFor(req)) /\ o \in Outcomes(req) /\ badge' = Handle(Popped, req, o)
    BY <1>9 DEF RetryRequest
  <2>2. ResponseOwned(Popped) /\ StreamOwned(Popped) /\ Sending(Popped)
    BY <1>1, <2>1, PoppedOwned, HandlersDiffer DEF Sending
  <2> QED BY <1>3, <2>1, <2>2, HandleOwned
<1>10. ASSUME NEW h \in {Status, Start}, StatusResponse(h)
       PROVE  Owned(badge')
  <2> DEFINE r == Respond(Popped, h, NoHandler)
             f == FinishAndReschedule(r)
  <2>1. Runs(h) /\ h \in ResponseHandlers /\ h \in Handlers
    BY <1>10, HandlersTyped DEF StatusResponse
  <2>2. /\ Typed(Popped) /\ StreamOwned(Popped) /\ TxOwned(Popped) /\ DataOwned(Popped)
        /\ Same(Popped, badge)
    BY <1>1, <1>3, <2>1, PoppedOwned, HandlersDiffer
  <2>3. CASE badge.processing_response
    BY <1>1, <1>3, <1>10, <2>1, <2>3, PutBackOwned DEF StatusResponse
  <2>4. CASE ~badge.processing_response
    <3>1. ~Popped.processing_response
      BY <2>2, <2>4 DEF Same
    <3>2. /\ Typed(r) /\ r.pc = Popped.pc /\ r.sched = Popped.sched
          /\ StreamOwned(r) /\ TxOwned(r) /\ DataOwned(r)
      BY <2>1, <2>2, <3>1, HandlersTyped, RespondTyped, RespondOwned
    <3>3. badge' = SendResponse(f, "transmit")
      BY <1>10, <2>4 DEF StatusResponse
    <3> HIDE DEF r
    <3>4. Typed(f) /\ Len(r.sched) < SchedSize
      BY <1>3, <2>1, <3>2, FinishAndRescheduleTyped
    <3>5. /\ RequestOwned(f) /\ Sending(f) /\ StreamOwned(f) /\ f.pc = r.pc
          /\ Len(f.sched) = Len(r.sched) + 1
      BY <3>2, <3>4, FinishedOwned
    <3> HIDE DEF f
    <3>6. Len(f.sched) < SchedSize /\ f.pc = "loop"
      BY <1>3, <2>1, <3>2, <3>5
    <3> QED BY <3>3, <3>4, <3>5, <3>6, SendOwned DEF Owned
  <2> QED BY <2>3, <2>4
<1>11. CASE TestResponse
  <2> DEFINE r == Respond(Popped, Test, NoHandler)
  <2>1. Runs(Test) /\ Test \in ResponseHandlers /\ Test \in Handlers
    BY <1>11, HandlersTyped DEF TestResponse
  <2>2. /\ Typed(Popped) /\ RequestOwned(Popped) /\ StreamOwned(Popped)
        /\ Sending(Popped) /\ Same(Popped, badge)
    BY <1>1, <1>3, <2>1, PoppedOwned, HandlersDiffer, NotOwners DEF Sending
  <2>3. CASE badge.processing_response
    BY <1>1, <1>3, <1>11, <2>1, <2>3, PutBackOwned DEF TestResponse
  <2>4. CASE ~badge.processing_response
    <3>1. ~Popped.processing_response
      BY <2>2, <2>4 DEF Same
    <3>2. /\ Typed(r) /\ r.pc = Popped.pc /\ r.sched = Popped.sched
          /\ RequestOwned(r) /\ StreamOwned(r) /\ Sending(r)
      BY <2>1, <2>2, <3>1, HandlersTyped, RespondTyped, RespondOwned DEF Sending
    <3>3. badge' = SendResponse(r, "transmit")
      BY <1>11, <2>4 DEF TestResponse
    <3> HIDE DEF r
    <3>4. Len(r.sched) < SchedSize /\ r.pc = "loop"
      BY <1>3, <2>1, <3>2
    <3> QED BY <3>2, <3>3, <3>4, SendOwned DEF Owned
  <2> QED BY <2>3, <2>4
<1>12. ASSUME NEW k \in Kinds, NEW busy \in BOOLEAN, DataResponseHandler(k, busy)
       PROVE  Owned(badge')
  <2> DEFINE left == badge.iterators[k]
             success == IF left > 0 THEN DataResponse(k) ELSE NoHandler
             r == Respond(Popped, DataResponse(k), success)
             next == IF left > 0 THEN left - 1 ELSE NoIterator
             d == [r EXCEPT !.iterators[k] = next]
  <2>1. Runs(DataResponse(k)) /\ DataResponse(k) \in ResponseHandlers
        /\ DataResponse(k) \in Handlers /\ ~busy
    BY <1>12, HandlersTyped DEF DataResponseHandler
  <2>2. /\ Typed(Popped) /\ RequestOwned(Popped) /\ StreamOwned(Popped)
        /\ NotificationsOwned(Popped) /\ TxOwned(Popped) /\ Same(Popped, badge)
    BY <1>1, <1>3, <2>1, PoppedOwned, HandlersDiffer, NotOwners
  <2>3. CASE badge.processing_response
    <3>1. badge' = Put(Popped, DataResponse(k))
      BY <1>12, <2>1, <2>3 DEF DataResponseHandler
    <3> QED BY <1>1, <1>3, <2>1, <3>1, PutBackOwned
  <2>4. CASE ~badge.processing_response
    <3>1. ~Popped.processing_response
      BY <2>2, <2>4 DEF Same
    <3>2. success \in Followers
      BY HandlersTyped
    <3>3. next # NoIterator => success = DataResponse(k)
      OBVIOUS
    <3>4. next \in NoIterator .. MaxChunks
      BY <1>1, Sizes DEF Typed, Badges, Iterators, NoIterator
    <3>5. badge' = SendResponse(d, "transmit")
      BY <1>12, <2>1, <2>4 DEF DataResponseHandler
    <3>6. \A j \in Kinds : j # k /\ badge.iterators[j] # NoIterator =>
            DataResponse(j) \in InQueue(Popped)
      <4>1. \A x \in InQueue(badge) : x = DataResponse(k) \/ x \in InQueue(Popped)
        BY <1>1, <2>1, PopRemoves
      <4> QED BY <2>4, <4>1, HandlersDiffer DEF Owned, Sending, DataOwned
    <3> HIDE DEF success, next
    <3>7. /\ Typed(r) /\ r.pc = Popped.pc /\ r.sched = Popped.sched
          /\ RequestOwned(r) /\ StreamOwned(r) /\ NotificationsOwned(r) /\ TxOwned(r)
      BY <2>1, <2>2, <3>1, <3>2, RespondTyped, RespondOwned
    <3>8. /\ r.processing_response /\ r.response.success = success
          /\ r.iterators = badge.iterators
      BY <2>2 DEF Respond, Typed, Badges, Same
    <3> HIDE DEF r
    <3> DEFINE it == [r.iterators EXCEPT ![k] = next]
    <3>9. /\ it \in Iterators /\ it[k] = next
          /\ \A j \in Kinds : j # k => it[j] = badge.iterators[j]
      BY <3>4, <3>7, <3>8 DEF Typed, Badges, Iterators
    <3>10. d = [r EXCEPT !.iterators = it]
      OBVIOUS
    <3> HIDE DEF it, d
    <3>11. /\ Typed(d) /\ d.iterators = it /\ d.pc = r.pc /\ d.sched = r.sched
           /\ d.notifications = r.notifications /\ d.tx = r.tx
           /\ d.transmitting = r.transmitting
           /\ d.processing_receive_notification = r.processing_receive_notification
           /\ d.processing_response = r.processing_response
           /\ d.streaming_started = r.streaming_started /\ d.response = r.response
      BY <3>7, <3>9, <3>10 DEF Typed, Badges
    <3>12. InQueue(d) = InQueue(Popped) /\ InQueue(r) = InQueue(Popped)
      BY <3>7, <3>11 DEF InQueue
    <3>13. DataOwned(d)
      BY <3>3, <3>6, <3>8, <3>9, <3>11, <3>12 DEF DataOwned
    <3>14. RequestOwned(d) /\ StreamOwned(d) /\ NotificationsOwned(d) /\ TxOwned(d)
      BY <3>7, <3>11, <3>12 DEF RequestOwned, StreamOwned, NotificationsOwned, TxOwned
    <3>15. Len(d.sched) < SchedSize /\ d.pc = "loop"
      BY <1>3, <2>1, <3>7, <3>11
    <3> QED BY <3>5, <3>11, <3>13, <3>14, <3>15, SendOwned DEF Owned, Sending
  <2> QED BY <2>3, <2>4
<1>13. ASSUME NEW some \in BOOLEAN, StreamResponse(some)
       PROVE  Owned(badge')
  <2> DEFINE r == Respond(Popped, Stream, NoHandler)
             c == SendResponse(r, "stream_transmit")
             d == [r EXCEPT !.processing_response = FALSE]
  <2>1. Runs(Stream) /\ Stream \in ResponseHandlers /\ Stream \in Handlers
    BY <1>13, HandlersTyped DEF StreamResponse
  <2>2. /\ Typed(Popped) /\ RequestOwned(Popped) /\ Sending(Popped)
        /\ Same(Popped, badge)
    BY <1>1, <1>3, <2>1, PoppedOwned, HandlersDiffer, NotOwners DEF Sending
  <2>3. CASE badge.processing_response
    BY <1>1, <1>3, <1>13, <2>1, <2>3, PutBackOwned DEF StreamResponse
  <2>4. CASE ~badge.processing_response
    <3>1. ~Popped.processing_response
      BY <2>2, <2>4 DEF Same
    <3>2. /\ Typed(r) /\ r.pc = "loop" /\ r.sched = Popped.sched
          /\ RequestOwned(r) /\ Sending(r) /\ Len(r.sched) < SchedSize
          /\ Len(r.sched) + 1 < SchedSize
      <4>1. Stream \in ResponseHandlers /\ NoHandler \in Followers
        BY HandlersTyped
      <4>2. Typed(r)
        BY <2>2, <4>1, RespondTyped
      <4> QED BY <1>3, <2>1, <2>2, <3>1, <4>2, RespondOwned DEF Sending
    <3>3. \/ badge' = IF c.pc = "loop" THEN StreamTail(c, TRUE) ELSE c
          \/ badge' = StreamTail(d, badge.streaming)
      BY <1>13, <2>4 DEF StreamResponse
    <3>4. /\ d.pc = Popped.pc /\ d.sched = Popped.sched
          /\ d.notifications = Popped.notifications /\ d.tx = Popped.tx
          /\ d.transmitting = Popped.transmitting
          /\ d.processing_receive_notification = Popped.processing_receive_notification
          /\ ~d.processing_response /\ d.iterators = Popped.iterators
      BY <2>2 DEF Respond, Typed, Badges
    <3> HIDE DEF r
    <3>5. Typed(d)
      BY <3>2 DEF Typed, Badges
    <3> HIDE DEF d
    <3>6. CASE badge' = StreamTail(d, badge.streaming)
      <4>1. InQueue(d) = InQueue(Popped)
        BY <3>4 DEF InQueue
      <4>2. ResponseOwned(d) /\ RequestOwned(d) /\ NotificationsOwned(d) /\ TxOwned(d)
        BY <2>2, <3>4, <4>1
           DEF ResponseOwned, RequestOwned, Sending, NotificationsOwned, TxOwned
      <4>3. DataOwned(d)
        BY <2>2, <3>1, <3>4, <4>1 DEF Sending, DataOwned
      <4>4. d.pc = "loop" /\ Len(d.sched) < SchedSize /\ badge.streaming \in BOOLEAN
        BY <1>1, <1>3, <2>1, <3>4 DEF Typed, Badges
      <4> QED BY <3>5, <3>6, <4>2, <4>3, <4>4, StreamTailOwned DEF Sending
    <3>7. CASE badge' = IF c.pc = "loop" THEN StreamTail(c, TRUE) ELSE c
      <4>1. Typed(c)
        BY <3>2, SendResponseTyped
      <4>2. /\ ResponseOwned(c) /\ RequestOwned(c) /\ Sending(c)
            /\ \/ c.pc = "stream_transmit" /\ StreamOwned(c)
               \/ c.pc = "loop" /\ Len(c.sched) <= Len(r.sched) + 1
        BY <3>2, SendOwned
      <4> HIDE DEF c
      <4>3. CASE c.pc = "loop"
        <5>1. Len(c.sched) \in Nat /\ Len(r.sched) \in Nat
          BY <3>2, <4>1 DEF Typed, Badges
        <5>2. Len(c.sched) < SchedSize
          BY <3>2, <4>2, <4>3, <5>1, Sizes
        <5> QED BY <3>7, <4>1, <4>2, <4>3, <5>2, StreamTailOwned
      <4>4. CASE c.pc # "loop"
        BY <3>7, <4>2, <4>4 DEF Owned
      <4> QED BY <4>3, <4>4
    <3> QED BY <3>3, <3>6, <3>7
  <2> QED BY <2>3, <2>4
<1>14. CASE RetrySend
  <2>1. Runs(Send) /\ badge' = SendResponse(Popped, "transmit")
    BY <1>14 DEF RetrySend
  <2>2. RequestOwned(Popped) /\ StreamOwned(Popped) /\ Sending(Popped)
    BY <1>1, <2>1, PoppedOwned, HandlersDiffer, NotOwners DEF Sending
  <2> QED BY <1>3, <2>1, <2>2, SendOwned DEF Owned
<1>15. CASE TransmitQueued
  <2> DEFINE b == IF badge.tx < TxSize THEN Sent(badge) ELSE NoMem(badge)
  <2>1. badge' = IF badge.pc = "transmit" THEN b ELSE StreamTail(b, TRUE)
    BY <1>15 DEF TransmitQueued
  <2>2. badge.pc \in {"transmit", "stream_transmit"} /\ RequestOwned(badge) /\ Sending(badge)
        /\ StreamOwned(badge)
    BY <1>15 DEF TransmitQueued, Owned
  <2>3. /\ Typed(b) /\ ResponseOwned(b) /\ RequestOwned(b) /\ Sending(b) /\ b.pc = "loop"
        /\ badge.pc # "stream_transmit" => StreamOwned(b)
        /\ Len(b.sched) <= Len(badge.sched) + 1
    <3>1. CASE badge.tx < TxSize
      BY <1>1, <1>2, <2>2, <3>1, SentTyped, SentOwned
    <3>2. CASE ~(badge.tx < TxSize)
      BY <1>1, <1>2, <2>2, <3>2, NoMemTyped, NoMemOwned
    <3> QED BY <3>1, <3>2
  <2> HIDE DEF b
  <2>4. Len(b.sched) \in Nat
    BY <2>3 DEF Typed, Badges
  <2>5. Len(b.sched) < SchedSize
    BY <1>2, <2>3, <2>4, Sizes DEF RoomLeft
  <2>6. CASE badge.pc = "transmit"
    BY <2>1, <2>3, <2>6 DEF Owned
  <2>7. CASE badge.pc = "stream_transmit"
    BY <2>1, <2>3, <2>5, <2>7, StreamTailOwned
  <2> QED BY <2>2, <2>6, <2>7
<1> QED BY <1>4, <1>5, <1>6, <1>7, <1>8, <1>9, <1>10, <1>11, <1>12, <1>13, <1>14, <1>15
        DEF MainLoop

LEMMA ReceivedOwned ==
  ASSUME TInv, Owned(badge), RoomLeft, NEW cells, OnReceive(cells), Typed(badge')
  PROVE  Owned(badge') /\ badge'.response = badge.response
<1> DEFINE room == RxSize - Len(badge.rx)
           n == IF Len(cells) <= room THEN Len(cells) ELSE room
           rest == badge.rx \o SubSeq(cells, 1, n)
           b == [badge EXCEPT !.rx = rest]
           note == [len |-> Len(cells), timepoint |-> client'.requests]
           c == [b EXCEPT !.notifications = Append(@, note)]
<1>1. badge' = IF Len(badge.notifications) < NotificationSize THEN Put(c, Process) ELSE b
  BY DEF OnReceive
<1> HIDE DEF rest, note
<1>2. badge \in Badges
  BY DEF TInv, Typed
<1>3. Same(b, badge) /\ b.sched = badge.sched
  BY <1>2 DEF Same, Badges
<1>4. /\ c.sched = badge.sched /\ c.pc = badge.pc /\ c.tx = badge.tx
      /\ c.transmitting = badge.transmitting
      /\ c.processing_receive_notification = badge.processing_receive_notification
      /\ c.processing_response = badge.processing_response
      /\ c.streaming_started = badge.streaming_started
      /\ c.iterators = badge.iterators /\ c.response = badge.response
  BY <1>2 DEF Badges
<1> HIDE DEF b
<1>5. CASE Len(badge.notifications) < NotificationSize
  <2> DEFINE s == badge.sched
  <2>1. s \in Seq(Handlers) /\ Len(s) \in Nat /\ Len(s) < SchedSize
    BY <1>2, Sizes DEF Badges, RoomLeft
  <2>2. badge' = [c EXCEPT !.sched = Append(s, Process)]
    BY <1>1, <1>4, <1>5, <2>1 DEF Put
  <2>3. /\ badge'.sched = Append(s, Process)
        /\ badge'.pc = badge.pc /\ badge'.tx = badge.tx
        /\ badge'.transmitting = badge.transmitting
        /\ badge'.processing_receive_notification = badge.processing_receive_notification
        /\ badge'.processing_response = badge.processing_response
        /\ badge'.streaming_started = badge.streaming_started
        /\ badge'.iterators = badge.iterators /\ badge'.response = badge.response
    BY <1>2, <1>4, <2>2 DEF Badges, b
  <2> HIDE DEF s
  <2>4. /\ Len(Append(s, Process)) = Len(s) + 1
        /\ \A i \in 1 .. Len(s) : Append(s, Process)[i] = s[i]
        /\ Append(s, Process)[Len(s) + 1] = Process
    BY <2>1, HandlersTyped
  <2>5. InQueue(badge) \subseteq InQueue(badge') /\ Process \in InQueue(badge')
    BY <2>1, <2>3, <2>4 DEF InQueue, s
  <2> QED BY <2>3, <2>5 DEF Owned, ResponseOwned, RequestOwned, StreamOwned, Sending,
                            NotificationsOwned, TxOwned, DataOwned
<1>6. CASE ~(Len(badge.notifications) < NotificationSize)
  <2>1. Same(badge', badge) /\ badge'.sched = badge.sched
    BY <1>1, <1>3, <1>6
  <2>2. InQueue(badge') = InQueue(badge)
    BY <2>1 DEF InQueue
  <2> QED BY <2>1, <2>2 DEF Same, Owned, ResponseOwned, RequestOwned, StreamOwned, Sending,
                            NotificationsOwned, TxOwned, DataOwned
<1> QED BY <1>5, <1>6

LEMMA InterruptOwned ==
  ASSUME TInv, Owned(badge), RoomLeft, Interrupt
  PROVE  Owned(badge')
<1>1. badge \in Badges /\ TInv'
  BY InterruptTyped DEF TInv, Typed
<1>2. ASSUME NEW req \in Requests, NEW whole \in BOOLEAN, SendRequest(req, whole)
      PROVE  Owned(badge')
  BY <1>1, <1>2, ReceivedOwned DEF SendRequest, TInv
<1>3. CASE SendRest
  BY <1>1, <1>3, ReceivedOwned DEF SendRest, TInv
<1>4. ASSUME badge'.sched = badge.sched, badge'.pc = badge.pc,
             badge'.notifications = badge.notifications, TxOwned(badge'),
             badge'.processing_receive_notification = badge.processing_receive_notification,
             badge'.processing_response = badge.processing_response,
             badge'.streaming_started = badge.streaming_started,
             badge'.iterators = badge.iterators, badge'.response = badge.response
      PROVE  Owned(badge')
  <2>1. InQueue(badge') = InQueue(badge)
    BY <1>4 DEF InQueue
  <2> QED BY <1>4, <2>1 DEF Owned, ResponseOwned, RequestOwned, StreamOwned, Sending,
                            NotificationsOwned, DataOwned
<1>5. CASE TransmitTick
  <2>1. badge.tx \in Nat /\ (badge.tx > 0 => badge.transmitting)
    BY <1>1 DEF Badges, Owned, Sending, TxOwned
  <2>2. TxOwned(badge')
    <3>1. CASE badge.tx = 0
      <4>1. badge'.tx = 0
        BY <1>1, <1>5, <3>1 DEF TransmitTick, Badges
      <4> QED BY <4>1 DEF TxOwned
    <3>2. CASE badge.tx # 0
      <4>1. badge'.transmitting
        BY <1>1, <1>5, <3>2 DEF TransmitTick, Badges
      <4> QED BY <4>1 DEF TxOwned
    <3> QED BY <3>1, <3>2
  <2> QED BY <1>1, <1>4, <1>5, <2>2 DEF TransmitTick, Badges
<1>6. CASE OnConnect
  <2>1. TxOwned(badge')
    BY <1>1, <1>6 DEF OnConnect, SenderReset, TxOwned, Badges
  <2> QED BY <1>1, <1>4, <1>6, <2>1 DEF OnConnect, SenderReset, Badges
<1>7. CASE OnDisconnect \/ DisconnectTimeout
  <2>1. TxOwned(badge')
    <3>1. badge' = SenderReset(badge)
      BY <1>7 DEF OnDisconnect, DisconnectTimeout
    <3>2. badge'.tx = 0
      BY <1>1, <3>1 DEF SenderReset, Badges
    <3> QED BY <3>2 DEF TxOwned
  <2> QED BY <1>1, <1>4, <1>7, <2>1 DEF OnDisconnect, DisconnectTimeout, SenderReset, Badges
<1>8. CASE SamplingTimeout
  <2>1. TxOwned(badge')
    BY <1>1, <1>8 DEF SamplingTimeout, TxOwned, Badges, Owned, Sending
  <2> QED BY <1>1, <1>4, <1>8, <2>1 DEF SamplingTimeout, Badges
<1> QED BY <1>2, <1>3, <1>5, <1>6, <1>7, <1>8 DEF Interrupt

IInv == TInv /\ Owned(badge)

LEMMA OwnedStep == ~StorageBusy /\ IInv /\ RoomLeft /\ [Next]_vars => IInv'
<1> SUFFICES ASSUME ~StorageBusy, IInv, RoomLeft, [Next]_vars PROVE IInv'
  OBVIOUS
<1>1. TInv'
  BY TypeStep DEF IInv
<1>2. CASE UNCHANGED vars
  <2>1. badge' = badge
    BY <1>2 DEF vars
  <2> QED BY <1>1, <2>1 DEF IInv
<1>3. CASE Next
  BY <1>1, <1>3, MainLoopOwned, InterruptOwned DEF IInv, Next
<1> QED BY <1>2, <1>3

LEMMA OwnedMeans == IInv => NoWedge /\ IteratorsOwned
<1> SUFFICES ASSUME IInv PROVE NoWedge /\ IteratorsOwned
  OBVIOUS
<1>1. Queued = InQueue(badge)
  BY DEF Queued, InQueue
<1>2. NoWedge
  BY <1>1 DEF IInv, Owned, ResponseOwned, RequestOwned, StreamOwned, Sending,
              NotificationsOwned, TxOwned, NoWedge
<1>3. IteratorsOwned
  BY <1>1 DEF IInv, Owned, Sending, DataOwned, IteratorsOwned
<1> QED BY <1>2, <1>3

(* A set flag always has a handler that will clear it, as long as the      *)
(* scheduler's queue has room for two more handlers (nobody looks at what  *)
(* app_sched_event_put returns) and the storage does not turn a data       *)
(* response away.                                                          *)
THEOREM NeverWedged == ~StorageBusy => (Spec /\ []RoomLeft => []NoWedge)
<1> SUFFICES ASSUME ~StorageBusy PROVE Spec /\ []RoomLeft => []NoWedge
  OBVIOUS
<1>1. Init => IInv
  BY TypeInit, InitOwned DEF Init, IInv
<1>2. IInv /\ RoomLeft /\ [Next]_vars => IInv'
  BY OwnedStep
<1>3. IInv => NoWedge
  BY OwnedMeans
<1> QED BY <1>1, <1>2, <1>3, PTL DEF Spec

(* A valid iterator always has a data response handler that goes on with   *)
(* it (..._data_response_handler, finish_error), under the same conditions. *)
THEOREM IteratorsAlwaysOwned == ~StorageBusy => (Spec /\ []RoomLeft => []IteratorsOwned)
<1> SUFFICES ASSUME ~StorageBusy PROVE Spec /\ []RoomLeft => []IteratorsOwned
  OBVIOUS
<1>1. Init => IInv
  BY TypeInit, InitOwned DEF Init, IInv
<1>2. IInv /\ RoomLeft /\ [Next]_vars => IInv'
  BY OwnedStep
<1>3. IInv => IteratorsOwned
  BY OwnedMeans
<1> QED BY <1>1, <1>2, <1>3, PTL DEF Spec
-----------------------------------------------------------------------------
(* The one global response_event.                                          *)

(* Either response_event still holds the same response, or none is being   *)
(* processed any more.                                                     *)
Keeps(c, b) ==
  c.processing_response =>
    /\ c.response.which = b.response.which
    /\ c.response.success = b.response.success

LEMMA PutKeeps ==
  ASSUME NEW b, Typed(b), NEW h
  PROVE  Put(b, h).response = b.response
BY DEF Put, Typed, Badges

LEMMA FinishKeeps ==
  ASSUME NEW b, Typed(b)
  PROVE  FinishAndReschedule(b).response = b.response
<1> DEFINE d == [b EXCEPT !.processing_receive_notification = FALSE]
<1>1. Typed(d) /\ d.response = b.response
  BY DEF Typed, Badges
<1> HIDE DEF d
<1>2. Put(d, Process).response = b.response
  BY <1>1, PutKeeps
<1> QED BY <1>2 DEF FinishAndReschedule, d

LEMMA StartStreamKeeps ==
  ASSUME NEW b, Typed(b)
  PROVE  StartStream(b).response = b.response
<1> DEFINE c == [b EXCEPT !.streaming = TRUE]
           d == [c EXCEPT !.streaming_started = TRUE]
<1>1. /\ Typed(c) /\ c.response = b.response
      /\ Typed(d) /\ d.response = b.response
  BY DEF Typed, Badges
<1>2. StartStream(b) = c \/ StartStream(b) = Put(d, Stream)
  BY DEF StartStream
<1> HIDE DEF c, d
<1> QED BY <1>1, <1>2, PutKeeps

LEMMA HandleKeeps ==
  ASSUME NEW b, Typed(b), NEW req \in RequestTypes, NEW o \in Outcomes(req)
  PROVE  Keeps(Handle(b, req, o), b)
<1>1. CASE req[2] \in Kinds /\ HandleData(b, req[2], o, req)
  <2> DEFINE f == Find(b, req[2], o)
  <2>1. Typed(f) /\ f.response = b.response
    BY <1>1, FindTyped, OutcomesTyped, FindFields
  <2>2. DataResponse(req[2]) \in Handlers
    BY <1>1, HandlersTyped
  <2>3. \/ Handle(b, req, o) = FinishAndReschedule(Put(f, DataResponse(req[2])))
        \/ Handle(b, req, o) = Put(f, RequestHandlerFor(req))
    BY <1>1 DEF HandleData
  <2> HIDE DEF f
  <2>4. Handle(b, req, o).response = b.response
    BY <2>1, <2>2, <2>3, PutTyped, PutKeeps, FinishKeeps
  <2> QED BY <2>4 DEF Keeps
<1>2. CASE HandleOther(b, req, o)
  <2> DEFINE c == [b EXCEPT !.streaming = FALSE]
  <2>1. Typed(c) /\ c.response = b.response
    BY DEF Typed, Badges
  <2> HIDE DEF c
  <2>2. FinishAndReschedule(c).response = b.response
    BY <2>1, FinishKeeps
  <2>3. ~FinishError(b).processing_response /\ ~InitBadge.processing_response
    BY ErrorFields DEF InitBadge
  <2>4. FinishAndReschedule(Put(b, Test)).response = b.response
    BY PutTyped, PutKeeps, FinishKeeps, HandlersTyped
  <2>5. FinishAndReschedule(StartStream(b)).response = b.response
    BY StartStreamTyped, StartStreamKeeps, FinishKeeps
  <2>6. \A h : Put(b, h).response = b.response
    BY PutKeeps
  <2>7. FinishAndReschedule(b).response = b.response
    BY FinishKeeps
  <2>8. Handle(b, req, o).response = b.response \/ ~Handle(b, req, o).processing_response
    BY <1>2, <2>2, <2>3, <2>4, <2>5, <2>6, <2>7 DEF HandleOther, c
  <2> QED BY <2>8 DEF Keeps
<1> QED BY <1>1, <1>2, HandleCases

LEMMA SentKeeps ==
  ASSUME NEW b, Typed(b), b.tx < TxSize
  PROVE  ~Sent(b).processing_response
<1> DEFINE d == [b EXCEPT !.pc = "loop", !.tx = @ + 1, !.transmitting = TRUE,
                          !.processing_response = FALSE]
<1>1. b.tx + 1 \in 0 .. TxSize
  BY Sizes DEF Typed, Badges
<1>2. Typed(d) /\ ~d.processing_response
  BY <1>1 DEF Typed, Badges, Steps
<1>3. Sent(b) = d \/ Sent(b) = Put(d, b.response.success)
  BY DEF Sent
<1> HIDE DEF d
<1>4. \A h : ~Put(d, h).processing_response
  BY <1>2 DEF Put, Typed, Badges
<1> QED BY <1>2, <1>3, <1>4

LEMMA SendKeeps ==
  ASSUME NEW b, Typed(b), NEW waiting \in {"transmit", "stream_transmit"}
  PROVE  Keeps(SendResponse(b, waiting), b)
<1>1. CASE SendResponse(b, waiting) = FinishError(b)
  BY <1>1, ErrorFields DEF Keeps
<1>2. CASE b.response.retries <= MaxRetries
  <2> DEFINE d == Retried(b)
             w == [d EXCEPT !.pc = waiting]
  <2>1. /\ Typed(d) /\ d.tx = b.tx /\ d.response.which = b.response.which
        /\ d.response.success = b.response.success
    BY <1>2, RetriedTyped
  <2>2. \/ SendResponse(b, waiting) = FinishError(b)
        \/ SendResponse(b, waiting) = FinishError(d)
        \/ b.tx < TxSize /\ SendResponse(b, waiting) = Sent(d)
        \/ SendResponse(b, waiting) = w
    BY <1>2, SendResponseCases
  <2> HIDE DEF d
  <2>3. w.response = d.response
    BY <2>1 DEF Typed, Badges
  <2> HIDE DEF w
  <2>4. ~FinishError(d).processing_response
    BY <2>1, ErrorFields
  <2>5. b.tx < TxSize => ~Sent(d).processing_response
    BY <2>1, SentKeeps
  <2> QED BY <1>1, <2>1, <2>2, <2>3, <2>4, <2>5 DEF Keeps
<1> QED BY <1>1, <1>2, SendResponseCases

LEMMA TransmitKeeps ==
  ASSUME Typed(badge), TransmitQueued
  PROVE  Keeps(badge', badge)
<1> DEFINE n == [badge EXCEPT !.pc = "loop"]
           b == IF badge.tx < TxSize THEN Sent(badge) ELSE NoMem(badge)
<1>1. Typed(n) /\ n.response = badge.response
  BY DEF Typed, Badges, Steps
<1>2. NoMem(badge) = Put(n, Send)
  BY DEF NoMem
<1>3. badge' = b \/ badge' = StreamTail(b, TRUE)
  BY DEF TransmitQueued
<1> HIDE DEF n
<1>4. NoMem(badge).response = badge.response
  BY <1>1, <1>2, PutKeeps
<1>5. Typed(b) /\ Keeps(b, badge)
  BY <1>4, SentTyped, SentKeeps, NoMemTyped DEF Keeps
<1> HIDE DEF b
<1>6. CASE badge' = StreamTail(b, TRUE)
  <2> DEFINE d == [b EXCEPT !.streaming = @ /\ b.streaming_started]
             e == [d EXCEPT !.streaming_started = FALSE]
  <2>1. /\ Typed(d) /\ d.response = b.response
        /\ d.processing_response = b.processing_response
        /\ e.response = b.response /\ e.processing_response = b.processing_response
    BY <1>5 DEF Typed, Badges
  <2>2. badge' = Put(d, Stream) \/ badge' = e
    BY <1>6 DEF StreamTail
  <2> HIDE DEF d, e
  <2>3. Put(d, Stream).response = d.response
        /\ Put(d, Stream).processing_response = d.processing_response
    BY <2>1 DEF Put, Typed, Badges
  <2> QED BY <1>5, <2>1, <2>2, <2>3 DEF Keeps
<1> QED BY <1>3, <1>5, <1>6

(* A response that waits for room in tx_fifo is not replaced before it was *)
(* sent or given up: every handler asks start_response before it fills     *)
(* response_event, for every size of the queues and whatever the storage   *)
(* answers.                                                                *)
THEOREM ResponsesKept == Spec => ResponseKept
<1>1. ASSUME TInv, [Next]_vars, badge.processing_response
      PROVE  Keeps(badge', badge)
  <2>1. Typed(badge) /\ badge \in Badges
    BY <1>1 DEF TInv, Typed
  <2>2. ASSUME badge'.response = badge.response
        PROVE  Keeps(badge', badge)
    BY <2>2 DEF Keeps
  <2>3. ASSUME NEW h, Runs(h)
        PROVE  /\ Typed(Popped) /\ Popped.response = badge.response
               /\ \A g : Put(Popped, g).response = badge.response
    BY <2>1, <2>3, PopRemoves, PutKeeps DEF Same
  <2>4. CASE ProcessReceiveNotification
    <3> DEFINE b == [Popped EXCEPT !.processing_receive_notification = TRUE]
    <3>2. Runs(Process)
      BY <2>4 DEF ProcessReceiveNotification
    <3>3. Typed(b) /\ b.response = badge.response
      BY <2>3, <3>2 DEF Typed, Badges
    <3>4. \/ badge' = Put(Popped, Process) \/ badge' = FinishError(b)
          \/ badge' = [b EXCEPT !.pc = "flush"]
          \/ badge' = [b EXCEPT !.pc = "header",
                         !.response_timestamp = badge.notifications[1].timepoint]
      BY <2>4 DEF ProcessReceiveNotification
    <3> HIDE DEF b
    <3>5. ~FinishError(b).processing_response
      BY <3>3, ErrorFields
    <3>6. badge' # FinishError(b) => badge'.response = badge.response
      BY <2>3, <3>2, <3>3, <3>4 DEF Typed, Badges
    <3> QED BY <2>2, <3>5, <3>6 DEF Keeps
  <2>5. CASE FlushNotifications
    BY <2>1, <2>2, <2>5 DEF FlushNotifications, Badges
  <2>6. CASE ReadHeader
    <3> DEFINE b == [badge EXCEPT !.rx = Tail(@)]
    <3>1. Tail(badge.rx) \in Seq(Cells) /\ Len(Tail(badge.rx)) <= RxSize
      BY <2>1, <2>6, Sizes DEF ReadHeader, Typed, Badges
    <3>2. Typed(b) /\ b.response = badge.response
      BY <2>1, <3>1 DEF Typed, Badges
    <3>3. badge' = [b EXCEPT !.pc = "body"] \/ badge' = FinishError(b)
      BY <2>6 DEF ReadHeader
    <3> HIDE DEF b
    <3>4. [b EXCEPT !.pc = "body"].response = badge.response
      BY <3>2 DEF Typed, Badges
    <3> QED BY <2>2, <3>2, <3>3, <3>4, ErrorFields DEF Keeps
  <2>7. CASE AwaitTimeout
    BY <2>1, <2>7, ErrorFields DEF AwaitTimeout, Keeps
  <2>8. ASSUME NEW o, ReadBody(o)
        PROVE  Keeps(badge', badge)
    <3>1. PICK req, b :
               /\ req \in RequestTypes /\ Typed(b) /\ o \in Outcomes(req) /\ b.response = badge.response
               /\ badge' = FinishError(b) \/ badge' = Handle(b, req, o)
      BY <1>1, <2>8, ReadBodyCases
    <3>2. CASE badge' = FinishError(b)
      <4>1. ~FinishError(b).processing_response
        BY <3>1, ErrorFields
      <4> QED BY <3>2, <4>1 DEF Keeps
    <3>3. CASE badge' = Handle(b, req, o)
      <4>1. Keeps(Handle(b, req, o), b)
        BY <3>1, HandleKeeps
      <4> QED BY <3>1, <3>3, <4>1 DEF Keeps
    <3> QED BY <3>1, <3>2, <3>3
  <2>9. ASSUME NEW o, NEW req \in RequestTypes, RetryRequest(req, o)
        PROVE  Keeps(badge', badge)
    BY <2>3, <2>9, HandleKeeps DEF RetryRequest, Keeps
  <2>10. ASSUME NEW h \in {Status, Start}, StatusResponse(h)
         PROVE  Keeps(badge', badge)
    BY <1>1, <2>2, <2>3, <2>10 DEF StatusResponse
  <2>11. CASE TestResponse
    BY <1>1, <2>2, <2>3, <2>11 DEF TestResponse
  <2>12. ASSUME NEW k \in Kinds, NEW busy \in BOOLEAN, DataResponseHandler(k, busy)
         PROVE  Keeps(badge', badge)
    <3>1. Runs(DataResponse(k)) /\ badge' = Put(Popped, DataResponse(k))
      BY <1>1, <2>12 DEF DataResponseHandler
    <3> QED BY <2>2, <2>3, <3>1
  <2>13. ASSUME NEW some \in BOOLEAN, StreamResponse(some)
         PROVE  Keeps(badge', badge)
    <3>1. Runs(Stream) /\ badge' = Put(Popped, Stream)
      BY <1>1, <2>13 DEF StreamResponse
    <3> QED BY <2>2, <2>3, <3>1
  <2>14. CASE RetrySend
    <3>1. Runs(Send) /\ badge' = SendResponse(Popped, "transmit")
      BY <2>14 DEF RetrySend
    <3> QED BY <2>3, <3>1, SendKeeps DEF Keeps
  <2>15. CASE TransmitQueued
    BY <2>1, <2>15, TransmitKeeps
  <2>16. CASE Interrupt
    <3>1. ASSUME NEW cells, OnReceive(cells)
          PROVE  badge'.response = badge.response
      BY <2>1, <3>1 DEF OnReceive, Put, Badges
    <3>2. CASE SendRest \/ \E req \in Requests, whole \in BOOLEAN : SendRequest(req, whole)
      BY <2>2, <3>1, <3>2 DEF SendRest, SendRequest
    <3>3. CASE TransmitTick \/ OnConnect \/ OnDisconnect \/ DisconnectTimeout \/ SamplingTimeout
      BY <2>1, <2>2, <3>3 DEF TransmitTick, OnConnect, OnDisconnect, DisconnectTimeout,
                              SamplingTimeout, SenderReset, Badges
    <3> QED BY <2>16, <3>2, <3>3 DEF Interrupt
  <2>17. CASE UNCHANGED vars
    BY <2>2, <2>17 DEF vars
  <2> QED BY <1>1, <2>4, <2>5, <2>6, <2>7, <2>8, <2>9, <2>10, <2>11, <2>12, <2>13, <2>14,
             <2>15, <2>16, <2>17 DEF Next, MainLoop
<1>2. TInv /\ [Next]_vars =>
        [badge.processing_response /\ badge'.processing_response =>
           /\ badge'.response.which = badge.response.which
           /\ badge'.response.success = badge.response.success]_vars
  BY <1>1 DEF Keeps
<1> QED BY <1>2, TypeInit, TypeStep, PTL DEF Spec, ResponseKept
=============================================================================
