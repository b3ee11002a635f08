------------------------- MODULE RequestQueueProofs -------------------------
(***************************************************************************)
(* When the scheduler's queue overflows.  Load bounds its length; the      *)
(* steps of the main loop never increase it, and a packet of the client    *)
(* adds at most three: the queue never overflows for a client that waits   *)
(* until the badge has worked off what it sent.                            *)
(***************************************************************************)
EXTENDS RequestHandlerProofs, FiniteSetTheorems

-----------------------------------------------------------------------------
(* Counting handlers in a queue. *)

Among(q, S) == {i \in 1 .. Len(q) : q[i] \in S}

LEMMA AmongFinite ==
  ASSUME NEW q \in Seq(Handlers), NEW S
  PROVE  IsFiniteSet(Among(q, S)) /\ Cardinality(Among(q, S)) \in Nat
<1>1. IsFiniteSet(1 .. Len(q)) /\ Among(q, S) \in SUBSET (1 .. Len(q))
  BY FS_Interval DEF Among
<1>2. IsFiniteSet(Among(q, S))
  BY <1>1, FS_Subset
<1> QED
  BY <1>2, FS_CardinalityType

LEMMA AmongAppended ==
  ASSUME NEW q \in Seq(Handlers), NEW h \in Handlers, NEW S
  PROVE  Cardinality(Among(Append(q, h), S))
           = Cardinality(Among(q, S)) + (IF h \in S THEN 1 ELSE 0)
<1> DEFINE r == Append(q, h)
           n == Len(q) + 1
<1>1. /\ Len(q) \in Nat /\ Len(r) = n /\ r[n] = h
      /\ \A i \in 1 .. Len(q) : r[i] = q[i]
      /\ 1 .. n = 1 .. Len(q) \cup {n} /\ n \notin 1 .. Len(q)
  OBVIOUS
<1> HIDE DEF r, n
<1>2. Among(r, S) = IF h \in S THEN Among(q, S) \cup {n} ELSE Among(q, S)
  BY <1>1 DEF Among
<1>3. n \notin Among(q, S)
  BY <1>1 DEF Among
<1>4. Cardinality(Among(q, S) \cup {n}) = Cardinality(Among(q, S)) + 1
  BY <1>3, AmongFinite, FS_AddElement
<1>5. Cardinality(Among(r, S)) = Cardinality(Among(q, S)) + (IF h \in S THEN 1 ELSE 0)
  BY <1>2, <1>4, AmongFinite
<1> QED
  BY <1>5 DEF r

LEMMA AmongTail ==
  ASSUME NEW q \in Seq(Handlers), q # << >>, NEW S
  PROVE  Cardinality(Among(q, S))
           = Cardinality(Among(Tail(q), S)) + (IF Head(q) \in S THEN 1 ELSE 0)
<1> DEFINE t == Tail(q)
           A == Among(t, S)
           B == {i \in 2 .. Len(q) : q[i] \in S}
           f == [i \in A |-> i + 1]
<1>1. /\ Len(q) \in Nat /\ Len(q) >= 1 /\ t \in Seq(Handlers) /\ Len(t) = Len(q) - 1
      /\ \A i \in 1 .. Len(t) : t[i] = q[i + 1]
      /\ Head(q) = q[1] /\ 1 .. Len(q) = 2 .. Len(q) \cup {1}
  OBVIOUS
<1> HIDE DEF t
<1>2. IsFiniteSet(A)
  BY <1>1, AmongFinite
<1>3. A \subseteq 1 .. Len(t) /\ \A i \in A : i \in Int /\ i + 1 \in B
  BY <1>1 DEF Among
<1>4. \A j \in B : j - 1 \in A /\ (j - 1) + 1 = j
  <2> SUFFICES ASSUME NEW j \in B
               PROVE  j - 1 \in A /\ (j - 1) + 1 = j
    OBVIOUS
  <2>1. j - 1 \in 1 .. Len(t) /\ (j - 1) + 1 = j /\ q[j] \in S
    BY <1>1
  <2> QED
    BY <1>1, <2>1 DEF Among
<1> HIDE DEF A, B
<1>5. f \in [A -> B] /\ DOMAIN f = A
  BY <1>3
<1>6. \A a, b \in A : f[a] = f[b] => a = b
  BY <1>3
<1>7. \A j \in B : \E i \in A : f[i] = j
  BY <1>4
<1> HIDE DEF f
<1>8. f \in Bijection(A, B)
  BY <1>5, <1>6, <1>7, Zenon DEF Bijection, Injection, Surjection, IsInjective
<1>9. ExistsBijection(A, B)
  BY <1>8 DEF ExistsBijection
<1>10. IsFiniteSet(B) /\ Cardinality(B) = Cardinality(A)
  BY <1>2, <1>9, FS_Bijection
<1>11. Among(q, S) = IF Head(q) \in S THEN B \cup {1} ELSE B
  BY <1>1 DEF Among, B
<1>12. 1 \notin B
  BY DEF B
<1>13. Cardinality(B \cup {1}) = Cardinality(B) + 1
  BY <1>10, <1>12, FS_AddElement
<1>14. Cardinality(A) \in Nat
  BY <1>2, FS_CardinalityType
<1> QED
  BY <1>10, <1>11, <1>13, <1>14 DEF A, t
-----------------------------------------------------------------------------
(* The load. *)

Queue(b) == Len(b.sched) + Count(b, RequestOwners) + Count(b, RequestHandlers)
Started(b) == IF b.streaming_started THEN 1 ELSE 0
Lent(b) == IF MayStream(b) THEN 1 ELSE 0

(* The load but for what the running handler will queue. *)
Base(b) == Queue(b) + Len(b.rx) + Lent(b)

Weight(h) ==
  1 + (IF h \in RequestOwners THEN 1 ELSE 0) + (IF h \in RequestHandlers THEN 1 ELSE 0)

LEMMA CountIsAmong ==
  ASSUME NEW b, NEW S
  PROVE  Count(b, S) = Cardinality(Among(b.sched, S))
BY DEF Count, Among

LEMMA LoadSum ==
  ASSUME NEW b, Typed(b)
  PROVE  /\ Load(b) = Base(b) + Running(b)
         /\ Queue(b) \in Nat /\ Len(b.sched) <= Queue(b)
         /\ Len(b.rx) \in Nat /\ Lent(b) \in 0 .. 1 /\ Started(b) \in 0 .. 1
         /\ Running(b) \in 0 .. 2 /\ Base(b) \in Nat /\ Load(b) \in Nat
         /\ Lent(b) <= Started(b)
<1>1. b.sched \in Seq(Handlers) /\ Len(b.sched) \in Nat /\ Len(b.rx) \in Nat
  BY DEF Typed, Badges
<1>2. Count(b, RequestOwners) \in Nat /\ Count(b, RequestHandlers) \in Nat
  BY <1>1, AmongFinite, CountIsAmong
<1>3. Lent(b) \in 0 .. 1 /\ Started(b) \in 0 .. 1 /\ Lent(b) <= Started(b)
  BY DEF Lent, Started, MayStream
<1>4. Running(b) \in 0 .. 2
  BY DEF Running
<1> DEFINE l == Len(b.sched)
           o == Count(b, RequestOwners)
           h == Count(b, RequestHandlers)
           x == Len(b.rx)
           r == Running(b)
           e == Lent(b)
<1>5. Load(b) = l + o + h + x + r + e /\ Base(b) = l + o + h + x + e /\ Queue(b) = l + o + h
  BY DEF Load, Lent, Base, Queue
<1>6. l \in Nat /\ o \in Nat /\ h \in Nat /\ x \in Nat /\ r \in 0 .. 2 /\ e \in 0 .. 1
  BY <1>1, <1>2, <1>3, <1>4
<1> HIDE DEF l, o, h, x, r, e
<1>7. /\ Load(b) = Base(b) + r /\ Queue(b) \in Nat /\ l <= Queue(b)
      /\ Base(b) \in Nat /\ Load(b) \in Nat
  BY <1>5, <1>6
<1> QED
  BY <1>1, <1>3, <1>4, <1>7 DEF l, r

LEMMA Weights ==
  /\ Weight(Process) = 1 /\ Weight(Send) = 1 /\ Weight(Stream) = 1 /\ Weight(Test) = 1
  /\ Weight(NoHandler) = 1
  /\ \A k \in Kinds : Weight(DataResponse(k)) = 1
  /\ Weight(Status) = 2 /\ Weight(Start) = 2
  /\ \A req \in RequestTypes : Weight(RequestHandlerFor(req)) = 3
<1>1. \A h : h \in RequestHandlers => h[1] = "request_handler"
  BY DEF RequestHandlers, RequestHandlerFor
<1>2. \A h : h \in RequestOwners =>
               h[1] \in {"request_handler", "status_response_handler", "start_response_handler"}
  BY <1>1 DEF RequestOwners, Status, Start
<1>3. /\ Process \notin RequestOwners /\ Send \notin RequestOwners
      /\ Stream \notin RequestOwners /\ Test \notin RequestOwners
      /\ NoHandler \notin RequestOwners
      /\ \A k \in Kinds : DataResponse(k) \notin RequestOwners
  BY <1>2 DEF Process, Send, Stream, Test, NoHandler, None, DataResponse
<1>4. RequestHandlers \subseteq RequestOwners /\ Status \in RequestOwners /\ Start \in RequestOwners
  BY DEF RequestOwners
<1>5. Status \notin RequestHandlers /\ Start \notin RequestHandlers
  BY <1>1 DEF Status, Start
<1>6. \A req \in RequestTypes : RequestHandlerFor(req) \in RequestHandlers
  BY DEF RequestHandlers
<1> QED
  BY <1>3, <1>4, <1>5, <1>6 DEF Weight

(* Fields the load does not depend on. *)
LEMMA SameLoad ==
  ASSUME NEW b, NEW c,
         c.sched = b.sched, c.rx = b.rx, c.streaming_started = b.streaming_started,
         c.processing_response = b.processing_response,
         c.response.success = b.response.success
  PROVE  /\ Queue(c) = Queue(b) /\ Lent(c) = Lent(b) /\ Base(c) = Base(b)
         /\ Started(c) = Started(b)
         /\ c.pc = b.pc => Load(c) = Load(b) /\ Running(c) = Running(b)
BY DEF Queue, Count, Lent, MayStream, Base, Started, Load, Running

(* One handler more. *)
LEMMA QueueSum ==
  ASSUME NEW b, NEW c, NEW h, Typed(b), Typed(c),
         Len(c.sched) = Len(b.sched) + 1,
         Count(c, RequestOwners) = Count(b, RequestOwners) + (IF h \in RequestOwners THEN 1 ELSE 0),
         Count(c, RequestHandlers)
           = Count(b, RequestHandlers) + (IF h \in RequestHandlers THEN 1 ELSE 0),
         c.rx = b.rx, Lent(c) = Lent(b), Running(c) = Running(b)
  PROVE  /\ Base(c) = Base(b) + Weight(h) /\ Load(c) = Load(b) + Weight(h)
         /\ Weight(h) \in 1 .. 3
<1> DEFINE l == Len(b.sched)
           o == Count(b, RequestOwners)
           p == Count(b, RequestHandlers)
           i == IF h \in RequestOwners THEN 1 ELSE 0
           j == IF h \in RequestHandlers THEN 1 ELSE 0
           q == Queue(c)
<1>1. l \in Nat /\ o \in Nat /\ p \in Nat
  <2>1. b.sched \in Seq(Handlers)
    BY DEF Typed, Badges
  <2> QED
    BY <2>1, AmongFinite, CountIsAmong
<1>2. i \in 0 .. 1 /\ j \in 0 .. 1
  OBVIOUS
<1>3. q = (l + 1) + (o + i) + (p + j) /\ Queue(b) = l + o + p /\ Weight(h) = 1 + i + j
  BY DEF Queue, Weight
<1> HIDE DEF l, o, p, i, j, q
<1>4. q = Queue(b) + Weight(h) /\ Weight(h) \in 1 .. 3 /\ Queue(b) \in Nat
  BY <1>1, <1>2, <1>3
<1> DEFINE x == Len(b.rx)
           e == Lent(b)
           r == Running(b)
           u == Queue(b)
           k == Weight(h)
<1>5. /\ Base(b) = u + x + e /\ Base(c) = q + x + e
      /\ Load(b) = Base(b) + r /\ Load(c) = Base(c) + r
  BY LoadSum DEF Base, q
<1>6. x \in Nat /\ e \in 0 .. 1 /\ r \in 0 .. 2 /\ u \in Nat /\ k \in 1 .. 3 /\ q = u + k
  BY <1>4, LoadSum
<1> HIDE DEF x, e, r, u, k
<1>7. Base(c) = Base(b) + k /\ Load(c) = Load(b) + k
  BY <1>5, <1>6
<1> QED
  BY <1>6, <1>7 DEF k

LEMMA PutLoad ==
  ASSUME NEW b, Typed(b), NEW h \in Handlers
  PROVE  /\ Base(Put(b, h)) <= Base(b) + Weight(h)
         /\ Load(Put(b, h)) <= Load(b) + Weight(h)
         /\ Put(b, h).streaming_started = b.streaming_started /\ Put(b, h).pc = b.pc
         /\ Started(Put(b, h)) = Started(b)
<1>1. CASE Len(b.sched) < SchedSize
  <2> DEFINE c == Put(b, h)
  <2>1. b \in Badges /\ b.sched \in Seq(Handlers) /\ Len(b.sched) \in Nat
    BY DEF Typed, Badges
  <2>2. c = [b EXCEPT !.sched = Append(b.sched, h)]
    BY <1>1 DEF Put
  <2>3. /\ c.sched = Append(b.sched, h) /\ c.rx = b.rx /\ c.pc = b.pc
        /\ c.streaming_started = b.streaming_started
        /\ c.processing_response = b.processing_response /\ c.response = b.response
    BY <2>1, <2>2 DEF Badges
  <2> HIDE DEF c
  <2>4. /\ Lent(c) = Lent(b) /\ Running(c) = Running(b) /\ Started(c) = Started(b)
    BY <2>3 DEF Lent, MayStream, Running, Started
  <2>5. Len(c.sched) = Len(b.sched) + 1
    BY <2>1, <2>3
  <2>6. /\ Count(c, RequestOwners)
             = Count(b, RequestOwners) + (IF h \in RequestOwners THEN 1 ELSE 0)
        /\ Count(c, RequestHandlers)
             = Count(b, RequestHandlers) + (IF h \in RequestHandlers THEN 1 ELSE 0)
    BY <2>1, <2>3, AmongAppended, CountIsAmong
  <2>7. Typed(c)
    BY PutTyped DEF c
  <2>8. Base(c) = Base(b) + Weight(h) /\ Load(c) = Load(b) + Weight(h) /\ Weight(h) \in 1 .. 3
    BY <2>3, <2>4, <2>5, <2>6, <2>7, QueueSum
  <2> QED
    BY <2>3, <2>4, <2>8, LoadSum DEF c
<1>2. CASE ~(Len(b.sched) < SchedSize)
  <2>1. Put(b, h) = b
    BY <1>2 DEF Put
  <2>2. Weight(h) \in Nat
    BY DEF Weight
  <2> QED
    BY <2>1, <2>2, LoadSum
<1> QED
  BY <1>1, <1>2

LEMMA PopLoad ==
  ASSUME Typed(badge), NEW h, Runs(h)
  PROVE  /\ Typed(Popped)
         /\ Load(badge) = Load(Popped) + Weight(h) /\ Base(badge) = Base(Popped) + Weight(h)
         /\ Load(Popped) = Base(Popped) /\ Weight(h) \in 1 .. 3
         /\ Popped.streaming_started = badge.streaming_started /\ Popped.pc = "loop"
         /\ Popped.processing_response = badge.processing_response
         /\ Popped.response = badge.response
<1> DEFINE c == Popped
<1>1. /\ badge \in Badges /\ badge.sched \in Seq(Handlers) /\ Len(badge.sched) \in Nat
      /\ badge.sched # << >> /\ Head(badge.sched) = h /\ badge.pc = "loop"
  BY DEF Typed, Badges, Runs
<1>2. Typed(c)
  BY PoppedTyped
<1>3. /\ c.sched = Tail(badge.sched) /\ c.rx = badge.rx /\ c.pc = badge.pc
      /\ c.streaming_started = badge.streaming_started
      /\ c.processing_response = badge.processing_response /\ c.response = badge.response
  BY <1>1 DEF Popped, Badges
<1> HIDE DEF c
<1>4. /\ Lent(c) = Lent(badge) /\ Running(c) = 0 /\ Running(badge) = 0
  BY <1>1, <1>3 DEF Lent, MayStream, Running
<1>5. Len(badge.sched) = Len(c.sched) + 1
  BY <1>1, <1>3
<1>6. /\ Count(badge, RequestOwners)
           = Count(c, RequestOwners) + (IF h \in RequestOwners THEN 1 ELSE 0)
      /\ Count(badge, RequestHandlers)
           = Count(c, RequestHandlers) + (IF h \in RequestHandlers THEN 1 ELSE 0)
  BY <1>1, <1>3, AmongTail, CountIsAmong
<1>7. /\ Base(badge) = Base(c) + Weight(h) /\ Load(badge) = Load(c) + Weight(h)
      /\ Weight(h) \in 1 .. 3
  BY <1>2, <1>3, <1>4, <1>5, <1>6, QueueSum
<1> QED
  BY <1>1, <1>2, <1>3, <1>4, <1>7, LoadSum DEF c
-----------------------------------------------------------------------------
(* The functions the handlers are made of. *)

(* finish_error leaves what is in the queue. *)
LEMMA FinishErrorLoad ==
  ASSUME NEW b, Typed(b)
  PROVE  /\ Load(FinishError(b)) <= Base(b)
         /\ ~FinishError(b).streaming_started /\ Started(FinishError(b)) = 0
<1> DEFINE c == FinishError(b)
<1>1. b \in Badges
  BY DEF Typed
<1>2. /\ c.sched = b.sched /\ c.rx = << >> /\ c.pc = "loop"
      /\ c.streaming_started = FALSE
  BY <1>1 DEF FinishError, SenderReset, Badges
<1>3. Typed(c)
  BY FinishErrorTyped
<1> HIDE DEF c
<1>4. Queue(c) = Queue(b) /\ Len(c.rx) = 0 /\ Running(c) = 0 /\ Lent(c) = 0 /\ Started(c) = 0
  BY <1>2 DEF Queue, Count, Running, Lent, MayStream, Started
<1>5. Base(c) = Queue(c) + Len(c.rx) + Lent(c) /\ Base(b) = Queue(b) + Len(b.rx) + Lent(b)
  BY DEF Base
<1>6. Load(c) <= Base(b)
  BY <1>3, <1>4, <1>5, LoadSum
<1> QED
  BY <1>2, <1>4, <1>6 DEF c

LEMMA FinishAndRescheduleLoad ==
  ASSUME NEW b, Typed(b)
  PROVE  /\ Load(FinishAndReschedule(b)) <= Load(b) + 1
         /\ Base(FinishAndReschedule(b)) <= Base(b) + 1
<1> DEFINE c == [b EXCEPT !.processing_receive_notification = FALSE]
<1>1. Typed(c)
  BY DEF Typed, Badges
<1>2. /\ c.sched = b.sched /\ c.rx = b.rx /\ c.streaming_started = b.streaming_started
      /\ c.processing_response = b.processing_response /\ c.response = b.response
      /\ c.pc = b.pc
  BY DEF Typed, Badges
<1>3. FinishAndReschedule(b) = Put(c, Process)
  BY DEF FinishAndReschedule
<1> HIDE DEF c
<1>4. Load(c) = Load(b) /\ Base(c) = Base(b)
  BY <1>2, SameLoad
<1> QED
  BY <1>1, <1>3, <1>4, PutLoad, Weights, HandlersTyped

LEMMA FindLoad ==
  ASSUME NEW b, Typed(b), NEW k, NEW o
  PROVE  Load(Find(b, k, o)) = Load(b)
<1>1. LET c == Find(b, k, o)
      IN  /\ c.sched = b.sched /\ c.rx = b.rx /\ c.streaming_started = b.streaming_started
          /\ c.processing_response = b.processing_response /\ c.response = b.response
          /\ c.pc = b.pc
  BY DEF Find, Typed, Badges
<1> QED
  BY <1>1, SameLoad

LEMMA StartStreamLoad ==
  ASSUME NEW b, Typed(b), b.pc = "loop"
  PROVE  Load(StartStream(b)) <= Load(b) + 2
<1> DEFINE c == [b EXCEPT !.streaming = TRUE]
           d == [c EXCEPT !.streaming_started = TRUE]
<1>1. Typed(c) /\ Typed(d)
  BY DEF Typed, Badges
<1>2. /\ c.sched = b.sched /\ c.rx = b.rx /\ c.streaming_started = b.streaming_started
      /\ c.processing_response = b.processing_response /\ c.response = b.response
      /\ c.pc = b.pc
  BY DEF Typed, Badges
<1>3. d.sched = b.sched /\ d.rx = b.rx /\ d.pc = "loop"
  BY DEF Typed, Badges
<1>4. StartStream(b) = IF c.streaming_started THEN c ELSE Put(d, Stream)
  BY DEF StartStream
<1> HIDE DEF c, d
<1>5. Load(c) = Load(b)
  BY <1>2, SameLoad
<1>6. Queue(d) = Queue(b) /\ Running(d) = 0 /\ Running(b) = 0
  BY <1>3 DEF Queue, Count, Running
<1>7. Base(d) = Queue(b) + Len(b.rx) + Lent(d) /\ Base(b) = Queue(b) + Len(b.rx) + Lent(b)
  BY <1>3, <1>6 DEF Base
<1>8. Load(d) <= Load(b) + 1
  BY <1>1, <1>6, <1>7, LoadSum
<1>9. Load(Put(d, Stream)) <= Load(b) + 2
  <2>1. Load(Put(d, Stream)) <= Load(d) + 1 /\ Typed(Put(d, Stream))
    BY <1>1, PutLoad, PutTyped, Weights, HandlersTyped
  <2> QED
    BY <1>1, <1>8, <2>1, LoadSum
<1> QED
  BY <1>4, <1>5, <1>9, LoadSum

LEMMA InitLoad == Load(InitBadge) = 0
<1>1. /\ InitBadge.sched = << >> /\ InitBadge.rx = << >> /\ InitBadge.pc = "loop"
      /\ InitBadge.streaming_started = FALSE
  BY DEF InitBadge
<1>2. Count(InitBadge, RequestOwners) = 0 /\ Count(InitBadge, RequestHandlers) = 0
  <2>1. \A S : {i \in 1 .. Len(InitBadge.sched) : InitBadge.sched[i] \in S} = {}
    BY <1>1
  <2> QED
    BY <2>1, FS_EmptySet DEF Count
<1>3. Running(InitBadge) = 0 /\ ~MayStream(InitBadge)
  BY <1>1 DEF Running, MayStream
<1> QED
  BY <1>1, <1>2, <1>3 DEF Load

(* A request handler queues itself again, or what it needs and itself no   *)
(* more.                                                                   *)
LEMMA HandleLoad ==
  ASSUME NEW b, Typed(b), b.pc = "loop", NEW req \in RequestTypes, NEW o \in Outcomes(req)
  PROVE  Load(Handle(b, req, o)) <= Load(b) + 3
<1>1. CASE req[2] \in Kinds /\ HandleData(b, req[2], o, req)
  <2> DEFINE c == Find(b, req[2], o)
  <2>1. Typed(c) /\ Load(c) = Load(b)
    BY <1>1, FindTyped, FindLoad, OutcomesTyped
  <2> HIDE DEF c
  <2>2. CASE Handle(b, req, o) = FinishAndReschedule(Put(c, DataResponse(req[2])))
    <3> DEFINE d == Put(c, DataResponse(req[2]))
    <3>1. Typed(d) /\ Load(d) <= Load(c) + 1
      BY <1>1, <2>1, PutTyped, PutLoad, Weights, HandlersTyped
    <3>2. Handle(b, req, o) = FinishAndReschedule(d)
      BY <2>2
    <3> HIDE DEF d
    <3>3. /\ Load(FinishAndReschedule(d)) <= Load(d) + 1
          /\ Typed(FinishAndReschedule(d))
      BY <3>1, FinishAndRescheduleLoad, FinishAndRescheduleTyped
    <3> QED
      BY <2>1, <3>1, <3>2, <3>3, LoadSum
  <2>3. CASE Handle(b, req, o) = Put(c, RequestHandlerFor(req))
    BY <2>1, <2>3, PutLoad, Weights, HandlersTyped
  <2> QED
    BY <1>1, <2>2, <2>3 DEF HandleData, c
<1>2. CASE HandleOther(b, req, o)
  <2>0. Load(b) \in Nat /\ Base(b) <= Load(b) /\ Base(b) \in Nat
    BY LoadSum
  <2>1. CASE Handle(b, req, o) = Put(b, RequestHandlerFor(req))
    BY <2>1, PutLoad, Weights, HandlersTyped
  <2>2. CASE Handle(b, req, o) = FinishError(b)
    <3>1. Load(FinishError(b)) <= Base(b) /\ Load(FinishError(b)) \in Nat
      BY FinishErrorLoad, FinishErrorTyped, LoadSum
    <3> QED
      BY <2>0, <2>2, <3>1
  <2>3. CASE Handle(b, req, o) = Put(b, Status) \/ Handle(b, req, o) = Put(b, Start)
    <3>1. /\ Load(Put(b, Status)) <= Load(b) + 2 /\ Load(Put(b, Start)) <= Load(b) + 2
          /\ Load(Put(b, Status)) \in Nat /\ Load(Put(b, Start)) \in Nat
      BY PutLoad, PutTyped, Weights, HandlersTyped, LoadSum
    <3> QED
      BY <2>0, <2>3, <3>1
  <2>4. CASE Handle(b, req, o) = FinishAndReschedule(StartStream(b))
    <3> DEFINE d == StartStream(b)
    <3>1. Typed(d) /\ Load(d) <= Load(b) + 2
      BY StartStreamTyped, StartStreamLoad
    <3>2. Handle(b, req, o) = FinishAndReschedule(d)
      BY <2>4
    <3> HIDE DEF d
    <3>3. /\ Load(FinishAndReschedule(d)) <= Load(d) + 1
          /\ Typed(FinishAndReschedule(d))
      BY <3>1, FinishAndRescheduleLoad, FinishAndRescheduleTyped
    <3> QED
      BY <2>0, <3>1, <3>2, <3>3, LoadSum
  <2>5. CASE Handle(b, req, o) = FinishAndReschedule([b EXCEPT !.streaming = FALSE])
    <3> DEFINE d == [b EXCEPT !.streaming = FALSE]
    <3>1. Typed(d)
      BY DEF Typed, Badges
    <3>2. Load(d) = Load(b)
      <4>1. /\ d.sched = b.sched /\ d.rx = b.rx /\ d.streaming_started = b.streaming_started
            /\ d.processing_response = b.processing_response /\ d.response = b.response
            /\ d.pc = b.pc
        BY DEF Typed, Badges
      <4> HIDE DEF d
      <4> QED
        BY <4>1, SameLoad
    <3>3. Handle(b, req, o) = FinishAndReschedule(d)
      BY <2>5
    <3> HIDE DEF d
    <3>4. /\ Load(FinishAndReschedule(d)) <= Load(d) + 1
          /\ Typed(FinishAndReschedule(d))
      BY <3>1, FinishAndRescheduleLoad, FinishAndRescheduleTyped
    <3> QED
      BY <2>0, <3>2, <3>3, <3>4, LoadSum
  <2>6. CASE Handle(b, req, o) = FinishAndReschedule(Put(b, Test))
    <3> DEFINE d == Put(b, Test)
    <3>1. Typed(d) /\ Load(d) <= Load(b) + 1
      BY PutTyped, PutLoad, Weights, HandlersTyped
    <3>2. Handle(b, req, o) = FinishAndReschedule(d)
      BY <2>6
    <3> HIDE DEF d
    <3>3. /\ Load(FinishAndReschedule(d)) <= Load(d) + 1
          /\ Typed(FinishAndReschedule(d))
      BY <3>1, FinishAndRescheduleLoad, FinishAndRescheduleTyped
    <3> QED
      BY <2>0, <3>1, <3>2, <3>3, LoadSum
  <2>7. CASE Handle(b, req, o) = FinishAndReschedule(b)
    <3>1. /\ Load(FinishAndReschedule(b)) <= Load(b) + 1
          /\ Load(FinishAndReschedule(b)) \in Nat
      BY FinishAndRescheduleLoad, FinishAndRescheduleTyped, LoadSum
    <3> QED
      BY <2>0, <2>7, <3>1
  <2>8. CASE Handle(b, req, o) = InitBadge
    BY <2>0, <2>8, InitLoad
  <2> QED
    BY <1>2, <2>1, <2>2, <2>3, <2>4, <2>5, <2>6, <2>7, <2>8 DEF HandleOther
<1> QED
  BY <1>1, <1>2, HandleCases

(* A response that is sent makes room for what follows it, or for another  *)
(* of the stream.                                                          *)
LEMMA SentLoad ==
  ASSUME NEW b, Typed(b), b.tx < TxSize
  PROVE  /\ Load(Sent(b)) <= Base(b) + 1 /\ Started(Sent(b)) = Started(b)
         /\ Sent(b).pc = "loop"
<1> DEFINE c == [b EXCEPT !.pc = "loop", !.tx = @ + 1, !.transmitting = TRUE,
                          !.processing_response = FALSE]
<1>1. b.tx + 1 \in 0 .. TxSize
  BY Sizes DEF Typed, Badges
<1>2. Typed(c)
  BY <1>1 DEF Typed, Badges, Steps
<1>3. /\ c.sched = b.sched /\ c.rx = b.rx /\ c.pc = "loop" /\ c.processing_response = FALSE
      /\ c.streaming_started = b.streaming_started
  BY DEF Typed, Badges
<1>4. Sent(b) = IF b.response.success = NoHandler THEN c ELSE Put(c, b.response.success)
  BY DEF Sent
<1>5. b.response.success \in Followers
  BY DEF Typed, Badges, ResponseEvents
<1> HIDE DEF c
<1>6. Queue(c) = Queue(b) /\ Running(c) = 0 /\ Lent(c) = Started(b) /\ Started(c) = Started(b)
  BY <1>3 DEF Queue, Count, Running, Lent, MayStream, Started
<1>7. Base(c) = Queue(b) + Len(b.rx) + Started(b) /\ Base(b) = Queue(b) + Len(b.rx) + Lent(b)
  BY <1>3, <1>6 DEF Base
<1>8. Load(c) <= Base(b) + 1
  BY <1>2, <1>6, <1>7, LoadSum
<1>9. CASE b.response.success = NoHandler
  BY <1>3, <1>4, <1>6, <1>8, <1>9
<1>10. CASE b.response.success # NoHandler
  <2>1. Lent(b) = Started(b)
    BY <1>10 DEF Lent, Started, MayStream
  <2>2. Load(c) = Base(b)
    BY <1>2, <1>6, <1>7, <2>1, LoadSum
  <2>3. b.response.success \in Handlers
    BY <1>5, <1>10, HandlersTyped
  <2>4. Weight(b.response.success) = 1
    BY <1>5, Weights DEF Followers
  <2> QED
    BY <1>2, <1>3, <1>4, <1>6, <1>10, <2>2, <2>3, <2>4, PutLoad
<1> QED
  BY <1>9, <1>10

LEMMA NoMemLoad ==
  ASSUME NEW b, Typed(b)
  PROVE  /\ Load(NoMem(b)) <= Base(b) + 1 /\ Started(NoMem(b)) = Started(b)
         /\ NoMem(b).pc = "loop"
<1> DEFINE c == [b EXCEPT !.pc = "loop"]
<1>1. Typed(c)
  BY DEF Typed, Badges, Steps
<1>2. /\ c.sched = b.sched /\ c.rx = b.rx /\ c.streaming_started = b.streaming_started
      /\ c.processing_response = b.processing_response /\ c.response = b.response
      /\ c.pc = "loop"
  BY DEF Typed, Badges
<1>3. NoMem(b) = Put(c, Send)
  BY DEF NoMem
<1> HIDE DEF c
<1>4. Base(c) = Base(b) /\ Started(c) = Started(b) /\ Running(c) = 0
  BY <1>2, SameLoad DEF Running
<1>5. Load(c) = Base(b)
  BY <1>1, <1>4, LoadSum
<1> QED
  BY <1>1, <1>2, <1>3, <1>4, <1>5, PutLoad, Weights, HandlersTyped

LEMMA RetriedLoad ==
  ASSUME NEW b, Typed(b), b.response.retries <= MaxRetries
  PROVE  Base(Retried(b)) = Base(b) /\ Started(Retried(b)) = Started(b)
<1>1. /\ Retried(b).sched = b.sched /\ Retried(b).rx = b.rx
      /\ Retried(b).streaming_started = b.streaming_started
      /\ Retried(b).processing_response = b.processing_response
  BY DEF Retried, Typed, Badges
<1> QED
  BY <1>1, RetriedTyped, SameLoad

(* send_response leaves the response pending, or its successor; the wait   *)
(* of a stream also keeps what the stream will queue.                      *)
LEMMA SendLoad ==
  ASSUME NEW b, Typed(b), NEW waiting \in {"transmit", "stream_transmit"}
  PROVE  LET c == SendResponse(b, waiting)
         IN  \/ Load(c) <= Base(b) + 1 /\ Started(c) <= Started(b)
             \/ /\ waiting = "stream_transmit" /\ c.pc = "stream_transmit"
                /\ Load(c) <= Base(b) + 1 + Started(b)
<1> DEFINE c == SendResponse(b, waiting)
           Less == Load(c) <= Base(b) + 1 /\ Started(c) <= Started(b)
           Waits == /\ waiting = "stream_transmit" /\ c.pc = "stream_transmit"
                    /\ Load(c) <= Base(b) + 1 + Started(b)
<1> SUFFICES Less \/ Waits
  OBVIOUS
<1>0. Base(b) \in Nat /\ Started(b) \in 0 .. 1
  BY LoadSum
<1>a. ASSUME NEW n \in Nat, n <= Base(b) + 1, Load(c) = n,
             NEW s \in 0 .. 1, s <= Started(b), Started(c) = s
      PROVE  Less
  BY <1>a
<1>b. \/ c = FinishError(b)
      \/ /\ b.response.retries <= MaxRetries
         /\ \/ c = FinishError(Retried(b))
            \/ b.tx < TxSize /\ c = Sent(Retried(b))
            \/ c = [Retried(b) EXCEPT !.pc = waiting]
  BY SendResponseCases
<1> HIDE DEF c, Less
<1>1. CASE c = FinishError(b)
  <2>1. Load(c) <= Base(b) /\ Started(c) = 0 /\ Load(c) \in Nat
    BY <1>1, FinishErrorLoad, FinishErrorTyped, LoadSum
  <2>2. Load(c) <= Base(b) + 1
    BY <1>0, <2>1
  <2>3. 0 \in 0 .. 1 /\ 0 <= Started(b)
    BY <1>0
  <2> QED
    BY <1>a, <2>1, <2>2, <2>3
<1>2. CASE b.response.retries <= MaxRetries /\ c # FinishError(b)
  <2> DEFINE d == Retried(b)
             e == [d EXCEPT !.pc = waiting]
  <2>1. Typed(d) /\ d.tx = b.tx /\ Base(d) = Base(b) /\ Started(d) = Started(b)
    BY <1>2, RetriedTyped, RetriedLoad
  <2>2. c = FinishError(d) \/ (b.tx < TxSize /\ c = Sent(d)) \/ c = e
    BY <1>2, <1>b
  <2> HIDE DEF d
  <2>3. CASE c = FinishError(d)
    <3>1. Load(c) <= Base(d) /\ Started(c) = 0 /\ Load(c) \in Nat
      BY <2>1, <2>3, FinishErrorLoad, FinishErrorTyped, LoadSum
    <3>2. Load(c) <= Base(b) + 1
      BY <1>0, <2>1, <3>1
    <3> QED
      BY <1>0, <1>a, <3>1, <3>2
  <2>4. CASE b.tx < TxSize /\ c = Sent(d)
    <3>1. Load(c) <= Base(b) + 1 /\ Started(c) = Started(b)
      BY <2>1, <2>4, SentLoad
    <3>2. Load(c) \in Nat
      BY <2>1, <2>4, SentTyped, LoadSum
    <3> QED
      BY <1>0, <1>a, <3>1, <3>2
  <2>5. CASE c = e
    <3>1. Typed(e)
      BY <2>1 DEF Typed, Badges, Steps
    <3>2. /\ e.sched = d.sched /\ e.rx = d.rx /\ e.streaming_started = d.streaming_started
          /\ e.processing_response = d.processing_response /\ e.response = d.response
          /\ e.pc = waiting
      BY <2>1 DEF Typed, Badges
    <3> HIDE DEF e
    <3>3. Base(e) = Base(b) /\ Started(e) = Started(b)
      BY <2>1, <3>2, SameLoad
    <3>4. Running(e) = IF waiting = "transmit" THEN 1 ELSE 1 + Started(b)
      <4>1. CASE waiting = "transmit"
        BY <3>2, <4>1 DEF Running
      <4>2. CASE waiting = "stream_transmit"
        <5>1. Running(e) = 1 + Started(e)
          BY <3>2, <4>2 DEF Running, Started
        <5> QED
          BY <3>3, <4>2, <5>1
      <4> QED
        BY <4>1, <4>2
    <3>5. Load(e) = Base(b) + Running(e)
      BY <3>1, <3>3, LoadSum
    <3>6. CASE waiting = "transmit"
      <4>1. Load(c) \in Nat /\ Load(c) <= Base(b) + 1
        BY <1>0, <2>5, <3>4, <3>5, <3>6
      <4> QED
        BY <1>0, <1>a, <2>5, <3>3, <4>1
    <3>7. CASE waiting = "stream_transmit"
      <4>1. Load(c) = Base(b) + (1 + Started(b))
        BY <2>5, <3>4, <3>5, <3>7
      <4>2. Load(c) <= Base(b) + 1 + Started(b)
        BY <1>0, <4>1
      <4> QED
        BY <2>5, <3>2, <3>7, <4>2
    <3> QED
      BY <3>6, <3>7
  <2> QED
    BY <2>2, <2>3, <2>4, <2>5
<1> QED
  BY <1>1, <1>2, <1>b

LEMMA StreamTailLoad ==
  ASSUME NEW b, Typed(b), b.pc = "loop", NEW cfg \in BOOLEAN
  PROVE  Load(StreamTail(b, cfg)) <= Load(b) + Started(b)
<1> DEFINE c == [b EXCEPT !.streaming = @ /\ b.streaming_started]
           d == [c EXCEPT !.streaming_started = FALSE]
<1>0. Load(b) \in Nat /\ Started(b) \in 0 .. 1
  BY LoadSum
<1>1. Typed(c) /\ Typed(d)
  BY DEF Typed, Badges
<1>2. /\ c.sched = b.sched /\ c.rx = b.rx /\ c.streaming_started = b.streaming_started
      /\ c.processing_response = b.processing_response /\ c.response = b.response
      /\ c.pc = b.pc
  BY DEF Typed, Badges
<1>3. d.sched = b.sched /\ d.rx = b.rx /\ d.pc = "loop" /\ ~d.streaming_started
  BY DEF Typed, Badges
<1>4. StreamTail(b, cfg) = IF cfg /\ b.streaming_started THEN Put(c, Stream) ELSE d
  BY DEF StreamTail
<1> HIDE DEF c, d
<1>5. Load(c) = Load(b)
  BY <1>2, SameLoad
<1>6. Queue(d) = Queue(b) /\ Running(d) = 0 /\ Running(b) = 0 /\ Lent(d) = 0
  BY <1>3 DEF Queue, Count, Running, Lent, MayStream
<1>7. Base(d) = Queue(b) + Len(b.rx) + Lent(d) /\ Base(b) = Queue(b) + Len(b.rx) + Lent(b)
  BY <1>3, <1>6 DEF Base
<1>8. Load(d) <= Load(b) /\ Load(d) \in Nat
  BY <1>1, <1>6, <1>7, LoadSum
<1>9. CASE cfg /\ b.streaming_started
  <2>1. Load(Put(c, Stream)) <= Load(b) + 1
    BY <1>1, <1>5, PutLoad, Weights, HandlersTyped
  <2>2. Started(b) = 1
    BY <1>9 DEF Started
  <2> QED
    BY <1>4, <1>9, <2>1, <2>2
<1>10. CASE ~(cfg /\ b.streaming_started)
  BY <1>0, <1>4, <1>8, <1>10
<1> QED
  BY <1>9, <1>10

(* A response takes back what the stream was lent, unless another follows. *)
LEMMA RespondLoad ==
  ASSUME NEW b, Typed(b), ~b.processing_response,
         NEW which \in ResponseHandlers, NEW success \in Followers
  PROVE  LET c == Respond(b, which, success)
         IN  /\ Typed(c) /\ c.pc = b.pc /\ Base(c) <= Base(b) /\ Started(c) = Started(b)
             /\ success = NoHandler => Base(c) + Started(b) = Base(b)
             /\ c.processing_response /\ c.response.success = success
             /\ c.sched = b.sched /\ c.rx = b.rx
             /\ c.streaming_started = b.streaming_started
<1> DEFINE c == Respond(b, which, success)
<1>1. Typed(c) /\ c.pc = b.pc
  BY RespondTyped
<1>2. /\ c.sched = b.sched /\ c.rx = b.rx /\ c.streaming_started = b.streaming_started
      /\ c.processing_response = TRUE /\ c.response.success = success
  BY DEF Respond, Typed, Badges
<1> HIDE DEF c
<1>3. Queue(c) = Queue(b) /\ Started(c) = Started(b) /\ Lent(b) = Started(b)
  BY <1>2 DEF Queue, Count, Started, Lent, MayStream
<1>4. success = NoHandler => Lent(c) = 0
  BY <1>2 DEF Lent, MayStream
<1>5. Base(c) = Queue(b) + Len(b.rx) + Lent(c) /\ Base(b) = Queue(b) + Len(b.rx) + Started(b)
  BY <1>2, <1>3 DEF Base
<1>6. Base(c) <= Base(b) /\ (success = NoHandler => Base(c) + Started(b) = Base(b))
  <2>1. /\ Queue(b) \in Nat /\ Len(b.rx) \in Nat /\ Lent(c) \in 0 .. 1 /\ Started(b) \in 0 .. 1
        /\ Lent(c) <= Started(b)
    BY <1>1, <1>3, LoadSum
  <2> QED
    BY <1>4, <1>5, <2>1
<1> QED
  BY <1>1, <1>2, <1>3, <1>6 DEF c
-----------------------------------------------------------------------------
(* The steps of the main loop. *)

LEMMA PutBackLoad ==
  ASSUME Typed(badge), NEW h \in Handlers, Runs(h), badge' = Put(Popped, h)
  PROVE  Load(badge') <= Load(badge)
BY PopLoad, PutLoad

LEMMA ProcessLoad ==
  ASSUME TInv, TInv', ProcessReceiveNotification
  PROVE  Load(badge') <= Load(badge)
<1> DEFINE b == [Popped EXCEPT !.processing_receive_notification = TRUE]
           f == [b EXCEPT !.pc = "flush"]
           g == [b EXCEPT !.pc = "header",
                          !.response_timestamp = badge.notifications[1].timepoint]
<1>1. Runs(Process) /\ Typed(badge) /\ Typed(badge')
  BY DEF ProcessReceiveNotification, TInv
<1>2. /\ Typed(Popped) /\ Load(badge) = Base(Popped) + 1 /\ Popped.pc = "loop"
      /\ Base(Popped) \in Nat
  BY <1>1, PopLoad, Weights, LoadSum
<1>3. Typed(b)
  BY <1>2 DEF Typed, Badges
<1>4. /\ b.sched = Popped.sched /\ b.rx = Popped.rx
      /\ b.streaming_started = Popped.streaming_started
      /\ b.processing_response = Popped.processing_response /\ b.response = Popped.response
  BY <1>2 DEF Typed, Badges
<1>5. badge' = Put(Popped, Process) \/ badge' = FinishError(b) \/ badge' = f \/ badge' = g
  BY DEF ProcessReceiveNotification
<1> HIDE DEF b
<1>6. Base(b) = Base(Popped)
  BY <1>4, SameLoad
<1>7. CASE badge' = Put(Popped, Process)
  BY <1>1, <1>7, PutBackLoad, HandlersTyped
<1>8. CASE badge' = FinishError(b)
  <2>1. Load(badge') <= Base(b) /\ Load(badge') \in Nat
    BY <1>3, <1>8, FinishErrorLoad, FinishErrorTyped, LoadSum
  <2> QED
    BY <1>2, <1>6, <2>1
<1>9. CASE badge' = f \/ badge' = g
  <2>1. /\ f.sched = b.sched /\ f.rx = b.rx /\ f.streaming_started = b.streaming_started
        /\ f.processing_response = b.processing_response /\ f.response = b.response
        /\ f.pc = "flush"
        /\ g.sched = b.sched /\ g.rx = b.rx /\ g.streaming_started = b.streaming_started
        /\ g.processing_response = b.processing_response /\ g.response = b.response
        /\ g.pc = "header"
    BY <1>3 DEF Typed, Badges
  <2> HIDE DEF f, g
  <2>2. Base(f) = Base(Popped) /\ Base(g) = Base(Popped)
    BY <1>6, <2>1, SameLoad
  <2>3. Running(f) = 0 /\ Running(g) = 1
    BY <2>1 DEF Running
  <2>4. Base(badge') = Base(Popped) /\ Running(badge') \in 0 .. 1
    BY <1>9, <2>2, <2>3
  <2>6. Load(badge') = Base(badge') + Running(badge')
    BY <1>1, LoadSum
  <2> QED
    BY <1>2, <2>4, <2>6
<1> QED
  BY <1>5, <1>7, <1>8, <1>9

(* A cell of rx_fifo that is taken out. *)
LEMMA CellRead ==
  ASSUME NEW b, NEW c, Typed(b), b.rx # << >>, c.rx = Tail(b.rx), c.sched = b.sched,
         c.streaming_started = b.streaming_started,
         c.processing_response = b.processing_response,
         c.response = b.response
  PROVE  Base(b) = Base(c) + 1
<1>1. Len(b.rx) = Len(c.rx) + 1 /\ Len(c.rx) \in Nat
  BY DEF Typed, Badges
<1>2. Queue(c) = Queue(b) /\ Lent(c) = Lent(b)
  BY DEF Queue, Count, Lent, MayStream
<1>3. Base(c) = Queue(b) + Len(c.rx) + Lent(b) /\ Base(b) = Queue(b) + Len(b.rx) + Lent(b)
  BY <1>2 DEF Base
<1>4. Queue(b) \in Nat /\ Lent(b) \in 0 .. 1
  BY LoadSum
<1> QED
  BY <1>1, <1>3, <1>4

LEMMA ReadLoad ==
  ASSUME TInv, TInv', FlushNotifications \/ ReadHeader \/ AwaitTimeout
  PROVE  Load(badge') <= Load(badge)
<1>0. /\ Typed(badge) /\ Typed(badge') /\ badge \in Badges
      /\ Load(badge) = Base(badge) + Running(badge)
      /\ Load(badge') = Base(badge') + Running(badge')
      /\ Base(badge) \in Nat /\ Base(badge') \in Nat /\ Running(badge) \in Nat
  BY LoadSum DEF TInv, Typed
<1>1. CASE FlushNotifications
  <2>1. /\ badge'.sched = badge.sched /\ badge'.rx = badge.rx
        /\ badge'.streaming_started = badge.streaming_started
        /\ badge'.processing_response = badge.processing_response
        /\ badge'.response = badge.response /\ badge'.pc = "loop"
    BY <1>0, <1>1 DEF FlushNotifications, Badges
  <2>2. Base(badge') = Base(badge) /\ Running(badge') = 0
    BY <2>1, SameLoad DEF Running
  <2> QED
    BY <1>0, <2>2
<1>2. CASE ReadHeader
  <2> DEFINE b == [badge EXCEPT !.rx = Tail(@)]
             c == [b EXCEPT !.pc = "body"]
  <2>1. badge.pc = "header" /\ badge.rx # << >> /\ (badge' = c \/ badge' = FinishError(b))
    BY <1>2 DEF ReadHeader
  <2>2. Tail(badge.rx) \in Seq(Cells) /\ Len(Tail(badge.rx)) <= RxSize
    <3>1. badge.rx \in Seq(Cells) /\ Len(badge.rx) <= RxSize
      BY <1>0 DEF Typed, Badges
    <3> QED
      BY <2>1, <3>1, Sizes
  <2>3. Typed(b)
    BY <1>0, <2>2 DEF Typed, Badges
  <2>4. /\ b.rx = Tail(badge.rx) /\ b.sched = badge.sched
        /\ b.streaming_started = badge.streaming_started
        /\ b.processing_response = badge.processing_response
        /\ b.response = badge.response
        /\ c.rx = Tail(badge.rx) /\ c.sched = badge.sched
        /\ c.streaming_started = badge.streaming_started
        /\ c.processing_response = badge.processing_response
        /\ c.response = badge.response /\ c.pc = "body"
    BY <1>0 DEF Badges
  <2> HIDE DEF b, c
  <2>5. Base(badge) = Base(b) + 1 /\ Base(badge) = Base(c) + 1 /\ Base(b) \in Nat
    BY <1>0, <2>1, <2>3, <2>4, CellRead, LoadSum
  <2>6. Running(badge) = 1 /\ Running(c) = 2
    BY <2>1, <2>4 DEF Running
  <2>7. CASE badge' = c
    BY <1>0, <2>5, <2>6, <2>7
  <2>8. CASE badge' = FinishError(b)
    <3>1. Load(badge') <= Base(b)
      BY <2>3, <2>8, FinishErrorLoad
    <3>2. Load(badge') \in Nat /\ Load(badge) = Base(b) + 2
      BY <1>0, <2>5, <2>6, LoadSum
    <3> QED
      BY <2>5, <3>1, <3>2
  <2> QED
    BY <2>1, <2>7, <2>8
<1>3. CASE AwaitTimeout
  <2>1. badge' = FinishError(badge)
    BY <1>3 DEF AwaitTimeout
  <2>2. Load(badge') <= Base(badge)
    BY <1>0, <2>1, FinishErrorLoad
  <2>3. Load(badge') \in Nat
    BY <1>0, LoadSum
  <2> QED
    BY <1>0, <2>2, <2>3
<1> QED
  BY <1>1, <1>2, <1>3

LEMMA ReadBodyLoad ==
  ASSUME TInv, TInv', NEW o, ReadBody(o)
  PROVE  Load(badge') <= Load(badge)
<1>0. /\ Typed(badge) /\ Load(badge) = Base(badge) + Running(badge) /\ Base(badge) \in Nat
      /\ Load(badge') \in Nat
  BY LoadSum DEF TInv
<1>1. PICK req, b :
         /\ req \in RequestTypes /\ Typed(b) /\ b.pc = "loop" /\ o \in Outcomes(req)
         /\ b.sched = badge.sched /\ b.rx = Tail(badge.rx)
         /\ b.processing_response = badge.processing_response
         /\ b.response = badge.response
         /\ b.streaming_started = badge.streaming_started
         /\ badge' = FinishError(b) \/ badge' = Handle(b, req, o)
  BY ReadBodyCases, Zenon
<1>2. badge.pc = "body" /\ badge.rx # << >>
  BY DEF ReadBody
<1>3. Running(badge) = 2 /\ Running(b) = 0
  BY <1>1, <1>2 DEF Running
<1>4. Base(badge) = Base(b) + 1
  BY <1>0, <1>1, <1>2, CellRead
<1>5. Load(b) = Base(b) /\ Base(b) \in Nat
  BY <1>1, <1>3, LoadSum
<1>6. Load(badge) = Load(b) + 3 /\ Load(b) \in Nat
  BY <1>0, <1>3, <1>4, <1>5
<1>7. CASE badge' = FinishError(b)
  <2>1. Load(badge') <= Base(b)
    BY <1>1, <1>7, FinishErrorLoad
  <2> QED
    BY <1>0, <1>5, <1>6, <2>1
<1>8. CASE badge' = Handle(b, req, o)
  <2>1. Load(badge') <= Load(b) + 3
    BY <1>1, <1>8, HandleLoad
  <2> QED
    BY <1>6, <2>1
<1> QED
  BY <1>1, <1>7, <1>8

LEMMA RetryLoad ==
  ASSUME TInv, NEW req \in RequestTypes, NEW o, RetryRequest(req, o)
  PROVE  Load(badge') <= Load(badge)
<1>1. /\ Runs(RequestHandlerFor(req)) /\ o \in Outcomes(req)
      /\ badge' = Handle(Popped, req, o) /\ Typed(badge)
  BY DEF RetryRequest, TInv
<1>2. /\ Typed(Popped) /\ Popped.pc = "loop" /\ Load(badge) = Load(Popped) + 3
  BY <1>1, PopLoad, Weights
<1> QED
  BY <1>1, <1>2, HandleLoad

(* status_response_handler and the like. *)
LEMMA RespondingLoad ==
  ASSUME TInv, TInv',
         \/ \E h \in {Status, Start} : StatusResponse(h)
         \/ TestResponse \/ RetrySend
  PROVE  Load(badge') <= Load(badge)
<1>0. Typed(badge) /\ Load(badge) \in Nat /\ Load(badge') \in Nat
  BY LoadSum DEF TInv
<1>a. ASSUME NEW b, Typed(b), Load(badge) >= Base(b) + 1, badge' = SendResponse(b, "transmit")
      PROVE  Load(badge') <= Load(badge)
  <2>1. Load(badge') <= Base(b) + 1
    BY <1>a, SendLoad
  <2>2. Base(b) \in Nat
    BY <1>a, LoadSum
  <2> QED
    BY <1>0, <1>a, <2>1, <2>2
<1>1. ASSUME NEW h \in {Status, Start}, StatusResponse(h)
      PROVE  Load(badge') <= Load(badge)
  <2> DEFINE b == Respond(Popped, h, NoHandler)
             c == FinishAndReschedule(b)
  <2>1. /\ Runs(h) /\ h \in ResponseHandlers /\ h \in Handlers /\ Weight(h) = 2
        /\ NoHandler \in Followers
    BY <1>1, HandlersTyped, Weights DEF StatusResponse
  <2>2. CASE badge.processing_response
    BY <1>0, <1>1, <2>1, <2>2, PutBackLoad DEF StatusResponse
  <2>3. CASE ~badge.processing_response
    <3>1. badge' = SendResponse(c, "transmit")
      BY <1>1, <2>3 DEF StatusResponse
    <3>2. /\ Typed(Popped) /\ ~Popped.processing_response
          /\ Load(badge) = Base(Popped) + 2
      BY <1>0, <2>1, <2>3, PopLoad
    <3>3. Typed(b) /\ Base(b) <= Base(Popped)
      BY <2>1, <3>2, RespondLoad
    <3> HIDE DEF b
    <3>4. Typed(c) /\ Base(c) <= Base(b) + 1
      BY <3>3, FinishAndRescheduleTyped, FinishAndRescheduleLoad
    <3> HIDE DEF c
    <3>5. Base(Popped) \in Nat /\ Base(b) \in Nat /\ Base(c) \in Nat
      BY <3>2, <3>3, <3>4, LoadSum
    <3>6. Load(badge) >= Base(c) + 1
      BY <3>2, <3>3, <3>4, <3>5
    <3> QED
      BY <1>a, <3>1, <3>4, <3>6
  <2> QED
    BY <2>2, <2>3
<1>2. CASE TestResponse
  <2> DEFINE b == Respond(Popped, Test, NoHandler)
  <2>1. /\ Runs(Test) /\ Test \in ResponseHandlers /\ Test \in Handlers /\ Weight(Test) = 1
        /\ NoHandler \in Followers
    BY <1>2, HandlersTyped, Weights DEF TestResponse
  <2>2. CASE badge.processing_response
    BY <1>0, <1>2, <2>1, <2>2, PutBackLoad DEF TestResponse
  <2>3. CASE ~badge.processing_response
    <3>1. badge' = SendResponse(b, "transmit")
      BY <1>2, <2>3 DEF TestResponse
    <3>2. /\ Typed(Popped) /\ ~Popped.processing_response
          /\ Load(badge) = Base(Popped) + 1
      BY <1>0, <2>1, <2>3, PopLoad
    <3>3. Typed(b) /\ Base(b) <= Base(Popped)
      BY <2>1, <3>2, RespondLoad
    <3> HIDE DEF b
    <3>4. Base(Popped) \in Nat /\ Base(b) \in Nat
      BY <3>2, <3>3, LoadSum
    <3>5. Load(badge) >= Base(b) + 1
      BY <3>2, <3>3, <3>4
    <3> QED
      BY <1>a, <3>1, <3>3, <3>5
  <2> QED
    BY <2>2, <2>3
<1>3. CASE RetrySend
  <2>1. Runs(Send) /\ badge' = SendResponse(Popped, "transmit")
    BY <1>3 DEF RetrySend
  <2>2. Typed(Popped) /\ Load(badge) = Base(Popped) + 1 /\ Base(Popped) \in Nat
    BY <1>0, <2>1, PopLoad, Weights, LoadSum
  <2>3. Load(badge) >= Base(Popped) + 1
    BY <2>2
  <2> QED
    BY <1>a, <2>1, <2>2, <2>3
<1> QED
  BY <1>1, <1>2, <1>3

LEMMA DataLoad ==
  ASSUME TInv, TInv', NEW k \in Kinds, NEW busy \in BOOLEAN, DataResponseHandler(k, busy)
  PROVE  Load(badge') <= Load(badge)
<1> DEFINE left == badge.iterators[k]
           success == IF left > 0 THEN DataResponse(k) ELSE NoHandler
           b == Respond(Popped, DataResponse(k), success)
           next == IF left > 0 THEN left - 1 ELSE NoIterator
           h == DataResponse(k)
<1>0. Typed(badge) /\ Load(badge) \in Nat /\ Load(badge') \in Nat
  BY LoadSum DEF TInv
<1>1. Runs(h) /\ h \in ResponseHandlers /\ h \in Handlers /\ Weight(h) = 1
  BY HandlersTyped, Weights DEF DataResponseHandler
<1>2. success \in Followers
  BY HandlersTyped
<1>3. next \in NoIterator .. MaxChunks /\ NoIterator \in NoIterator .. MaxChunks
  BY <1>0, Sizes DEF Typed, Badges, Iterators, NoIterator
<1>4. CASE badge.processing_response
  <2>1. badge' = Put(Popped, h)
    BY <1>4 DEF DataResponseHandler
  <2> QED
    BY <1>0, <1>1, <2>1, PutBackLoad
<1>5. CASE ~badge.processing_response
  <2>1. \/ badge' = Put([b EXCEPT !.iterators[k] = NoIterator], h)
        \/ badge' = SendResponse([b EXCEPT !.iterators[k] = next], "transmit")
    BY <1>5 DEF DataResponseHandler
  <2>2. /\ Typed(Popped) /\ ~Popped.processing_response /\ Popped.pc = "loop"
        /\ Load(badge) = Base(Popped) + 1
    BY <1>0, <1>1, <1>5, PopLoad
  <2> HIDE DEF success, next, h
  <2>3. Typed(b) /\ b.pc = "loop" /\ Base(b) <= Base(Popped)
    BY <1>1, <1>2, <2>2, RespondLoad DEF h
  <2> HIDE DEF b
  <2>4. Base(Popped) \in Nat /\ Base(b) \in Nat
    BY <2>2, <2>3, LoadSum
  <2>5. \A i \in NoIterator .. MaxChunks :
          LET c == [b EXCEPT !.iterators[k] = i]
          IN  Typed(c) /\ Base(c) = Base(b) /\ Load(c) = Base(b)
    <3> SUFFICES ASSUME NEW i \in NoIterator .. MaxChunks
                 PROVE  LET c == [b EXCEPT !.iterators[k] = i]
                        IN  Typed(c) /\ Base(c) = Base(b) /\ Load(c) = Base(b)
      OBVIOUS
    <3> DEFINE c == [b EXCEPT !.iterators[k] = i]
    <3>1. [b.iterators EXCEPT ![k] = i] \in Iterators
      BY <2>3 DEF Typed, Badges, Iterators
    <3>2. c = [b EXCEPT !.iterators = [b.iterators EXCEPT ![k] = i]]
      OBVIOUS
    <3>3. Typed(c)
      BY <2>3, <3>1, <3>2 DEF Typed, Badges
    <3>4. /\ c.sched = b.sched /\ c.rx = b.rx /\ c.streaming_started = b.streaming_started
          /\ c.processing_response = b.processing_response /\ c.response = b.response
          /\ c.pc = b.pc
      BY <2>3 DEF Typed, Badges
    <3> HIDE DEF c
    <3>5. Base(c) = Base(b) /\ Running(c) = 0
      BY <2>3, <3>4, SameLoad DEF Running
    <3>6. Load(c) = Base(b)
      BY <3>3, <3>5, LoadSum
    <3> QED
      BY <3>3, <3>5, <3>6 DEF c
  <2>6. CASE badge' = Put([b EXCEPT !.iterators[k] = NoIterator], h)
    <3> DEFINE c == [b EXCEPT !.iterators[k] = NoIterator]
    <3>1. Typed(c) /\ Load(c) = Base(b)
      BY <1>3, <2>5
    <3>2. badge' = Put(c, h)
      BY <2>6
    <3> HIDE DEF c
    <3>3. Load(badge') <= Base(b) + 1
      BY <1>1, <3>1, <3>2, PutLoad
    <3> QED
      BY <1>0, <2>2, <2>3, <2>4, <3>3
  <2>7. CASE badge' = SendResponse([b EXCEPT !.iterators[k] = next], "transmit")
    <3> DEFINE c == [b EXCEPT !.iterators[k] = next]
    <3>1. Typed(c) /\ Base(c) = Base(b)
      BY <1>3, <2>5
    <3>2. badge' = SendResponse(c, "transmit")
      BY <2>7
    <3> HIDE DEF c
    <3>3. Load(badge') <= Base(c) + 1
      BY <3>1, <3>2, SendLoad
    <3> QED
      BY <1>0, <2>2, <2>3, <2>4, <3>1, <3>3
  <2> QED
    BY <2>1, <2>6, <2>7
<1> QED
  BY <1>4, <1>5

(* stream_response_handler: the response it may start was lent to it. *)
LEMMA StreamLoad ==
  ASSUME TInv, TInv', NEW some \in BOOLEAN, StreamResponse(some)
  PROVE  Load(badge') <= Load(badge)
<1> DEFINE b == Respond(Popped, Stream, NoHandler)
           c == SendResponse(b, "stream_transmit")
           d == [b EXCEPT !.processing_response = FALSE]
<1>0. Typed(badge) /\ Load(badge) \in Nat /\ Load(badge') \in Nat /\ badge.streaming \in BOOLEAN
  BY LoadSum DEF TInv, Typed, Badges
<1>1. /\ Runs(Stream) /\ Stream \in ResponseHandlers /\ Stream \in Handlers
      /\ Weight(Stream) = 1 /\ NoHandler \in Followers
  BY HandlersTyped, Weights DEF StreamResponse
<1>2. CASE badge.processing_response
  BY <1>0, <1>1, <1>2, PutBackLoad DEF StreamResponse
<1>3. CASE ~badge.processing_response
  <2>1. \/ badge' = IF c.pc = "loop" THEN StreamTail(c, TRUE) ELSE c
        \/ badge' = StreamTail(d, badge.streaming)
    BY <1>3 DEF StreamResponse
  <2>2. /\ Typed(Popped) /\ ~Popped.processing_response /\ Popped.pc = "loop"
        /\ Load(badge) = Base(Popped) + 1
    BY <1>0, <1>1, <1>3, PopLoad
  <2>3. /\ Typed(b) /\ b.pc = "loop" /\ Base(b) + Started(Popped) = Base(Popped)
        /\ Started(b) = Started(Popped) /\ b.sched = Popped.sched /\ b.rx = Popped.rx
        /\ b.streaming_started = Popped.streaming_started
    BY <1>1, <2>2, RespondLoad
  <2> HIDE DEF b
  <2>4. Base(b) \in Nat /\ Started(b) \in 0 .. 1 /\ Load(badge) = Base(b) + Started(b) + 1
    BY <2>2, <2>3, LoadSum
  <2>5. Typed(c)
    BY <2>3, SendResponseTyped
  <2>6. \/ Load(c) <= Base(b) + 1 /\ Started(c) <= Started(b)
        \/ c.pc = "stream_transmit" /\ Load(c) <= Base(b) + 1 + Started(b)
    BY <2>3, SendLoad
  <2>7. Load(c) \in Nat /\ Started(c) \in 0 .. 1
    BY <2>5, LoadSum
  <2> HIDE DEF c
  <2>8. CASE badge' = IF c.pc = "loop" THEN StreamTail(c, TRUE) ELSE c
    <3>1. CASE c.pc = "loop"
      <4>1. Load(c) <= Base(b) + 1 /\ Started(c) <= Started(b)
        BY <2>6, <3>1
      <4>2. Load(badge') <= Load(c) + Started(c)
        BY <2>5, <2>8, <3>1, StreamTailLoad
      <4> QED
        BY <1>0, <2>4, <2>7, <4>1, <4>2
    <3>2. CASE c.pc # "loop"
      <4>1. Load(c) <= Base(b) + 1 + Started(b)
        BY <2>4, <2>6, <2>7
      <4> QED
        BY <1>0, <2>4, <2>8, <3>2, <4>1
    <3> QED
      BY <3>1, <3>2
  <2>9. CASE badge' = StreamTail(d, badge.streaming)
    <3>1. Typed(d)
      BY <2>3 DEF Typed, Badges
    <3>2. /\ d.sched = b.sched /\ d.rx = b.rx /\ d.streaming_started = b.streaming_started
          /\ d.processing_response = FALSE /\ d.pc = "loop"
      BY <2>3 DEF Typed, Badges
    <3> HIDE DEF d
    <3>3. Queue(d) = Queue(Popped) /\ Lent(d) = Lent(Popped) /\ Running(d) = 0
          /\ Started(d) = Started(b)
      BY <2>2, <2>3, <3>2 DEF Queue, Count, Lent, MayStream, Running, Started
    <3>4. Base(d) = Base(Popped)
      BY <2>3, <3>2, <3>3 DEF Base
    <3>5. Load(d) = Base(Popped) /\ Base(Popped) \in Nat
      BY <2>2, <3>1, <3>3, <3>4, LoadSum
    <3>6. Load(badge') <= Load(d) + Started(d)
      BY <1>0, <2>9, <3>1, <3>2, StreamTailLoad
    <3> QED
      BY <1>0, <2>2, <2>4, <3>3, <3>5, <3>6
  <2> QED
    BY <2>1, <2>8, <2>9
<1> QED
  BY <1>2, <1>3

LEMMA TransmitLoad ==
  ASSUME TInv, TInv', TransmitQueued
  PROVE  Load(badge') <= Load(badge)
<1> DEFINE b == IF badge.tx < TxSize THEN Sent(badge) ELSE NoMem(badge)
<1>0. /\ Typed(badge) /\ Load(badge) = Base(badge) + Running(badge) /\ Base(badge) \in Nat
      /\ Load(badge') \in Nat /\ Started(badge) \in 0 .. 1
  BY LoadSum DEF TInv
<1>1. /\ Typed(b) /\ Load(b) <= Base(badge) + 1 /\ Started(b) = Started(badge)
      /\ b.pc = "loop"
  <2>1. CASE badge.tx < TxSize
    BY <1>0, <2>1, SentTyped, SentLoad
  <2>2. CASE ~(badge.tx < TxSize)
    BY <1>0, <2>2, NoMemTyped, NoMemLoad
  <2> QED
    BY <2>1, <2>2
<1>2. /\ badge.pc \in {"transmit", "stream_transmit"}
      /\ badge' = IF badge.pc = "transmit" THEN b ELSE StreamTail(b, TRUE)
  BY DEF TransmitQueued
<1> HIDE DEF b
<1>3. Load(b) \in Nat
  BY <1>1, LoadSum
<1>4. CASE badge.pc = "transmit"
  <2>1. Running(badge) = 1 /\ badge' = b
    BY <1>2, <1>4 DEF Running
  <2> QED
    BY <1>0, <1>1, <2>1
<1>5. CASE badge.pc = "stream_transmit"
  <2>1. Running(badge) = 1 + Started(badge) /\ badge' = StreamTail(b, TRUE)
    BY <1>2, <1>5 DEF Running, Started
  <2>2. Load(badge') <= Load(b) + Started(b)
    BY <1>1, <2>1, StreamTailLoad
  <2>3. Load(badge) = Base(badge) + (1 + Started(badge))
    BY <1>0, <2>1
  <2>4. Load(badge') <= Load(b) + Started(badge) /\ Load(b) <= Base(badge) + 1
    BY <1>1, <2>2
  <2> QED
    BY <1>0, <1>3, <2>3, <2>4
<1> QED
  BY <1>2, <1>4, <1>5

LEMMA MainLoopLoad ==
  ASSUME TInv, MainLoop
  PROVE  Load(badge') <= Load(badge)
<1>1. TInv'
  BY MainLoopTyped
<1> QED
  BY <1>1, ProcessLoad, ReadLoad, ReadBodyLoad, RetryLoad, RespondingLoad, DataLoad, StreamLoad,
     TransmitLoad DEF MainLoop

(* No step of the main loop adds to the load, for every size of the queues *)
(* and FIFOs and whatever the storage answers: handlers that queue each    *)
(* other and themselves (app_sched_event_put), retries and the stale       *)
(* handlers errors leave behind do not multiply.                           *)
THEOREM HandlersNeverMultiply == Spec => HandlersDoNotMultiply
<1>1. TInv /\ [Next]_vars => [MainLoop => Load(badge') <= Load(badge)]_vars
  BY MainLoopLoad
<1> QED
  BY <1>1, TypeInit, TypeStep, PTL DEF Spec, HandlersDoNotMultiply
-----------------------------------------------------------------------------
(* Packets. *)

LEMMA ReceivedLoad ==
  ASSUME TInv, NEW cells \in Seq(Cells), client'.requests \in Nat, OnReceive(cells)
  PROVE  Load(badge') <= Load(badge) + Len(cells) + 1
<1> DEFINE room == RxSize - Len(badge.rx)
           n == IF Len(cells) <= room THEN Len(cells) ELSE room
           rest == badge.rx \o SubSeq(cells, 1, n)
           b == [badge EXCEPT !.rx = rest]
           note == [len |-> Len(cells), timepoint |-> client'.requests]
           c == [b EXCEPT !.notifications = Append(@, note)]
<1>1. /\ badge.rx \in Seq(Cells) /\ Len(badge.rx) \in Nat /\ Len(badge.rx) <= RxSize
      /\ badge.notifications \in Seq(Notes) /\ badge \in Badges /\ Typed(badge)
      /\ Len(badge.notifications) <= NotificationSize /\ Len(badge.sched) <= SchedSize
  BY DEF TInv, Typed, Badges
<1>2. /\ rest \in Seq(Cells) /\ Len(rest) <= RxSize /\ Len(rest) <= Len(badge.rx) + Len(cells)
  <2>1. Len(cells) \in Nat
    OBVIOUS
  <2>2. room \in Nat
    BY <1>1, Sizes
  <2>3. n \in Nat /\ n <= Len(cells) /\ n <= RxSize - Len(badge.rx)
    BY <2>1, <2>2
  <2> HIDE DEF n
  <2> DEFINE head == SubSeq(cells, 1, n)
             old == badge.rx
  <2>4. head \in Seq(Cells) /\ Len(head) = n
    BY <2>1, <2>3
  <2>5. old \in Seq(Cells) /\ Len(old) \in Nat
    BY <1>1
  <2>6. n <= RxSize - Len(old) /\ rest = old \o head
    BY <2>3
  <2> HIDE DEF head, old, rest
  <2>7. old \o head \in Seq(Cells) /\ Len(old \o head) = Len(old) + Len(head)
    BY <2>4, <2>5
  <2>8. Len(rest) <= RxSize /\ Len(rest) <= Len(old) + Len(cells)
    BY <2>1, <2>3, <2>4, <2>5, <2>6, <2>7, Sizes
  <2> QED
    BY <2>6, <2>7, <2>8 DEF old
<1>3. note \in Notes
  BY DEF Notes
<1>4. badge' = IF Len(badge.notifications) < NotificationSize THEN Put(c, Process) ELSE b
  BY DEF OnReceive
<1> HIDE DEF rest, note
<1>5. Typed(b)
  BY <1>1, <1>2 DEF Typed, Badges
<1>6. /\ b.sched = badge.sched /\ b.rx = rest /\ b.pc = badge.pc
      /\ b.streaming_started = badge.streaming_started
      /\ b.processing_response = badge.processing_response /\ b.response = badge.response
      /\ b.notifications = badge.notifications
  BY <1>1 DEF Badges
<1> HIDE DEF b
<1>7. /\ Queue(b) = Queue(badge) /\ Lent(b) = Lent(badge) /\ Running(b) = Running(badge)
  BY <1>6 DEF Queue, Count, Lent, MayStream, Running
<1>8. Load(b) <= Load(badge) + Len(cells)
  <2> DEFINE q == Queue(badge)
             e == Lent(badge)
             r == Running(badge)
             x == Len(badge.rx)
             y == Len(rest)
             m == Len(cells)
  <2>1. /\ Load(b) = Base(b) + r /\ Load(badge) = Base(badge) + r
        /\ Base(b) = q + y + e /\ Base(badge) = q + x + e
    BY <1>1, <1>5, <1>6, <1>7, LoadSum DEF Base
  <2>2. /\ q \in Nat /\ e \in 0 .. 1 /\ r \in 0 .. 2 /\ x \in Nat /\ y \in Nat /\ m \in Nat
        /\ y <= x + m
    BY <1>1, <1>2, LoadSum
  <2> HIDE DEF q, e, r, x, y, m
  <2>3. Load(b) <= Load(badge) + m
    BY <2>1, <2>2
  <2> QED
    BY <2>3 DEF m
<1>9. Load(b) \in Nat /\ Load(badge) \in Nat /\ Len(cells) \in Nat
  BY <1>1, <1>5, LoadSum
<1>10. CASE Len(badge.notifications) < NotificationSize
  <2>1. /\ Append(badge.notifications, note) \in Seq(Notes)
        /\ Len(Append(badge.notifications, note)) <= NotificationSize
    BY <1>1, <1>3, <1>10, Sizes
  <2>2. Typed(c)
    BY <1>5, <1>6, <2>1 DEF Typed, Badges
  <2>3. /\ c.sched = b.sched /\ c.rx = b.rx /\ c.streaming_started = b.streaming_started
        /\ c.processing_response = b.processing_response /\ c.response = b.response
        /\ c.pc = b.pc
    BY <1>5 DEF Typed, Badges
  <2> HIDE DEF c
  <2>4. Load(c) = Load(b)
    BY <2>3, SameLoad
  <2>5. Load(badge') <= Load(b) + 1
    BY <1>4, <1>10, <2>2, <2>4, PutLoad, Weights, HandlersTyped
  <2>6. Load(badge') \in Nat
    BY <1>4, <1>10, <2>2, PutTyped, HandlersTyped, LoadSum
  <2> QED
    BY <1>8, <1>9, <2>5, <2>6
<1>11. CASE ~(Len(badge.notifications) < NotificationSize)
  <2>1. badge' = b
    BY <1>4, <1>11
  <2> QED
    BY <1>8, <1>9, <2>1
<1> QED
  BY <1>10, <1>11

(* A connection that goes, or comes, empties rx_fifo. *)
LEMMA OtherInterruptLoad ==
  ASSUME TInv, TInv',
         TransmitTick \/ OnConnect \/ OnDisconnect \/ DisconnectTimeout \/ SamplingTimeout
  PROVE  Load(badge') <= Load(badge)
<1>0. Typed(badge) /\ Typed(badge') /\ badge \in Badges
  BY DEF TInv, Typed
<1>1. /\ badge'.sched = badge.sched /\ badge'.pc = badge.pc
      /\ badge'.rx = badge.rx \/ badge'.rx = << >>
      /\ badge'.streaming_started = badge.streaming_started
      /\ badge'.processing_response = badge.processing_response
      /\ badge'.response = badge.response
  <2>1. CASE TransmitTick
    BY <1>0, <2>1 DEF TransmitTick, Badges
  <2>2. CASE OnConnect
    BY <1>0, <2>2 DEF OnConnect, SenderReset, Badges
  <2>3. CASE OnDisconnect \/ DisconnectTimeout
    BY <1>0, <2>3 DEF OnDisconnect, DisconnectTimeout, SenderReset, Badges
  <2>4. CASE SamplingTimeout
    BY <1>0, <2>4 DEF SamplingTimeout, Badges
  <2> QED
    BY <2>1, <2>2, <2>3, <2>4
<1>2. /\ Queue(badge') = Queue(badge) /\ Lent(badge') = Lent(badge)
      /\ Running(badge') = Running(badge)
  BY <1>1 DEF Queue, Count, Lent, MayStream, Running
<1>3. Len(badge'.rx) <= Len(badge.rx)
  <2>1. Len(badge.rx) \in Nat /\ Len(<< >>) = 0
    BY <1>0 DEF Badges
  <2> QED
    BY <1>1, <2>1
<1> DEFINE q == Queue(badge)
           e == Lent(badge)
           r == Running(badge)
           x == Len(badge.rx)
           y == Len(badge'.rx)
<1>4. /\ Load(badge') = Base(badge') + r /\ Load(badge) = Base(badge) + r
      /\ Base(badge') = q + y + e /\ Base(badge) = q + x + e
  BY <1>0, <1>2, LoadSum DEF Base
<1>5. q \in Nat /\ e \in 0 .. 1 /\ r \in 0 .. 2 /\ x \in Nat /\ y \in Nat /\ y <= x
  BY <1>0, <1>3, LoadSum
<1> HIDE DEF q, e, r, x, y
<1> QED
  BY <1>4, <1>5

(* A client that waits for the badge: it sends a packet only while five    *)
(* slots are left above the load.  A packet adds at most three to it, and  *)
(* two have to stay free.                                                  *)
Packet == (\E req \in Requests, whole \in BOOLEAN : SendRequest(req, whole)) \/ SendRest
PacedStep == Packet => Load(badge) + 5 <= SchedSize
PacedSpec == Init /\ [][Next /\ PacedStep]_vars

(* The inductive invariant of the paced client. *)
PInv == TInv /\ Load(badge) + 2 <= SchedSize

LEMMA PacketLoad ==
  ASSUME TInv, TInv', Packet
  PROVE  Load(badge') <= Load(badge) + 3
<1>1. /\ Load(badge) \in Nat /\ Load(badge') \in Nat
      /\ client.requests \in Nat /\ client'.requests \in Nat
  BY LoadSum DEF TInv, ClientTyped
<1>2. ASSUME NEW req \in Requests, NEW whole \in BOOLEAN, SendRequest(req, whole)
      PROVE  Load(badge') <= Load(badge) + 3
  <2> DEFINE n == client.requests + 1
             cells == << Cell("header", req, n) >> \o
                        (IF whole THEN << Cell("body", req, n) >> ELSE << >>)
  <2>1. req \in RequestTypes /\ n \in Nat
    BY <1>1, RequestsAssumption
  <2>2. OnReceive(cells)
    BY <1>2 DEF SendRequest
  <2>3. cells \in Seq(Cells) /\ Len(cells) = IF whole THEN 2 ELSE 1
    <3> HIDE DEF n
    <3>1. Cell("header", req, n) \in Cells /\ Cell("body", req, n) \in Cells
      BY <2>1 DEF Cell, Cells
    <3> QED
      BY <3>1
  <2> HIDE DEF cells
  <2>4. Load(badge') <= Load(badge) + Len(cells) + 1
    BY <1>1, <2>2, <2>3, ReceivedLoad
  <2> QED
    BY <1>1, <2>3, <2>4
<1>3. ASSUME SendRest
      PROVE  Load(badge') <= Load(badge) + 3
  <2> DEFINE cells == << Cell("body", client.half, client.requests) >>
  <2>1. client.half \in RequestTypes
    BY <1>3 DEF SendRest, TInv, ClientTyped
  <2>2. cells \in Seq(Cells) /\ Len(cells) = 1
    BY <1>1, <2>1 DEF Cell, Cells
  <2>3. OnReceive(cells)
    BY <1>3 DEF SendRest
  <2> HIDE DEF cells
  <2>4. Load(badge') <= Load(badge) + Len(cells) + 1
    BY <1>1, <2>2, <2>3, ReceivedLoad
  <2> QED
    BY <1>1, <2>2, <2>4
<1> QED
  BY <1>2, <1>3 DEF Packet

LEMMA PacedInit ==
  ASSUME SchedSize >= 2, Init
  PROVE  PInv
BY TypeInit, InitLoad, Sizes DEF Init, PInv

LEMMA PacedInvariant ==
  ASSUME PInv, [Next /\ PacedStep]_vars
  PROVE  PInv'
<1>1. TInv /\ TInv'
  BY TypeStep DEF PInv
<1>2. /\ Load(badge) \in Nat /\ Load(badge') \in Nat /\ Load(badge) + 2 <= SchedSize
      /\ SchedSize \in Nat
  BY <1>1, LoadSum, Sizes DEF TInv, PInv
<1>3. CASE Packet
  <2>1. Load(badge') <= Load(badge) + 3
    BY <1>1, <1>3, PacketLoad
  <2>2. (Next /\ PacedStep) \/ UNCHANGED vars
    OBVIOUS
  <2>3. CASE Load(badge) + 5 <= SchedSize
    BY <1>1, <1>2, <2>1, <2>3 DEF PInv
  <2>4. CASE UNCHANGED vars
    BY <1>1, <1>2, <2>4 DEF PInv, vars
  <2> QED
    BY <1>3, <2>2, <2>3, <2>4 DEF PacedStep
<1>4. CASE MainLoop
  BY <1>1, <1>2, <1>4, MainLoopLoad DEF PInv
<1>5. CASE TransmitTick \/ OnConnect \/ OnDisconnect \/ DisconnectTimeout \/ SamplingTimeout
  BY <1>1, <1>2, <1>5, OtherInterruptLoad DEF PInv
<1>6. CASE UNCHANGED vars
  BY <1>1, <1>2, <1>6 DEF PInv, vars
<1> QED
  BY <1>3, <1>4, <1>5, <1>6 DEF Next, Interrupt, Packet

LEMMA PacedMeans ==
  ASSUME PInv
  PROVE  RoomLeft
<1>1. Typed(badge) /\ Load(badge) + 2 <= SchedSize
  BY DEF PInv, TInv
<1>2. Len(badge.sched) \in Nat
  BY <1>1 DEF Typed, Badges
<1>3. /\ Load(badge) = Base(badge) + Running(badge) /\ Running(badge) \in 0 .. 2
      /\ Base(badge) = Queue(badge) + Len(badge.rx) + Lent(badge)
      /\ Queue(badge) \in Nat /\ Len(badge.rx) \in Nat /\ Lent(badge) \in 0 .. 1
      /\ Len(badge.sched) <= Queue(badge)
  BY <1>1, LoadSum DEF Base
<1> QED
  BY <1>1, <1>2, <1>3, Sizes DEF RoomLeft

(* A client that sends its next packet only while the load leaves five     *)
(* slots free never makes the queue drop a handler, however many requests  *)
(* it sends and whatever the requests, the errors, the disconnects and the *)
(* storage do: no app_sched_event_put, whose answer nobody looks at, fails.*)
THEOREM RoomWhenPaced == SchedSize >= 2 => (PacedSpec => []RoomLeft)
<1> SUFFICES ASSUME SchedSize >= 2 PROVE PacedSpec => []RoomLeft
  OBVIOUS
<1>1. Init => PInv
  BY PacedInit
<1>2. PInv /\ [Next /\ PacedStep]_vars => PInv'
  BY PacedInvariant
<1>3. PInv => RoomLeft
  BY PacedMeans
<1> QED
  BY <1>1, <1>2, <1>3, PTL DEF PacedSpec

LEMMA PacedIsSpec == PacedSpec => Spec
<1>1. [Next /\ PacedStep]_vars => [Next]_vars
  OBVIOUS
<1> QED
  BY <1>1, PTL DEF PacedSpec, Spec

(* With such a client a set flag always has a handler that will clear it,  *)
(* as long as the storage does not turn a data response away: NeverWedged  *)
(* without its hypothesis on the behaviour of the queue.                   *)
THEOREM NeverWedgedWhenPaced ==
  ~StorageBusy /\ SchedSize >= 2 => (PacedSpec => []NoWedge)
BY RoomWhenPaced, PacedIsSpec, NeverWedged, PTL

(* ... and a valid iterator has a data response handler that goes on with  *)
(* it.                                                                     *)
THEOREM IteratorsOwnedWhenPaced ==
  ~StorageBusy /\ SchedSize >= 2 => (PacedSpec => []IteratorsOwned)
BY RoomWhenPaced, PacedIsSpec, IteratorsAlwaysOwned, PTL
=============================================================================
