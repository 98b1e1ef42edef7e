-------------------------- MODULE MessageBus_proofs --------------------------
(***************************************************************************)
(* Proofs about MessageBus, for any requests, retries and handlers.  The   *)
(* inductive invariant adds to the checked invariants what the pipeline    *)
(* and the attempt counter have to do with the phase of a request.         *)
(***************************************************************************)
EXTENDS MessageBus, TLAPS

\* A request is in a handler exactly while it is in the pipeline.
StageInv == \A r \in Requests : stage[r] > 0 <=> phase[r] = "piped"

\* A posted request has a current attempt; only retried ones have later ones.
AttemptInv ==
    \A r \in Requests :
        /\ phase[r] = "idle" <=> attempt[r] = 0
        /\ phase[r] = "acked" => r \in Retried

IInv ==
    /\ TypeOK
    /\ StageInv
    /\ AttemptInv
    /\ HeldIffWaiting
    /\ HeldCallbackIsTimed
    /\ OneFinalAnswer

-----------------------------------------------------------------------------
(* The timer queue.                                                        *)

\* A timer appended for the callback just registered keeps every held
\* callback timed.
LEMMA AppendKeepsTimed ==
    ASSUME NEW pending \in Seq(Timers), NEW t \in Timers,
           NEW e \in Timers,
           (\E i \in 1 .. Len(pending) : pending[i] = e) \/ e = t
    PROVE  /\ Append(pending, t) \in Seq(Timers)
           /\ \E i \in 1 .. Len(Append(pending, t)) : Append(pending, t)[i] = e
<1>1. Append(pending, t) \in Seq(Timers)
  OBVIOUS
<1>2. CASE e = t
  <2>1. Append(pending, t)[Len(pending) + 1] = e
    BY <1>2
  <2> QED BY <2>1
<1>3. CASE \E i \in 1 .. Len(pending) : pending[i] = e
  <2>1. PICK i \in 1 .. Len(pending) : pending[i] = e
    BY <1>3
  <2>2. Append(pending, t)[i] = e /\ i \in 1 .. Len(Append(pending, t))
    BY <2>1
  <2> QED BY <2>2
<1> QED BY <1>1, <1>2, <1>3

\* Firing the oldest timer loses that timer only.
LEMMA TailKeepsTimed ==
    ASSUME NEW q \in Seq(Timers), q # <<>>,
           NEW e, e # Head(q),
           \E i \in 1 .. Len(q) : q[i] = e
    PROVE  \E i \in 1 .. Len(Tail(q)) : Tail(q)[i] = e
<1>1. PICK i \in 1 .. Len(q) : q[i] = e
  OBVIOUS
<1>2. i # 1
  BY <1>1
<1>3. /\ i - 1 \in 1 .. Len(Tail(q))
      /\ Tail(q)[i - 1] = q[i]
  BY <1>1, <1>2
<1> QED BY <1>1, <1>3

-----------------------------------------------------------------------------
(* The inductive invariant.                                                *)

\* The timer of attempt a of request r is among the timers of q.
TimedIn(q, r, a) ==
    \E i \in 1 .. Len(q) : q[i] = [req |-> r, attempt |-> a]

\* Registering the callback of attempt a, with its timer queued behind pending.
LEMMA RegisterKeepsTimed ==
    ASSUME TypeOK, NEW r \in Requests, NEW a \in Attempts,
           NEW pending \in Seq(Timers),
           \A s \in Timed \ {r} : callbacks[s] # 0 => TimedIn(pending, s, callbacks[s]),
           ResponseCallback(r, a, pending)
    PROVE  /\ callbacks' \in [Requests -> 0 .. (Retries + 1)]
           /\ timers' \in Seq(Timers)
           /\ HeldCallbackIsTimed'
<1> USE RequestsAssumption, BoundsAssumption
<1>1. callbacks' \in [Requests -> 0 .. (Retries + 1)]
  BY DEF TypeOK, ResponseCallback, Attempts
<1>2. CASE r \in Timed
  <2> DEFINE t == [req |-> r, attempt |-> a]
  <2>1. t \in Timers /\ timers' = Append(pending, t)
    BY <1>2 DEF Timers, ResponseCallback
  <2>2. timers' \in Seq(Timers)
    BY <2>1
  <2>3. ASSUME NEW s \in Timed, callbacks'[s] # 0
        PROVE  TimedIn(timers', s, callbacks'[s])
    <3> DEFINE e == [req |-> s, attempt |-> callbacks'[s]]
    <3>1. e \in Timers
      BY <2>3, <1>1 DEF Timers, Attempts
    <3>2. CASE s = r
      <4>1. e = t
        BY <3>2 DEF TypeOK, ResponseCallback
      <4> QED BY <4>1, <3>1, <2>1, AppendKeepsTimed DEF TimedIn
    <3>3. CASE s # r
      <4>1. callbacks'[s] = callbacks[s]
        BY <3>3 DEF TypeOK, ResponseCallback
      <4>2. \E i \in 1 .. Len(pending) : pending[i] = e
        BY <4>1, <2>3, <3>3 DEF TimedIn
      <4> HIDE DEF e, t
      <4>3. \E i \in 1 .. Len(Append(pending, t)) : Append(pending, t)[i] = e
        BY <4>2, <3>1, <2>1, AppendKeepsTimed
      <4> QED BY <4>3, <2>1 DEF TimedIn, e
    <3> QED BY <3>2, <3>3
  <2> QED BY <1>1, <2>2, <2>3 DEF HeldCallbackIsTimed, TimedIn
<1>3. CASE r \notin Timed
  <2>1. timers' = pending /\ \A s \in Timed : callbacks'[s] = callbacks[s]
    BY <1>3 DEF TypeOK, ResponseCallback
  <2> QED BY <1>1, <1>3, <2>1 DEF HeldCallbackIsTimed, TimedIn
<1> QED BY <1>2, <1>3

LEMMA InitInv == Init => IInv
<1> USE RequestsAssumption, BoundsAssumption
<1> SUFFICES ASSUME Init PROVE IInv
  OBVIOUS
<1>1. TypeOK
  BY DEF Init, TypeOK, Phases, Timers, Copies, Replies
<1>2. StageInv /\ AttemptInv
  BY DEF Init, StageInv, AttemptInv
<1>3. HeldIffWaiting /\ HeldCallbackIsTimed /\ OneFinalAnswer
  BY DEF Init, HeldIffWaiting, HeldCallbackIsTimed, OneFinalAnswer, Waiting
<1> QED BY <1>1, <1>2, <1>3 DEF IInv

\* Delivering an attempt: what holds of the callbacks, the timers and the inbox.
LEMMA DeliverStep ==
    ASSUME TypeOK, NEW r \in Requests, NEW a \in Attempts,
           NEW pending \in Seq(Timers),
           \A s \in Timed \ {r} : callbacks[s] # 0 => TimedIn(pending, s, callbacks[s]),
           Deliver(r, a, pending)
    PROVE  /\ callbacks' = [callbacks EXCEPT ![r] = a]
           /\ callbacks' \in [Requests -> 0 .. (Retries + 1)]
           /\ timers' \in Seq(Timers)
           /\ inbox' \in SUBSET Copies
           /\ HeldCallbackIsTimed'
<1>1. ResponseCallback(r, a, pending)
  BY DEF Deliver
<1>2. /\ callbacks' \in [Requests -> 0 .. (Retries + 1)]
      /\ timers' \in Seq(Timers)
      /\ HeldCallbackIsTimed'
  BY <1>1, RegisterKeepsTimed
<1>3. inbox' \in SUBSET Copies
  BY DEF Deliver, TypeOK, Copies
<1> QED BY <1>1, <1>2, <1>3 DEF ResponseCallback

\* A turn that leaves the callbacks and the timers alone.
LEMMA SameTimed ==
    ASSUME HeldCallbackIsTimed, UNCHANGED <<callbacks, timers>>
    PROVE  HeldCallbackIsTimed'
BY DEF HeldCallbackIsTimed

\* Clearing the callback of r keeps the others timed by the timers left.
LEMMA ClearKeepsTimed ==
    ASSUME TypeOK, NEW r \in Requests, NEW pending \in Seq(Timers),
           \A s \in Timed \ {r} : callbacks[s] # 0 => TimedIn(pending, s, callbacks[s]),
           callbacks' = [callbacks EXCEPT ![r] = 0],
           timers' = pending
    PROVE  HeldCallbackIsTimed'
BY DEF HeldCallbackIsTimed, TimedIn, TypeOK

LEMMA PostStep ==
    ASSUME IInv, NEW r \in Requests, Post(r)
    PROVE  IInv'
<1> USE RequestsAssumption, BoundsAssumption DEF IInv
<1>1. 1 \in Attempts /\ timers \in Seq(Timers)
  BY DEF Attempts, TypeOK
<1>2. \A s \in Timed \ {r} : callbacks[s] # 0 => TimedIn(timers, s, callbacks[s])
  BY DEF HeldCallbackIsTimed, TimedIn
<1>3. /\ callbacks' = [callbacks EXCEPT ![r] = 1]
      /\ callbacks' \in [Requests -> 0 .. (Retries + 1)]
      /\ timers' \in Seq(Timers)
      /\ inbox' \in SUBSET Copies
      /\ HeldCallbackIsTimed'
  BY <1>1, <1>2, DeliverStep DEF Post
<1>4. TypeOK'
  BY <1>3 DEF Post, TypeOK, Phases, Waiting
<1>5. StageInv' /\ AttemptInv'
  BY DEF Post, TypeOK, StageInv, AttemptInv
<1>6. HeldIffWaiting' /\ OneFinalAnswer'
  BY <1>3 DEF Post, TypeOK, HeldIffWaiting, OneFinalAnswer, Waiting
<1> QED BY <1>3, <1>4, <1>5, <1>6

LEMMA PostToPipelineStep ==
    ASSUME IInv, NEW r \in Requests, PostToPipeline(r)
    PROVE  IInv'
<1> USE RequestsAssumption, BoundsAssumption DEF IInv, PostToPipeline
<1>1. TypeOK'
  BY DEF TypeOK, Phases
<1>2. StageInv' /\ AttemptInv'
  BY DEF TypeOK, StageInv, AttemptInv
<1>3. HeldIffWaiting' /\ OneFinalAnswer'
  BY DEF TypeOK, HeldIffWaiting, OneFinalAnswer, Waiting
<1> QED BY <1>1, <1>2, <1>3, SameTimed

LEMMA HandlerNextStep ==
    ASSUME IInv, NEW r \in Requests, HandlerNext(r)
    PROVE  IInv'
<1> USE RequestsAssumption, BoundsAssumption DEF IInv
<1>1. CASE stage[r] < Handlers
  <2>1. /\ stage' = [stage EXCEPT ![r] = @ + 1]
        /\ UNCHANGED <<phase, attempt, callbacks, timers, inbox, replies, told>>
    BY <1>1 DEF HandlerNext, TypeOK
  <2>2. TypeOK'
    BY <1>1, <2>1 DEF TypeOK
  <2>3. StageInv' /\ AttemptInv'
    BY <2>1 DEF TypeOK, StageInv, AttemptInv, HandlerNext
  <2>4. HeldIffWaiting' /\ OneFinalAnswer'
    BY <2>1 DEF HeldIffWaiting, OneFinalAnswer
  <2> QED BY <2>1, <2>2, <2>3, <2>4, SameTimed
<1>2. CASE stage[r] = Handlers
  <2>1. /\ stage' = [stage EXCEPT ![r] = 0]
        /\ phase' = [phase EXCEPT ![r] = "sent"]
        /\ Deliver(r, attempt[r], timers)
        /\ UNCHANGED <<attempt, replies, told>>
    BY <1>2 DEF HandlerNext, TypeOK
  <2>2. phase[r] = "piped" /\ attempt[r] \in Attempts /\ timers \in Seq(Timers)
    BY DEF HandlerNext, StageInv, AttemptInv, TypeOK, Attempts
  <2>3. \A s \in Timed \ {r} : callbacks[s] # 0 => TimedIn(timers, s, callbacks[s])
    BY DEF HeldCallbackIsTimed, TimedIn
  <2>4. /\ callbacks' = [callbacks EXCEPT ![r] = attempt[r]]
        /\ callbacks' \in [Requests -> 0 .. (Retries + 1)]
        /\ timers' \in Seq(Timers)
        /\ inbox' \in SUBSET Copies
        /\ HeldCallbackIsTimed'
    BY <2>1, <2>2, <2>3, DeliverStep
  <2>5. TypeOK'
    BY <2>1, <2>4 DEF TypeOK, Phases, Waiting
  <2>6. StageInv' /\ AttemptInv'
    BY <2>1, <2>2 DEF TypeOK, StageInv, AttemptInv
  <2>7. HeldIffWaiting' /\ OneFinalAnswer'
    BY <2>1, <2>2, <2>4 DEF TypeOK, HeldIffWaiting, OneFinalAnswer, Waiting
  <2> QED BY <2>4, <2>5, <2>6, <2>7
<1> QED BY <1>1, <1>2 DEF HandlerNext

LEMMA HandlerFailStep ==
    ASSUME IInv, NEW r \in Requests, HandlerFail(r)
    PROVE  IInv'
<1> USE RequestsAssumption, BoundsAssumption DEF IInv, HandlerFail
<1>1. TypeOK'
  BY DEF TypeOK, Phases
<1>2. StageInv' /\ AttemptInv'
  BY DEF TypeOK, StageInv, AttemptInv
<1>3. HeldIffWaiting' /\ OneFinalAnswer'
  BY DEF TypeOK, StageInv, HeldIffWaiting, OneFinalAnswer, Waiting
<1> QED BY <1>1, <1>2, <1>3, SameTimed

LEMMA RespondStep ==
    ASSUME IInv, NEW copy \in inbox, NEW code \in Codes, Respond(copy, code)
    PROVE  IInv'
<1> USE RequestsAssumption, BoundsAssumption DEF IInv
<1>1. TypeOK'
  BY DEF Respond, TypeOK, Copies, Replies
<1>2. UNCHANGED <<phase, attempt, stage, callbacks, timers, told>>
  BY DEF Respond
<1>3. StageInv' /\ AttemptInv' /\ HeldIffWaiting' /\ OneFinalAnswer'
  BY <1>2 DEF StageInv, AttemptInv, HeldIffWaiting, OneFinalAnswer
<1> QED BY <1>1, <1>2, <1>3, SameTimed

LEMMA RemoveResponseListenerStep ==
    ASSUME IInv, NEW r \in Requests, RemoveResponseListener(r)
    PROVE  IInv'
<1> USE RequestsAssumption, BoundsAssumption DEF IInv
<1>1. TypeOK'
  BY DEF RemoveResponseListener, TypeOK, Phases, Closed
<1>2. StageInv' /\ AttemptInv'
  BY DEF RemoveResponseListener, TypeOK, StageInv, AttemptInv
<1>3. HeldIffWaiting' /\ OneFinalAnswer'
  BY DEF RemoveResponseListener, TypeOK, HeldIffWaiting, OneFinalAnswer, Waiting
<1>4. HeldCallbackIsTimed'
  BY DEF RemoveResponseListener, HeldCallbackIsTimed, TypeOK
<1> QED BY <1>1, <1>2, <1>3, <1>4

\* A response or a timeout reaches the callback held for r; the timers left
\* still time the callbacks of the other requests, and this one's as well
\* when the response is provisional.
LEMMA CallBackStep ==
    ASSUME IInv, NEW r \in Requests, callbacks[r] # 0,
           NEW code \in Codes \union {Timeout},
           NEW pending \in Seq(Timers),
           \A s \in Timed \ {r} : callbacks[s] # 0 => TimedIn(pending, s, callbacks[s]),
           ~Final(code) /\ r \in Timed => TimedIn(pending, r, callbacks[r]),
           CallBack(r, code, pending),
           UNCHANGED stage, replies' \in SUBSET Replies
    PROVE  IInv'
<1> USE RequestsAssumption, BoundsAssumption DEF IInv
<1>1. phase[r] \in Waiting /\ attempt[r] = callbacks[r] /\ told[r] = 0
  BY DEF HeldIffWaiting, OneFinalAnswer, Waiting
<1>2. CASE Tell(r, code, pending) /\ Final(code)
  <2>1. /\ timers' = pending
        /\ callbacks' = [callbacks EXCEPT ![r] = 0]
        /\ phase' = [phase EXCEPT ![r] = "answered"]
        /\ told' = [told EXCEPT ![r] = @ + 1]
        /\ UNCHANGED <<attempt, inbox>>
    BY <1>2 DEF Tell
  <2>2. TypeOK'
    BY <2>1 DEF TypeOK, Phases, Closed
  <2>3. StageInv' /\ AttemptInv'
    BY <1>1, <2>1 DEF TypeOK, StageInv, AttemptInv, Waiting
  <2>4. HeldIffWaiting' /\ OneFinalAnswer'
    BY <1>1, <2>1 DEF TypeOK, HeldIffWaiting, OneFinalAnswer, Waiting
  <2> QED BY <2>1, <2>2, <2>3, <2>4, ClearKeepsTimed
<1>3. CASE Tell(r, code, pending) /\ ~Final(code)
  <2>1. /\ timers' = pending
        /\ callbacks' = callbacks
        /\ phase' = [phase EXCEPT ![r] = IF r \in Retried THEN "acked" ELSE @]
        /\ told' = told
        /\ UNCHANGED <<attempt, inbox>>
    BY <1>3 DEF Tell, TypeOK
  <2>2. TypeOK'
    BY <2>1 DEF TypeOK, Phases, Waiting
  <2>3. StageInv' /\ AttemptInv'
    BY <1>1, <2>1 DEF TypeOK, StageInv, AttemptInv, Waiting
  <2>4. HeldIffWaiting' /\ OneFinalAnswer'
    BY <1>1, <2>1 DEF TypeOK, HeldIffWaiting, OneFinalAnswer, Waiting
  <2>5. HeldCallbackIsTimed'
    BY <1>3, <2>1 DEF HeldCallbackIsTimed, TimedIn
  <2> QED BY <2>2, <2>3, <2>4, <2>5
<1>4. CASE TryAgain(r, pending)
  <2>1. attempt[r] + 1 \in Attempts
    BY <1>4 DEF TryAgain, TypeOK, Attempts
  <2>2. /\ callbacks' = [callbacks EXCEPT ![r] = attempt[r] + 1]
        /\ callbacks' \in [Requests -> 0 .. (Retries + 1)]
        /\ timers' \in Seq(Timers)
        /\ inbox' \in SUBSET Copies
        /\ HeldCallbackIsTimed'
    BY <1>4, <2>1, DeliverStep DEF TryAgain
  <2>3. TypeOK'
    BY <1>4, <2>1, <2>2 DEF TryAgain, TypeOK, Attempts
  <2>4. StageInv' /\ AttemptInv'
    BY <1>1, <1>4 DEF TryAgain, TypeOK, StageInv, AttemptInv, Waiting
  <2>5. HeldIffWaiting' /\ OneFinalAnswer'
    BY <1>4, <2>2 DEF TryAgain, TypeOK, HeldIffWaiting, OneFinalAnswer, Waiting
  <2> QED BY <2>2, <2>3, <2>4, <2>5
<1>5. CASE Bounce(r, pending) \/ RejectIgnored(r, pending)
  <2>1. PICK p \in {"bounced", "silent"} :
        /\ timers' = pending
        /\ callbacks' = [callbacks EXCEPT ![r] = 0]
        /\ phase' = [phase EXCEPT ![r] = p]
        /\ UNCHANGED <<attempt, inbox, told>>
    BY <1>5 DEF Bounce, RejectIgnored
  <2>2. TypeOK'
    BY <2>1 DEF TypeOK, Phases, Closed
  <2>3. StageInv' /\ AttemptInv'
    BY <1>1, <2>1 DEF TypeOK, StageInv, AttemptInv, Waiting
  <2>4. HeldIffWaiting' /\ OneFinalAnswer'
    BY <1>1, <2>1 DEF TypeOK, HeldIffWaiting, OneFinalAnswer, Waiting
  <2> QED BY <2>1, <2>2, <2>3, <2>4, ClearKeepsTimed
<1> QED BY <1>2, <1>3, <1>4, <1>5 DEF CallBack

LEMMA OnResponseStep ==
    ASSUME IInv, NEW m \in replies, OnResponse(m)
    PROVE  IInv'
<1>1. /\ m.req \in Requests
      /\ m.code \in Codes \union {Timeout}
      /\ timers \in Seq(Timers)
      /\ replies' \in SUBSET Replies
  BY DEF IInv, TypeOK, Replies, OnResponse
<1>2. \A s \in Timed : callbacks[s] # 0 => TimedIn(timers, s, callbacks[s])
  BY DEF IInv, HeldCallbackIsTimed, TimedIn
<1> QED BY <1>1, <1>2, CallBackStep DEF OnResponse

LEMMA UnclaimedResponseStep ==
    ASSUME IInv, NEW m \in replies, UnclaimedResponse(m)
    PROVE  IInv'
<1> USE DEF IInv
<1>1. TypeOK'
  BY DEF UnclaimedResponse, TypeOK
<1>2. UNCHANGED <<phase, attempt, stage, callbacks, timers, told>>
  BY DEF UnclaimedResponse
<1>3. StageInv' /\ AttemptInv' /\ HeldIffWaiting' /\ OneFinalAnswer'
  BY <1>2 DEF StageInv, AttemptInv, HeldIffWaiting, OneFinalAnswer
<1> QED BY <1>1, <1>2, <1>3, SameTimed

\* Only the request of the timer that fires can lose a pending timer.
LEMMA FireTimerStep ==
    ASSUME IInv, FireTimer
    PROVE  IInv'
<1> DEFINE r == Head(timers).req
<1>1. /\ timers \in Seq(Timers) /\ timers # <<>>
      /\ Tail(timers) \in Seq(Timers)
      /\ r \in Requests
      /\ UNCHANGED <<stage, replies>>
  <2>1. timers \in Seq(Timers) /\ timers # <<>>
    BY DEF IInv, TypeOK, FireTimer
  <2>2. Head(timers) \in Timers /\ Tail(timers) \in Seq(Timers)
    BY <2>1
  <2>3. r \in Requests
    BY <2>2 DEF Timers
  <2>4. UNCHANGED <<stage, replies>>
    BY DEF FireTimer
  <2> QED BY <2>1, <2>2, <2>3, <2>4
<1>2. ASSUME NEW s \in Timed \ {r}, callbacks[s] # 0
      PROVE  TimedIn(Tail(timers), s, callbacks[s])
  <2> DEFINE e == [req |-> s, attempt |-> callbacks[s]]
  <2>1. e # Head(timers)
    BY <1>2
  <2>2. \E i \in 1 .. Len(timers) : timers[i] = e
    BY <1>2 DEF IInv, HeldCallbackIsTimed
  <2> HIDE DEF e
  <2>3. \E i \in 1 .. Len(Tail(timers)) : Tail(timers)[i] = e
    BY <1>1, <2>1, <2>2, TailKeepsTimed
  <2> QED BY <2>3 DEF TimedIn, e
<1>3. CASE callbacks[r] # 0 /\ CallBack(r, Timeout, Tail(timers))
  <2>1. Final(Timeout) /\ replies' \in SUBSET Replies
    BY <1>1 DEF Final, Timeout, IInv, TypeOK
  <2> QED BY <1>1, <1>2, <1>3, <2>1, CallBackStep
<1>4. CASE /\ callbacks[r] = 0
           /\ timers' = Tail(timers)
           /\ UNCHANGED <<phase, attempt, callbacks, inbox, told>>
  <2> USE DEF IInv
  <2>1. TypeOK'
    BY <1>1, <1>4 DEF TypeOK
  <2>2. StageInv' /\ AttemptInv' /\ HeldIffWaiting' /\ OneFinalAnswer'
    BY <1>1, <1>4 DEF StageInv, AttemptInv, HeldIffWaiting, OneFinalAnswer
  <2>3. HeldCallbackIsTimed'
    BY <1>2, <1>4 DEF HeldCallbackIsTimed, TimedIn
  <2> QED BY <2>1, <2>2, <2>3
<1> QED BY <1>3, <1>4 DEF FireTimer

LEMMA StutterStep == IInv /\ UNCHANGED vars => IInv'
BY DEF IInv, TypeOK, StageInv, AttemptInv, HeldIffWaiting,
       HeldCallbackIsTimed, OneFinalAnswer, vars

LEMMA NextInv == IInv /\ [Next]_vars => IInv'
<1> SUFFICES ASSUME IInv, [Next]_vars PROVE IInv'
  OBVIOUS
<1>1. ASSUME NEW r \in Requests,
             \/ Post(r) \/ PostToPipeline(r)
             \/ HandlerNext(r) \/ HandlerFail(r)
             \/ RemoveResponseListener(r)
      PROVE  IInv'
  BY <1>1, PostStep, PostToPipelineStep, HandlerNextStep, HandlerFailStep,
     RemoveResponseListenerStep
<1>2. ASSUME NEW copy \in inbox, NEW code \in Codes, Respond(copy, code)
      PROVE  IInv'
  BY <1>2, RespondStep
<1>3. ASSUME NEW m \in replies, OnResponse(m) \/ UnclaimedResponse(m)
      PROVE  IInv'
  BY <1>3, OnResponseStep, UnclaimedResponseStep
<1>4. CASE FireTimer
  BY <1>4, FireTimerStep
<1>5. CASE UNCHANGED vars
  BY <1>5, StutterStep
<1> QED BY <1>1, <1>2, <1>3, <1>4, <1>5 DEF Next

\* The inductive invariant holds throughout, whatever the requests are.
THEOREM BusInvariant == Spec => []IInv
<1> QED BY InitInv, NextInv, PTL DEF Spec

\* The tables of the bus are well typed: in particular a request is never
\* handed over more than Retries + 1 times.
THEOREM BusTypeCorrect == Spec => []TypeOK
<1>1. IInv => TypeOK
  BY DEF IInv
<1> QED BY <1>1, BusInvariant, PTL

\* No callback of a timed request is held without its own timer pending.
THEOREM BusHeldCallbackIsTimed == Spec => []HeldCallbackIsTimed
<1>1. IInv => HeldCallbackIsTimed
  BY DEF IInv
<1> QED BY <1>1, BusInvariant, PTL

\* A callback is held exactly while its request waits, and is the latest one.
THEOREM BusHeldIffWaiting == Spec => []HeldIffWaiting
<1>1. IInv => HeldIffWaiting
  BY DEF IInv
<1> QED BY <1>1, BusInvariant, PTL

\* The poster of a request is told one final answer at most.
THEOREM BusOneFinalAnswer == Spec => []OneFinalAnswer
<1>1. IInv => OneFinalAnswer
  BY DEF IInv
<1> QED BY <1>1, BusInvariant, PTL

-----------------------------------------------------------------------------
(* The bus implements RequestReply: each turn opens, answers or abandons    *)
(* one request, or changes nothing the poster can see.                      *)

LEMMA StatusValues ==
    /\ StatusOf("idle") = "idle"
    /\ StatusOf("piped") = "open"
    /\ \A p \in Waiting : StatusOf(p) = "open"
    /\ StatusOf("answered") = "answered"
    /\ \A p \in {"blocked", "bounced", "silent", "removed"} :
          StatusOf(p) = "abandoned"
BY DEF StatusOf, Waiting

LEMMA CallBackRefines ==
    ASSUME IInv, NEW r \in Requests, callbacks[r] # 0, NEW code, NEW pending,
           CallBack(r, code, pending)
    PROVE  [Promise!Next]_(Promise!vars)
<1>1. phase[r] \in Waiting /\ TypeOK
  BY DEF IInv, HeldIffWaiting
<1>2. statusBar[r] = "open"
  BY <1>1, StatusValues DEF statusBar
<1>3. CASE Tell(r, code, pending) /\ Final(code)
  <2>1. /\ phase' = [phase EXCEPT ![r] = "answered"]
        /\ told' = [told EXCEPT ![r] = @ + 1]
    BY <1>3 DEF Tell
  <2>2. statusBar' = [statusBar EXCEPT ![r] = "answered"]
    BY <1>1, <2>1, StatusValues DEF TypeOK, statusBar
  <2> QED BY <1>2, <2>1, <2>2 DEF Promise!Next, Promise!Answer
<1>4. CASE Tell(r, code, pending) /\ ~Final(code)
  <2>1. PICK p \in Waiting : phase' = [phase EXCEPT ![r] = p]
    BY <1>1, <1>4 DEF Tell, Waiting
  <2>2. told' = told
    BY <1>1, <1>4 DEF Tell, TypeOK
  <2>3. statusBar' = [statusBar EXCEPT ![r] = "open"]
    BY <1>1, <2>1, StatusValues DEF TypeOK, statusBar
  <2>4. statusBar' = statusBar
    BY <1>2, <2>3 DEF statusBar
  <2> QED BY <2>2, <2>4 DEF Promise!vars
<1>5. CASE TryAgain(r, pending)
  BY <1>5 DEF TryAgain, Promise!vars, statusBar
<1>6. CASE Bounce(r, pending) \/ RejectIgnored(r, pending)
  <2>1. PICK p \in {"bounced", "silent"} : phase' = [phase EXCEPT ![r] = p]
    BY <1>6 DEF Bounce, RejectIgnored
  <2>2. told' = told
    BY <1>6 DEF Bounce, RejectIgnored
  <2>3. statusBar' = [statusBar EXCEPT ![r] = "abandoned"]
    BY <1>1, <2>1, StatusValues DEF TypeOK, statusBar
  <2> QED BY <1>2, <2>2, <2>3 DEF Promise!Next, Promise!Abandon
<1> QED BY <1>3, <1>4, <1>5, <1>6 DEF CallBack

LEMMA InitRefines == Init => Promise!Init
BY StatusValues DEF Init, Promise!Init, statusBar

LEMMA NextRefines == IInv /\ [Next]_vars => [Promise!Next]_(Promise!vars)
<1> SUFFICES ASSUME IInv, [Next]_vars PROVE [Promise!Next]_(Promise!vars)
  OBVIOUS
<1>1. TypeOK
  BY DEF IInv
<1>2. ASSUME UNCHANGED <<phase, told>>
      PROVE  UNCHANGED Promise!vars
  BY <1>2 DEF Promise!vars, statusBar
<1>3. ASSUME NEW r \in Requests, Post(r) \/ PostToPipeline(r)
      PROVE  [Promise!Next]_(Promise!vars)
  <2>1. PICK p \in {"sent", "piped"} :
            /\ phase[r] = "idle"
            /\ phase' = [phase EXCEPT ![r] = p]
            /\ told' = told
    BY <1>3 DEF Post, PostToPipeline
  <2>2. statusBar[r] = "idle"
    BY <2>1, StatusValues DEF statusBar
  <2>3. statusBar' = [statusBar EXCEPT ![r] = "open"]
    BY <1>1, <2>1, StatusValues DEF TypeOK, statusBar, Waiting
  <2> QED BY <2>1, <2>2, <2>3 DEF Promise!Next, Promise!Open
<1>4. ASSUME NEW r \in Requests, HandlerNext(r)
      PROVE  [Promise!Next]_(Promise!vars)
  <2>1. phase[r] = "piped" /\ told' = told
    BY <1>4 DEF HandlerNext, IInv, StageInv
  <2>2. CASE UNCHANGED phase
    BY <1>2, <2>1, <2>2
  <2>3. CASE phase' = [phase EXCEPT ![r] = "sent"]
    <3>1. statusBar' = [statusBar EXCEPT ![r] = "open"]
      BY <1>1, <2>3, StatusValues DEF TypeOK, statusBar, Waiting
    <3>2. statusBar' = statusBar
      BY <2>1, <3>1, StatusValues DEF statusBar
    <3> QED BY <2>1, <3>2 DEF Promise!vars
  <2> QED BY <1>4, <2>2, <2>3 DEF HandlerNext
<1>5. ASSUME NEW r \in Requests, HandlerFail(r) \/ RemoveResponseListener(r)
      PROVE  [Promise!Next]_(Promise!vars)
  <2>1. PICK p \in {"blocked", "removed"} :
            /\ phase[r] \in {"piped", "sent"}
            /\ phase' = [phase EXCEPT ![r] = p]
            /\ told' = told
    BY <1>5 DEF HandlerFail, RemoveResponseListener, IInv, StageInv
  <2>2. statusBar[r] = "open"
    BY <2>1, StatusValues DEF statusBar, Waiting
  <2>3. statusBar' = [statusBar EXCEPT ![r] = "abandoned"]
    BY <1>1, <2>1, StatusValues DEF TypeOK, statusBar
  <2> QED BY <2>1, <2>2, <2>3 DEF Promise!Next, Promise!Abandon
<1>6. ASSUME NEW copy \in inbox, NEW code \in Codes, Respond(copy, code)
      PROVE  UNCHANGED Promise!vars
  BY <1>2, <1>6 DEF Respond
<1>7. ASSUME NEW m \in replies, OnResponse(m) \/ UnclaimedResponse(m)
      PROVE  [Promise!Next]_(Promise!vars)
  <2>1. m.req \in Requests
    BY <1>1 DEF TypeOK, Replies
  <2>2. CASE OnResponse(m)
    BY <2>1, <2>2, CallBackRefines DEF OnResponse
  <2>3. CASE UnclaimedResponse(m)
    BY <1>2, <2>3 DEF UnclaimedResponse
  <2> QED BY <1>7, <2>2, <2>3
<1>8. CASE FireTimer
  <2> DEFINE r == Head(timers).req
  <2>1. Head(timers) \in Timers
    BY <1>1, <1>8 DEF TypeOK, FireTimer
  <2>2. r \in Requests
    BY <2>1 DEF Timers
  <2>3. CASE callbacks[r] # 0 /\ CallBack(r, Timeout, Tail(timers))
    BY <2>2, <2>3, CallBackRefines
  <2>4. CASE UNCHANGED <<phase, told>>
    BY <1>2, <2>4
  <2> QED BY <1>8, <2>3, <2>4 DEF FireTimer
<1>9. CASE UNCHANGED vars
  BY <1>2, <1>9 DEF vars
<1> QED BY <1>3, <1>4, <1>5, <1>6, <1>7, <1>8, <1>9 DEF Next

\* Whatever the requests, the bus keeps the promise of RequestReply.
THEOREM BusImplementsRequestReply == Spec => ImplementsRequestReply
<1> QED BY InitRefines, NextRefines, BusInvariant, PTL
        DEF Spec, ImplementsRequestReply, Promise!Spec
=============================================================================
