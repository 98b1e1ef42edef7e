----------------------------- MODULE MessageBus -----------------------------
(***************************************************************************)
(* Request and response matching on the runtime's buses (bus/Bus.js,       *)
(* bus/MessageBus.js, bus/MiniBus.js, bus/Pipeline.js): the table of       *)
(* response callbacks keyed by sender and message id, the timers that      *)
(* answer "408" in place of a late responder, the asynchronous pipeline a  *)
(* message crosses before it is delivered, and posting with retries, which *)
(* reuses one message id, hence one callback key, for every attempt.       *)
(*                                                                         *)
(* A request stands for one message id of one sender.  The event loop runs *)
(* a callback and the promise reactions it triggers before anything else,  *)
(* so that one action is one turn of the loop.                             *)
(***************************************************************************)
EXTENDS Naturals, Sequences

CONSTANTS
    Requests,   \* requests posted with a response callback
    Timed,      \* those posted with the default timeout = true
    Retried,    \* those posted by postMessageWithRetries
    Piped,      \* those _isToProcess sends through a pipeline
    Retries,    \* the retries argument of postMessageWithRetries
    Handlers    \* number of handlers of the pipeline

\* Retried requests are the domain registrations: they are timed and go from
\* the runtime's registry to the domain, a route _isToProcess leaves alone.
ASSUME RequestsAssumption ==
    /\ Timed \subseteq Requests
    /\ Piped \subseteq Requests
    /\ Retried \subseteq Timed \ Piped

ASSUME BoundsAssumption ==
    /\ Retries \in Nat
    /\ Handlers \in Nat \ {0}

VARIABLES
    phase,      \* what became of each request
    attempt,    \* how many times each request was handed to the bus
    stage,      \* the pipeline handler that works on it, 0 for none
    callbacks,  \* _responseCallbacks: the attempt whose callback is held, 0 for none
    timers,     \* pending setTimeout calls, which all have the same delay
    inbox,      \* copies delivered to a destination that may still answer
    replies,    \* responses on their way back to the bus
    told        \* final answers the poster's callback was given

vars == <<phase, attempt, stage, callbacks, timers, inbox, replies, told>>

-----------------------------------------------------------------------------
Provisional == 100
OK          == 200
Timeout     == 408
ServerError == 500

Codes == {Provisional, OK, ServerError}

\* Only postMessageWithRetries tells a server error from another final answer.
CodesFor(r) == IF r \in Retried THEN Codes ELSE Codes \ {ServerError}

\* A response of 200 or more is the last one for its request.
Final(code) == code >= 200

\* The codes that make postMessageWithRetries post again.
Bounces(code) == code \in {Timeout, ServerError}

Attempts == 1 .. (Retries + 1)
Timers   == [req : Requests, attempt : Attempts]
Copies   == [req : Requests, attempt : Attempts]
Replies  == [req : Requests, attempt : Attempts, code : Codes]

Waiting == {"sent", "acked"}
Closed  == {"answered", "bounced", "silent", "removed"}
Phases  == {"idle", "piped", "blocked"} \union Waiting \union Closed

TypeOK ==
    /\ phase \in [Requests -> Phases]
    /\ attempt \in [Requests -> 0 .. (Retries + 1)]
    /\ stage \in [Requests -> 0 .. Handlers]
    /\ callbacks \in [Requests -> 0 .. (Retries + 1)]
    /\ timers \in Seq(Timers)
    /\ inbox \in SUBSET Copies
    /\ replies \in SUBSET Replies
    /\ told \in [Requests -> Nat]

Init ==
    /\ phase = [r \in Requests |-> "idle"]
    /\ attempt = [r \in Requests |-> 0]
    /\ stage = [r \in Requests |-> 0]
    /\ callbacks = [r \in Requests |-> 0]
    /\ timers = <<>>
    /\ inbox = {}
    /\ replies = {}
    /\ told = [r \in Requests |-> 0]

-----------------------------------------------------------------------------
(* Posting.                                                                *)

\* Mutant: a key that has a timer pending is not given a second one.
ResponseCallback_OneTimerPerKey(r, a, pending) ==
    /\ callbacks' = [callbacks EXCEPT ![r] = a]
    /\ timers' = IF r \in Timed /\ ~\E i \in 1 .. Len(pending) : pending[i].req = r
                 THEN Append(pending, [req |-> r, attempt |-> a])
                 ELSE pending

\* Mutant: only the first attempt starts a timer.
ResponseCallback_FirstAttemptOnly(r, a, pending) ==
    /\ callbacks' = [callbacks EXCEPT ![r] = a]
    /\ timers' = IF r \in Timed /\ a = 1
                 THEN Append(pending, [req |-> r, attempt |-> a])
                 ELSE pending

\* _responseCallback: hold the callback of attempt a under the request's key
\* and, unless the poster asked for no timeout, start a timer after those of pending.
ResponseCallback(r, a, pending) ==
    /\ callbacks' = [callbacks EXCEPT ![r] = a]
    /\ timers' = IF r \in Timed
                 THEN Append(pending, [req |-> r, attempt |-> a])
                 ELSE pending

\* deliver: the callback is registered only now, then the message goes out.
Deliver(r, a, pending) ==
    /\ ResponseCallback(r, a, pending)
    /\ inbox' = inbox \union {[req |-> r, attempt |-> a]}

\* postMessage of a message that crosses no pipeline.
Post(r) ==
    /\ phase[r] = "idle"
    /\ r \notin Piped
    /\ phase' = [phase EXCEPT ![r] = "sent"]
    /\ attempt' = [attempt EXCEPT ![r] = 1]
    /\ Deliver(r, 1, timers)
    /\ UNCHANGED <<stage, replies, told>>

\* postMessage of a message that crosses a pipeline: the first handler starts.
PostToPipeline(r) ==
    /\ phase[r] = "idle"
    /\ r \in Piped
    /\ phase' = [phase EXCEPT ![r] = "piped"]
    /\ attempt' = [attempt EXCEPT ![r] = 1]
    /\ stage' = [stage EXCEPT ![r] = 1]
    /\ UNCHANGED <<callbacks, timers, inbox, replies, told>>

\* A handler's promise resolves: ctx.next() starts the next handler or delivers.
HandlerNext(r) ==
    /\ stage[r] > 0
    /\ \/ /\ stage[r] < Handlers
          /\ stage' = [stage EXCEPT ![r] = @ + 1]
          /\ UNCHANGED <<phase, callbacks, timers, inbox>>
       \/ /\ stage[r] = Handlers
          /\ stage' = [stage EXCEPT ![r] = 0]
          /\ phase' = [phase EXCEPT ![r] = "sent"]
          /\ Deliver(r, attempt[r], timers)
    /\ UNCHANGED <<attempt, replies, told>>

\* A handler's promise rejects: ctx.fail() logs and the message goes nowhere.
HandlerFail(r) ==
    /\ stage[r] > 0
    /\ stage' = [stage EXCEPT ![r] = 0]
    /\ phase' = [phase EXCEPT ![r] = "blocked"]
    /\ UNCHANGED <<attempt, callbacks, timers, inbox, replies, told>>

-----------------------------------------------------------------------------
(* The destination.  It may answer a copy with any number of provisional   *)
(* responses and one final one, or never; a response may take for ever.    *)

Respond(copy, code) ==
    /\ copy \in inbox
    /\ code \in CodesFor(copy.req)
    /\ replies' = replies \union
          {[req |-> copy.req, attempt |-> copy.attempt, code |-> code]}
    /\ inbox' = IF Final(code) THEN inbox \ {copy} ELSE inbox
    /\ UNCHANGED <<phase, attempt, stage, callbacks, timers, told>>

-----------------------------------------------------------------------------
(* The callback held for r is called with a response; pending are the      *)
(* timers left when it is.                                                 *)

\* Mutant: the final response is handed over but its callback stays registered.
Tell_KeepingCallback(r, code, pending) ==
    /\ timers' = pending
    /\ UNCHANGED callbacks
    /\ phase' = [phase EXCEPT ![r] = IF Final(code) THEN "answered"
                                     ELSE IF r \in Retried THEN "acked" ELSE @]
    /\ told' = [told EXCEPT ![r] = IF Final(code) THEN @ + 1 ELSE @]
    /\ UNCHANGED <<attempt, inbox>>

\* The poster's own callback is called.
Tell(r, code, pending) ==
    /\ timers' = pending
    /\ callbacks' = [callbacks EXCEPT ![r] = IF Final(code) THEN 0 ELSE @]
    /\ phase' = [phase EXCEPT ![r] = IF Final(code) THEN "answered"
                                     ELSE IF r \in Retried THEN "acked" ELSE @]
    /\ told' = [told EXCEPT ![r] = IF Final(code) THEN @ + 1 ELSE @]
    /\ UNCHANGED <<attempt, inbox>>

\* Mutant: the retry counter is compared with <= instead of <.
TryAgain_OnceMore(r, pending) ==
    /\ phase[r] = "sent"
    /\ attempt[r] <= Retries + 1
    /\ attempt' = [attempt EXCEPT ![r] = @ + 1]
    /\ Deliver(r, attempt[r] + 1, pending)
    /\ UNCHANGED <<phase, told>>

\* tryAgain: the same message, with the same id, is posted once more.
TryAgain(r, pending) ==
    /\ phase[r] = "sent"
    /\ attempt[r] <= Retries
    /\ attempt' = [attempt EXCEPT ![r] = @ + 1]
    /\ Deliver(r, attempt[r] + 1, pending)
    /\ UNCHANGED <<phase, told>>

\* The retries are exhausted: the error is thrown where nobody catches it.
Bounce(r, pending) ==
    /\ phase[r] = "sent"
    /\ attempt[r] > Retries
    /\ phase' = [phase EXCEPT ![r] = "bounced"]
    /\ callbacks' = [callbacks EXCEPT ![r] = 0]
    /\ timers' = pending
    /\ UNCHANGED <<attempt, inbox, told>>

\* The promise of this attempt was already resolved by a provisional
\* response: reject() does nothing, so there is neither retry nor answer.
RejectIgnored(r, pending) ==
    /\ phase[r] = "acked"
    /\ phase' = [phase EXCEPT ![r] = "silent"]
    /\ callbacks' = [callbacks EXCEPT ![r] = 0]
    /\ timers' = pending
    /\ UNCHANGED <<attempt, inbox, told>>

\* What sendMsg's reply callback does for a retried request, and the
\* poster's own callback for any other one.
CallBack(r, code, pending) ==
    \/ /\ r \in Retried => ~Bounces(code)
       /\ Tell(r, code, pending)
    \/ /\ r \in Retried /\ Bounces(code)
       /\ \/ TryAgain(r, pending)
          \/ Bounce(r, pending)
          \/ RejectIgnored(r, pending)

\* _onResponse finds a callback under the key of the response.
OnResponse(m) ==
    /\ m \in replies
    /\ callbacks[m.req] # 0
    /\ replies' = replies \ {m}
    /\ CallBack(m.req, m.code, timers)
    /\ UNCHANGED stage

\* _onResponse finds none: the response is routed as an ordinary message,
\* to listeners that do not wait for it.
UnclaimedResponse(m) ==
    /\ m \in replies
    /\ callbacks[m.req] = 0
    /\ replies' = replies \ {m}
    /\ UNCHANGED <<phase, attempt, stage, callbacks, timers, inbox, told>>

\* Mutant: the timer answers 408 without looking for the callback first.
FireTimer_Unchecked ==
    /\ timers # <<>>
    /\ CallBack(Head(timers).req, Timeout, Tail(timers))
    /\ UNCHANGED <<stage, replies>>

\* The oldest timer fires.  It answers 408 to whatever callback is held under
\* its key, which need not be the one it was started for.
FireTimer ==
    /\ timers # <<>>
    /\ LET r == Head(timers).req
       IN  \/ /\ callbacks[r] # 0
              /\ CallBack(r, Timeout, Tail(timers))
           \/ /\ callbacks[r] = 0
              /\ timers' = Tail(timers)
              /\ UNCHANGED <<phase, attempt, callbacks, inbox, told>>
    /\ UNCHANGED <<stage, replies>>

\* A poster that asked for no timeout gives up: removeResponseListener.
RemoveResponseListener(r) ==
    /\ r \notin Timed
    /\ phase[r] = "sent"
    /\ callbacks' = [callbacks EXCEPT ![r] = 0]
    /\ phase' = [phase EXCEPT ![r] = "removed"]
    /\ UNCHANGED <<attempt, stage, timers, inbox, replies, told>>

-----------------------------------------------------------------------------
Next ==
    \/ \E r \in Requests :
          \/ Post(r) \/ PostToPipeline(r)
          \/ HandlerNext(r) \/ HandlerFail(r)
          \/ RemoveResponseListener(r)
    \/ \E copy \in inbox, code \in Codes : Respond(copy, code)
    \/ \E m \in replies : OnResponse(m) \/ UnclaimedResponse(m)
    \/ FireTimer

Spec == Init /\ [][Next]_vars

\* The event loop fires due timers and runs the reactions of settled
\* promises.  That a handler's promise settles at all is assumed only where
\* a property says so; posters and responders are never obliged to act.
TimerFairness    == WF_vars(FireTimer)
PipelineFairness ==
    \A r \in Requests : WF_vars(HandlerNext(r) \/ HandlerFail(r))

FairSpec == Spec /\ TimerFairness /\ PipelineFairness

-----------------------------------------------------------------------------
(* Properties.                                                             *)

\* Every callback the bus holds for a timed request has the timer started for
\* that very attempt still pending, however many stale timers of earlier
\* attempts are pending too: no callback is held for ever.
HeldCallbackIsTimed ==
    \A r \in Timed : callbacks[r] # 0 =>
        \E i \in 1 .. Len(timers) :
            timers[i] = [req |-> r, attempt |-> callbacks[r]]

\* A callback is held exactly while its request waits, and it is the one of
\* the latest attempt: no attempt's callback outlives the answer, the bounce
\* or the removal that closed the request.
HeldIffWaiting ==
    \A r \in Requests :
        callbacks[r] = IF phase[r] \in Waiting THEN attempt[r] ELSE 0

\* A late answer to one attempt, the answers to the next attempts and the
\* timers all race for one key: the poster still is told one final answer at
\* most, and exactly one if the request counts as answered.
OneFinalAnswer ==
    \A r \in Requests : told[r] = IF phase[r] = "answered" THEN 1 ELSE 0

\* Every timed request the bus delivered is eventually closed, retries included.
EventuallyClosed ==
    \A r \in Timed : phase[r] \in Waiting ~> phase[r] \in Closed

\* The bus implements the promise of module RequestReply.
StatusOf(p) ==
    IF p \in {"idle", "answered"} THEN p
    ELSE IF p \in {"piped"} \union Waiting THEN "open" ELSE "abandoned"

statusBar == [r \in Requests |-> StatusOf(phase[r])]

Promise == INSTANCE RequestReply WITH status <- statusBar, answers <- told

ImplementsRequestReply == Promise!Spec

\* MessageBus.postMessage documents that a response is always sent to a poster
\* with a callback, a timeout if need be.
AlwaysAnswered ==
    \A r \in Requests \ Retried :
        phase[r] = "piped" ~> phase[r] \in {"answered", "removed"}

\* Bus.postMessage documents that a response handler is unregistered by the
\* response or by the response timeout: a timer that fires finds no callback
\* but the one it was started for.
OwnTimeout ==
    [][\A r \in Requests :
          FireTimer /\ callbacks[r] # 0 /\ callbacks'[r] # callbacks[r]
          => Head(timers).attempt = callbacks[r]]_vars
=============================================================================
