--------------------------- MODULE StatusSubscriptions ---------------------------
(***************************************************************************)
(* How a hyperty learns that a registration became live or disconnected:   *)
(* RegistrationStatus objects (discovery/RegistrationStatus.js) subscribe  *)
(* to the registration, with the subscription manager of its runtime       *)
(* (subscriptionManager/SubscriptionManager.js), which does so with the    *)
(* message node.  All objects here are of one hyperty and registration;    *)
(* the manager cannot tell them apart.  What is heard is left out: a       *)
(* notification reaches the objects as long as the node, the manager and   *)
(* the forwarding listener are there.                                      *)
(***************************************************************************)
EXTENDS Naturals, Sequences, SequencesExt

CONSTANTS
    Statuses,     \* RegistrationStatus objects
    Waiters,      \* subscribers to them
    MaxForwards,  \* bound on the subscriptions made
    MaxPuts       \* bound on the puts on their way to storage

VARIABLES
    watch,        \* of each object: _subscriptionSet, and who waits for which status
    entry,        \* the manager has the subscription
    forwards,     \* listeners that forward notifications to the hyperty
    savedEntry,   \* the manager's storage has it, and then what the puts on their way say
    toNode,       \* the manager's messages to the node
    node,         \* the node has it
    crossed,      \* history: the subscription was cancelled, or refused, while in use
    lost          \* history: a restart found nothing of a subscription the node has, or gets

vars == <<watch, entry, forwards, savedEntry, toNode, node, crossed, lost>>

-----------------------------------------------------------------------------
Kinds == {"live", "disconnected"}

NoWatch == [set |-> FALSE, waits |-> [k \in Kinds |-> {}]]

Nobody == "nobody"

Subscribe(s, w, k) ==
    [type |-> "subscribe", status |-> s, waiter |-> w, kind |-> k]

StatusMessages ==
    [type : {"subscribe"}, status : Statuses, waiter : Waiters, kind : Kinds]
    \union {Subscribe(Nobody, Nobody, "live")} \union [type : {"unsubscribe", "orphan"}]

TypeOK ==
    /\ watch \in [Statuses -> [set : BOOLEAN, waits : [Kinds -> SUBSET Waiters]]]
    /\ {entry, node, crossed, lost} \subseteq BOOLEAN
    /\ savedEntry \in Seq(BOOLEAN) /\ Len(savedEntry) \in 1 .. MaxPuts + 1
    /\ forwards \in 0 .. MaxForwards
    /\ toNode \in Seq(StatusMessages)

Init ==
    /\ watch = [s \in Statuses |-> NoWatch]
    /\ entry = FALSE
    /\ forwards = 0
    /\ savedEntry = <<FALSE>>
    /\ toNode = <<>>
    /\ node = FALSE
    /\ crossed = FALSE /\ lost = FALSE

-----------------------------------------------------------------------------
Used(s) == \E k \in Kinds : watch[s].waits[k] # {}

UnderWay == \E i \in DOMAIN toNode : toNode[i].type = "subscribe"

\* Nobody waits for a put.
Save(there) ==
    /\ Len(savedEntry) <= MaxPuts
    /\ savedEntry' = Append(savedEntry, there)

\* Who waits is noted when the subscription is there.
Wait(s, w, k) ==
    LET waits == [watch[s].waits EXCEPT ![k] = @ \union {w}]
    IN  watch' = [watch EXCEPT ![s] = [set |-> TRUE, waits |-> waits]]

\* onLive and onDisconnected.  An object that has subscribed once does not do so
\* again, even if it has unsubscribed since.
On(s, w, k) ==
    /\ w \notin watch[s].waits[k]
    /\ IF watch[s].set
       THEN /\ Wait(s, w, k)
            /\ crossed' = (crossed \/ ~Used(s))
            /\ UNCHANGED toNode
       ELSE /\ ~Contains(toNode, Subscribe(s, w, k))
            /\ Len(toNode) < MaxForwards
            /\ toNode' = Append(toNode, Subscribe(s, w, k))
            /\ UNCHANGED <<watch, crossed>>
    /\ UNCHANGED <<entry, forwards, savedEntry, node, lost>>

\* createSubscription: the node's answer, whatever it is, is one of success for
\* the hyperty.  A subscription that is made again leaves its listener behind.
Created ==
    /\ toNode # <<>> /\ Head(toNode).type = "subscribe"
    /\ forwards < MaxForwards
    /\ LET m == Head(toNode)
       IN IF m.status = Nobody THEN UNCHANGED watch ELSE Wait(m.status, m.waiter, m.kind)
    /\ toNode' = Tail(toNode)
    /\ node' \in {TRUE, node}
    /\ crossed' = (crossed \/ ~node')
    /\ entry' = TRUE
    /\ IF Head(toNode).status = Nobody THEN UNCHANGED savedEntry ELSE Save(TRUE)
    /\ forwards' = forwards + 1
    /\ UNCHANGED lost

NodeUnsubscribes ==
    /\ toNode # <<>> /\ Head(toNode).type = "unsubscribe"
    /\ toNode' = Tail(toNode)
    /\ node' = FALSE
    /\ UNCHANGED <<watch, entry, forwards, savedEntry, crossed, lost>>

\* A subscription reaches the node whose manager is gone.
NodeSubscribes ==
    /\ toNode # <<>> /\ Head(toNode).type = "orphan"
    /\ toNode' = Tail(toNode)
    /\ node' \in {TRUE, node}
    /\ UNCHANGED <<watch, entry, forwards, savedEntry, crossed, lost>>

\* A put is done, or fails, and nobody is told.
Saved ==
    /\ Len(savedEntry) > 1
    /\ savedEntry' \in {Tail(savedEntry), <<Head(savedEntry)>> \o Tail(Tail(savedEntry))}
    /\ UNCHANGED <<watch, entry, forwards, toNode, node, crossed, lost>>

\* Mutant: it is not looked up whether there is something to unsubscribe.
ManagerUnsubscribes_Blind(s) ==
    /\ toNode' = Append(toNode, [type |-> "unsubscribe"])
    /\ entry' = FALSE
    /\ forwards' = forwards - 1
    /\ Save(FALSE)
    /\ UNCHANGED crossed

\* _onUnSubscribe; what others made of the same subscription goes with it.
ManagerUnsubscribes(s) ==
    /\ crossed' = (crossed \/ UnderWay \/ \E other \in Statuses \ {s} : Used(other))
    /\ IF entry
       THEN /\ toNode' = Append(toNode, [type |-> "unsubscribe"])
            /\ entry' = FALSE
            /\ forwards' = forwards - 1
            /\ Save(FALSE)
       ELSE UNCHANGED <<toNode, entry, forwards, savedEntry>>

\* Mutant: what waits for another status is not considered.
Empty_OfKind(w, k) == w[k] = {}

\* _areSubscriptionsEmpty
Empty(w, k) == \A kind \in Kinds : w[kind] = {}

\* unsubscribeLive and unsubscribeDisconnected, of which only the latter looks at
\* whether there is something to unsubscribe.
Unsubscribe(s, w, k) ==
    LET left == [watch[s].waits EXCEPT ![k] = @ \ {w}]
    IN  /\ k = "disconnected" => w \in watch[s].waits[k]
        /\ Len(toNode) < MaxForwards
        /\ watch' = [watch EXCEPT ![s].waits = left]
        /\ IF Empty(left, k) THEN ManagerUnsubscribes(s)
           ELSE UNCHANGED <<toNode, entry, forwards, savedEntry, crossed>>
        /\ UNCHANGED <<node, lost>>

\* What was under way stays so, of which nobody hears.
Left(m) == IF m.type = "subscribe" THEN [type |-> "orphan"] ELSE m

\* init: the runtime subscribes again to what it finds in storage, although no
\* object is left.  The puts are lost, and the messages that were not out.
Restart ==
    /\ \E out \in 0 .. Len(toNode) :
          LET left == [i \in 1 .. out |-> Left(toNode[i])]
          IN  IF Head(savedEntry)
              THEN /\ out < MaxForwards
                   /\ toNode' = Append(left, Subscribe(Nobody, Nobody, "live"))
              ELSE toNode' = left
    /\ watch' = [s \in Statuses |-> NoWatch]
    /\ entry' = FALSE
    /\ forwards' = 0
    /\ savedEntry' = <<Head(savedEntry)>>
    /\ lost' = (lost \/ (~Head(savedEntry) /\ (node \/ UnderWay)))
    /\ UNCHANGED <<node, crossed>>

Next ==
    \/ \E s \in Statuses, k \in Kinds :
          \E w \in Waiters : On(s, w, k) \/ Unsubscribe(s, w, k)
    \/ Created \/ NodeUnsubscribes \/ NodeSubscribes \/ Saved \/ Restart

Spec == Init /\ [][Next]_vars

-----------------------------------------------------------------------------
\* Who waits for a status hears of it, until all who wait with the same object
\* gave up, unless the subscription was refused, or cancelled by another object,
\* or an object was used again.
WaitersHear ==
    \A s \in Statuses : Used(s) /\ ~crossed => node /\ entry /\ forwards > 0

\* What the manager has cancelled, the node has too, when it got the messages,
\* unless a restart of the manager found nothing of it in storage.
CancelledIsCancelled ==
    ~entry /\ toNode = <<>> => ~node \/ lost
===============================================================================
