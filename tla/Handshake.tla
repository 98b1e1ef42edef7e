------------------------------ MODULE Handshake ------------------------------
(***************************************************************************)
(* The mutual authentication of two hyperties by the crypto managers of    *)
(* their runtimes (cryptoManager/CryptoManager.js).  A side starts it when *)
(* its hyperty sends the other one a message; the side of a reporter also  *)
(* when the other hyperty subscribes to its data object, whose session key *)
(* it then hands over.  Messages that are encrypted with the keys agreed   *)
(* on, subscriptions and updates of the object go on at the same time.     *)
(*                                                                         *)
(* Random values, secrets and session keys are numbers never used before;  *)
(* 0 is a value not yet known.  The four keys that each side derives from  *)
(* a secret and the two random values stand for one key, that triple.      *)
(***************************************************************************)
EXTENDS Naturals, Sequences

CONSTANTS
    MaxSends,       \* bound on the messages of the two hyperties
    MaxSubscribes,  \* bound on the subscribe messages
    MaxUpdates      \* bound on the updates of the object

ASSUME BoundAssumption == MaxSends \in Nat /\ MaxSubscribes \in Nat /\ MaxUpdates \in Nat

VARIABLES
    chat,           \* chatKeys of each side
    link,           \* messages on their way to each side
    fresh,          \* how many random values there are
    sent,           \* messages the hyperties sent: who did
    arrived,        \* those the other one got
    subscription,   \* how far the authentication of each subscriber is
    memory,         \* the object's session key in dataObjectSessionKeys, by side
    stored,         \* that in the storage of the reporter
    update,         \* how far each update is, and the key it found stored
    odd             \* history: what happened that breaks an exchange

keys == <<memory, stored, update>>
vars == <<chat, link, fresh, sent, arrived, subscription, keys, odd>>

-----------------------------------------------------------------------------
Sides == {"reporter", "subscriber"}

Peer(s) == IF s = "reporter" THEN "subscriber" ELSE "reporter"

Sends      == 1 .. MaxSends
Subscribes == 1 .. MaxSubscribes
Updates    == 1 .. MaxUpdates

Keys == {<<>>} \union (Nat \X Nat \X Nat)

\* What made the chat keys: a message of the hyperty, which is sent when the
\* handshake is over, a handshake message of the other side, or a subscription.
Causes == [kind : {"message"}, nr : Sends] \union [kind : {"handshake", "subscription"}]

Chats ==
    [open : BOOLEAN, authenticated : BOOLEAN, from : Nat, to : Nat, key : Keys,
     cause : Causes, callback : Subscribes \union {0}]

NoChat ==
    [open |-> FALSE, authenticated |-> FALSE, from |-> 0, to |-> 0, key |-> <<>>,
     cause |-> [kind |-> "handshake"], callback |-> 0]

NewChat(cause, callback) == [NoChat EXCEPT !.open = TRUE, !.cause = cause, !.callback = callback]

Messages ==
    [phase : {"senderHello", "receiverHello"}, value : Nat]
        \union [phase : {"senderCertificate"}, value : Nat, key : Keys]
        \union [phase : {"receiverFinishedMessage", "receiverAcknowledge"}, key : Keys]
        \union [phase : {"reporterSessionKey"}, value : Nat, key : Keys]
        \union [phase : {"message"}, value : Sends, key : Keys]

\* crossed: a side was asked for a handshake while its own was under way;
\* disturbed: a subscription drew a new random value for a handshake under way;
\* raced: a session key replaced one made since the storage was read.
Oddities == {"crossed", "disturbed", "raced", "unreadable"}

TypeOK ==
    /\ chat \in [Sides -> Chats]
    /\ link \in [Sides -> Seq(Messages)]
    /\ fresh \in Nat
    /\ sent \in Seq(Sides) /\ Len(sent) <= MaxSends
    /\ arrived \in SUBSET Sends
    /\ subscription \in [Subscribes -> {"none", "waiting", "told"}]
    /\ memory \in [Sides -> Nat]
    /\ stored \in Nat
    /\ update \in [Updates -> [stage : {"none", "read", "made"}, key : Nat]]
    /\ odd \in SUBSET Oddities

Init ==
    /\ chat = [s \in Sides |-> NoChat]
    /\ link = [s \in Sides |-> <<>>]
    /\ fresh = 0
    /\ sent = <<>>
    /\ arrived = {}
    /\ subscription = [n \in Subscribes |-> "none"]
    /\ memory = [s \in Sides |-> 0]
    /\ stored = 0
    /\ update = [n \in Updates |-> [stage |-> "none", key |-> 0]]
    /\ odd = {}

-----------------------------------------------------------------------------
(* Messages of the hyperties: encryptMessage.                              *)

\* What was encrypted and hashed with one key can be read with that key only.
Readable(s, m) == m.key = chat[s].key

Post(s, m) == link' = [link EXCEPT ![Peer(s)] = Append(@, m)]

Encrypted(s, n) == [phase |-> "message", value |-> n, key |-> chat[s].key]

\* The first message starts a handshake and waits for its end; a message during
\* the handshake is lost, without an answer to who sent it.
Send(s) ==
    LET n == Len(sent) + 1
    IN  /\ n \in Sends
        /\ sent' = Append(sent, s)
        /\ \/ /\ ~chat[s].open
              /\ chat' = [chat EXCEPT ![s] =
                            [NewChat([kind |-> "message", nr |-> n], 0) EXCEPT !.from = fresh + 1]]
              /\ fresh' = fresh + 1
              /\ Post(s, [phase |-> "senderHello", value |-> fresh + 1])
           \/ /\ chat[s].authenticated
              /\ Post(s, Encrypted(s, n))
              /\ UNCHANGED <<chat, fresh>>
           \/ /\ chat[s].open /\ ~chat[s].authenticated
              /\ UNCHANGED <<chat, fresh, link>>
        /\ UNCHANGED <<arrived, subscription, keys, odd>>

-----------------------------------------------------------------------------
(* The subscription to a data object: _doMutualAuthenticationPhase1 and 2. *)

\* Mutant: a new key is handed over without being kept.
SessionKey_Unsaved(s) ==
    /\ fresh' = fresh + 1
    /\ UNCHANGED <<memory, stored>>
    /\ Post(s, [phase |-> "reporterSessionKey", value |-> fresh + 1, key |-> chat[s].key])

\* _sendReporterSessionKey: the object's key, made now unless there is one.
SessionKey(s) ==
    /\ \/ /\ memory[s] # 0
          /\ Post(s, [phase |-> "reporterSessionKey", value |-> memory[s], key |-> chat[s].key])
          /\ UNCHANGED <<fresh, memory, stored>>
       \/ /\ memory[s] = 0
          /\ fresh' = fresh + 1
          /\ memory' = [memory EXCEPT ![s] = fresh + 1]
          /\ stored' = fresh + 1
          /\ Post(s, [phase |-> "reporterSessionKey", value |-> fresh + 1, key |-> chat[s].key])

\* A subscription draws a random value, and says hello with it unless the chat
\* keys were made for something else.  Only the one that made them is told.
Subscribe(n) ==
    LET s   == "reporter"
        old == chat[s]
        new == IF old.open THEN old ELSE NewChat([kind |-> "subscription"], n)
    IN  /\ subscription[n] = "none"
        /\ \/ /\ ~old.authenticated
              /\ subscription' = [subscription EXCEPT ![n] = "waiting"]
              /\ chat' = [chat EXCEPT ![s] = [new EXCEPT !.from = fresh + 1]]
              /\ fresh' = fresh + 1
              /\ \/ /\ new.cause.kind = "subscription"
                    /\ Post(s, [phase |-> "senderHello", value |-> fresh + 1])
                 \/ /\ new.cause.kind # "subscription"
                    /\ UNCHANGED link
              /\ odd' = IF old.open THEN odd \union {"disturbed"} ELSE odd
              /\ UNCHANGED keys
           \/ /\ old.authenticated
              /\ subscription' = [subscription EXCEPT ![n] = "told"]
              /\ SessionKey(s)
              /\ UNCHANGED <<chat, update, odd>>
        /\ UNCHANGED <<sent, arrived>>

-----------------------------------------------------------------------------
(* The phases of the handshake: _doHandShakePhase, once per message.       *)

Receive(s, phase) == link[s] # <<>> /\ Head(link[s]).phase = phase

\* Mutant: the chat keys are made for an unknown cause.
Opened_Unknown(s) == IF chat[s].open THEN chat[s] ELSE NewChat([kind |-> "hello"], 0)

\* The chat keys of the side that receives, made if there are none.
Opened(s) == IF chat[s].open THEN chat[s] ELSE NewChat([kind |-> "handshake"], 0)

\* Takes the message, and answers with another one.
Answer(s, m) ==
    link' = [link EXCEPT ![s] = Tail(@), ![Peer(s)] = Append(@, m)]

Drop(s) == link' = [link EXCEPT ![s] = Tail(@)]

SenderHello(s) ==
    /\ Receive(s, "senderHello")
    /\ chat' = [chat EXCEPT ![s] = [Opened(s) EXCEPT !.from = Head(link[s]).value, !.to = fresh + 1]]
    /\ fresh' = fresh + 1
    /\ Answer(s, [phase |-> "receiverHello", value |-> fresh + 1])
    /\ odd' = IF chat[s].open /\ chat[s].cause.kind # "handshake" THEN odd \union {"crossed"} ELSE odd
    /\ UNCHANGED <<sent, arrived, subscription, keys>>

\* The other side's assertion is validated, and the keys are made.
ReceiverHello(s) ==
    /\ Receive(s, "receiverHello")
    /\ LET key == <<fresh + 1, Head(link[s]).value, chat[s].from>>
       IN  /\ chat' = [chat EXCEPT ![s].to = Head(link[s]).value, ![s].key = key]
           /\ Answer(s, [phase |-> "senderCertificate", value |-> fresh + 1, key |-> key])
    /\ fresh' = fresh + 1
    /\ UNCHANGED <<sent, arrived, subscription, keys, odd>>

\* Mutant: the check of the other side's hash is left out.
SenderCertificate_Unchecked(s) ==
    /\ Receive(s, "senderCertificate")
    /\ LET key == <<Head(link[s]).value, chat[s].to, chat[s].from>>
       IN  /\ chat' = [chat EXCEPT ![s].key = key, ![s].authenticated = TRUE]
           /\ Answer(s, [phase |-> "receiverFinishedMessage", key |-> key])
    /\ UNCHANGED <<fresh, sent, arrived, subscription, keys, odd>>

\* Mutant: the keys that were made are not kept.
SenderCertificate_Unkept(s) ==
    /\ Receive(s, "senderCertificate")
    /\ LET key == <<Head(link[s]).value, chat[s].to, chat[s].from>>
       IN  \/ /\ key = Head(link[s]).key
              /\ chat' = [chat EXCEPT ![s].authenticated = TRUE]
              /\ Answer(s, [phase |-> "receiverFinishedMessage", key |-> key])
           \/ /\ key # Head(link[s]).key
              /\ Drop(s) /\ UNCHANGED chat
    /\ UNCHANGED <<fresh, sent, arrived, subscription, keys, odd>>

\* The keys are made of the secret received; when they are not those the other
\* side used, the message is refused, but the keys are kept.
SenderCertificate(s) ==
    /\ Receive(s, "senderCertificate")
    /\ LET m   == Head(link[s])
           key == <<m.value, chat[s].to, chat[s].from>>
       IN  \/ /\ key = m.key
              /\ chat' = [chat EXCEPT ![s].key = key, ![s].authenticated = TRUE]
              /\ Answer(s, [phase |-> "receiverFinishedMessage", key |-> key])
           \/ /\ key # m.key
              /\ chat' = [chat EXCEPT ![s].key = key]
              /\ Drop(s)
    /\ UNCHANGED <<fresh, sent, arrived, subscription, keys, odd>>

\* Mutant: the message that waited is not sent.
Finished_Forgotten(s) ==
    /\ Receive(s, "receiverFinishedMessage")
    /\ chat' = [chat EXCEPT ![s].authenticated = TRUE]
    /\ Drop(s)
    /\ UNCHANGED <<fresh, sent, arrived, subscription, keys, odd>>

\* The side that started counts as authenticated before it checks the message;
\* then the message that waited, or the session key, is sent.
Finished(s) ==
    /\ Receive(s, "receiverFinishedMessage")
    /\ chat' = [chat EXCEPT ![s].authenticated = TRUE]
    /\ LET cause == chat[s].cause
           rest  == [link EXCEPT ![s] = Tail(@)]
           next  == [phase |-> "reporterSessionKey", key |-> chat[s].key,
                     value |-> IF memory[s] # 0 THEN memory[s] ELSE fresh + 1]
       IN  \/ /\ ~Readable(s, Head(link[s]))
              /\ Drop(s)
              /\ UNCHANGED <<fresh, memory, stored>>
           \/ /\ Readable(s, Head(link[s]))
              /\ cause.kind = "message"
              /\ Answer(s, Encrypted(s, cause.nr))
              /\ UNCHANGED <<fresh, memory, stored>>
           \/ /\ Readable(s, Head(link[s]))
              /\ cause.kind = "subscription"
              /\ link' = [rest EXCEPT ![Peer(s)] = Append(@, next)]
              /\ fresh' = IF memory[s] # 0 THEN fresh ELSE fresh + 1
              /\ memory' = [memory EXCEPT ![s] = next.value]
              /\ stored' = IF memory[s] # 0 THEN stored ELSE next.value
    /\ UNCHANGED <<sent, arrived, subscription, update, odd>>

\* The subscriber's side keeps the key of the object.
ReporterSessionKey(s) ==
    /\ Receive(s, "reporterSessionKey")
    /\ LET m == Head(link[s])
       IN  \/ /\ Readable(s, m)
              /\ memory' = [memory EXCEPT ![s] = m.value]
              /\ Answer(s, [phase |-> "receiverAcknowledge", key |-> m.key])
           \/ /\ ~Readable(s, m)
              /\ Drop(s)
              /\ UNCHANGED memory
    /\ UNCHANGED <<chat, fresh, sent, arrived, subscription, stored, update, odd>>

\* The handshake of a subscription is over.
ReceiverAcknowledge(s) ==
    /\ Receive(s, "receiverAcknowledge")
    /\ LET n == chat[s].callback
       IN  subscription' = [k \in Subscribes |->
               IF k = n /\ Readable(s, Head(link[s])) THEN "told" ELSE subscription[k]]
    /\ Drop(s)
    /\ UNCHANGED <<chat, fresh, sent, arrived, keys, odd>>

\* decryptMessage of a hyperty's message: refused unless it can be read.
Arrive(s) ==
    /\ Receive(s, "message")
    /\ LET m == Head(link[s])
       IN  \/ /\ chat[s].authenticated /\ Readable(s, m)
              /\ arrived' = arrived \union {m.value}
              /\ UNCHANGED odd
           \/ /\ ~(chat[s].authenticated /\ Readable(s, m))
              /\ odd' = odd \union {"unreadable"}
              /\ UNCHANGED arrived
    /\ Drop(s)
    /\ UNCHANGED <<chat, fresh, sent, subscription, keys>>

-----------------------------------------------------------------------------
(* Updates of the object: encryptMessage to a data object.                 *)

\* The stored keys are read first, and the object is looked up;
ReadKey(n) ==
    /\ update[n].stage = "none"
    /\ update' = [update EXCEPT ![n] = [stage |-> "read", key |-> stored]]
    /\ UNCHANGED <<chat, link, fresh, sent, arrived, subscription, memory, stored, odd>>

\* if there was no key then, one is made now.
MakeKey(n) ==
    /\ update[n].stage = "read"
    /\ \/ /\ update[n].key = 0
          /\ fresh' = fresh + 1
          /\ memory' = [memory EXCEPT !["reporter"] = fresh + 1]
          /\ stored' = fresh + 1
          /\ update' = [update EXCEPT ![n] = [stage |-> "made", key |-> fresh + 1]]
          /\ odd' = IF memory["reporter"] # 0 THEN odd \union {"raced"} ELSE odd
       \/ /\ update[n].key # 0
          /\ update' = [update EXCEPT ![n].stage = "made"]
          /\ UNCHANGED <<fresh, memory, stored, odd>>
    /\ UNCHANGED <<chat, link, sent, arrived, subscription>>

-----------------------------------------------------------------------------
Handle(s) ==
    \/ SenderHello(s) \/ ReceiverHello(s) \/ SenderCertificate(s) \/ Finished(s)
    \/ ReporterSessionKey(s) \/ ReceiverAcknowledge(s) \/ Arrive(s)

Next ==
    \/ \E s \in Sides : Send(s) \/ Handle(s)
    \/ \E n \in Subscribes : Subscribe(n)
    \/ \E n \in Updates : ReadKey(n) \/ MakeKey(n)

\* Messages get through, and nobody has to send or to subscribe.
Spec == Init /\ [][Next]_vars /\ \A s \in Sides : WF_vars(Handle(s))

-----------------------------------------------------------------------------
\* Two sides that both count as authenticated, with no handshake message left
\* that could change it, have the same keys.
AuthenticatedAgree ==
    (/\ \A s \in Sides : chat[s].authenticated
     /\ \A s \in Sides : link[s] = <<>>)
        => chat["reporter"].key = chat["subscriber"].key

\* A message that was encrypted can be read by the side that gets it, unless
\* the handshake its keys come from was crossed or disturbed by another one.
MessagesAreReadable ==
    "unreadable" \in odd => odd \intersect {"crossed", "disturbed"} # {}

\* A subscriber that was let in has the key the reporter encrypts with, or that is
\* on its way in a message the subscriber has the keys to read; unless an update
\* made another key meanwhile.
ToldHaveTheKey ==
    \A n \in Subscribes :
        (subscription[n] = "told" /\ "raced" \notin odd) =>
            \/ memory["subscriber"] = memory["reporter"]
            \/ \E i \in 1 .. Len(link["subscriber"]) :
                  /\ link["subscriber"][i].phase = "reporterSessionKey"
                  /\ link["subscriber"][i].value = memory["reporter"]
                  /\ link["subscriber"][i].key = chat["subscriber"].key

\* A message that starts a handshake arrives, unless the other side started one
\* at the same time or a subscription disturbed it.
FirstMessageArrives ==
    \A n \in Sends :
        (\E s \in Sides : chat[s].open /\ chat[s].cause = [kind |-> "message", nr |-> n])
            ~> (n \in arrived \/ odd \intersect {"crossed", "disturbed"} # {})
===============================================================================
