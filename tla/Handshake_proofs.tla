--------------------------- MODULE Handshake_proofs ---------------------------
(***************************************************************************)
(* Proofs about Handshake, for any numbers of messages, subscriptions and  *)
(* updates.  As long as no handshake is crossed or disturbed by another    *)
(* one, the two sides go through the phases in step: the inductive         *)
(* invariant lists what each phase leaves in the chat keys of both sides   *)
(* and on the way between them.                                            *)
(***************************************************************************)
EXTENDS Handshake, SequenceTheorems, TLAPS

\* No handshake was crossed or disturbed so far.
Clean == odd \intersect {"crossed", "disturbed"} = {}

\* The messages that follow a handshake, encrypted with its keys.
Settled == {"message", "reporterSessionKey", "receiverAcknowledge"}

\* All messages of a sequence follow a handshake that made key.
AllSettled(seq, from, key) ==
    \A i \in from .. Len(seq) : seq[i].phase \in Settled /\ seq[i].key = key

\* s began a handshake that is not over for it.
Starts(s) ==
    /\ chat[s].open /\ ~chat[s].authenticated
    /\ chat[s].cause.kind # "handshake"

\* s was asked for one, and has not authenticated its peer.
IsAsked(s) ==
    /\ chat[s].open /\ ~chat[s].authenticated
    /\ chat[s].cause.kind = "handshake"

Quiet == \A s \in Sides : ~chat[s].open /\ ~chat[s].authenticated /\ link[s] = <<>>

Hello(s) == [phase |-> "senderHello", value |-> chat[s].from]

\* The handshake that s began: its hello is on its way,
Asked(s) ==
    /\ Starts(s) /\ link[s] = <<>>
    /\ ~chat[Peer(s)].open /\ ~chat[Peer(s)].authenticated
    /\ link[Peer(s)] = <<Hello(s)>>

\* or the answer to it,
Greeted(s) ==
    /\ Starts(s) /\ IsAsked(Peer(s)) /\ chat[Peer(s)].from = chat[s].from
    /\ link[s] = <<[phase |-> "receiverHello", value |-> chat[Peer(s)].to]>>
    /\ link[Peer(s)] = <<>>

\* or the secret, with the keys that s made of it,
Certified(s) ==
    /\ Starts(s) /\ IsAsked(Peer(s)) /\ link[s] = <<>>
    /\ \E secret \in 1 .. fresh :
          /\ chat[s].key = <<secret, chat[Peer(s)].to, chat[Peer(s)].from>>
          /\ link[Peer(s)] =
                <<[phase |-> "senderCertificate", value |-> secret, key |-> chat[s].key]>>

\* or the end, and perhaps what its peer sends with the keys they agreed on.
Finishing(s) ==
    /\ Starts(s) /\ chat[Peer(s)].open /\ chat[Peer(s)].authenticated
    /\ chat[Peer(s)].key = chat[s].key
    /\ link[s] # <<>> /\ link[s][1] = [phase |-> "receiverFinishedMessage", key |-> chat[s].key]
    /\ AllSettled(link[s], 2, chat[s].key)
    /\ link[Peer(s)] = <<>>

\* Both began a handshake, and neither knows yet.
BothStart == \A s \in Sides : Starts(s) /\ link[s] = <<Hello(Peer(s))>>

Agreed ==
    /\ \A s \in Sides : chat[s].open /\ chat[s].authenticated
    /\ chat["reporter"].key = chat["subscriber"].key
    /\ \A s \in Sides : AllSettled(link[s], 1, chat["reporter"].key)

InStep ==
    Clean =>
        \/ Quiet \/ BothStart \/ Agreed
        \/ \E s \in Sides : Asked(s) \/ Greeted(s) \/ Certified(s) \/ Finishing(s)

IInv ==
    /\ TypeOK
    /\ InStep
    /\ MessagesAreReadable

-----------------------------------------------------------------------------
(* The links.                                                              *)

LEMMA PeerIsOther ==
    ASSUME NEW s \in Sides
    PROVE  /\ Peer(s) \in Sides /\ Peer(s) # s /\ Peer(Peer(s)) = s
           /\ \A t \in Sides : t = s \/ t = Peer(s)
BY DEF Sides, Peer

\* What each phase carries.
LEMMA MessageFields ==
    ASSUME NEW m \in Messages
    PROVE  /\ m.phase \in {"senderHello", "receiverHello", "senderCertificate",
                           "reporterSessionKey"} => m.value \in Nat
           /\ m.phase = "message" => m.value \in Sends
           /\ m.phase \notin {"senderHello", "receiverHello"} => m.key \in Keys
BY DEF Messages

LEMMA HeadOfLink ==
    ASSUME TypeOK, NEW s \in Sides, link[s] # <<>>
    PROVE  /\ Head(link[s]) = link[s][1] /\ Head(link[s]) \in Messages
           /\ Tail(link[s]) \in Seq(Messages) /\ Len(link[s]) \in Nat \ {0}
           /\ Len(Tail(link[s])) = Len(link[s]) - 1
           /\ \A i \in 1 .. Len(link[s]) - 1 : Tail(link[s])[i] = link[s][i + 1]
<1>1. link[s] \in Seq(Messages)
  BY DEF TypeOK
<1> QED BY <1>1, HeadTailProperties

LEMMA DropEffect ==
    ASSUME TypeOK, NEW s \in Sides, link[s] # <<>>, Drop(s)
    PROVE  /\ link' \in [Sides -> Seq(Messages)]
           /\ link'[s] = Tail(link[s]) /\ link'[Peer(s)] = link[Peer(s)]
BY HeadOfLink, PeerIsOther DEF Drop, TypeOK

LEMMA PostEffect ==
    ASSUME TypeOK, NEW s \in Sides, NEW m \in Messages, Post(s, m)
    PROVE  /\ link' \in [Sides -> Seq(Messages)]
           /\ link'[s] = link[s] /\ link'[Peer(s)] = Append(link[Peer(s)], m)
<1>1. Peer(s) \in Sides /\ Peer(s) # s /\ link[Peer(s)] \in Seq(Messages)
  BY PeerIsOther DEF TypeOK
<1>2. Append(link[Peer(s)], m) \in Seq(Messages)
  BY <1>1
<1> QED BY <1>1, <1>2 DEF Post, TypeOK

LEMMA AnswerEffect ==
    ASSUME TypeOK, NEW s \in Sides, link[s] # <<>>, NEW m \in Messages, Answer(s, m)
    PROVE  /\ link' \in [Sides -> Seq(Messages)]
           /\ link'[s] = Tail(link[s]) /\ link'[Peer(s)] = Append(link[Peer(s)], m)
<1>1. Peer(s) \in Sides /\ Peer(s) # s /\ link[Peer(s)] \in Seq(Messages)
  BY PeerIsOther DEF TypeOK
<1>2. Append(link[Peer(s)], m) \in Seq(Messages) /\ Tail(link[s]) \in Seq(Messages)
  BY <1>1, HeadOfLink
<1> QED BY <1>1, <1>2 DEF Answer, TypeOK

\* A message that is received has the fields of its phase.
LEMMA Received ==
    ASSUME TypeOK, NEW s \in Sides, NEW phase, Receive(s, phase)
    PROVE  /\ link[s] # <<>> /\ Head(link[s]) = link[s][1] /\ Head(link[s]) \in Messages
           /\ Head(link[s]).phase = phase
BY HeadOfLink DEF Receive

-----------------------------------------------------------------------------
(* Types.                                                                  *)

\* Chat keys that are made.
LEMMA NewChatFits ==
    ASSUME NEW cause \in Causes, NEW n \in Subscribes \union {0}
    PROVE  /\ NewChat(cause, n) \in Chats
           /\ NewChat(cause, n).open /\ ~NewChat(cause, n).authenticated
           /\ NewChat(cause, n).cause = cause /\ NewChat(cause, n).callback = n
<1>1. NoChat \in Chats /\ ~NoChat.authenticated
  <2>1. <<>> \in Keys /\ [kind |-> "handshake"] \in Causes
    BY DEF Keys, Causes
  <2> QED BY <2>1 DEF NoChat, Chats
<1>2. NewChat(cause, n) = [NoChat EXCEPT !.open = TRUE, !.cause = cause, !.callback = n]
  BY DEF NewChat
<1> QED BY <1>1, <1>2 DEF Chats

LEMMA ChatUpdates ==
    ASSUME NEW c \in Chats, NEW v \in Nat, NEW w \in Nat, NEW k \in Keys
    PROVE  /\ [c EXCEPT !.from = v] \in Chats
           /\ [c EXCEPT !.from = v, !.to = w] \in Chats
           /\ [c EXCEPT !.to = v, !.key = k] \in Chats
           /\ [c EXCEPT !.key = k] \in Chats
           /\ [c EXCEPT !.key = k, !.authenticated = TRUE] \in Chats
           /\ [c EXCEPT !.authenticated = TRUE] \in Chats
BY DEF Chats

\* What the types say of one side.
LEMMA SideTypes ==
    ASSUME TypeOK, NEW s \in Sides
    PROVE  /\ chat[s] \in Chats /\ chat[s].from \in Nat /\ chat[s].to \in Nat
           /\ chat[s].key \in Keys /\ chat[s].cause \in Causes
           /\ chat[s].callback \in Subscribes \union {0}
           /\ memory[s] \in Nat /\ fresh \in Nat /\ fresh + 1 \in Nat
           /\ chat[s].open \in BOOLEAN /\ chat[s].authenticated \in BOOLEAN
<1>1. chat[s] \in Chats /\ memory[s] \in Nat /\ fresh \in Nat
  BY DEF TypeOK
<1> QED BY <1>1 DEF Chats

LEMMA SendTypes ==
    ASSUME TypeOK, NEW s \in Sides, Send(s)
    PROVE  TypeOK'
<1> DEFINE n     == Len(sent) + 1
           cause == [kind |-> "message", nr |-> n]
           hello == [phase |-> "senderHello", value |-> fresh + 1]
<1>1. /\ n \in Sends /\ sent' = Append(sent, s)
      /\ UNCHANGED <<arrived, subscription, memory, stored, update, odd>>
  BY DEF Send, keys
<1>2. sent' \in Seq(Sides) /\ Len(sent') <= MaxSends
  BY <1>1, BoundAssumption DEF TypeOK, Sends
<1>3. cause \in Causes /\ hello \in Messages /\ Encrypted(s, n) \in Messages
  BY <1>1, SideTypes DEF Causes, Messages, Encrypted
<1>4. \/ /\ chat' = [chat EXCEPT ![s] = [NewChat(cause, 0) EXCEPT !.from = fresh + 1]]
         /\ fresh' = fresh + 1 /\ Post(s, hello)
      \/ Post(s, Encrypted(s, n)) /\ UNCHANGED <<chat, fresh>>
      \/ UNCHANGED <<chat, fresh, link>>
  BY DEF Send
<1> HIDE DEF n, cause, hello
<1>5. chat' \in [Sides -> Chats] /\ fresh' \in Nat
  <2>1. [NewChat(cause, 0) EXCEPT !.from = fresh + 1] \in Chats
    BY <1>3, NewChatFits, ChatUpdates, SideTypes
  <2> QED BY <1>4, <2>1, SideTypes DEF TypeOK
<1>6. link' \in [Sides -> Seq(Messages)]
  BY <1>3, <1>4, PostEffect DEF TypeOK
<1> QED BY <1>1, <1>2, <1>5, <1>6 DEF TypeOK

LEMMA SessionKeyTypes ==
    ASSUME TypeOK, NEW s \in Sides, SessionKey(s)
    PROVE  /\ fresh' \in Nat /\ memory' \in [Sides -> Nat] /\ stored' \in Nat
           /\ link' \in [Sides -> Seq(Messages)]
           /\ link'[s] = link[s]
           /\ link'[Peer(s)] = Append(link[Peer(s)],
                 [phase |-> "reporterSessionKey", value |-> memory'[s], key |-> chat[s].key])
           /\ memory[s] # 0 => memory' = memory
           /\ \A t \in Sides : t # s => memory'[t] = memory[t]
           /\ memory'[s] # 0 /\ fresh <= fresh'
<1> DEFINE m == [phase |-> "reporterSessionKey", value |-> memory'[s], key |-> chat[s].key]
<1>1. chat[s].key \in Keys /\ memory[s] \in Nat /\ fresh \in Nat
  BY SideTypes
<1>2. /\ fresh' \in Nat /\ memory' \in [Sides -> Nat] /\ stored' \in Nat /\ Post(s, m)
      /\ memory[s] # 0 => memory' = memory
      /\ \A t \in Sides : t # s => memory'[t] = memory[t]
      /\ memory'[s] # 0 /\ fresh <= fresh'
  <2>1. CASE memory[s] # 0
    BY <1>1, <2>1 DEF SessionKey, TypeOK
  <2>2. CASE memory[s] = 0
    <3>1. /\ memory' = [memory EXCEPT ![s] = fresh + 1] /\ fresh' = fresh + 1
          /\ Post(s, [phase |-> "reporterSessionKey", value |-> fresh + 1, key |-> chat[s].key])
          /\ stored' = fresh + 1
      BY <2>2 DEF SessionKey
    <3>2. memory'[s] = fresh + 1
      BY <1>1, <3>1 DEF TypeOK
    <3>3. Post(s, m)
      BY <3>1, <3>2
    <3>4. memory' \in [Sides -> Nat] /\ \A t \in Sides : t # s => memory'[t] = memory[t]
      BY <1>1, <3>1 DEF TypeOK
    <3> QED BY <1>1, <2>2, <3>1, <3>2, <3>3, <3>4
  <2> QED BY <2>1, <2>2
<1>3. m \in Messages
  BY <1>1, <1>2 DEF Messages
<1> HIDE DEF m
<1>4. link' \in [Sides -> Seq(Messages)] /\ link'[s] = link[s]
      /\ link'[Peer(s)] = Append(link[Peer(s)], m)
  BY <1>2, <1>3, PostEffect
<1> QED BY <1>2, <1>4 DEF m

LEMMA SubscribeTypes ==
    ASSUME TypeOK, NEW n \in Subscribes, Subscribe(n)
    PROVE  TypeOK'
<1> DEFINE s     == "reporter"
           old   == chat[s]
           cause == [kind |-> "subscription"]
           new   == IF old.open THEN old ELSE NewChat(cause, n)
           hello == [phase |-> "senderHello", value |-> fresh + 1]
<1>0. s \in Sides /\ UNCHANGED <<sent, arrived>>
  BY DEF Sides, Subscribe
<1>1. CASE ~old.authenticated
  <2>1. /\ subscription' = [subscription EXCEPT ![n] = "waiting"]
        /\ chat' = [chat EXCEPT ![s] = [new EXCEPT !.from = fresh + 1]]
        /\ fresh' = fresh + 1 /\ (Post(s, hello) \/ link' = link)
        /\ odd' \in {odd, odd \union {"disturbed"}}
        /\ memory' = memory /\ stored' = stored /\ update' = update
    BY <1>1 DEF Subscribe, keys
  <2>2. cause \in Causes /\ hello \in Messages
    BY <1>0, SideTypes DEF Causes, Messages
  <2> HIDE DEF s, old, cause, hello
  <2>3. NewChat(cause, n) \in Chats /\ old \in Chats
    BY <1>0, <2>2, NewChatFits, SideTypes DEF old
  <2>4. new \in Chats
    BY <2>3
  <2> HIDE DEF new
  <2>5. [new EXCEPT !.from = fresh + 1] \in Chats /\ fresh + 1 \in Nat
    BY <1>0, <2>4, ChatUpdates, SideTypes
  <2>6. chat' \in [Sides -> Chats] /\ fresh' \in Nat
    BY <1>0, <2>1, <2>5 DEF TypeOK
  <2>7. link' \in [Sides -> Seq(Messages)]
    BY <1>0, <2>1, <2>2, PostEffect DEF TypeOK
  <2>8. subscription' \in [Subscribes -> {"none", "waiting", "told"}]
        /\ odd' \in SUBSET Oddities
    BY <2>1 DEF TypeOK, Oddities
  <2> QED BY <1>0, <2>1, <2>6, <2>7, <2>8 DEF TypeOK
<1>2. CASE old.authenticated
  <2>1. /\ subscription' = [subscription EXCEPT ![n] = "told"] /\ SessionKey(s)
        /\ UNCHANGED <<chat, update, odd>>
    BY <1>2 DEF Subscribe
  <2>2. /\ fresh' \in Nat /\ memory' \in [Sides -> Nat] /\ stored' \in Nat
        /\ link' \in [Sides -> Seq(Messages)]
    BY <1>0, <2>1, SessionKeyTypes
  <2>3. subscription' \in [Subscribes -> {"none", "waiting", "told"}]
    BY <2>1 DEF TypeOK
  <2> QED BY <1>0, <2>1, <2>2, <2>3 DEF TypeOK
<1> QED BY <1>1, <1>2

LEMMA SenderHelloTypes ==
    ASSUME TypeOK, NEW s \in Sides, SenderHello(s)
    PROVE  TypeOK'
<1> DEFINE v      == Head(link[s]).value
           cause  == [kind |-> "handshake"]
           answer == [phase |-> "receiverHello", value |-> fresh + 1]
<1>1. /\ Receive(s, "senderHello") /\ fresh' = fresh + 1
      /\ chat' = [chat EXCEPT ![s] = [Opened(s) EXCEPT !.from = v, !.to = fresh + 1]]
      /\ Answer(s, answer) /\ odd' \in {odd, odd \union {"crossed"}}
      /\ UNCHANGED <<sent, arrived, subscription, memory, stored, update>>
  BY DEF SenderHello, keys
<1>2. link[s] # <<>> /\ v \in Nat
  BY <1>1, Received, MessageFields
<1>3. answer \in Messages /\ cause \in Causes
  BY SideTypes DEF Messages, Causes
<1> HIDE DEF v, answer
<1>4. Opened(s) \in Chats
  BY <1>3, NewChatFits, SideTypes DEF Opened
<1>5. [Opened(s) EXCEPT !.from = v, !.to = fresh + 1] \in Chats /\ fresh + 1 \in Nat
  BY <1>2, <1>4, ChatUpdates, SideTypes
<1>6. chat' \in [Sides -> Chats] /\ fresh' \in Nat
  BY <1>1, <1>5 DEF TypeOK
<1>7. link' \in [Sides -> Seq(Messages)]
  BY <1>1, <1>2, <1>3, AnswerEffect
<1> QED BY <1>1, <1>6, <1>7 DEF TypeOK, Oddities

\* The triple a side computes is a key.
LEMMA TriplesAreKeys ==
    ASSUME NEW a \in Nat, NEW b \in Nat, NEW c \in Nat
    PROVE  <<a, b, c>> \in Keys
BY DEF Keys

\* The side's random value, and the key it makes, change together.
LEMMA ReceiverHelloEffect ==
    ASSUME TypeOK, NEW s \in Sides, ReceiverHello(s)
    PROVE  LET v   == link[s][1].value
               key == <<fresh + 1, v, chat[s].from>>
           IN  /\ Receive(s, "receiverHello") /\ v \in Nat /\ key \in Keys
               /\ chat' = [chat EXCEPT ![s] = [chat[s] EXCEPT !.to = v, !.key = key]]
               /\ fresh' = fresh + 1
               /\ Answer(s, [phase |-> "senderCertificate", value |-> fresh + 1, key |-> key])
               /\ [phase |-> "senderCertificate", value |-> fresh + 1, key |-> key] \in Messages
               /\ UNCHANGED <<sent, arrived, subscription, memory, stored, update, odd>>
<1> DEFINE v   == Head(link[s]).value
           key == <<fresh + 1, v, chat[s].from>>
<1>1. /\ Receive(s, "receiverHello") /\ fresh' = fresh + 1
      /\ chat' = [chat EXCEPT ![s].to = v, ![s].key = key]
      /\ Answer(s, [phase |-> "senderCertificate", value |-> fresh + 1, key |-> key])
      /\ UNCHANGED <<sent, arrived, subscription, memory, stored, update, odd>>
  BY DEF ReceiverHello, keys
<1>2. v = link[s][1].value /\ v \in Nat
  BY <1>1, Received, MessageFields
<1>3. key \in Keys
  BY <1>2, SideTypes, TriplesAreKeys
<1> HIDE DEF v, key
<1>4. chat' = [chat EXCEPT ![s] = [chat[s] EXCEPT !.to = v, !.key = key]]
  BY <1>1, SideTypes DEF TypeOK, Chats
<1>5. [phase |-> "senderCertificate", value |-> fresh + 1, key |-> key] \in Messages
  BY <1>3, SideTypes DEF Messages
<1> QED BY <1>1, <1>2, <1>3, <1>4, <1>5 DEF v, key

LEMMA ReceiverHelloTypes ==
    ASSUME TypeOK, NEW s \in Sides, ReceiverHello(s)
    PROVE  TypeOK'
<1> DEFINE v   == link[s][1].value
           key == <<fresh + 1, v, chat[s].from>>
           m   == [phase |-> "senderCertificate", value |-> fresh + 1, key |-> key]
<1>1. /\ Receive(s, "receiverHello") /\ v \in Nat /\ key \in Keys
      /\ chat' = [chat EXCEPT ![s] = [chat[s] EXCEPT !.to = v, !.key = key]]
      /\ fresh' = fresh + 1 /\ Answer(s, m) /\ m \in Messages
      /\ UNCHANGED <<sent, arrived, subscription, memory, stored, update, odd>>
  BY ReceiverHelloEffect
<1> HIDE DEF v, key, m
<1>2. [chat[s] EXCEPT !.to = v, !.key = key] \in Chats /\ fresh + 1 \in Nat
  BY <1>1, ChatUpdates, SideTypes
<1>3. link' \in [Sides -> Seq(Messages)]
  BY <1>1, Received, AnswerEffect
<1> QED BY <1>1, <1>2, <1>3 DEF TypeOK

\* The keys that are made of a secret, and whether they are those of the other side.
LEMMA SenderCertificateEffect ==
    ASSUME TypeOK, NEW s \in Sides, SenderCertificate(s)
    PROVE  LET m   == link[s][1]
               key == <<m.value, chat[s].to, chat[s].from>>
               end == [phase |-> "receiverFinishedMessage", key |-> key]
           IN  /\ Receive(s, "senderCertificate") /\ key \in Keys /\ end \in Messages
               /\ \/ /\ key = m.key /\ Answer(s, end)
                     /\ chat' = [chat EXCEPT ![s] =
                                    [chat[s] EXCEPT !.key = key, !.authenticated = TRUE]]
                  \/ /\ key # m.key /\ Drop(s)
                     /\ chat' = [chat EXCEPT ![s] = [chat[s] EXCEPT !.key = key]]
               /\ UNCHANGED <<fresh, sent, arrived, subscription, memory, stored, update, odd>>
<1> DEFINE m   == Head(link[s])
           key == <<m.value, chat[s].to, chat[s].from>>
           end == [phase |-> "receiverFinishedMessage", key |-> key]
<1>1. /\ Receive(s, "senderCertificate")
      /\ UNCHANGED <<fresh, sent, arrived, subscription, memory, stored, update, odd>>
      /\ \/ /\ key = m.key /\ Answer(s, end)
            /\ chat' = [chat EXCEPT ![s].key = key, ![s].authenticated = TRUE]
         \/ /\ key # m.key /\ Drop(s)
            /\ chat' = [chat EXCEPT ![s].key = key]
  BY DEF SenderCertificate, keys
<1>2. m = link[s][1] /\ m.value \in Nat
  BY <1>1, Received, MessageFields
<1>3. key \in Keys
  BY <1>2, SideTypes, TriplesAreKeys
<1>4. end \in Messages
  BY <1>3 DEF Messages
<1> HIDE DEF m, key
<1>5. \/ /\ key = m.key /\ Answer(s, end)
         /\ chat' = [chat EXCEPT ![s] = [chat[s] EXCEPT !.key = key, !.authenticated = TRUE]]
      \/ /\ key # m.key /\ Drop(s)
         /\ chat' = [chat EXCEPT ![s] = [chat[s] EXCEPT !.key = key]]
  BY <1>1, SideTypes DEF TypeOK, Chats
<1> QED BY <1>1, <1>2, <1>3, <1>4, <1>5 DEF m, key

LEMMA SenderCertificateTypes ==
    ASSUME TypeOK, NEW s \in Sides, SenderCertificate(s)
    PROVE  TypeOK'
<1> DEFINE m   == link[s][1]
           key == <<m.value, chat[s].to, chat[s].from>>
           end == [phase |-> "receiverFinishedMessage", key |-> key]
<1>1. /\ Receive(s, "senderCertificate") /\ key \in Keys /\ end \in Messages
      /\ \/ /\ Answer(s, end)
            /\ chat' = [chat EXCEPT ![s] = [chat[s] EXCEPT !.key = key, !.authenticated = TRUE]]
         \/ /\ Drop(s)
            /\ chat' = [chat EXCEPT ![s] = [chat[s] EXCEPT !.key = key]]
      /\ UNCHANGED <<fresh, sent, arrived, subscription, memory, stored, update, odd>>
  BY SenderCertificateEffect
<1> HIDE DEF key, end
<1>2. /\ [chat[s] EXCEPT !.key = key, !.authenticated = TRUE] \in Chats
      /\ [chat[s] EXCEPT !.key = key] \in Chats
  BY <1>1, ChatUpdates, SideTypes
<1>3. link' \in [Sides -> Seq(Messages)]
  BY <1>1, Received, AnswerEffect, DropEffect
<1>4. chat' \in [Sides -> Chats]
  BY <1>1, <1>2 DEF TypeOK
<1> QED BY <1>1, <1>3, <1>4 DEF TypeOK

\* The end of a handshake, and what was waiting for it.
LEMMA FinishedEffect ==
    ASSUME TypeOK, NEW s \in Sides, Finished(s)
    PROVE  LET cause  == chat[s].cause
               handed == [phase |-> "reporterSessionKey", key |-> chat[s].key,
                          value |-> memory'[s]]
           IN  /\ Receive(s, "receiverFinishedMessage")
               /\ chat' = [chat EXCEPT ![s] = [chat[s] EXCEPT !.authenticated = TRUE]]
               /\ \/ /\ link[s][1].key # chat[s].key
                     /\ Drop(s) /\ UNCHANGED <<fresh, memory, stored>>
                  \/ /\ link[s][1].key = chat[s].key /\ cause.kind = "message"
                     /\ Encrypted(s, cause.nr) \in Messages
                     /\ Answer(s, Encrypted(s, cause.nr)) /\ UNCHANGED <<fresh, memory, stored>>
                  \/ /\ link[s][1].key = chat[s].key /\ cause.kind = "subscription"
                     /\ handed \in Messages /\ Answer(s, handed)
                     /\ fresh <= fresh' /\ memory'[s] # 0
                     /\ memory[s] # 0 => memory' = memory
                     /\ \A t \in Sides : t # s => memory'[t] = memory[t]
               /\ fresh' \in Nat /\ memory' \in [Sides -> Nat] /\ stored' \in Nat
               /\ UNCHANGED <<sent, arrived, subscription, update, odd>>
<1> DEFINE cause == chat[s].cause
           value == IF memory[s] # 0 THEN memory[s] ELSE fresh + 1
           next  == [phase |-> "reporterSessionKey", key |-> chat[s].key, value |-> value]
<1>1. /\ Receive(s, "receiverFinishedMessage")
      /\ chat' = [chat EXCEPT ![s].authenticated = TRUE]
      /\ UNCHANGED <<sent, arrived, subscription, update, odd>>
  BY DEF Finished
<1>2. chat' = [chat EXCEPT ![s] = [chat[s] EXCEPT !.authenticated = TRUE]]
  BY <1>1, SideTypes DEF TypeOK, Chats
<1>3. Head(link[s]) = link[s][1]
  BY <1>1, Received
<1>4. value \in Nat /\ value # 0 /\ memory \in [Sides -> Nat] /\ fresh \in Nat /\ stored \in Nat
  BY SideTypes DEF TypeOK
<1>5. CASE ~Readable(s, Head(link[s])) /\ Drop(s) /\ UNCHANGED <<fresh, memory, stored>>
  BY <1>1, <1>2, <1>3, <1>4, <1>5 DEF Readable
<1>6. CASE /\ Readable(s, Head(link[s])) /\ cause.kind = "message"
           /\ Answer(s, Encrypted(s, cause.nr)) /\ UNCHANGED <<fresh, memory, stored>>
  <2>1. cause.nr \in Sends
    BY <1>6, SideTypes DEF Causes
  <2>2. Encrypted(s, cause.nr) \in Messages
    BY <2>1, SideTypes DEF Encrypted, Messages
  <2> QED BY <1>1, <1>2, <1>3, <1>4, <1>6, <2>2 DEF Readable
<1>7. CASE /\ Readable(s, Head(link[s])) /\ cause.kind = "subscription"
           /\ link' = [[link EXCEPT ![s] = Tail(@)] EXCEPT ![Peer(s)] = Append(@, next)]
           /\ fresh' = IF memory[s] # 0 THEN fresh ELSE fresh + 1
           /\ memory' = [memory EXCEPT ![s] = value]
           /\ stored' = IF memory[s] # 0 THEN stored ELSE value
  <2>1. memory'[s] = value /\ memory' \in [Sides -> Nat]
        /\ \A t \in Sides : t # s => memory'[t] = memory[t]
    BY <1>4, <1>7
  <2>2. memory[s] # 0 => memory' = memory
    BY <1>4, <1>7
  <2>3. next \in Messages
    BY <1>4, SideTypes DEF Messages
  <2> HIDE DEF next
  <2>4. Answer(s, next)
    BY <1>7, PeerIsOther DEF Answer, TypeOK
  <2>5. next = [phase |-> "reporterSessionKey", key |-> chat[s].key, value |-> memory'[s]]
    BY <2>1 DEF next
  <2>6. fresh' \in Nat /\ stored' \in Nat /\ fresh <= fresh'
    BY <1>4, <1>7
  <2> HIDE DEF value
  <2> QED BY <1>1, <1>2, <1>3, <1>4, <1>7, <2>1, <2>2, <2>3, <2>4, <2>5, <2>6 DEF Readable
<1> QED BY <1>5, <1>6, <1>7 DEF Finished

LEMMA FinishedTypes ==
    ASSUME TypeOK, NEW s \in Sides, Finished(s)
    PROVE  TypeOK'
<1> DEFINE handed == [phase |-> "reporterSessionKey", key |-> chat[s].key,
                      value |-> memory'[s]]
           posted == Encrypted(s, chat[s].cause.nr)
<1>1. /\ Receive(s, "receiverFinishedMessage")
      /\ chat' = [chat EXCEPT ![s] = [chat[s] EXCEPT !.authenticated = TRUE]]
      /\ \/ Drop(s)
         \/ posted \in Messages /\ Answer(s, posted)
         \/ handed \in Messages /\ Answer(s, handed)
      /\ fresh' \in Nat /\ memory' \in [Sides -> Nat] /\ stored' \in Nat
      /\ UNCHANGED <<sent, arrived, subscription, update, odd>>
  BY FinishedEffect
<1> HIDE DEF handed, posted
<1>2. link' \in [Sides -> Seq(Messages)]
  BY <1>1, Received, AnswerEffect, DropEffect
<1>3. [chat[s] EXCEPT !.authenticated = TRUE] \in Chats
  BY ChatUpdates, SideTypes
<1> QED BY <1>1, <1>2, <1>3 DEF TypeOK

LEMMA ReporterSessionKeyEffect ==
    ASSUME TypeOK, NEW s \in Sides, ReporterSessionKey(s)
    PROVE  LET m     == link[s][1]
               reply == [phase |-> "receiverAcknowledge", key |-> m.key]
           IN  /\ Receive(s, "reporterSessionKey") /\ m.value \in Nat /\ reply \in Messages
               /\ \/ /\ m.key = chat[s].key /\ memory' = [memory EXCEPT ![s] = m.value]
                     /\ Answer(s, reply)
                  \/ m.key # chat[s].key /\ Drop(s) /\ memory' = memory
               /\ UNCHANGED <<chat, fresh, sent, arrived, subscription, stored, update, odd>>
<1>1. Receive(s, "reporterSessionKey")
  BY DEF ReporterSessionKey
<1>2. Head(link[s]) = link[s][1] /\ link[s][1].value \in Nat /\ link[s][1].key \in Keys
  BY <1>1, Received, MessageFields
<1>3. [phase |-> "receiverAcknowledge", key |-> link[s][1].key] \in Messages
  BY <1>2 DEF Messages
<1> QED BY <1>1, <1>2, <1>3 DEF ReporterSessionKey, Readable

LEMMA ReporterSessionKeyTypes ==
    ASSUME TypeOK, NEW s \in Sides, ReporterSessionKey(s)
    PROVE  TypeOK'
<1> DEFINE reply == [phase |-> "receiverAcknowledge", key |-> link[s][1].key]
<1>1. /\ Receive(s, "reporterSessionKey") /\ link[s][1].value \in Nat /\ reply \in Messages
      /\ \/ memory' = [memory EXCEPT ![s] = link[s][1].value] /\ Answer(s, reply)
         \/ Drop(s) /\ memory' = memory
      /\ UNCHANGED <<chat, fresh, sent, arrived, subscription, stored, update, odd>>
  BY ReporterSessionKeyEffect
<1> HIDE DEF reply
<1>2. link' \in [Sides -> Seq(Messages)]
  BY <1>1, Received, AnswerEffect, DropEffect
<1> QED BY <1>1, <1>2 DEF TypeOK

LEMMA ReceiverAcknowledgeTypes ==
    ASSUME TypeOK, NEW s \in Sides, ReceiverAcknowledge(s)
    PROVE  TypeOK'
<1>1. /\ Receive(s, "receiverAcknowledge") /\ Drop(s)
      /\ UNCHANGED <<chat, fresh, sent, arrived, memory, stored, update, odd>>
      /\ subscription' \in [Subscribes -> {"none", "waiting", "told"}]
  BY DEF ReceiverAcknowledge, keys, TypeOK
<1>2. link' \in [Sides -> Seq(Messages)]
  BY <1>1, Received, DropEffect
<1> QED BY <1>1, <1>2 DEF TypeOK

LEMMA ArriveEffect ==
    ASSUME TypeOK, NEW s \in Sides, Arrive(s)
    PROVE  /\ Receive(s, "message") /\ link[s][1].value \in Sends /\ Drop(s)
           /\ \/ /\ chat[s].authenticated /\ link[s][1].key = chat[s].key
                 /\ arrived' = arrived \union {link[s][1].value} /\ odd' = odd
              \/ /\ ~(chat[s].authenticated /\ link[s][1].key = chat[s].key)
                 /\ odd' = odd \union {"unreadable"} /\ arrived' = arrived
           /\ UNCHANGED <<chat, fresh, sent, subscription, memory, stored, update>>
<1>1. Receive(s, "message")
  BY DEF Arrive
<1>2. Head(link[s]) = link[s][1] /\ link[s][1].value \in Sends
  BY <1>1, Received, MessageFields
<1> QED BY <1>1, <1>2 DEF Arrive, Readable, keys

LEMMA ArriveTypes ==
    ASSUME TypeOK, NEW s \in Sides, Arrive(s)
    PROVE  TypeOK'
<1>1. link' \in [Sides -> Seq(Messages)]
  BY ArriveEffect, Received, DropEffect
<1> QED BY <1>1, ArriveEffect DEF TypeOK, Oddities

LEMMA UpdateTypes ==
    ASSUME TypeOK, NEW n \in Updates, ReadKey(n) \/ MakeKey(n)
    PROVE  /\ TypeOK' /\ UNCHANGED <<chat, link, sent, arrived, subscription>>
           /\ odd' \in {odd, odd \union {"raced"}}
<1>0. update[n].key \in Nat
  BY DEF TypeOK
<1>1. CASE ReadKey(n)
  BY <1>1 DEF ReadKey, TypeOK
<1>2. CASE MakeKey(n)
  <2>1. CASE update[n].key = 0
    <3>1. /\ fresh' = fresh + 1 /\ stored' = fresh + 1
          /\ memory' = [memory EXCEPT !["reporter"] = fresh + 1]
          /\ update' = [update EXCEPT ![n] = [stage |-> "made", key |-> fresh + 1]]
          /\ odd' \in {odd, odd \union {"raced"}}
          /\ UNCHANGED <<chat, link, sent, arrived, subscription>>
      BY <1>2, <2>1 DEF MakeKey
    <3>2. fresh + 1 \in Nat /\ memory' \in [Sides -> Nat]
          /\ update' \in [Updates -> [stage : {"none", "read", "made"}, key : Nat]]
      <4>1. fresh + 1 \in Nat
        BY DEF TypeOK
      <4>2. [stage |-> "made", key |-> fresh + 1] \in [stage : {"none", "read", "made"}, key : Nat]
        BY <4>1
      <4> QED BY <3>1, <4>1, <4>2 DEF TypeOK
    <3> QED BY <3>1, <3>2 DEF TypeOK, Oddities
  <2>2. CASE update[n].key # 0
    BY <1>0, <1>2, <2>2 DEF MakeKey, TypeOK
  <2> QED BY <2>1, <2>2
<1> QED BY <1>1, <1>2

LEMMA NextTypes == TypeOK /\ [Next]_vars => TypeOK'
<1> SUFFICES ASSUME TypeOK, [Next]_vars
             PROVE  TypeOK'
  OBVIOUS
<1>1. ASSUME NEW s \in Sides, Send(s) \/ Handle(s)
      PROVE  TypeOK'
  BY <1>1, SendTypes, SenderHelloTypes, ReceiverHelloTypes, SenderCertificateTypes, FinishedTypes,
     ReporterSessionKeyTypes, ReceiverAcknowledgeTypes, ArriveTypes DEF Handle
<1>2. ASSUME NEW n \in Subscribes, Subscribe(n)
      PROVE  TypeOK'
  BY <1>2, SubscribeTypes
<1>3. ASSUME NEW n \in Updates, ReadKey(n) \/ MakeKey(n)
      PROVE  TypeOK'
  BY <1>3, UpdateTypes
<1>4. CASE UNCHANGED vars
  BY <1>4 DEF vars, keys, TypeOK
<1> QED BY <1>1, <1>2, <1>3, <1>4 DEF Next

LEMMA InitTypes == Init => TypeOK
<1> SUFFICES ASSUME Init
             PROVE  TypeOK
  OBVIOUS
<1>1. NoChat \in Chats
  <2>1. <<>> \in Keys /\ [kind |-> "handshake"] \in Causes
    BY DEF Keys, Causes
  <2> QED BY <2>1 DEF NoChat, Chats
<1> QED BY <1>1, BoundAssumption DEF Init, TypeOK

-----------------------------------------------------------------------------
(* The phases, in step.                                                    *)

\* What a side receives tells which phase they are in.
LEMMA PhaseOfMessage ==
    ASSUME TypeOK, InStep, Clean, NEW s \in Sides, NEW phase, Receive(s, phase)
    PROVE  /\ phase = "senderHello" => BothStart \/ Asked(Peer(s))
           /\ phase = "receiverHello" => Greeted(s)
           /\ phase = "senderCertificate" => Certified(Peer(s))
           /\ phase = "receiverFinishedMessage" => Finishing(s)
           /\ phase \in Settled => Agreed
<1>0. /\ link[s] # <<>> /\ link[s][1].phase = phase /\ Len(link[s]) \in Nat \ {0}
      /\ Peer(s) \in Sides /\ Peer(Peer(s)) = s /\ s # Peer(s)
      /\ \A t \in Sides : t = s \/ t = Peer(s)
  BY Received, HeadOfLink, PeerIsOther
<1>1. ~Quiet
  BY <1>0 DEF Quiet
<1>2. CASE BothStart
  <2>1. link[s] = <<Hello(Peer(s))>>
    BY <1>2 DEF BothStart
  <2>2. Hello(Peer(s)).phase = "senderHello"
    BY DEF Hello
  <2>3. phase = "senderHello"
    BY <1>0, <2>1, <2>2
  <2> QED BY <1>2, <2>3 DEF Settled
<1>3. CASE Agreed
  <2>1. phase \in Settled
    BY <1>0, <1>3 DEF Agreed, AllSettled
  <2> QED BY <1>3, <2>1 DEF Settled
<1>4. ASSUME NEW t \in Sides, Asked(t)
      PROVE  phase = "senderHello" /\ t = Peer(s)
  BY <1>0, <1>4 DEF Asked, Hello
<1>5. ASSUME NEW t \in Sides, Greeted(t)
      PROVE  phase = "receiverHello" /\ t = s
  BY <1>0, <1>5 DEF Greeted
<1>6. ASSUME NEW t \in Sides, Certified(t)
      PROVE  phase = "senderCertificate" /\ t = Peer(s)
  BY <1>0, <1>6 DEF Certified
<1>7. ASSUME NEW t \in Sides, Finishing(t)
      PROVE  phase = "receiverFinishedMessage" /\ t = s
  BY <1>0, <1>7 DEF Finishing
<1> QED BY <1>1, <1>2, <1>3, <1>4, <1>5, <1>6, <1>7 DEF InStep, Settled

LEMMA AllSettledAppend ==
    ASSUME NEW seq \in Seq(Messages), NEW from \in {1, 2}, NEW key, NEW m \in Messages,
           AllSettled(seq, from, key), m.phase \in Settled, m.key = key
    PROVE  AllSettled(Append(seq, m), from, key)
BY DEF AllSettled

LEMMA AllSettledTail ==
    ASSUME NEW seq \in Seq(Messages), NEW from \in {1, 2}, NEW key,
           AllSettled(seq, from, key), seq # <<>>
    PROVE  AllSettled(Tail(seq), 1, key)
BY DEF AllSettled

LEMMA ToSingle == ASSUME NEW m PROVE Append(<<>>, m) = <<m>>
OBVIOUS

LEMMA DropSingle == ASSUME NEW m PROVE Tail(<<m>>) = <<>>
OBVIOUS

\* Nothing moves when neither the chat keys nor the links change.
LEMMA StandStill ==
    ASSUME TypeOK, TypeOK', InStep, UNCHANGED <<chat, link>>, fresh <= fresh', Clean' => Clean
    PROVE  InStep'
<1> SUFFICES ASSUME Clean'
             PROVE  InStep'
  BY DEF InStep
<1>1. chat' = chat /\ link' = link /\ fresh \in Nat /\ fresh' \in Nat
  BY DEF TypeOK
<1>2. CASE Quiet \/ BothStart \/ Agreed
  <2>1. (Quiet => Quiet') /\ (Agreed => Agreed')
    BY <1>1 DEF Quiet, Agreed
  <2>2. ASSUME NEW s \in Sides
        PROVE  (Starts(s) => Starts(s)') /\ Hello(Peer(s))' = Hello(Peer(s))
    BY <1>1 DEF Starts, Hello
  <2>3. BothStart => BothStart'
    BY <1>1, <2>2 DEF BothStart
  <2> QED BY <1>2, <2>1, <2>3 DEF InStep
<1>3. CASE \E s \in Sides : Asked(s) \/ Greeted(s) \/ Certified(s) \/ Finishing(s)
  <2>1. PICK s \in Sides : Asked(s) \/ Greeted(s) \/ Certified(s) \/ Finishing(s)
    BY <1>3
  <2>2. Asked(s) => Asked(s)'
    BY <1>1 DEF Asked, Starts, Hello
  <2>3. Greeted(s) => Greeted(s)'
    BY <1>1 DEF Greeted, Starts, IsAsked
  <2>4. Certified(s) => Certified(s)'
    BY <1>1 DEF Certified, Starts, IsAsked
  <2>5. Finishing(s) => Finishing(s)'
    BY <1>1 DEF Finishing, Starts
  <2> QED BY <2>1, <2>2, <2>3, <2>4, <2>5 DEF InStep
<1> QED BY <1>2, <1>3 DEF InStep

\* A side that opens its chat keys and says hello: the first, or at the same
\* time as the other.
LEMMA OpensInStep ==
    ASSUME TypeOK, TypeOK', InStep, Clean, NEW s \in Sides, ~chat[s].open, Starts(s)',
           \A t \in Sides : t # s => chat'[t] = chat[t],
           link'[s] = link[s], link'[Peer(s)] = Append(link[Peer(s)], Hello(s)')
    PROVE  InStep'
<1>0. Peer(s) \in Sides /\ Peer(Peer(s)) = s /\ s # Peer(s) /\ \A t \in Sides : t = s \/ t = Peer(s)
  BY PeerIsOther
<1>1. CASE Quiet
  <2>1. link[s] = <<>> /\ link[Peer(s)] = <<>> /\ ~chat[Peer(s)].open
        /\ ~chat[Peer(s)].authenticated /\ chat'[Peer(s)] = chat[Peer(s)]
    BY <1>0, <1>1 DEF Quiet
  <2>2. link'[Peer(s)] = <<Hello(s)'>>
    BY <2>1, ToSingle
  <2>3. Asked(s)'
    BY <2>1, <2>2 DEF Asked
  <2> QED BY <2>3 DEF InStep
<1>2. CASE Asked(Peer(s))
  <2>1. link[s] = <<Hello(Peer(s))>> /\ link[Peer(s)] = <<>> /\ chat'[Peer(s)] = chat[Peer(s)]
        /\ Starts(Peer(s))
    BY <1>0, <1>2 DEF Asked
  <2>2. link'[Peer(s)] = <<Hello(s)'>>
    BY <2>1, ToSingle
  <2>3. Starts(Peer(s))' /\ Hello(Peer(s))' = Hello(Peer(s))
    BY <2>1 DEF Starts, Hello
  <2>4. ASSUME NEW t \in Sides
        PROVE  Starts(t)' /\ link'[t] = <<Hello(Peer(t))'>>
    <3>1. CASE t = s
      BY <2>1, <2>3, <3>1
    <3>2. CASE t = Peer(s)
      BY <1>0, <2>2, <2>3, <3>2
    <3> QED BY <1>0, <3>1, <3>2
  <2>5. BothStart'
    BY <2>4 DEF BothStart
  <2> QED BY <2>5 DEF InStep
<1>3. Quiet \/ Asked(Peer(s))
  <2>1. ~BothStart /\ ~Agreed
    BY DEF BothStart, Agreed, Starts
  <2>2. ASSUME NEW t \in Sides, Asked(t) \/ Greeted(t) \/ Certified(t) \/ Finishing(t)
        PROVE  t = Peer(s) /\ Asked(t)
    BY <1>0, <2>2 DEF Asked, Greeted, Certified, Finishing, Starts, IsAsked
  <2> QED BY <2>1, <2>2 DEF InStep
<1> QED BY <1>1, <1>2, <1>3

\* What an authenticated side sends follows the handshake.
LEMMA SettledInStep ==
    ASSUME TypeOK, TypeOK', InStep, Clean, NEW s \in Sides, chat[s].authenticated, chat' = chat,
           NEW m \in Messages, m.phase \in Settled, m.key = chat[s].key,
           link'[s] = link[s], link'[Peer(s)] = Append(link[Peer(s)], m)
    PROVE  InStep'
<1>0. Peer(s) \in Sides /\ Peer(Peer(s)) = s /\ s # Peer(s)
      /\ \A t \in Sides : t = s \/ t = Peer(s)
  BY PeerIsOther
<1>1. link[s] \in Seq(Messages) /\ link[Peer(s)] \in Seq(Messages)
  BY <1>0 DEF TypeOK
<1>2. CASE Agreed
  <2>1. chat[s].key = chat["reporter"].key
    BY <1>2 DEF Agreed, Sides
  <2>2. AllSettled(link[Peer(s)], 1, chat[s].key) /\ AllSettled(link[s], 1, chat[s].key)
    BY <1>0, <1>2, <2>1 DEF Agreed
  <2>3. AllSettled(link'[Peer(s)], 1, chat[s].key)
    BY <1>1, <2>2, AllSettledAppend
  <2>4. Agreed'
    BY <1>0, <1>2, <2>1, <2>2, <2>3 DEF Agreed
  <2> QED BY <2>4 DEF InStep
<1>3. CASE Finishing(Peer(s))
  <2> DEFINE t == Peer(s)
  <2>1. /\ Starts(t) /\ chat[s].open /\ chat[s].key = chat[t].key /\ link[t] # <<>>
        /\ link[t][1] = [phase |-> "receiverFinishedMessage", key |-> chat[t].key]
        /\ AllSettled(link[t], 2, chat[t].key) /\ link[s] = <<>>
    BY <1>0, <1>3 DEF Finishing
  <2>2. AllSettled(link'[t], 2, chat[t].key)
    BY <1>1, <2>1, AllSettledAppend
  <2>3. link'[t] # <<>> /\ link'[t][1] = link[t][1]
    BY <1>1, <2>1
  <2>4. Starts(t)'
    BY <2>1 DEF Starts
  <2> HIDE DEF t
  <2>5. Finishing(t)'
    BY <1>0, <2>1, <2>2, <2>3, <2>4 DEF Finishing, t
  <2> QED BY <1>0, <2>5 DEF InStep, t
<1>4. Agreed \/ Finishing(Peer(s))
  <2>1. ~Quiet /\ ~BothStart
    BY DEF Quiet, BothStart, Starts
  <2>2. ASSUME NEW t \in Sides, Asked(t) \/ Greeted(t) \/ Certified(t) \/ Finishing(t)
        PROVE  t = Peer(s) /\ Finishing(t)
    BY <1>0, <2>2 DEF Asked, Greeted, Certified, Finishing, Starts, IsAsked
  <2> QED BY <2>1, <2>2 DEF InStep
<1> QED BY <1>2, <1>3, <1>4

LEMMA SendInStep ==
    ASSUME TypeOK, TypeOK', InStep, NEW s \in Sides, Send(s)
    PROVE  InStep'
<1> DEFINE n     == Len(sent) + 1
           cause == [kind |-> "message", nr |-> n]
           hello == [phase |-> "senderHello", value |-> fresh + 1]
<1>0. odd' = odd /\ (Clean' => Clean) /\ n \in Sends
  BY DEF Send, Clean
<1>1. CASE Clean /\ ~chat[s].open
           /\ chat' = [chat EXCEPT ![s] = [NewChat(cause, 0) EXCEPT !.from = fresh + 1]]
           /\ fresh' = fresh + 1 /\ Post(s, hello)
  <2>1. hello \in Messages /\ cause \in Causes /\ 0 \in Subscribes \union {0}
    BY <1>0, SideTypes DEF Messages, Causes
  <2>2. link'[s] = link[s] /\ link'[Peer(s)] = Append(link[Peer(s)], hello)
    BY <1>1, <2>1, PostEffect
  <2>3. /\ NewChat(cause, 0) \in Chats /\ NewChat(cause, 0).open
        /\ ~NewChat(cause, 0).authenticated /\ NewChat(cause, 0).cause = cause
    BY <2>1, NewChatFits
  <2>4. /\ chat'[s] = [NewChat(cause, 0) EXCEPT !.from = fresh + 1]
        /\ \A t \in Sides : t # s => chat'[t] = chat[t]
    BY <1>1 DEF TypeOK
  <2>5. chat'[s].open /\ ~chat'[s].authenticated /\ chat'[s].cause = cause
        /\ chat'[s].from = fresh + 1
    BY <2>3, <2>4 DEF Chats
  <2>6. Starts(s)' /\ Hello(s)' = hello
    BY <2>5 DEF Starts, Hello
  <2> QED BY <1>1, <2>2, <2>4, <2>6, OpensInStep
<1>2. CASE /\ Clean /\ chat[s].authenticated /\ Post(s, Encrypted(s, n)) /\ chat' = chat
  <2>1. Encrypted(s, n) \in Messages
    BY <1>0, SideTypes DEF Encrypted, Messages
  <2>2. Encrypted(s, n).phase \in Settled /\ Encrypted(s, n).key = chat[s].key
    BY DEF Encrypted, Settled
  <2>3. link'[s] = link[s] /\ link'[Peer(s)] = Append(link[Peer(s)], Encrypted(s, n))
    BY <1>2, <2>1, PostEffect
  <2> QED BY <1>2, <2>1, <2>2, <2>3, SettledInStep
<1>3. CASE UNCHANGED <<chat, fresh, link>>
  BY <1>0, <1>3, StandStill, SideTypes
<1>4. CASE ~Clean
  BY <1>0, <1>4 DEF InStep
<1> QED BY <1>1, <1>2, <1>3, <1>4 DEF Send

LEMMA SubscribeInStep ==
    ASSUME TypeOK, TypeOK', InStep, NEW n \in Subscribes, Subscribe(n)
    PROVE  InStep'
<1> DEFINE s     == "reporter"
           old   == chat[s]
           cause == [kind |-> "subscription"]
           hello == [phase |-> "senderHello", value |-> fresh + 1]
<1>0. s \in Sides /\ (Clean' => Clean)
  BY DEF Sides, Subscribe, Clean
<1>1. CASE ~Clean'
  BY <1>1 DEF InStep
<1>2. CASE Clean' /\ ~old.authenticated
  <2>1. ~old.open
    BY <1>2 DEF Subscribe, Clean
  <2>2. /\ chat' = [chat EXCEPT ![s] = [NewChat(cause, n) EXCEPT !.from = fresh + 1]]
        /\ NewChat(cause, n).cause.kind # "subscription" \/ Post(s, hello)
    BY <1>2, <2>1 DEF Subscribe
  <2>3. hello \in Messages /\ cause \in Causes
    BY <1>0, SideTypes DEF Messages, Causes
  <2>4. /\ NewChat(cause, n) \in Chats /\ NewChat(cause, n).open
        /\ ~NewChat(cause, n).authenticated /\ NewChat(cause, n).cause = cause
    BY <2>3, NewChatFits
  <2>5. link'[s] = link[s] /\ link'[Peer(s)] = Append(link[Peer(s)], hello)
    BY <1>0, <2>2, <2>3, <2>4, PostEffect
  <2>6. /\ chat'[s] = [NewChat(cause, n) EXCEPT !.from = fresh + 1]
        /\ \A t \in Sides : t # s => chat'[t] = chat[t]
    BY <1>0, <2>2 DEF TypeOK
  <2>7. chat'[s].open /\ ~chat'[s].authenticated /\ chat'[s].cause = cause
        /\ chat'[s].from = fresh + 1
    BY <2>4, <2>6 DEF Chats
  <2> HIDE DEF s
  <2>8. Starts(s)' /\ Hello(s)' = hello
    BY <2>7 DEF Starts, Hello
  <2> QED BY <1>0, <1>2, <2>1, <2>5, <2>6, <2>8, OpensInStep
<1>3. CASE Clean' /\ old.authenticated
  <2> DEFINE m == [phase |-> "reporterSessionKey", value |-> memory'[s], key |-> old.key]
  <2>1. SessionKey(s) /\ chat' = chat
    BY <1>3 DEF Subscribe
  <2>2. /\ link'[s] = link[s] /\ memory' \in [Sides -> Nat]
        /\ link'[Peer(s)] = Append(link[Peer(s)], m)
    BY <1>0, <2>1, SessionKeyTypes
  <2>3. m \in Messages /\ m.phase \in Settled /\ m.key = chat[s].key
    BY <1>0, <2>2, SideTypes DEF Messages, Settled
  <2> HIDE DEF m, s
  <2> QED BY <1>0, <1>3, <2>1, <2>2, <2>3, SettledInStep DEF old
<1> QED BY <1>1, <1>2, <1>3

LEMMA SenderHelloInStep ==
    ASSUME TypeOK, TypeOK', InStep, NEW s \in Sides, SenderHello(s)
    PROVE  InStep'
<1> DEFINE v      == Head(link[s]).value
           answer == [phase |-> "receiverHello", value |-> fresh + 1]
           cause  == [kind |-> "handshake"]
<1>0. /\ Peer(s) \in Sides /\ Peer(Peer(s)) = s /\ s # Peer(s)
      /\ Receive(s, "senderHello") /\ (Clean' => Clean)
  BY PeerIsOther DEF SenderHello, Clean
<1> SUFFICES ASSUME Clean'
             PROVE  InStep'
  BY DEF InStep
<1>1. ~BothStart
  BY DEF SenderHello, Clean, BothStart, Starts
<1>2. Asked(Peer(s))
  BY <1>0, <1>1, PhaseOfMessage
<1>3. /\ ~chat[s].open /\ link[s] = <<Hello(Peer(s))>> /\ link[Peer(s)] = <<>>
      /\ Starts(Peer(s))
  BY <1>0, <1>2 DEF Asked
<1>4. answer \in Messages /\ cause \in Causes /\ 0 \in Subscribes \union {0}
  BY <1>0, SideTypes DEF Messages, Causes
<1>5. link'[s] = <<>> /\ link'[Peer(s)] = <<answer>>
  <2>1. Answer(s, answer)
    BY DEF SenderHello
  <2>2. link'[s] = Tail(link[s]) /\ link'[Peer(s)] = Append(link[Peer(s)], answer)
    BY <1>0, <1>4, <2>1, Received, AnswerEffect
  <2> QED BY <1>3, <2>2, ToSingle, DropSingle
<1>6. v = chat[Peer(s)].from
  BY <1>0, <1>3, Received DEF Hello
<1>7. /\ NewChat(cause, 0) \in Chats /\ NewChat(cause, 0).open
      /\ ~NewChat(cause, 0).authenticated /\ NewChat(cause, 0).cause = cause
  BY <1>4, NewChatFits
<1>8. /\ chat'[s] = [NewChat(cause, 0) EXCEPT !.from = v, !.to = fresh + 1]
      /\ chat'[Peer(s)] = chat[Peer(s)]
  BY <1>0, <1>3 DEF SenderHello, Opened, TypeOK
<1>9. /\ chat'[s].open /\ ~chat'[s].authenticated /\ chat'[s].cause = cause
      /\ chat'[s].from = v /\ chat'[s].to = fresh + 1
  BY <1>7, <1>8 DEF Chats
<1>10. IsAsked(s)' /\ Starts(Peer(s))'
  BY <1>3, <1>8, <1>9 DEF IsAsked, Starts
<1>11. Greeted(Peer(s))'
  BY <1>0, <1>5, <1>6, <1>8, <1>9, <1>10 DEF Greeted
<1> QED BY <1>0, <1>11 DEF InStep

LEMMA ReceiverHelloInStep ==
    ASSUME TypeOK, TypeOK', InStep, NEW s \in Sides, ReceiverHello(s)
    PROVE  InStep'
<1> DEFINE v   == link[s][1].value
           key == <<fresh + 1, v, chat[s].from>>
           m   == [phase |-> "senderCertificate", value |-> fresh + 1, key |-> key]
<1>1. /\ Receive(s, "receiverHello") /\ v \in Nat /\ key \in Keys
      /\ chat' = [chat EXCEPT ![s] = [chat[s] EXCEPT !.to = v, !.key = key]]
      /\ fresh' = fresh + 1 /\ Answer(s, m) /\ m \in Messages /\ odd' = odd
  BY ReceiverHelloEffect
<1> SUFFICES ASSUME Clean
             PROVE  InStep'
  BY <1>1 DEF InStep, Clean
<1>2. /\ Peer(s) \in Sides /\ s # Peer(s) /\ Starts(s) /\ IsAsked(Peer(s))
      /\ chat[Peer(s)].from = chat[s].from
      /\ link[s] = <<[phase |-> "receiverHello", value |-> chat[Peer(s)].to]>>
      /\ link[Peer(s)] = <<>>
  BY <1>1, PhaseOfMessage, PeerIsOther DEF Greeted
<1>3. v = chat[Peer(s)].to
  BY <1>2
<1> HIDE DEF m
<1>4. link'[s] = <<>> /\ link'[Peer(s)] = <<m>>
  <2>1. link'[s] = Tail(link[s]) /\ link'[Peer(s)] = Append(link[Peer(s)], m)
    BY <1>1, Received, AnswerEffect
  <2> QED BY <1>2, <2>1, ToSingle, DropSingle
<1> HIDE DEF v, key
<1>5. /\ chat'[s] = [chat[s] EXCEPT !.to = v, !.key = key]
      /\ chat'[Peer(s)] = chat[Peer(s)]
  BY <1>1, <1>2 DEF TypeOK
<1>6. /\ chat'[s].key = key /\ chat'[s].open = chat[s].open
      /\ chat'[s].authenticated = chat[s].authenticated /\ chat'[s].cause = chat[s].cause
  BY <1>5, SideTypes DEF Chats
<1>7. Starts(s)' /\ IsAsked(Peer(s))'
  BY <1>2, <1>5, <1>6 DEF Starts, IsAsked
<1>8. fresh + 1 \in 1 .. fresh' /\ key = <<fresh + 1, chat[Peer(s)].to, chat[Peer(s)].from>>
  BY <1>1, <1>2, <1>3, SideTypes DEF key
<1>9. Certified(s)'
  BY <1>4, <1>5, <1>6, <1>7, <1>8 DEF Certified, m
<1> QED BY <1>9 DEF InStep

LEMMA SenderCertificateInStep ==
    ASSUME TypeOK, TypeOK', InStep, NEW s \in Sides, SenderCertificate(s)
    PROVE  InStep'
<1> DEFINE m   == link[s][1]
           key == <<m.value, chat[s].to, chat[s].from>>
           end == [phase |-> "receiverFinishedMessage", key |-> key]
<1>1. /\ Receive(s, "senderCertificate") /\ key \in Keys /\ end \in Messages
      /\ \/ /\ key = m.key /\ Answer(s, end)
            /\ chat' = [chat EXCEPT ![s] = [chat[s] EXCEPT !.key = key, !.authenticated = TRUE]]
         \/ key # m.key
      /\ odd' = odd
  BY SenderCertificateEffect
<1> SUFFICES ASSUME Clean
             PROVE  InStep'
  BY <1>1 DEF InStep, Clean
<1>2. /\ Peer(s) \in Sides /\ s # Peer(s) /\ Peer(Peer(s)) = s
      /\ Starts(Peer(s)) /\ IsAsked(s) /\ link[Peer(s)] = <<>>
  BY <1>1, PhaseOfMessage, PeerIsOther DEF Certified
<1>3. PICK secret \in 1 .. fresh :
         /\ chat[Peer(s)].key = <<secret, chat[s].to, chat[s].from>>
         /\ link[s] = <<[phase |-> "senderCertificate", value |-> secret,
                         key |-> chat[Peer(s)].key]>>
  BY <1>1, <1>2, PhaseOfMessage DEF Certified
<1>4. key = m.key /\ key = chat[Peer(s)].key
  BY <1>3
<1> HIDE DEF end
<1>5. link'[s] = <<>> /\ link'[Peer(s)] = <<end>>
  <2>1. link'[s] = Tail(link[s]) /\ link'[Peer(s)] = Append(link[Peer(s)], end)
    BY <1>1, <1>4, Received, AnswerEffect
  <2> QED BY <1>2, <1>3, <2>1, ToSingle, DropSingle
<1> HIDE DEF m, key
<1>6. /\ chat'[s] = [chat[s] EXCEPT !.key = key, !.authenticated = TRUE]
      /\ chat'[Peer(s)] = chat[Peer(s)]
  BY <1>1, <1>2, <1>4 DEF TypeOK
<1>7. chat'[s].open /\ chat'[s].authenticated /\ chat'[s].key = key
  BY <1>2, <1>6, SideTypes DEF Chats, IsAsked
<1>8. Starts(Peer(s))' /\ link'[Peer(s)][1] = end /\ Len(link'[Peer(s)]) = 1
  BY <1>2, <1>5, <1>6 DEF Starts
<1>9. AllSettled(link'[Peer(s)], 2, chat'[Peer(s)].key)
  BY <1>8 DEF AllSettled
<1>10. Finishing(Peer(s))'
  BY <1>2, <1>4, <1>5, <1>6, <1>7, <1>8, <1>9 DEF Finishing, end
<1> QED BY <1>2, <1>10 DEF InStep

\* An answer with the keys that both sides have.
LEMMA SettledAnswer ==
    ASSUME TypeOK, NEW s \in Sides, NEW from \in {1, 2}, NEW key, link[s] # <<>>,
           AllSettled(link[s], from, key), AllSettled(link[Peer(s)], 1, key),
           \/ Drop(s)
           \/ \E m \in Messages : m.phase \in Settled /\ m.key = key /\ Answer(s, m)
    PROVE  \A t \in Sides : AllSettled(link'[t], 1, key)
<1>1. link[s] \in Seq(Messages) /\ link[Peer(s)] \in Seq(Messages) /\ Peer(s) \in Sides
      /\ \A t \in Sides : t = s \/ t = Peer(s)
  BY PeerIsOther DEF TypeOK
<1>2. AllSettled(Tail(link[s]), 1, key)
  BY <1>1, AllSettledTail
<1>3. CASE Drop(s)
  BY <1>1, <1>2, <1>3, DropEffect
<1>4. CASE \E m \in Messages : m.phase \in Settled /\ m.key = key /\ Answer(s, m)
  <2>1. PICK m \in Messages : m.phase \in Settled /\ m.key = key /\ Answer(s, m)
    BY <1>4
  <2>2. link'[s] = Tail(link[s]) /\ link'[Peer(s)] = Append(link[Peer(s)], m)
    BY <2>1, AnswerEffect
  <2>3. AllSettled(link'[Peer(s)], 1, key)
    BY <1>1, <2>1, <2>2, AllSettledAppend
  <2> QED BY <1>1, <1>2, <2>2, <2>3
<1> QED BY <1>3, <1>4

LEMMA FinishedInStep ==
    ASSUME TypeOK, TypeOK', InStep, NEW s \in Sides, Finished(s)
    PROVE  InStep'
<1> DEFINE key    == chat[s].key
           handed == [phase |-> "reporterSessionKey", key |-> key, value |-> memory'[s]]
           posted == Encrypted(s, chat[s].cause.nr)
<1>1. /\ Receive(s, "receiverFinishedMessage") /\ odd' = odd
      /\ chat' = [chat EXCEPT ![s] = [chat[s] EXCEPT !.authenticated = TRUE]]
      /\ \/ link[s][1].key # key
         \/ posted \in Messages /\ Answer(s, posted)
         \/ handed \in Messages /\ Answer(s, handed)
  BY FinishedEffect
<1> SUFFICES ASSUME Clean
             PROVE  InStep'
  BY <1>1 DEF InStep, Clean
<1>2. Finishing(s) /\ Peer(s) \in Sides /\ s # Peer(s)
      /\ \A t \in Sides : t = s \/ t = Peer(s)
  BY <1>1, PhaseOfMessage, PeerIsOther
<1>3. /\ Starts(s) /\ chat[Peer(s)].open /\ chat[Peer(s)].authenticated
      /\ chat[Peer(s)].key = key /\ link[s] # <<>> /\ link[s][1].key = key
      /\ AllSettled(link[s], 2, key) /\ link[Peer(s)] = <<>>
  BY <1>2 DEF Finishing
<1>4. AllSettled(link[Peer(s)], 1, key)
  BY <1>3 DEF AllSettled
<1>5. /\ posted.phase \in Settled /\ posted.key = key
      /\ handed.phase \in Settled /\ handed.key = key
  BY DEF Settled, Encrypted
<1> HIDE DEF handed, posted
<1>6. \A t \in Sides : AllSettled(link'[t], 1, key)
  BY <1>1, <1>3, <1>4, <1>5, SettledAnswer
<1>7. /\ chat'[s] = [chat[s] EXCEPT !.authenticated = TRUE] /\ chat'[Peer(s)] = chat[Peer(s)]
  BY <1>1, <1>2 DEF TypeOK
<1>8. chat'[s].open /\ chat'[s].authenticated /\ chat'[s].key = key
  BY <1>3, <1>7, SideTypes DEF Chats, Starts
<1>9. Agreed'
  BY <1>2, <1>3, <1>6, <1>7, <1>8 DEF Agreed, Sides
<1> QED BY <1>9 DEF InStep

\* A message that follows the handshake is taken, and perhaps acknowledged.
LEMMA SettledStep ==
    ASSUME TypeOK, InStep, Clean, NEW s \in Sides, NEW phase \in Settled, Receive(s, phase),
           chat' = chat,
           \/ Drop(s)
           \/ \E m \in Messages : m.phase \in Settled /\ m.key = link[s][1].key /\ Answer(s, m)
    PROVE  InStep' /\ Agreed /\ link[s][1].key = chat[s].key
<1>1. Agreed /\ link[s] # <<>> /\ Peer(s) \in Sides /\ Len(link[s]) \in Nat \ {0}
  BY PhaseOfMessage, Received, PeerIsOther, HeadOfLink
<1> DEFINE key == chat["reporter"].key
<1>2. chat[s].key = key /\ AllSettled(link[s], 1, key) /\ AllSettled(link[Peer(s)], 1, key)
  BY <1>1 DEF Agreed, Sides
<1>3. link[s][1].key = key
  BY <1>1, <1>2 DEF AllSettled
<1> HIDE DEF key
<1>4. \A t \in Sides : AllSettled(link'[t], 1, key)
  BY <1>1, <1>2, <1>3, SettledAnswer
<1>5. Agreed'
  BY <1>1, <1>4 DEF Agreed, key
<1> QED BY <1>1, <1>2, <1>3, <1>5 DEF InStep

LEMMA SettledHandlers ==
    ASSUME TypeOK, InStep, MessagesAreReadable, NEW s \in Sides,
           ReporterSessionKey(s) \/ ReceiverAcknowledge(s) \/ Arrive(s)
    PROVE  InStep' /\ MessagesAreReadable'
<1>1. CASE ReporterSessionKey(s)
  <2> DEFINE reply == [phase |-> "receiverAcknowledge", key |-> link[s][1].key]
  <2>1. /\ Receive(s, "reporterSessionKey") /\ reply \in Messages
        /\ Answer(s, reply) \/ Drop(s)
        /\ chat' = chat /\ odd' = odd
    BY <1>1, ReporterSessionKeyEffect
  <2>2. reply.phase \in Settled /\ reply.key = link[s][1].key /\ "reporterSessionKey" \in Settled
    BY DEF Settled
  <2> HIDE DEF reply
  <2>3. Clean => InStep'
    BY <2>1, <2>2, SettledStep
  <2> QED BY <2>1, <2>3 DEF InStep, Clean, MessagesAreReadable
<1>2. CASE ReceiverAcknowledge(s)
  <2>1. Receive(s, "receiverAcknowledge") /\ Drop(s) /\ chat' = chat /\ odd' = odd
    BY <1>2 DEF ReceiverAcknowledge
  <2>2. Clean => InStep'
    BY <2>1, SettledStep DEF Settled
  <2> QED BY <2>1, <2>2 DEF InStep, Clean, MessagesAreReadable
<1>3. CASE Arrive(s)
  <2>1. /\ Receive(s, "message") /\ Drop(s) /\ chat' = chat
        /\ \/ odd' = odd
           \/ /\ ~(chat[s].authenticated /\ link[s][1].key = chat[s].key)
              /\ odd' = odd \union {"unreadable"}
    BY <1>3, ArriveEffect
  <2>2. Clean => InStep' /\ Agreed /\ link[s][1].key = chat[s].key
    BY <2>1, SettledStep DEF Settled
  <2>3. Clean => odd' = odd
    BY <2>1, <2>2 DEF Agreed
  <2> QED BY <2>1, <2>2, <2>3 DEF InStep, Clean, MessagesAreReadable
<1> QED BY <1>1, <1>2, <1>3

LEMMA InitIInv == Init => IInv
<1> SUFFICES ASSUME Init
             PROVE  IInv
  OBVIOUS
<1>1. \A s \in Sides : ~chat[s].open /\ ~chat[s].authenticated /\ link[s] = <<>>
  BY DEF Init, NoChat
<1>2. Quiet /\ odd = {}
  BY <1>1 DEF Quiet, Init
<1> QED BY <1>2, InitTypes DEF IInv, InStep, MessagesAreReadable

LEMMA NextIInv == IInv /\ [Next]_vars => IInv'
<1> SUFFICES ASSUME IInv, [Next]_vars
             PROVE  IInv'
  OBVIOUS
<1>0. TypeOK /\ TypeOK' /\ InStep /\ MessagesAreReadable
  BY NextTypes DEF IInv
<1>1. ASSUME NEW s \in Sides, Send(s) \/ Handle(s)
      PROVE  InStep' /\ MessagesAreReadable'
  <2>1. CASE Send(s)
    <3>1. odd' = odd
      BY <2>1 DEF Send
    <3> QED BY <1>0, <2>1, <3>1, SendInStep DEF MessagesAreReadable
  <2>2. CASE SenderHello(s)
    <3>1. odd' \in {odd, odd \union {"crossed"}}
      BY <2>2 DEF SenderHello
    <3> QED BY <1>0, <2>2, <3>1, SenderHelloInStep DEF MessagesAreReadable
  <2>3. CASE ReceiverHello(s)
    <3>1. odd' = odd
      BY <2>3 DEF ReceiverHello
    <3> QED BY <1>0, <2>3, <3>1, ReceiverHelloInStep DEF MessagesAreReadable
  <2>4. CASE SenderCertificate(s)
    <3>1. odd' = odd
      BY <2>4 DEF SenderCertificate
    <3> QED BY <1>0, <2>4, <3>1, SenderCertificateInStep DEF MessagesAreReadable
  <2>5. CASE Finished(s)
    <3>1. odd' = odd
      BY <2>5 DEF Finished
    <3> QED BY <1>0, <2>5, <3>1, FinishedInStep DEF MessagesAreReadable
  <2>6. CASE ReporterSessionKey(s) \/ ReceiverAcknowledge(s) \/ Arrive(s)
    BY <1>0, <2>6, SettledHandlers
  <2> QED BY <1>1, <2>1, <2>2, <2>3, <2>4, <2>5, <2>6 DEF Handle
<1>2. ASSUME NEW n \in Subscribes, Subscribe(n)
      PROVE  InStep' /\ MessagesAreReadable'
  <2>1. odd' \in {odd, odd \union {"disturbed"}}
    BY <1>2 DEF Subscribe
  <2> QED BY <1>0, <1>2, <2>1, SubscribeInStep DEF MessagesAreReadable
<1>3. ASSUME NEW n \in Updates, ReadKey(n) \/ MakeKey(n)
      PROVE  InStep' /\ MessagesAreReadable'
  <2>1. UNCHANGED <<chat, link>> /\ odd' \in {odd, odd \union {"raced"}}
    BY <1>0, <1>3, UpdateTypes
  <2>2. fresh <= fresh'
    BY <1>0, <1>3 DEF ReadKey, MakeKey, TypeOK
  <2>3. Clean' => Clean
    BY <2>1 DEF Clean
  <2> QED BY <1>0, <2>1, <2>2, <2>3, StandStill DEF MessagesAreReadable
<1>4. CASE UNCHANGED vars
  <2>1. UNCHANGED <<chat, link>> /\ odd' = odd /\ fresh <= fresh'
    BY <1>0, <1>4 DEF vars, TypeOK
  <2>2. Clean' => Clean
    BY <2>1 DEF Clean
  <2>3. InStep'
    BY <1>0, <2>1, <2>2, StandStill
  <2>4. MessagesAreReadable'
    BY <1>0, <2>1 DEF MessagesAreReadable
  <2> QED BY <1>0, <2>3, <2>4 DEF IInv
<1> QED BY <1>0, <1>1, <1>2, <1>3, <1>4 DEF Next, IInv

LEMMA SpecIInv == Spec => []IInv
BY InitIInv, NextIInv, PTL DEF Spec

\* Chat keys, messages on their way and session keys stay what the crypto
\* managers make them.
THEOREM HandshakeTypes == Spec => []TypeOK
<1>1. IInv => TypeOK
  BY DEF IInv
<1> QED BY <1>1, SpecIInv, PTL

\* Every message of a hyperty that encryptMessage encrypted is read by the side
\* that gets it, unless a handshake was crossed or disturbed.
THEOREM EncryptedAreRead == Spec => []MessagesAreReadable
<1>1. IInv => MessagesAreReadable
  BY DEF IInv
<1> QED BY <1>1, SpecIInv, PTL

-----------------------------------------------------------------------------
(* Whatever handshakes are crossed or disturbed, sides that both count as  *)
(* authenticated agree in the end, and a subscriber that was let in has    *)
(* the key of the object.                                                  *)
(*                                                                         *)
(* A handshake may be disturbed in many ways, but there are few places     *)
(* where the random value that the subscriber drew last can be.  The       *)
(* invariant follows it around, from the subscriber's answer to a hello to *)
(* the keys that the reporter makes of it.  What was drawn before it is    *)
(* still on its way and comes to nothing.                                  *)

Reporter == "reporter"
Subscriber == "subscriber"

\* The messages that have a side make keys, and those that have it draw or
\* take a random value for them.
KeyMakers == {"receiverHello", "senderCertificate"}
Openers == {"senderHello", "receiverHello"}

\* No message of the sequence, after one of its places, is of one of the phases.
Free(seq, after, phases) == \A i \in 1 .. Len(seq) : i > after => seq[i].phase \notin phases

\* All of them are.
Only(seq, phases) == \A i \in 1 .. Len(seq) : seq[i].phase \in phases

-----------------------------------------------------------------------------
(* Where the subscriber's random value is.  up and down are the messages   *)
(* on their way to the reporter and to the subscriber, drawn is the value, *)
(* and key the key of the reporter.                                        *)

\* Nowhere: nobody can make keys of it.
IsNowhere(up, down, drawn) ==
    /\ \A i \in 1 .. Len(up) : up[i].phase = "receiverHello" => up[i].value # drawn
    /\ \A i \in 1 .. Len(down) : down[i].phase = "senderCertificate" => down[i].key[2] # drawn

\* On its way to the reporter, the last that makes keys there;
IsOffered(up, down, drawn) ==
    /\ \E i \in 1 .. Len(up) :
          /\ up[i].phase = "receiverHello" /\ up[i].value = drawn
          /\ \A j \in 1 .. i - 1 : up[j].phase = "receiverHello" => up[j].value # drawn
          /\ Free(up, i, KeyMakers)
    /\ \A i \in 1 .. Len(down) : down[i].phase = "senderCertificate" => down[i].key[2] # drawn

\* in the keys the reporter has, the last that are on their way to the subscriber.
IsTaken(up, down, drawn, key) ==
    /\ Free(up, 0, KeyMakers)
    /\ \E i \in 1 .. Len(down) :
          /\ down[i].phase = "senderCertificate"
          /\ down[i].key = key /\ key = <<down[i].value, drawn, key[3]>>
          /\ \A j \in 1 .. i - 1 :
                down[j].phase = "senderCertificate" => down[j].key[2] # drawn
          /\ Free(down, i, KeyMakers)

IsSomewhere(up, down, drawn, key) ==
    IsNowhere(up, down, drawn) \/ IsOffered(up, down, drawn) \/ IsTaken(up, down, drawn, key)

\* The value and the reporter's hello make the keys of both, or did already:
\* from is what the hello brought, kept the key of the subscriber.
IsOnCourse(up, down, drawn, from, key, kept) ==
    \/ IsOffered(up, down, drawn)
    \/ IsTaken(up, down, drawn, key) /\ key[3] = from
    \/ Free(up, 0, KeyMakers) /\ Free(down, 0, KeyMakers) /\ kept = key

\* What the reporter offers the subscriber, in answer to its hello, comes to
\* nothing: it has taken another value before keys made of that come back.
OfferIsFutile(up, down, taken, j) ==
    /\ IsNowhere(up, down, down[j].value)
    /\ \A i \in 1 .. j : down[i].phase # "senderCertificate"
    /\ \/ taken # down[j].value
       \/ \E i \in 1 .. Len(up) : up[i].phase = "receiverHello"
       \/ \E i \in 1 .. j : down[i].phase = "senderHello"

AnswerIsFutile(up, taken, i) ==
    /\ \A j \in 1 .. Len(up) : up[j].phase = "receiverHello" => up[j].value # up[i].key[2]
    /\ \/ taken # up[i].key[2]
       \/ \E j \in 1 .. i : up[j].phase = "receiverHello"

OffersAreFutile(up, down, taken) ==
    /\ \A j \in 1 .. Len(down) :
          down[j].phase = "receiverHello" => OfferIsFutile(up, down, taken, j)
    /\ \A i \in 1 .. Len(up) :
          up[i].phase = "senderCertificate" => AnswerIsFutile(up, taken, i)

\* The last to open anything at the subscriber is an offer of the reporter,
OfferIsLast(down) ==
    \E j \in 1 .. Len(down) : down[j].phase = "receiverHello" /\ Free(down, j, Openers)

\* or a hello with a certain value.
HelloIsLast(down, value) ==
    \E j \in 1 .. Len(down) :
        down[j] = [phase |-> "senderHello", value |-> value] /\ Free(down, j, Openers)

Rounds ==
    /\ IsSomewhere(link[Reporter], link[Subscriber], chat[Subscriber].to, chat[Reporter].key)
    /\ OffersAreFutile(link[Reporter], link[Subscriber], chat[Reporter].to)

-----------------------------------------------------------------------------
(* The ways in which handshakes go.                                        *)

\* Values on their way were drawn.
IsDrawn(m, last) ==
    /\ m.phase = "receiverHello" => m.value <= last
    /\ m.phase = "senderCertificate" => m.key[2] \in 0 .. last

ValuesAreDrawn ==
    \A s \in Sides : \A i \in 1 .. Len(link[s]) : IsDrawn(link[s][i], fresh)

BothOpen == \A s \in Sides : chat[s].open
NobodyIsSure == \A s \in Sides : ~chat[s].authenticated

\* Only s began one: its hello is on its way,
Calling(s) ==
    /\ chat[s].open /\ ~chat[Peer(s)].open /\ NobodyIsSure /\ link[s] = <<>>
    /\ Len(link[Peer(s)]) = 1 /\ link[Peer(s)][1].phase = "senderHello"

\* or the answer to it,
Heard(s) ==
    /\ BothOpen /\ NobodyIsSure /\ link[Peer(s)] = <<>>
    /\ Len(link[s]) = 1 /\ link[s][1].phase = "receiverHello"

\* or the keys it made of that,
Proposing(s) ==
    /\ BothOpen /\ NobodyIsSure /\ link[s] = <<>>
    /\ Len(link[Peer(s)]) = 1 /\ link[Peer(s)][1].phase = "senderCertificate"
    /\ link[Peer(s)][1].key = chat[s].key

\* or its end, with keys that both have; agreed they are then, by Agreed,
Ending(s) ==
    /\ BothOpen /\ chat[Peer(s)].authenticated /\ ~chat[s].authenticated
    /\ chat[Peer(s)].key = chat[s].key /\ link[Peer(s)] = <<>>
    /\ link[s] # <<>> /\ link[s][1].phase = "receiverFinishedMessage"
    /\ AllSettled(link[s], 2, chat[s].key)

\* unless a subscription disturbed them, and they will never be.
GivenUp == BothOpen /\ NobodyIsSure /\ \A s \in Sides : link[s] = <<>>

Alone ==
    /\ chat[Reporter].open => chat[Reporter].cause.kind # "subscription"
    /\ \/ Agreed \/ GivenUp
       \/ \E s \in Sides : Calling(s) \/ Heard(s) \/ Proposing(s) \/ Ending(s)

\* Both began one, and the reporter is still to hear of the subscriber's.
Crossing ==
    LET up == link[Reporter]  down == link[Subscriber]
    IN  /\ BothOpen /\ NobodyIsSure
        /\ up # <<>> /\ up[1].phase = "senderHello"
        /\ \A i \in 2 .. Len(up) : up[i].phase = "receiverHello"
        /\ Only(down, {"senderHello"})
        /\ down # <<>> \/ Len(up) > 1
        /\ \/ IsNowhere(up, down, chat[Subscriber].to)
           \/ IsOffered(up, down, chat[Subscriber].to)

\* Both began one, and neither can end before there is another hello.
Crossed ==
    LET up == link[Reporter]  down == link[Subscriber]
    IN  /\ BothOpen /\ NobodyIsSure
        /\ Only(up, KeyMakers) /\ Only(down, KeyMakers \union {"senderHello"})
        /\ Rounds
        /\ \/ OfferIsLast(down)
           \/ Free(down, 0, Openers) /\ IsNowhere(up, down, chat[Subscriber].to)

\* The subscriber heard the reporter's last hello and no other word since.
IsCurrent ==
    /\ chat[Subscriber].from = chat[Reporter].from
    /\ Free(link[Subscriber], 0, Openers)
    /\ IsOnCourse(link[Reporter], link[Subscriber], chat[Subscriber].to, chat[Subscriber].from,
                  chat[Reporter].key, chat[Subscriber].key)

\* The subscriber keeps the object's key, or will when it gets it, with the
\* keys that it has and keeps until then.
KeyIsReadable(seq, key) ==
    \E i \in 1 .. Len(seq) :
        /\ seq[i].phase = "reporterSessionKey" /\ seq[i].key = key
        /\ \A j \in 1 .. i - 1 : seq[j].phase \notin KeyMakers

HasTheKey ==
    memory[Subscriber] # 0 \/ KeyIsReadable(link[Subscriber], chat[Subscriber].key)

\* The end of a handshake is on its way with the keys that both have.
EndsAreShared(up, down, key, kept) ==
    \A i \in 1 .. Len(up) : up[i].phase = "receiverFinishedMessage" =>
        /\ up[i].key = key /\ up[i].key = kept
        /\ \A j \in 1 .. i - 1 : up[j].phase \notin KeyMakers
        /\ Free(down, 0, KeyMakers)

\* The reporter says hello whenever somebody subscribes, as long as it takes.
Subscribing ==
    LET up == link[Reporter]  down == link[Subscriber]
    IN  /\ chat[Reporter].open /\ chat[Reporter].cause.kind = "subscription"
        /\ ~chat[Subscriber].open =>
              /\ NobodyIsSure /\ up = <<>> /\ down # <<>>
              /\ Only(down, {"senderHello"})
        /\ Free(up, 0, {"senderHello"}) /\ Free(down, 0, {"receiverFinishedMessage"})
        /\ Rounds
        /\ HelloIsLast(down, chat[Reporter].from) \/ IsCurrent
        /\ EndsAreShared(up, down, chat[Reporter].key, chat[Subscriber].key)
        /\ chat[Reporter].authenticated => HasTheKey

Ways == Quiet \/ Alone \/ Crossing \/ Crossed \/ Subscribing

-----------------------------------------------------------------------------
(* The key of the object.                                                  *)

\* Only the reporter is asked to subscribe and hands over a key, which only the
\* subscriber acknowledges.
OnlyReporterHands ==
    /\ chat[Subscriber].cause.kind # "subscription"
    /\ Free(link[Reporter], 0, {"reporterSessionKey"})
    /\ Free(link[Subscriber], 0, {"receiverAcknowledge"})

\* There is one key, unless an update made another.
OneKey ==
    /\ \A i \in 1 .. Len(link[Subscriber]) :
          link[Subscriber][i].phase = "reporterSessionKey" =>
              /\ link[Subscriber][i].value # 0
              /\ "raced" \notin odd => link[Subscriber][i].value = memory[Reporter]
    /\ "raced" \notin odd => memory[Subscriber] \in {0, memory[Reporter]}

\* Who is told has the key, or will have it.
ToldWillHaveIt ==
    /\ Free(link[Reporter], 0, {"receiverAcknowledge"}) \/ memory[Subscriber] # 0
    /\ (\E n \in Subscribes : subscription[n] = "told") => HasTheKey

AgreementInv == ValuesAreDrawn /\ Ways /\ OnlyReporterHands /\ OneKey /\ ToldWillHaveIt

-----------------------------------------------------------------------------
(* Sequences of which the first element is taken, or that get another one. *)

Drops(seq, rest) ==
    /\ Len(seq) \in Nat \ {0} /\ Len(rest) \in Nat /\ Len(seq) = Len(rest) + 1
    /\ \A i \in 1 .. Len(rest) : rest[i] = seq[i + 1]

Adds(seq, m, more) ==
    /\ Len(seq) \in Nat /\ Len(more) = Len(seq) + 1
    /\ \A i \in 1 .. Len(seq) : more[i] = seq[i]
    /\ more[Len(seq) + 1] = m

LEMMA TailDrops ==
    ASSUME NEW seq \in Seq(Messages), seq # <<>>
    PROVE  Drops(seq, Tail(seq))
<1>1. Len(seq) \in Nat /\ Len(seq) # 0
  BY EmptySeq
<1> QED BY <1>1, HeadTailProperties DEF Drops

LEMMA AppendAdds ==
    ASSUME NEW seq \in Seq(Messages), NEW m \in Messages
    PROVE  Adds(seq, m, Append(seq, m))
BY AppendProperties DEF Adds

\* Where each element is found again.
LEMMA DropSteps ==
    ASSUME NEW seq, NEW rest, Drops(seq, rest)
    PROVE  /\ Len(seq) \in Nat \ {0} /\ Len(rest) \in Nat /\ 1 \in 1 .. Len(seq)
           /\ \A i \in 1 .. Len(rest) : i + 1 \in 1 .. Len(seq) /\ rest[i] = seq[i + 1]
           /\ \A i \in 1 .. Len(seq) : i # 1 => i - 1 \in 1 .. Len(rest)
           /\ \A i \in 1 .. Len(seq) : i # 1 => rest[i - 1] = seq[i]
<1>1. /\ Len(seq) \in Nat \ {0} /\ Len(rest) \in Nat /\ 1 \in 1 .. Len(seq)
      /\ \A i \in 1 .. Len(rest) : i + 1 \in 1 .. Len(seq) /\ rest[i] = seq[i + 1]
  BY DEF Drops
<1>2. \A i \in 1 .. Len(seq) : i # 1 => i - 1 \in 1 .. Len(rest)
  BY DEF Drops
<1>3. ASSUME NEW i \in 1 .. Len(seq), i # 1 PROVE rest[i - 1] = seq[i]
  <2>1. i - 1 \in 1 .. Len(rest) /\ (i - 1) + 1 = i
    BY <1>2, <1>3
  <2> QED BY <1>1, <2>1
<1> QED BY <1>1, <1>2, <1>3

LEMMA AddSteps ==
    ASSUME NEW seq, NEW m, NEW more, Adds(seq, m, more)
    PROVE  /\ Len(seq) \in Nat /\ Len(more) = Len(seq) + 1
           /\ Len(more) \in 1 .. Len(more) /\ more[Len(more)] = m
           /\ \A i \in 1 .. Len(seq) : i \in 1 .. Len(more) /\ more[i] = seq[i]
           /\ \A i \in 1 .. Len(more) : i \in 1 .. Len(seq) \/ i = Len(more)
BY DEF Adds

LEMMA FreeDrops ==
    ASSUME NEW seq, NEW rest, Drops(seq, rest), NEW n \in {0, 1}, NEW phases, Free(seq, n, phases)
    PROVE  Free(rest, 0, phases)
BY DEF Drops, Free

LEMMA FreeAdds ==
    ASSUME NEW seq, NEW m, NEW more, Adds(seq, m, more), NEW phases, Free(seq, 0, phases),
           m.phase \notin phases
    PROVE  Free(more, 0, phases)
BY DEF Adds, Free

LEMMA OnlyDrops ==
    ASSUME NEW seq, NEW rest, Drops(seq, rest), NEW phases, Only(seq, phases)
    PROVE  Only(rest, phases)
BY DEF Drops, Only

LEMMA OnlyAdds ==
    ASSUME NEW seq, NEW m, NEW more, Adds(seq, m, more), NEW phases, Only(seq, phases),
           m.phase \in phases
    PROVE  Only(more, phases)
BY DEF Adds, Only

-----------------------------------------------------------------------------
(* Messages that make no keys come and go.                                 *)

LEMMA AddsUp ==
    ASSUME NEW up, NEW down, NEW m, NEW more, Adds(up, m, more), m.phase \notin KeyMakers,
           NEW drawn
    PROVE  /\ IsNowhere(up, down, drawn) => IsNowhere(more, down, drawn)
           /\ IsOffered(up, down, drawn) => IsOffered(more, down, drawn)
           /\ \A key : IsTaken(up, down, drawn, key) => IsTaken(more, down, drawn, key)
           /\ \A taken : OffersAreFutile(up, down, taken) => OffersAreFutile(more, down, taken)
<1>1. IsNowhere(up, down, drawn) => IsNowhere(more, down, drawn)
  BY DEF Adds, IsNowhere, KeyMakers
<1>2. ASSUME IsOffered(up, down, drawn) PROVE IsOffered(more, down, drawn)
  <2>1. PICK i \in 1 .. Len(up) :
          /\ up[i].phase = "receiverHello" /\ up[i].value = drawn
          /\ \A j \in 1 .. i - 1 : up[j].phase = "receiverHello" => up[j].value # drawn
          /\ Free(up, i, KeyMakers)
    BY <1>2 DEF IsOffered
  <2>2. /\ i \in 1 .. Len(more) /\ more[i] = up[i]
        /\ \A j \in 1 .. i - 1 : more[j] = up[j]
    BY DEF Adds
  <2>3. Free(more, i, KeyMakers)
    BY <2>1 DEF Adds, Free
  <2> QED BY <1>2, <2>1, <2>2, <2>3 DEF IsOffered
<1>3. \A key : IsTaken(up, down, drawn, key) => IsTaken(more, down, drawn, key)
  BY FreeAdds DEF IsTaken
<1>4. ASSUME NEW taken, OffersAreFutile(up, down, taken)
      PROVE  OffersAreFutile(more, down, taken)
  <2>1. /\ Len(up) \in Nat /\ \A i \in 1 .. Len(up) : i \in 1 .. Len(more) /\ more[i] = up[i]
        /\ \A i \in 1 .. Len(more) : i \in 1 .. Len(up) \/ more[i] = m
    BY DEF Adds
  <2>2. ASSUME NEW j \in 1 .. Len(down), OfferIsFutile(up, down, taken, j)
        PROVE  OfferIsFutile(more, down, taken, j)
    BY <2>1, <2>2 DEF OfferIsFutile, IsNowhere, KeyMakers
  <2>3. ASSUME NEW i \in 1 .. Len(up), AnswerIsFutile(up, taken, i)
        PROVE  AnswerIsFutile(more, taken, i)
    BY <2>1, <2>3 DEF AnswerIsFutile, KeyMakers
  <2> QED BY <1>4, <2>1, <2>2, <2>3 DEF OffersAreFutile, KeyMakers
<1> QED BY <1>1, <1>2, <1>3, <1>4

LEMMA DropsUp ==
    ASSUME NEW up, NEW down, NEW rest, Drops(up, rest), up[1].phase \notin KeyMakers, NEW drawn
    PROVE  /\ IsNowhere(up, down, drawn) => IsNowhere(rest, down, drawn)
           /\ IsOffered(up, down, drawn) => IsOffered(rest, down, drawn)
           /\ \A key : IsTaken(up, down, drawn, key) => IsTaken(rest, down, drawn, key)
           /\ \A taken : OffersAreFutile(up, down, taken) => OffersAreFutile(rest, down, taken)
<1>1. IsNowhere(up, down, drawn) => IsNowhere(rest, down, drawn)
  BY DEF Drops, IsNowhere
<1>2. ASSUME IsOffered(up, down, drawn) PROVE IsOffered(rest, down, drawn)
  <2>1. PICK i \in 1 .. Len(up) :
          /\ up[i].phase = "receiverHello" /\ up[i].value = drawn
          /\ \A j \in 1 .. i - 1 : up[j].phase = "receiverHello" => up[j].value # drawn
          /\ Free(up, i, KeyMakers)
    BY <1>2 DEF IsOffered
  <2>2. i # 1
    BY <2>1 DEF KeyMakers
  <2>3. /\ i - 1 \in 1 .. Len(rest) /\ rest[i - 1] = up[i]
        /\ \A j \in 1 .. i - 1 - 1 : rest[j] = up[j + 1] /\ j + 1 \in 1 .. i - 1
    BY <2>2 DEF Drops
  <2>4. Free(rest, i - 1, KeyMakers)
    BY <2>1, <2>2 DEF Drops, Free
  <2> QED BY <1>2, <2>1, <2>3, <2>4 DEF IsOffered
<1>3. \A key : IsTaken(up, down, drawn, key) => IsTaken(rest, down, drawn, key)
  BY FreeDrops DEF IsTaken
<1>4. ASSUME NEW taken, OffersAreFutile(up, down, taken)
      PROVE  OffersAreFutile(rest, down, taken)
  <2>1. /\ \A i \in 1 .. Len(rest) : i + 1 \in 1 .. Len(up) /\ rest[i] = up[i + 1]
        /\ \A i \in 1 .. Len(up) : i # 1 => i - 1 \in 1 .. Len(rest)
        /\ \A i \in 1 .. Len(up) : i # 1 => rest[i - 1] = up[i]
    BY DropSteps
  <2>2. ASSUME NEW j \in 1 .. Len(down), OfferIsFutile(up, down, taken, j)
        PROVE  OfferIsFutile(rest, down, taken, j)
    <3>1. IsNowhere(rest, down, down[j].value)
      <4>1. IsNowhere(up, down, down[j].value)
        BY <2>2 DEF OfferIsFutile
      <4> QED BY <2>1, <4>1 DEF IsNowhere
    <3>2. ASSUME NEW i \in 1 .. Len(up), up[i].phase = "receiverHello"
          PROVE  \E k \in 1 .. Len(rest) : rest[k].phase = "receiverHello"
      <4>1. i # 1
        BY <3>2 DEF KeyMakers
      <4> QED BY <2>1, <3>2, <4>1
    <3> QED BY <2>2, <3>1, <3>2 DEF OfferIsFutile
  <2>3. ASSUME NEW i \in 1 .. Len(rest), AnswerIsFutile(up, taken, i + 1)
        PROVE  AnswerIsFutile(rest, taken, i)
    <3>1. ASSUME NEW j \in 1 .. Len(rest), rest[j].phase = "receiverHello"
          PROVE  rest[j].value # rest[i].key[2]
      <4>1. /\ j + 1 \in 1 .. Len(up) /\ rest[j] = up[j + 1]
            /\ rest[i] = up[i + 1]
        BY <2>1
      <4> QED BY <2>3, <3>1, <4>1 DEF AnswerIsFutile
    <3>2. ASSUME NEW j \in 1 .. i + 1, up[j].phase = "receiverHello"
          PROVE  j - 1 \in 1 .. i /\ rest[j - 1].phase = "receiverHello"
      <4>1. j # 1 /\ i + 1 \in 1 .. Len(up)
        BY <3>2, <2>1 DEF KeyMakers
      <4>2. j \in 1 .. Len(up) /\ j - 1 \in 1 .. i
        BY <4>1 DEF Drops
      <4> QED BY <2>1, <3>2, <4>1, <4>2
    <3> QED BY <2>1, <2>3, <3>1, <3>2 DEF AnswerIsFutile
  <2> QED BY <1>4, <2>1, <2>2, <2>3 DEF OffersAreFutile
<1> QED BY <1>1, <1>2, <1>3, <1>4

LEMMA AddsDown ==
    ASSUME NEW up, NEW down, NEW m, NEW more, Adds(down, m, more), m.phase \notin KeyMakers,
           NEW drawn
    PROVE  /\ IsNowhere(up, down, drawn) => IsNowhere(up, more, drawn)
           /\ IsOffered(up, down, drawn) => IsOffered(up, more, drawn)
           /\ \A key : IsTaken(up, down, drawn, key) => IsTaken(up, more, drawn, key)
           /\ \A taken : OffersAreFutile(up, down, taken) => OffersAreFutile(up, more, taken)
<1>0. /\ Len(down) \in Nat /\ Len(more) \in 1 .. Len(more) /\ more[Len(more)] = m
      /\ \A i \in 1 .. Len(down) : i \in 1 .. Len(more) /\ more[i] = down[i]
      /\ \A i \in 1 .. Len(more) : i \in 1 .. Len(down) \/ i = Len(more)
  BY AddSteps
<1>1. \A value : IsNowhere(up, down, value) => IsNowhere(up, more, value)
  BY <1>0 DEF IsNowhere, KeyMakers
<1>2. IsOffered(up, down, drawn) => IsOffered(up, more, drawn)
  BY <1>0 DEF IsOffered, KeyMakers
<1>3. ASSUME NEW key, IsTaken(up, down, drawn, key) PROVE IsTaken(up, more, drawn, key)
  <2>1. PICK i \in 1 .. Len(down) :
          /\ down[i].phase = "senderCertificate"
          /\ down[i].key = key /\ key = <<down[i].value, drawn, key[3]>>
          /\ \A j \in 1 .. i - 1 :
                down[j].phase = "senderCertificate" => down[j].key[2] # drawn
          /\ Free(down, i, KeyMakers)
    BY <1>3 DEF IsTaken
  <2>2. /\ i \in 1 .. Len(more) /\ more[i] = down[i]
        /\ \A j \in 1 .. i - 1 : more[j] = down[j]
    BY <1>0
  <2>3. Free(more, i, KeyMakers)
    BY <1>0, <2>1 DEF Free
  <2> QED BY <1>3, <2>1, <2>2, <2>3 DEF IsTaken
<1>4. ASSUME NEW taken, OffersAreFutile(up, down, taken)
      PROVE  OffersAreFutile(up, more, taken)
  <2>1. ASSUME NEW j \in 1 .. Len(down), OfferIsFutile(up, down, taken, j)
        PROVE  OfferIsFutile(up, more, taken, j)
    <3>1. \A i \in 1 .. j : i \in 1 .. Len(down) /\ more[i] = down[i]
      BY <1>0
    <3> QED BY <1>0, <1>1, <2>1, <3>1 DEF OfferIsFutile
  <2> QED BY <1>0, <1>4, <2>1 DEF OffersAreFutile, KeyMakers
<1> QED BY <1>1, <1>2, <1>3, <1>4

LEMMA DropsDown ==
    ASSUME NEW up, NEW down, NEW rest, Drops(down, rest), down[1].phase \notin KeyMakers, NEW drawn
    PROVE  /\ IsNowhere(up, down, drawn) => IsNowhere(up, rest, drawn)
           /\ IsOffered(up, down, drawn) => IsOffered(up, rest, drawn)
           /\ \A key : IsTaken(up, down, drawn, key) => IsTaken(up, rest, drawn, key)
           /\ \A taken : down[1].phase # "senderHello" /\ OffersAreFutile(up, down, taken)
                          => OffersAreFutile(up, rest, taken)
<1>0. /\ \A i \in 1 .. Len(rest) : i + 1 \in 1 .. Len(down) /\ rest[i] = down[i + 1]
      /\ \A i \in 1 .. Len(down) : i # 1 => i - 1 \in 1 .. Len(rest)
      /\ \A i \in 1 .. Len(down) : i # 1 => rest[i - 1] = down[i]
  BY DropSteps
<1>1. \A value : IsNowhere(up, down, value) => IsNowhere(up, rest, value)
  BY <1>0 DEF IsNowhere
<1>2. ASSUME IsOffered(up, down, drawn)
      PROVE  IsOffered(up, rest, drawn)
  <2>1. \A i \in 1 .. Len(down) : down[i].phase = "senderCertificate" => down[i].key[2] # drawn
    BY <1>2 DEF IsOffered
  <2>2. \A i \in 1 .. Len(rest) : rest[i].phase = "senderCertificate" => rest[i].key[2] # drawn
    BY <1>0, <2>1
  <2> QED BY <1>2, <2>2 DEF IsOffered
<1>3. ASSUME NEW key, IsTaken(up, down, drawn, key) PROVE IsTaken(up, rest, drawn, key)
  <2>1. PICK i \in 1 .. Len(down) :
          /\ down[i].phase = "senderCertificate"
          /\ down[i].key = key /\ key = <<down[i].value, drawn, key[3]>>
          /\ \A j \in 1 .. i - 1 :
                down[j].phase = "senderCertificate" => down[j].key[2] # drawn
          /\ Free(down, i, KeyMakers)
    BY <1>3 DEF IsTaken
  <2>2. i # 1
    BY <2>1 DEF KeyMakers
  <2>3. /\ i - 1 \in 1 .. Len(rest) /\ rest[i - 1] = down[i]
        /\ \A j \in 1 .. i - 1 - 1 : rest[j] = down[j + 1] /\ j + 1 \in 1 .. i - 1
    BY <1>0, <2>2 DEF Drops
  <2>4. Free(rest, i - 1, KeyMakers)
    BY <2>1, <2>2 DEF Drops, Free
  <2> QED BY <1>3, <2>1, <2>3, <2>4 DEF IsTaken
<1>4. ASSUME NEW taken, OffersAreFutile(up, down, taken), down[1].phase # "senderHello"
      PROVE  OffersAreFutile(up, rest, taken)
  <2>1. ASSUME NEW j \in 1 .. Len(rest), OfferIsFutile(up, down, taken, j + 1)
        PROVE  OfferIsFutile(up, rest, taken, j)
    <3>1. \A i \in 1 .. j : i + 1 \in 1 .. j + 1 /\ rest[i] = down[i + 1]
      BY <1>0
    <3>2. rest[j] = down[j + 1]
      BY <1>0
    <3>3. ASSUME NEW i \in 1 .. j + 1, down[i].phase = "senderHello"
          PROVE  i - 1 \in 1 .. j /\ rest[i - 1].phase = "senderHello"
      <4>1. i # 1 /\ i \in 1 .. Len(down)
        BY <1>4, <3>3 DEF Drops
      <4> QED BY <1>0, <3>3, <4>1
    <3> QED BY <1>1, <2>1, <3>1, <3>2, <3>3 DEF OfferIsFutile
  <2> QED BY <1>0, <1>4, <2>1 DEF OffersAreFutile
<1> QED BY <1>1, <1>2, <1>3, <1>4

-----------------------------------------------------------------------------
(* Messages that make keys.                                                *)

LEMMA FreeIsNowhere ==
    ASSUME NEW up, NEW down, NEW drawn, Free(up, 0, KeyMakers), Free(down, 0, KeyMakers)
    PROVE  IsNowhere(up, down, drawn)
<1>1. /\ \A i \in 1 .. Len(up) : up[i].phase # "receiverHello"
      /\ \A i \in 1 .. Len(down) : down[i].phase # "senderCertificate"
  BY DEF Free, KeyMakers
<1> QED BY <1>1 DEF IsNowhere

\* The subscriber answers a hello with a value nobody has seen.
LEMMA SubscriberDraws ==
    ASSUME NEW up, NEW down, NEW m, NEW more, NEW rest, Adds(up, m, more), Drops(down, rest),
           down[1].phase = "senderHello", m.phase = "receiverHello",
           \A i \in 1 .. Len(up) : up[i].phase = "receiverHello" => up[i].value # m.value,
           \A i \in 1 .. Len(up) : up[i].phase = "senderCertificate" => up[i].key[2] # m.value,
           \A i \in 1 .. Len(down) : down[i].phase = "receiverHello" => down[i].value # m.value,
           \A i \in 1 .. Len(down) : down[i].phase = "senderCertificate" => down[i].key[2] # m.value
    PROVE  /\ IsOffered(more, rest, m.value)
           /\ \A taken : OffersAreFutile(up, down, taken) => OffersAreFutile(more, rest, taken)
<1>0. /\ Len(up) \in Nat /\ Len(more) = Len(up) + 1
      /\ Len(more) \in 1 .. Len(more) /\ more[Len(more)] = m
      /\ \A i \in 1 .. Len(up) : i \in 1 .. Len(more) /\ more[i] = up[i]
      /\ \A i \in 1 .. Len(more) : i \in 1 .. Len(up) \/ i = Len(more)
  BY AddSteps
<1>1. /\ \A i \in 1 .. Len(rest) : i + 1 \in 1 .. Len(down) /\ rest[i] = down[i + 1]
      /\ \A i \in 1 .. Len(down) : i # 1 => i - 1 \in 1 .. Len(rest)
      /\ \A i \in 1 .. Len(down) : i # 1 => rest[i - 1] = down[i]
  BY DropSteps
<1>2. IsOffered(more, rest, m.value)
  <2>1. Free(more, Len(more), KeyMakers)
    BY <1>0 DEF Free
  <2>2. \A j \in 1 .. Len(more) - 1 : j \in 1 .. Len(up) /\ more[j] = up[j]
    BY <1>0
  <2>3. \A i \in 1 .. Len(rest) : rest[i].phase = "senderCertificate" => rest[i].key[2] # m.value
    BY <1>1
  <2> QED BY <1>0, <2>1, <2>2, <2>3 DEF IsOffered
<1>3. ASSUME NEW taken, OffersAreFutile(up, down, taken)
      PROVE  OffersAreFutile(more, rest, taken)
  <2>1. ASSUME NEW j \in 1 .. Len(rest), rest[j].phase = "receiverHello"
        PROVE  OfferIsFutile(more, rest, taken, j)
    <3>1. j + 1 \in 1 .. Len(down) /\ rest[j] = down[j + 1]
      BY <1>1
    <3>2. OfferIsFutile(up, down, taken, j + 1) /\ rest[j].value # m.value
      BY <1>3, <2>1, <3>1 DEF OffersAreFutile
    <3> DEFINE value == rest[j].value
    <3>3. IsNowhere(more, rest, value)
      <4>1. IsNowhere(up, down, value) /\ value # m.value
        BY <3>1, <3>2 DEF OfferIsFutile
      <4> HIDE DEF value
      <4>2. ASSUME NEW i \in 1 .. Len(more), more[i].phase = "receiverHello"
            PROVE  more[i].value # value
        BY <1>0, <4>1, <4>2 DEF IsNowhere
      <4>3. ASSUME NEW i \in 1 .. Len(rest), rest[i].phase = "senderCertificate"
            PROVE  rest[i].key[2] # value
        BY <1>1, <4>1, <4>3 DEF IsNowhere
      <4> QED BY <4>2, <4>3 DEF IsNowhere
    <3>4. \A i \in 1 .. j : i + 1 \in 1 .. j + 1 /\ rest[i] = down[i + 1]
      BY <1>1
    <3> QED BY <1>0, <3>2, <3>3, <3>4 DEF OfferIsFutile
  <2>2. ASSUME NEW i \in 1 .. Len(more), more[i].phase = "senderCertificate"
        PROVE  AnswerIsFutile(more, taken, i)
    <3>1. i \in 1 .. Len(up) /\ more[i] = up[i]
      BY <1>0, <2>2
    <3>2. AnswerIsFutile(up, taken, i) /\ up[i].key[2] # m.value
      BY <1>3, <2>2, <3>1 DEF OffersAreFutile
    <3>3. \A j \in 1 .. i : j \in 1 .. Len(up) /\ more[j] = up[j]
      BY <1>0, <3>1
    <3> QED BY <1>0, <3>1, <3>2, <3>3 DEF AnswerIsFutile
  <2> QED BY <2>1, <2>2 DEF OffersAreFutile
<1> QED BY <1>2, <1>3

\* The subscriber makes keys of what the reporter offers.
LEMMA SubscriberTakes ==
    ASSUME NEW up, NEW down, NEW m, NEW more, NEW rest, NEW taken,
           Adds(up, m, more), Drops(down, rest),
           down[1].phase = "receiverHello", m.phase = "senderCertificate",
           m.key[2] = down[1].value, OffersAreFutile(up, down, taken)
    PROVE  /\ IsNowhere(more, rest, down[1].value)
           /\ OffersAreFutile(more, rest, taken)
<1>0. /\ Len(up) \in Nat /\ Len(more) = Len(up) + 1
      /\ Len(more) \in 1 .. Len(more) /\ more[Len(more)] = m
      /\ \A i \in 1 .. Len(up) : i \in 1 .. Len(more) /\ more[i] = up[i]
      /\ \A i \in 1 .. Len(more) : i \in 1 .. Len(up) \/ i = Len(more)
  BY AddSteps
<1>1. /\ \A i \in 1 .. Len(rest) : i + 1 \in 1 .. Len(down) /\ rest[i] = down[i + 1]
      /\ 1 \in 1 .. Len(down)
  BY DropSteps
<1>2. OfferIsFutile(up, down, taken, 1)
  BY <1>1 DEF OffersAreFutile
<1>3. \A value : IsNowhere(up, down, value) => IsNowhere(more, rest, value)
  BY <1>0, <1>1 DEF IsNowhere
<1>4. ASSUME NEW j \in 1 .. Len(rest), rest[j].phase = "receiverHello"
      PROVE  OfferIsFutile(more, rest, taken, j)
  <2>1. j + 1 \in 1 .. Len(down) /\ rest[j] = down[j + 1]
    BY <1>1
  <2>2. OfferIsFutile(up, down, taken, j + 1)
    BY <1>4, <2>1 DEF OffersAreFutile
  <2>3. /\ \A i \in 1 .. j : i + 1 \in 1 .. j + 1 /\ rest[i] = down[i + 1]
        /\ \A i \in 1 .. j + 1 : i # 1 => i - 1 \in 1 .. j
        /\ \A i \in 1 .. j + 1 : i # 1 => rest[i - 1] = down[i]
    <3>1. \A i \in 1 .. j + 1 : i \in 1 .. Len(down)
      BY <2>1 DEF Drops
    <3> QED BY <1>1, <3>1, DropSteps
  <2>4. IsNowhere(more, rest, rest[j].value)
    BY <1>3, <2>1, <2>2 DEF OfferIsFutile
  <2>5. (\E i \in 1 .. j + 1 : down[i].phase = "senderHello")
          => \E i \in 1 .. j : rest[i].phase = "senderHello"
    BY <2>3
  <2> QED BY <1>0, <2>1, <2>2, <2>3, <2>4, <2>5 DEF OfferIsFutile
<1>5. ASSUME NEW i \in 1 .. Len(more), more[i].phase = "senderCertificate"
      PROVE  AnswerIsFutile(more, taken, i)
  <2>1. CASE i \in 1 .. Len(up)
    <3>1. AnswerIsFutile(up, taken, i) /\ more[i] = up[i]
      BY <1>0, <1>5, <2>1 DEF OffersAreFutile
    <3>2. \A j \in 1 .. i : j \in 1 .. Len(up) /\ more[j] = up[j]
      BY <1>0, <2>1
    <3> QED BY <1>0, <3>1, <3>2 DEF AnswerIsFutile
  <2>2. CASE i = Len(more)
    <3>1. \A j \in 1 .. Len(up) : j \in 1 .. i /\ more[j] = up[j]
      BY <1>0, <2>2
    <3>2. more[i] = m
      BY <1>0, <2>2
    <3>3. \A j \in 1 .. Len(more) :
             more[j].phase = "receiverHello" => more[j].value # down[1].value
      BY <1>0, <1>2 DEF OfferIsFutile, IsNowhere
    <3>4. \/ taken # down[1].value
          \/ \E j \in 1 .. Len(up) : up[j].phase = "receiverHello"
      BY <1>2 DEF OfferIsFutile
    <3> QED BY <3>1, <3>2, <3>3, <3>4 DEF AnswerIsFutile
  <2> QED BY <1>0, <2>1, <2>2
<1>6. IsNowhere(more, rest, down[1].value)
  BY <1>2, <1>3 DEF OfferIsFutile
<1> QED BY <1>4, <1>5, <1>6 DEF OffersAreFutile

\* The subscriber gets keys of the reporter's: those made of the value it drew
\* last, the last on their way, or useless ones.
LEMMA SubscriberIsAnswered ==
    ASSUME NEW up, NEW down, NEW rest, Drops(down, rest), down[1].phase = "senderCertificate",
           NEW drawn
    PROVE  /\ IsNowhere(up, down, drawn) =>
                  down[1].key[2] # drawn /\ IsNowhere(up, rest, drawn)
           /\ IsOffered(up, down, drawn) =>
                  down[1].key[2] # drawn /\ IsOffered(up, rest, drawn)
           /\ \A key : IsTaken(up, down, drawn, key) =>
                  \/ down[1].key[2] # drawn /\ IsTaken(up, rest, drawn, key)
                  \/ /\ down[1].key = key /\ key = <<down[1].value, drawn, key[3]>>
                     /\ Free(up, 0, KeyMakers) /\ Free(rest, 0, KeyMakers)
           /\ \A taken : OffersAreFutile(up, down, taken) => OffersAreFutile(up, rest, taken)
<1>0. /\ \A i \in 1 .. Len(rest) : i + 1 \in 1 .. Len(down) /\ rest[i] = down[i + 1]
      /\ 1 \in 1 .. Len(down)
      /\ \A i \in 1 .. Len(down) : i # 1 => i - 1 \in 1 .. Len(rest)
      /\ \A i \in 1 .. Len(down) : i # 1 => rest[i - 1] = down[i]
  BY DropSteps
<1>1. ASSUME IsNowhere(up, down, drawn)
      PROVE  down[1].key[2] # drawn /\ IsNowhere(up, rest, drawn)
  <2>1. ASSUME NEW i \in 1 .. Len(rest), rest[i].phase = "senderCertificate"
        PROVE  rest[i].key[2] # drawn
    BY <1>0, <1>1, <2>1 DEF IsNowhere
  <2> QED BY <1>0, <1>1, <2>1 DEF IsNowhere
<1>2. IsOffered(up, down, drawn) => down[1].key[2] # drawn /\ IsOffered(up, rest, drawn)
  BY <1>0 DEF IsOffered
<1>3. ASSUME NEW key, IsTaken(up, down, drawn, key)
      PROVE  \/ down[1].key[2] # drawn /\ IsTaken(up, rest, drawn, key)
             \/ /\ down[1].key = key /\ key = <<down[1].value, drawn, key[3]>>
                /\ Free(up, 0, KeyMakers) /\ Free(rest, 0, KeyMakers)
  <2>1. PICK i \in 1 .. Len(down) :
          /\ down[i].phase = "senderCertificate"
          /\ down[i].key = key /\ key = <<down[i].value, drawn, key[3]>>
          /\ \A j \in 1 .. i - 1 :
                down[j].phase = "senderCertificate" => down[j].key[2] # drawn
          /\ Free(down, i, KeyMakers)
    BY <1>3 DEF IsTaken
  <2>2. CASE i = 1
    <3>1. Free(rest, 0, KeyMakers)
      BY <2>1, <2>2, FreeDrops
    <3> QED BY <1>3, <2>1, <2>2, <3>1 DEF IsTaken
  <2>3. CASE i # 1
    <3>1. 1 \in 1 .. i - 1
      BY <2>3
    <3>2. /\ i - 1 \in 1 .. Len(rest) /\ rest[i - 1] = down[i]
          /\ \A j \in 1 .. i - 1 - 1 : rest[j] = down[j + 1] /\ j + 1 \in 1 .. i - 1
      BY <1>0, <2>3 DEF Drops
    <3>3. Free(rest, i - 1, KeyMakers)
      BY <2>1, <2>3 DEF Drops, Free
    <3> QED BY <1>3, <2>1, <3>1, <3>2, <3>3 DEF IsTaken
  <2> QED BY <2>2, <2>3
<1>4. ASSUME NEW taken, OffersAreFutile(up, down, taken)
      PROVE  OffersAreFutile(up, rest, taken)
  <2>1. ASSUME NEW j \in 1 .. Len(down), down[j].phase = "receiverHello" PROVE FALSE
    <3>1. OfferIsFutile(up, down, taken, j) /\ 1 \in 1 .. j
      BY <1>0, <1>4, <2>1 DEF OffersAreFutile
    <3> QED BY <3>1 DEF OfferIsFutile
  <2> QED BY <1>0, <1>4, <2>1 DEF OffersAreFutile
<1> QED BY <1>1, <1>2, <1>3, <1>4

\* The reporter makes keys of a value of the subscriber's.
LEMMA ReporterTakes ==
    ASSUME NEW up, NEW down, NEW m, NEW more, NEW rest, NEW drawn,
           Drops(up, rest), Adds(down, m, more),
           up[1].phase = "receiverHello", m.phase = "senderCertificate",
           m.key = <<m.value, up[1].value, m.key[3]>>
    PROVE  /\ IsNowhere(up, down, drawn) => IsNowhere(rest, more, drawn)
           /\ IsOffered(up, down, drawn) =>
                  \/ IsOffered(rest, more, drawn)
                  \/ IsTaken(rest, more, drawn, m.key)
           /\ \A key : ~IsTaken(up, down, drawn, key)
           /\ \A taken : OffersAreFutile(up, down, taken)
                             => OffersAreFutile(rest, more, up[1].value)
<1>0. /\ \A i \in 1 .. Len(rest) : i + 1 \in 1 .. Len(up) /\ rest[i] = up[i + 1]
      /\ 1 \in 1 .. Len(up)
      /\ \A i \in 1 .. Len(up) : i # 1 => i - 1 \in 1 .. Len(rest)
      /\ \A i \in 1 .. Len(up) : i # 1 => rest[i - 1] = up[i]
  BY DropSteps
<1>a. /\ Len(down) \in Nat /\ Len(more) = Len(down) + 1
      /\ Len(more) \in 1 .. Len(more) /\ more[Len(more)] = m
      /\ \A i \in 1 .. Len(down) : i \in 1 .. Len(more) /\ more[i] = down[i]
      /\ \A i \in 1 .. Len(more) : i \in 1 .. Len(down) \/ i = Len(more)
  BY AddSteps
<1>b. m.key[2] = up[1].value
  <2> DEFINE value == up[1].value
  <2>1. m.key = <<m.value, value, m.key[3]>>
    OBVIOUS
  <2> HIDE DEF value
  <2>2. m.key[2] = value
    BY <2>1
  <2> QED BY <2>2 DEF value
<1>1. ASSUME NEW value, IsNowhere(up, down, value)
      PROVE  up[1].value # value /\ IsNowhere(rest, more, value)
  <2>1. up[1].value # value
    BY <1>0, <1>1 DEF IsNowhere
  <2>2. ASSUME NEW i \in 1 .. Len(rest), rest[i].phase = "receiverHello"
        PROVE  rest[i].value # value
    BY <1>0, <1>1, <2>2 DEF IsNowhere
  <2>3. ASSUME NEW i \in 1 .. Len(more), more[i].phase = "senderCertificate"
        PROVE  more[i].key[2] # value
    BY <1>a, <1>b, <1>1, <2>1, <2>3 DEF IsNowhere
  <2> QED BY <2>1, <2>2, <2>3 DEF IsNowhere
<1>2. ASSUME IsOffered(up, down, drawn)
      PROVE  IsOffered(rest, more, drawn) \/ IsTaken(rest, more, drawn, m.key)
  <2>1. PICK i \in 1 .. Len(up) :
          /\ up[i].phase = "receiverHello" /\ up[i].value = drawn
          /\ \A j \in 1 .. i - 1 : up[j].phase = "receiverHello" => up[j].value # drawn
          /\ Free(up, i, KeyMakers)
    BY <1>2 DEF IsOffered
  <2>2. \A j \in 1 .. Len(down) :
            down[j].phase = "senderCertificate" => down[j].key[2] # drawn
    BY <1>2 DEF IsOffered
  <2>3. CASE i = 1
    <3>1. Free(rest, 0, KeyMakers)
      BY <2>1, <2>3, FreeDrops
    <3>2. Free(more, Len(more), KeyMakers)
      BY <1>a DEF Free
    <3>3. \A j \in 1 .. Len(more) - 1 : j \in 1 .. Len(down) /\ more[j] = down[j]
      BY <1>a
    <3>4. m.key = <<more[Len(more)].value, drawn, m.key[3]>>
      BY <1>a, <2>1, <2>3
    <3> QED BY <1>a, <2>2, <3>1, <3>2, <3>3, <3>4 DEF IsTaken
  <2>4. CASE i # 1
    <3>1. up[1].value # drawn
      BY <2>1, <2>4
    <3>2. /\ i - 1 \in 1 .. Len(rest) /\ rest[i - 1] = up[i]
          /\ \A j \in 1 .. i - 1 - 1 : rest[j] = up[j + 1] /\ j + 1 \in 1 .. i - 1
      BY <1>0, <2>4 DEF Drops
    <3>3. Free(rest, i - 1, KeyMakers)
      <4>1. ASSUME NEW j \in 1 .. Len(rest), j > i - 1 PROVE j + 1 \in 1 .. Len(up) /\ j + 1 > i
        BY <1>0, <4>1
      <4> QED BY <1>0, <2>1, <4>1 DEF Free
    <3>4. \A j \in 1 .. Len(more) : more[j].phase = "senderCertificate" => more[j].key[2] # drawn
      BY <1>a, <1>b, <2>2, <3>1
    <3> QED BY <2>1, <3>2, <3>3, <3>4 DEF IsOffered
  <2> QED BY <2>3, <2>4
<1>3. \A key : ~IsTaken(up, down, drawn, key)
  BY <1>0 DEF IsTaken, Free, KeyMakers
<1>4. ASSUME NEW taken, OffersAreFutile(up, down, taken)
      PROVE  OffersAreFutile(rest, more, up[1].value)
  <2>1. ASSUME NEW j \in 1 .. Len(more), more[j].phase = "receiverHello"
        PROVE  OfferIsFutile(rest, more, up[1].value, j)
    <3>1. j \in 1 .. Len(down) /\ more[j] = down[j]
      BY <1>a, <2>1
    <3>2. OfferIsFutile(up, down, taken, j)
      BY <1>4, <2>1, <3>1 DEF OffersAreFutile
    <3>3. \A i \in 1 .. j : more[i] = down[i]
      BY <1>a, <3>1
    <3>4. up[1].value # more[j].value /\ IsNowhere(rest, more, more[j].value)
      BY <1>1, <3>1, <3>2 DEF OfferIsFutile
    <3> QED BY <3>2, <3>3, <3>4 DEF OfferIsFutile
  <2>2. ASSUME NEW i \in 1 .. Len(rest), rest[i].phase = "senderCertificate"
        PROVE  AnswerIsFutile(rest, up[1].value, i)
    <3>1. i + 1 \in 1 .. Len(up) /\ rest[i] = up[i + 1]
      BY <1>0
    <3>2. AnswerIsFutile(up, taken, i + 1)
      BY <1>4, <2>2, <3>1 DEF OffersAreFutile
    <3>3. up[1].value # rest[i].key[2]
      BY <1>0, <3>1, <3>2 DEF AnswerIsFutile
    <3>4. ASSUME NEW j \in 1 .. Len(rest), rest[j].phase = "receiverHello"
          PROVE  rest[j].value # rest[i].key[2]
      <4>1. j + 1 \in 1 .. Len(up) /\ rest[j] = up[j + 1]
        BY <1>0
      <4> QED BY <3>1, <3>2, <3>4, <4>1 DEF AnswerIsFutile
    <3> QED BY <3>3, <3>4 DEF AnswerIsFutile
  <2> QED BY <2>1, <2>2 DEF OffersAreFutile
<1> QED BY <1>1, <1>2, <1>3, <1>4

\* The reporter gets keys of the subscriber's, and took another value.
LEMMA ReporterIsAnswered ==
    ASSUME NEW up, NEW down, NEW rest, Drops(up, rest), up[1].phase = "senderCertificate",
           NEW drawn, NEW taken, OffersAreFutile(up, down, taken)
    PROVE  /\ up[1].key[2] # taken
           /\ IsNowhere(up, down, drawn) => IsNowhere(rest, down, drawn)
           /\ IsOffered(up, down, drawn) => IsOffered(rest, down, drawn)
           /\ \A key : ~IsTaken(up, down, drawn, key)
           /\ ~Free(up, 0, KeyMakers)
           /\ OffersAreFutile(rest, down, taken)
<1>0. /\ \A i \in 1 .. Len(rest) : i + 1 \in 1 .. Len(up) /\ rest[i] = up[i + 1]
      /\ 1 \in 1 .. Len(up)
      /\ \A i \in 1 .. Len(up) : i # 1 => i - 1 \in 1 .. Len(rest)
      /\ \A i \in 1 .. Len(up) : i # 1 => rest[i - 1] = up[i]
  BY DropSteps
<1>1. up[1].key[2] # taken
  <2>1. AnswerIsFutile(up, taken, 1)
    BY <1>0 DEF OffersAreFutile
  <2> QED BY <2>1 DEF AnswerIsFutile
<1>2. ASSUME NEW value, IsNowhere(up, down, value)
      PROVE  IsNowhere(rest, down, value)
  <2>1. ASSUME NEW i \in 1 .. Len(rest), rest[i].phase = "receiverHello"
        PROVE  rest[i].value # value
    BY <1>0, <1>2, <2>1 DEF IsNowhere
  <2> QED BY <1>2, <2>1 DEF IsNowhere
<1>3. ASSUME IsOffered(up, down, drawn) PROVE IsOffered(rest, down, drawn)
  <2>1. PICK i \in 1 .. Len(up) :
          /\ up[i].phase = "receiverHello" /\ up[i].value = drawn
          /\ \A j \in 1 .. i - 1 : up[j].phase = "receiverHello" => up[j].value # drawn
          /\ Free(up, i, KeyMakers)
    BY <1>3 DEF IsOffered
  <2>2. i # 1
    BY <2>1
  <2>3. /\ i - 1 \in 1 .. Len(rest) /\ rest[i - 1] = up[i]
        /\ \A j \in 1 .. i - 1 - 1 : rest[j] = up[j + 1] /\ j + 1 \in 1 .. i - 1
    BY <1>0, <2>2 DEF Drops
  <2>4. Free(rest, i - 1, KeyMakers)
    BY <2>1, <2>2 DEF Drops, Free
  <2> QED BY <1>3, <2>1, <2>3, <2>4 DEF IsOffered
<1>4. ~Free(up, 0, KeyMakers)
  BY <1>0 DEF Free, KeyMakers
<1>5. \A key : ~IsTaken(up, down, drawn, key)
  BY <1>4 DEF IsTaken
<1>6. ASSUME NEW j \in 1 .. Len(down), down[j].phase = "receiverHello"
      PROVE  OfferIsFutile(rest, down, taken, j)
  <2>1. OfferIsFutile(up, down, taken, j)
    BY <1>6 DEF OffersAreFutile
  <2>2. ASSUME NEW i \in 1 .. Len(up), up[i].phase = "receiverHello"
        PROVE  \E k \in 1 .. Len(rest) : rest[k].phase = "receiverHello"
    <3>1. i # 1
      BY <2>2
    <3> QED BY <1>0, <2>2, <3>1
  <2> QED BY <1>2, <2>1, <2>2 DEF OfferIsFutile
<1>7. ASSUME NEW i \in 1 .. Len(rest), rest[i].phase = "senderCertificate"
      PROVE  AnswerIsFutile(rest, taken, i)
  <2>1. i + 1 \in 1 .. Len(up) /\ rest[i] = up[i + 1]
    BY <1>0
  <2>2. AnswerIsFutile(up, taken, i + 1)
    BY <1>7, <2>1 DEF OffersAreFutile
  <2>3. ASSUME NEW j \in 1 .. Len(rest), rest[j].phase = "receiverHello"
        PROVE  rest[j].value # rest[i].key[2]
    BY <1>0, <2>1, <2>2, <2>3 DEF AnswerIsFutile
  <2>4. ASSUME NEW j \in 1 .. i + 1, up[j].phase = "receiverHello"
        PROVE  j - 1 \in 1 .. i /\ rest[j - 1].phase = "receiverHello"
    <3>1. j # 1 /\ j \in 1 .. Len(up)
      BY <2>1, <2>4 DEF Drops
    <3> QED BY <1>0, <2>4, <3>1
  <2> QED BY <2>1, <2>2, <2>3, <2>4 DEF AnswerIsFutile
<1> QED BY <1>1, <1>2, <1>3, <1>4, <1>5, <1>6, <1>7 DEF OffersAreFutile

\* The reporter, which began a handshake, answers the subscriber's hello.
LEMMA ReporterOffers ==
    ASSUME NEW up, NEW down, NEW m, NEW more, NEW rest, Drops(up, rest), Adds(down, m, more),
           m.phase = "receiverHello",
           \A i \in 2 .. Len(up) : up[i].phase = "receiverHello" /\ up[i].value # m.value,
           Only(down, {"senderHello"}), Len(down) # 0 \/ Len(up) > 1, NEW taken
    PROVE  OffersAreFutile(rest, more, taken)
<1>0. /\ Len(rest) \in Nat /\ Len(up) = Len(rest) + 1
      /\ \A i \in 1 .. Len(rest) : i + 1 \in 2 .. Len(up) /\ rest[i] = up[i + 1]
  BY DEF Drops
<1>1. /\ Len(down) \in Nat
      /\ Len(more) = Len(down) + 1
      /\ Len(more) \in 1 .. Len(more) /\ more[Len(more)] = m
      /\ \A i \in 1 .. Len(down) : more[i] = down[i]
      /\ \A i \in 1 .. Len(more) : i \in 1 .. Len(down) \/ i = Len(more)
  BY AddSteps
<1>2. \A i \in 1 .. Len(down) : more[i].phase = "senderHello"
  BY <1>1 DEF Only
<1>3. ASSUME NEW j \in 1 .. Len(more), more[j].phase = "receiverHello"
      PROVE  OfferIsFutile(rest, more, taken, j)
  <2>1. j = Len(more) /\ more[j] = m
    BY <1>1, <1>2, <1>3
  <2>2. \A i \in 1 .. Len(more) : more[i].phase # "senderCertificate"
    BY <1>1, <1>2
  <2>3. IsNowhere(rest, more, m.value)
    <3>1. ASSUME NEW i \in 1 .. Len(rest) PROVE rest[i].value # m.value
      BY <1>0
    <3> QED BY <2>2, <3>1 DEF IsNowhere
  <2>4. CASE Len(down) # 0
    <3>1. 1 \in 1 .. Len(down) /\ 1 \in 1 .. j
      BY <1>1, <2>1, <2>4
    <3> QED BY <1>2, <2>1, <2>2, <2>3, <3>1 DEF OfferIsFutile
  <2>5. CASE Len(up) > 1
    <3>1. 1 \in 1 .. Len(rest) /\ rest[1].phase = "receiverHello"
      BY <1>0, <2>5
    <3> QED BY <2>1, <2>2, <2>3, <3>1 DEF OfferIsFutile
  <2> QED BY <2>4, <2>5
<1>4. \A i \in 1 .. Len(rest) : rest[i].phase = "receiverHello"
  BY <1>0
<1> QED BY <1>3, <1>4 DEF OffersAreFutile

\* Whether it is an offer or a hello, what opens last stays so.
LEMMA LastOpenerStays ==
    ASSUME NEW seq, NEW m, NEW more, NEW j \in 1 .. Len(seq), Free(seq, j, Openers),
           Adds(seq, m, more), m.phase \notin Openers
    PROVE  j \in 1 .. Len(more) /\ more[j] = seq[j] /\ Free(more, j, Openers)
BY AddSteps DEF Free

LEMMA LastOpenerMoves ==
    ASSUME NEW seq, NEW rest, NEW j \in 1 .. Len(seq), Free(seq, j, Openers), Drops(seq, rest)
    PROVE  \/ j = 1 /\ Free(rest, 0, Openers)
           \/ /\ j - 1 \in 1 .. Len(rest) /\ rest[j - 1] = seq[j]
              /\ Free(rest, j - 1, Openers)
<1>1. ASSUME j = 1 PROVE Free(rest, 0, Openers)
  BY <1>1, FreeDrops
<1>2. ASSUME j # 1
      PROVE  /\ j - 1 \in 1 .. Len(rest) /\ rest[j - 1] = seq[j]
             /\ Free(rest, j - 1, Openers)
  <2>1. j - 1 \in 1 .. Len(rest) /\ rest[j - 1] = seq[j]
    BY <1>2, DropSteps
  <2> QED BY <1>2, <2>1 DEF Drops, Free
<1> QED BY <1>1, <1>2

LEMMA AddsLast ==
    ASSUME NEW seq, NEW m, NEW more, Adds(seq, m, more)
    PROVE  /\ m.phase \notin Openers /\ OfferIsLast(seq) => OfferIsLast(more)
           /\ m.phase = "receiverHello" => OfferIsLast(more)
           /\ \A value : m.phase \notin Openers /\ HelloIsLast(seq, value)
                                => HelloIsLast(more, value)
           /\ \A value : m = [phase |-> "senderHello", value |-> value] => HelloIsLast(more, value)
<1>1. ASSUME m.phase \notin Openers, OfferIsLast(seq) PROVE OfferIsLast(more)
  <2>1. PICK j \in 1 .. Len(seq) : seq[j].phase = "receiverHello" /\ Free(seq, j, Openers)
    BY <1>1 DEF OfferIsLast
  <2>2. j \in 1 .. Len(more) /\ more[j] = seq[j] /\ Free(more, j, Openers)
    BY <1>1, <2>1, LastOpenerStays
  <2> QED BY <2>1, <2>2 DEF OfferIsLast
<1>2. Len(more) \in 1 .. Len(more) /\ more[Len(more)] = m /\ Free(more, Len(more), Openers)
  BY AddSteps DEF Free
<1>3. ASSUME NEW value, m.phase \notin Openers, HelloIsLast(seq, value)
      PROVE  HelloIsLast(more, value)
  <2>1. PICK j \in 1 .. Len(seq) :
          seq[j] = [phase |-> "senderHello", value |-> value] /\ Free(seq, j, Openers)
    BY <1>3 DEF HelloIsLast
  <2>2. j \in 1 .. Len(more) /\ more[j] = seq[j] /\ Free(more, j, Openers)
    BY <1>3, <2>1, LastOpenerStays
  <2> QED BY <2>1, <2>2 DEF HelloIsLast
<1> QED BY <1>1, <1>2, <1>3 DEF OfferIsLast, HelloIsLast

LEMMA DropsLast ==
    ASSUME NEW seq, NEW rest, Drops(seq, rest)
    PROVE  /\ OfferIsLast(seq) =>
                  \/ OfferIsLast(rest)
                  \/ seq[1].phase = "receiverHello" /\ Free(rest, 0, Openers)
           /\ \A value : HelloIsLast(seq, value) =>
                  \/ HelloIsLast(rest, value)
                  \/ /\ seq[1] = [phase |-> "senderHello", value |-> value]
                     /\ Free(rest, 0, Openers)
<1>1. ASSUME OfferIsLast(seq)
      PROVE  \/ OfferIsLast(rest)
             \/ seq[1].phase = "receiverHello" /\ Free(rest, 0, Openers)
  <2>1. PICK j \in 1 .. Len(seq) : seq[j].phase = "receiverHello" /\ Free(seq, j, Openers)
    BY <1>1 DEF OfferIsLast
  <2> QED BY <2>1, LastOpenerMoves DEF OfferIsLast
<1>2. ASSUME NEW value, HelloIsLast(seq, value)
      PROVE  \/ HelloIsLast(rest, value)
             \/ /\ seq[1] = [phase |-> "senderHello", value |-> value]
                /\ Free(rest, 0, Openers)
  <2>1. PICK j \in 1 .. Len(seq) :
          seq[j] = [phase |-> "senderHello", value |-> value] /\ Free(seq, j, Openers)
    BY <1>2 DEF HelloIsLast
  <2> QED BY <2>1, LastOpenerMoves DEF HelloIsLast
<1> QED BY <1>1, <1>2

LEMMA EndsStay ==
    ASSUME NEW up, NEW down, NEW key, NEW kept, EndsAreShared(up, down, key, kept)
    PROVE  /\ \A m, more : Adds(up, m, more) /\ m.phase # "receiverFinishedMessage"
                  => EndsAreShared(more, down, key, kept)
           /\ \A rest : Drops(up, rest) => EndsAreShared(rest, down, key, kept)
           /\ \A m, more : Adds(down, m, more) /\ m.phase \notin KeyMakers
                  => EndsAreShared(up, more, key, kept)
           /\ \A rest : Drops(down, rest) => EndsAreShared(up, rest, key, kept)
<1>1. ASSUME NEW m, NEW more, Adds(up, m, more), m.phase # "receiverFinishedMessage"
      PROVE  EndsAreShared(more, down, key, kept)
  <2>1. ASSUME NEW i \in 1 .. Len(more), more[i].phase = "receiverFinishedMessage"
        PROVE  /\ i \in 1 .. Len(up) /\ more[i] = up[i]
               /\ \A j \in 1 .. i - 1 : more[j] = up[j]
    BY <1>1, <2>1 DEF Adds
  <2> QED BY <2>1 DEF EndsAreShared
<1>2. ASSUME NEW rest, Drops(up, rest) PROVE EndsAreShared(rest, down, key, kept)
  <2>1. ASSUME NEW i \in 1 .. Len(rest)
        PROVE  /\ i + 1 \in 1 .. Len(up) /\ rest[i] = up[i + 1]
               /\ \A j \in 1 .. i - 1 : j + 1 \in 1 .. (i + 1) - 1 /\ rest[j] = up[j + 1]
    BY <1>2 DEF Drops
  <2> QED BY <2>1 DEF EndsAreShared
<1>3. ASSUME NEW m, NEW more, Adds(down, m, more), m.phase \notin KeyMakers
      PROVE  EndsAreShared(up, more, key, kept)
  BY <1>3, FreeAdds DEF EndsAreShared
<1>4. ASSUME NEW rest, Drops(down, rest) PROVE EndsAreShared(up, rest, key, kept)
  BY <1>4, FreeDrops DEF EndsAreShared
<1> QED BY <1>1, <1>2, <1>3, <1>4

\* No end is on its way behind or beside a message that makes keys.
LEMMA NoEndYet ==
    ASSUME NEW up, NEW down, NEW key, NEW kept, EndsAreShared(up, down, key, kept),
           Len(up) \in Nat, Len(down) \in Nat
    PROVE  /\ down # <<>> /\ down[1].phase \in KeyMakers /\ 1 \in 1 .. Len(down)
                  => Free(up, 0, {"receiverFinishedMessage"})
           /\ up[1].phase \in KeyMakers
                  => Free(up, 0, {"receiverFinishedMessage"})
<1>1. ASSUME down[1].phase \in KeyMakers, 1 \in 1 .. Len(down)
      PROVE  Free(up, 0, {"receiverFinishedMessage"})
  BY <1>1 DEF EndsAreShared, Free
<1>2. ASSUME up[1].phase \in KeyMakers PROVE Free(up, 0, {"receiverFinishedMessage"})
  <2>1. ASSUME NEW i \in 1 .. Len(up), up[i].phase = "receiverFinishedMessage" PROVE FALSE
    <3>1. i # 1
      BY <1>2, <2>1 DEF KeyMakers
    <3>2. 1 \in 1 .. i - 1
      BY <3>1
    <3> QED BY <1>2, <2>1, <3>2 DEF EndsAreShared
  <2> QED BY <2>1 DEF Free
<1> QED BY <1>1, <1>2

LEMMA FreeEnds ==
    ASSUME NEW up, NEW down, NEW key, NEW kept, Free(up, 0, {"receiverFinishedMessage"})
    PROVE  EndsAreShared(up, down, key, kept)
BY DEF Free, EndsAreShared

-----------------------------------------------------------------------------
(* The steps of the sides.                                                 *)

LEMMA BothSides ==
    /\ Sides = {Reporter, Subscriber} /\ Reporter # Subscriber
    /\ Peer(Reporter) = Subscriber /\ Peer(Subscriber) = Reporter
BY DEF Sides, Reporter, Subscriber, Peer

LEMMA DropLinks ==
    ASSUME TypeOK, NEW s \in Sides, link[s] # <<>>, Drop(s)
    PROVE  Drops(link[s], link'[s]) /\ link'[Peer(s)] = link[Peer(s)]
BY DropEffect, TailDrops DEF TypeOK

LEMMA PostLinks ==
    ASSUME TypeOK, NEW s \in Sides, NEW m \in Messages, Post(s, m)
    PROVE  Adds(link[Peer(s)], m, link'[Peer(s)]) /\ link'[s] = link[s]
<1>1. Peer(s) \in Sides /\ link[Peer(s)] \in Seq(Messages)
  BY PeerIsOther DEF TypeOK
<1>2. link'[s] = link[s] /\ link'[Peer(s)] = Append(link[Peer(s)], m)
  BY PostEffect
<1> QED BY <1>1, <1>2, AppendAdds

LEMMA AnswerLinks ==
    ASSUME TypeOK, NEW s \in Sides, link[s] # <<>>, NEW m \in Messages, Answer(s, m)
    PROVE  Drops(link[s], link'[s]) /\ Adds(link[Peer(s)], m, link'[Peer(s)])
<1>1. /\ Peer(s) \in Sides /\ link[Peer(s)] \in Seq(Messages) /\ link[s] \in Seq(Messages)
  BY PeerIsOther DEF TypeOK
<1>2. link'[s] = Tail(link[s]) /\ link'[Peer(s)] = Append(link[Peer(s)], m)
  BY AnswerEffect
<1> QED BY <1>1, <1>2, TailDrops, AppendAdds

\* A received message is the first of those on their way.
LEMMA FirstReceived ==
    ASSUME TypeOK, NEW s \in Sides, NEW phase, Receive(s, phase)
    PROVE  /\ link[s] # <<>> /\ link[s][1] \in Messages /\ link[s][1].phase = phase
           /\ Len(link[s]) \in Nat /\ 1 \in 1 .. Len(link[s])
           /\ \A phases : Free(link[s], 0, phases) => phase \notin phases
           /\ \A phases : Only(link[s], phases) => phase \in phases
<1>1. /\ link[s] # <<>> /\ link[s][1] \in Messages /\ link[s][1].phase = phase
      /\ Len(link[s]) \in Nat \ {0}
  BY Received, HeadOfLink
<1> QED BY <1>1 DEF Free, Only

LEMMA LinkTypes ==
    ASSUME TypeOK, TypeOK'
    PROVE  \A s \in Sides :
              /\ Len(link[s]) \in Nat /\ (link[s] = <<>> <=> Len(link[s]) = 0)
              /\ Len(link'[s]) \in Nat /\ (link'[s] = <<>> <=> Len(link'[s]) = 0)
<1>1. \A s \in Sides : link[s] \in Seq(Messages) /\ link'[s] \in Seq(Messages)
  BY DEF TypeOK
<1> QED BY <1>1, EmptySeq

\* Where a handshake may be when a message of a phase is received.
LEMMA PhaseOfWays ==
    ASSUME TypeOK, Ways, NEW s \in Sides, NEW phase, Receive(s, phase)
    PROVE  /\ phase = "senderHello" =>
                  \/ Alone /\ Calling(Peer(s))
                  \/ Crossing
                  \/ s = Subscriber /\ (Crossed \/ Subscribing)
           /\ phase = "receiverHello" =>
                  (Alone /\ Heard(s)) \/ Crossed \/ (Subscribing /\ BothOpen)
           /\ phase = "senderCertificate" =>
                  (Alone /\ Proposing(Peer(s))) \/ Crossed \/ (Subscribing /\ BothOpen)
           /\ phase = "receiverFinishedMessage" =>
                  (Alone /\ Ending(s)) \/ (s = Reporter /\ Subscribing /\ BothOpen)
           /\ phase \in Settled => (Alone /\ Agreed) \/ (Subscribing /\ BothOpen)
<1>1. /\ link[s] # <<>> /\ link[s][1].phase = phase
      /\ Len(link[s]) \in Nat /\ 1 \in 1 .. Len(link[s])
      /\ \A phases : Free(link[s], 0, phases) => phase \notin phases
      /\ \A phases : Only(link[s], phases) => phase \in phases
  BY FirstReceived
<1>2. s = Reporter \/ s = Subscriber
  BY BothSides
<1>3. ~Quiet
  BY <1>1 DEF Quiet
<1>4. ASSUME Alone
      PROVE  /\ phase = "senderHello" => Calling(Peer(s))
             /\ phase = "receiverHello" => Heard(s)
             /\ phase = "senderCertificate" => Proposing(Peer(s))
             /\ phase = "receiverFinishedMessage" => Ending(s)
             /\ phase \in Settled => Agreed
  <2>1. ~GivenUp
    BY <1>1 DEF GivenUp
  <2>2. CASE Agreed
    <3>1. phase \in Settled
      BY <1>1, <2>2 DEF Agreed, AllSettled
    <3> QED BY <2>2, <3>1 DEF Settled
  <2>3. ASSUME NEW t \in Sides, Calling(t) PROVE phase = "senderHello" /\ Calling(Peer(s))
    BY <1>1, <2>3, PeerIsOther DEF Calling
  <2>4. ASSUME NEW t \in Sides, Heard(t) PROVE phase = "receiverHello" /\ Heard(s)
    BY <1>1, <2>4, PeerIsOther DEF Heard
  <2>5. ASSUME NEW t \in Sides, Proposing(t)
        PROVE  phase = "senderCertificate" /\ Proposing(Peer(s))
    BY <1>1, <2>5, PeerIsOther DEF Proposing
  <2>6. ASSUME NEW t \in Sides, Ending(t) PROVE phase = "receiverFinishedMessage" /\ Ending(s)
    BY <1>1, <2>6, PeerIsOther DEF Ending
  <2> QED BY <1>4, <2>1, <2>2, <2>3, <2>4, <2>5, <2>6 DEF Alone, Settled
<1>5. ASSUME Crossing PROVE phase = "senderHello"
  <2>1. CASE s = Reporter
    BY <1>1, <1>5, <2>1 DEF Crossing
  <2>2. CASE s = Subscriber
    BY <1>1, <1>5, <2>2 DEF Crossing
  <2> QED BY <1>2, <2>1, <2>2
<1>6. ASSUME Crossed
      PROVE  phase \in KeyMakers \/ (s = Subscriber /\ phase = "senderHello")
  <2>0. /\ Only(link[Reporter], KeyMakers)
        /\ Only(link[Subscriber], KeyMakers \union {"senderHello"})
    BY <1>6 DEF Crossed
  <2>1. CASE s = Reporter
    BY <1>1, <2>0, <2>1 DEF Only, KeyMakers
  <2>2. CASE s = Subscriber
    BY <1>1, <2>0, <2>2 DEF Only, KeyMakers
  <2> QED BY <1>2, <2>1, <2>2
<1>7. ASSUME Subscribing
      PROVE  /\ phase = "senderHello" => s = Subscriber
             /\ phase = "receiverFinishedMessage" => s = Reporter
             /\ phase # "senderHello" => BothOpen
  <2>1. CASE s = Reporter
    <3>1. chat[Subscriber].open /\ chat[Reporter].open
      BY <1>1, <1>7, <2>1 DEF Subscribing
    <3>2. phase # "senderHello"
      BY <1>1, <1>7, <2>1 DEF Subscribing
    <3> QED BY <2>1, <3>1, <3>2, BothSides DEF BothOpen
  <2>2. CASE s = Subscriber
    <3>1. phase # "receiverFinishedMessage"
      BY <1>1, <1>7, <2>2 DEF Subscribing
    <3>2. phase # "senderHello" => chat[Subscriber].open /\ chat[Reporter].open
      BY <1>1, <1>7, <2>2 DEF Subscribing
    <3> QED BY <2>2, <3>1, <3>2, BothSides DEF BothOpen
  <2> QED BY <1>2, <2>1, <2>2
<1>8. KeyMakers = {"receiverHello", "senderCertificate"}
  BY DEF KeyMakers
<1>9. CASE Alone
  BY <1>4, <1>9, Zenon
<1>10. CASE Crossing
  BY <1>5, <1>10 DEF Settled
<1>11. CASE Crossed
  BY <1>6, <1>8, <1>11 DEF Settled
<1>12. CASE Subscribing
  BY <1>7, <1>12 DEF Settled
<1> QED BY <1>3, <1>9, <1>10, <1>11, <1>12 DEF Ways

-----------------------------------------------------------------------------
(* What the handlers change, field by field.                               *)

\* The side that acts has new chat keys, the other one the same.
LEMMA ChatChanges ==
    ASSUME TypeOK, NEW s \in Sides, NEW c, chat' = [chat EXCEPT ![s] = c]
    PROVE  chat'[s] = c /\ chat'[Peer(s)] = chat[Peer(s)]
BY PeerIsOther DEF TypeOK

LEMMA SenderHelloFields ==
    ASSUME TypeOK, NEW s \in Sides, SenderHello(s)
    PROVE  LET m == [phase |-> "receiverHello", value |-> fresh + 1]
           IN  /\ Receive(s, "senderHello") /\ m \in Messages
               /\ Drops(link[s], link'[s]) /\ Adds(link[Peer(s)], m, link'[Peer(s)])
               /\ chat'[Peer(s)] = chat[Peer(s)]
               /\ chat'[s].open /\ chat'[s].to = fresh + 1 /\ chat'[s].from = link[s][1].value
               /\ chat[s].open => /\ chat'[s].key = chat[s].key /\ chat'[s].cause = chat[s].cause
                                  /\ chat'[s].authenticated = chat[s].authenticated
               /\ ~chat[s].open => /\ ~chat'[s].authenticated
                                   /\ chat'[s].cause.kind = "handshake"
               /\ fresh' = fresh + 1 /\ ("raced" \in odd' <=> "raced" \in odd)
               /\ UNCHANGED <<sent, arrived, subscription, memory, stored, update>>
<1> DEFINE v      == link[s][1].value
           cause  == [kind |-> "handshake"]
           answer == [phase |-> "receiverHello", value |-> fresh + 1]
<1>0. Receive(s, "senderHello")
  BY DEF SenderHello
<1>1. link[s] # <<>> /\ v \in Nat /\ Head(link[s]) = link[s][1]
  BY <1>0, Received, MessageFields
<1>2. /\ chat' = [chat EXCEPT ![s] = [Opened(s) EXCEPT !.from = v, !.to = fresh + 1]]
      /\ fresh' = fresh + 1 /\ Answer(s, answer) /\ odd' \in {odd, odd \union {"crossed"}}
      /\ UNCHANGED <<sent, arrived, subscription, memory, stored, update>>
  BY <1>1 DEF SenderHello, keys
<1>3. answer \in Messages /\ cause \in Causes
  BY SideTypes DEF Messages, Causes
<1>4. Drops(link[s], link'[s]) /\ Adds(link[Peer(s)], answer, link'[Peer(s)])
  BY <1>1, <1>2, <1>3, AnswerLinks
<1>5. /\ chat'[s] = [Opened(s) EXCEPT !.from = v, !.to = fresh + 1]
      /\ chat'[Peer(s)] = chat[Peer(s)]
  BY <1>2, ChatChanges
<1>6. /\ Opened(s) \in Chats /\ Opened(s).open
      /\ chat[s].open => Opened(s) = chat[s]
      /\ ~chat[s].open => ~Opened(s).authenticated /\ Opened(s).cause = cause
  BY <1>3, NewChatFits, SideTypes DEF Opened
<1> HIDE DEF v, answer
<1>7. /\ chat'[s].open = Opened(s).open /\ chat'[s].to = fresh + 1 /\ chat'[s].from = v
      /\ chat'[s].key = Opened(s).key /\ chat'[s].cause = Opened(s).cause
      /\ chat'[s].authenticated = Opened(s).authenticated
  BY <1>5, <1>6 DEF Chats
<1>8. chat[s].open => /\ chat'[s].key = chat[s].key /\ chat'[s].cause = chat[s].cause
                      /\ chat'[s].authenticated = chat[s].authenticated
  BY <1>6, <1>7
<1>9. ~chat[s].open => ~chat'[s].authenticated /\ chat'[s].cause.kind = "handshake"
  BY <1>6, <1>7
<1>10. "raced" \in odd' <=> "raced" \in odd
  BY <1>2
<1>11. chat'[s].open /\ chat'[s].to = fresh + 1 /\ chat'[s].from = v
  BY <1>6, <1>7
<1> QED BY <1>0, <1>2, <1>3, <1>4, <1>5, <1>8, <1>9, <1>10, <1>11 DEF v, answer

LEMMA ReceiverHelloFields ==
    ASSUME TypeOK, NEW s \in Sides, ReceiverHello(s)
    PROVE  LET v == link[s][1].value
               m == [phase |-> "senderCertificate", value |-> fresh + 1,
                     key |-> <<fresh + 1, v, chat[s].from>>]
           IN  /\ Receive(s, "receiverHello") /\ m \in Messages /\ v \in Nat
               /\ Drops(link[s], link'[s]) /\ Adds(link[Peer(s)], m, link'[Peer(s)])
               /\ chat'[Peer(s)] = chat[Peer(s)]
               /\ chat'[s].to = v /\ chat'[s].key = m.key
               /\ chat'[s].open = chat[s].open /\ chat'[s].from = chat[s].from
               /\ chat'[s].cause = chat[s].cause
               /\ chat'[s].authenticated = chat[s].authenticated
               /\ fresh' = fresh + 1
               /\ UNCHANGED <<sent, arrived, subscription, memory, stored, update, odd>>
<1> DEFINE v == link[s][1].value
           k == <<fresh + 1, v, chat[s].from>>
           m == [phase |-> "senderCertificate", value |-> fresh + 1, key |-> k]
<1>1. /\ Receive(s, "receiverHello") /\ v \in Nat /\ k \in Keys
      /\ chat' = [chat EXCEPT ![s] = [chat[s] EXCEPT !.to = v, !.key = k]]
      /\ fresh' = fresh + 1 /\ Answer(s, m) /\ m \in Messages
      /\ UNCHANGED <<sent, arrived, subscription, memory, stored, update, odd>>
  BY ReceiverHelloEffect
<1>2. Drops(link[s], link'[s]) /\ Adds(link[Peer(s)], m, link'[Peer(s)])
  BY <1>1, AnswerLinks DEF Receive
<1>3. m.key = k
  OBVIOUS
<1> HIDE DEF v, k, m
<1>4. chat'[s] = [chat[s] EXCEPT !.to = v, !.key = k] /\ chat'[Peer(s)] = chat[Peer(s)]
  BY <1>1, ChatChanges
<1>5. chat[s] \in Chats
  BY SideTypes
<1>6. /\ chat'[s].to = v /\ chat'[s].key = k
      /\ chat'[s].open = chat[s].open /\ chat'[s].from = chat[s].from
      /\ chat'[s].cause = chat[s].cause /\ chat'[s].authenticated = chat[s].authenticated
  BY <1>4, <1>5 DEF Chats
<1>7. m = [phase |-> "senderCertificate", value |-> fresh + 1,
           key |-> <<fresh + 1, v, chat[s].from>>]
  BY DEF m, k
<1> QED BY <1>1, <1>2, <1>3, <1>4, <1>6, <1>7 DEF v

LEMMA SenderCertificateFields ==
    ASSUME TypeOK, NEW s \in Sides, SenderCertificate(s)
    PROVE  LET m   == link[s][1]
               key == <<m.value, chat[s].to, chat[s].from>>
               end == [phase |-> "receiverFinishedMessage", key |-> key]
           IN  /\ Receive(s, "senderCertificate") /\ end \in Messages
               /\ Drops(link[s], link'[s])
               /\ \/ /\ key = m.key /\ Adds(link[Peer(s)], end, link'[Peer(s)])
                     /\ chat'[s].authenticated
                  \/ /\ key # m.key /\ link'[Peer(s)] = link[Peer(s)]
                     /\ chat'[s].authenticated = chat[s].authenticated
               /\ chat'[Peer(s)] = chat[Peer(s)]
               /\ chat'[s].key = key /\ chat'[s].open = chat[s].open
               /\ chat'[s].from = chat[s].from /\ chat'[s].to = chat[s].to
               /\ chat'[s].cause = chat[s].cause
               /\ UNCHANGED <<fresh, sent, arrived, subscription, memory, stored, update, odd>>
<1> DEFINE m   == link[s][1]
           k   == <<m.value, chat[s].to, chat[s].from>>
           end == [phase |-> "receiverFinishedMessage", key |-> k]
<1>1. /\ Receive(s, "senderCertificate") /\ k \in Keys /\ end \in Messages
      /\ \/ /\ k = m.key /\ Answer(s, end)
            /\ chat' = [chat EXCEPT ![s] = [chat[s] EXCEPT !.key = k, !.authenticated = TRUE]]
         \/ /\ k # m.key /\ Drop(s)
            /\ chat' = [chat EXCEPT ![s] = [chat[s] EXCEPT !.key = k]]
      /\ UNCHANGED <<fresh, sent, arrived, subscription, memory, stored, update, odd>>
  BY SenderCertificateEffect
<1>2. link[s] # <<>> /\ chat[s] \in Chats
  BY <1>1, SideTypes DEF Receive
<1> HIDE DEF m, k, end
<1>3. CASE /\ k = m.key /\ Answer(s, end)
           /\ chat' = [chat EXCEPT ![s] = [chat[s] EXCEPT !.key = k, !.authenticated = TRUE]]
  <2>1. Drops(link[s], link'[s]) /\ Adds(link[Peer(s)], end, link'[Peer(s)])
    BY <1>1, <1>2, <1>3, AnswerLinks
  <2>2. /\ chat'[s] = [chat[s] EXCEPT !.key = k, !.authenticated = TRUE]
        /\ chat'[Peer(s)] = chat[Peer(s)]
    BY <1>3, ChatChanges
  <2>3. /\ chat'[s].key = k /\ chat'[s].open = chat[s].open /\ chat'[s].authenticated
        /\ chat'[s].from = chat[s].from /\ chat'[s].to = chat[s].to
        /\ chat'[s].cause = chat[s].cause
    BY <1>2, <2>2 DEF Chats
  <2> QED BY <1>1, <1>3, <2>1, <2>2, <2>3 DEF m, k, end
<1>4. CASE /\ k # m.key /\ Drop(s)
           /\ chat' = [chat EXCEPT ![s] = [chat[s] EXCEPT !.key = k]]
  <2>1. Drops(link[s], link'[s]) /\ link'[Peer(s)] = link[Peer(s)]
    BY <1>2, <1>4, DropLinks
  <2>2. /\ chat'[s] = [chat[s] EXCEPT !.key = k] /\ chat'[Peer(s)] = chat[Peer(s)]
    BY <1>4, ChatChanges
  <2>3. /\ chat'[s].key = k /\ chat'[s].open = chat[s].open
        /\ chat'[s].authenticated = chat[s].authenticated
        /\ chat'[s].from = chat[s].from /\ chat'[s].to = chat[s].to
        /\ chat'[s].cause = chat[s].cause
    BY <1>2, <2>2 DEF Chats
  <2> QED BY <1>1, <1>4, <2>1, <2>2, <2>3 DEF m, k, end
<1> QED BY <1>1, <1>3, <1>4

-----------------------------------------------------------------------------
(* The handlers keep to the ways.                                          *)

LEMMA DrawnBefore ==
    ASSUME TypeOK, ValuesAreDrawn, NEW s \in Sides, NEW i \in 1 .. Len(link[s])
    PROVE  /\ link[s][i].phase = "receiverHello" => link[s][i].value # fresh + 1
           /\ link[s][i].phase = "senderCertificate" => link[s][i].key[2] # fresh + 1
<1>1. /\ link[s][i].phase = "receiverHello" => link[s][i].value <= fresh
      /\ link[s][i].phase = "senderCertificate" => link[s][i].key[2] \in 0 .. fresh
  BY DEF ValuesAreDrawn, IsDrawn
<1>2. fresh \in Nat /\ link[s][i] \in Messages
  BY DEF TypeOK
<1>3. link[s][i].phase = "receiverHello" => link[s][i].value \in Nat
  BY <1>2, MessageFields
<1> QED BY <1>1, <1>2, <1>3

LEMMA SenderHelloWays ==
    ASSUME TypeOK, TypeOK', ValuesAreDrawn, Ways, HasTheKey => HasTheKey',
           NEW s \in Sides, SenderHello(s)
    PROVE  Ways'
<1> DEFINE p == Peer(s)
           m == [phase |-> "receiverHello", value |-> fresh + 1]
<1>1. /\ Receive(s, "senderHello") /\ m \in Messages
      /\ Drops(link[s], link'[s]) /\ Adds(link[p], m, link'[p])
      /\ chat'[p] = chat[p] /\ chat'[s].open /\ chat'[s].to = fresh + 1
      /\ chat'[s].from = link[s][1].value
      /\ chat[s].open => /\ chat'[s].key = chat[s].key /\ chat'[s].cause = chat[s].cause
                         /\ chat'[s].authenticated = chat[s].authenticated
      /\ ~chat[s].open => ~chat'[s].authenticated /\ chat'[s].cause.kind = "handshake"
      /\ fresh' = fresh + 1
  BY SenderHelloFields
<1>2. /\ p \in Sides /\ p # s /\ Peer(p) = s /\ \A t \in Sides : t = s \/ t = p
      /\ s = Reporter \/ s = Subscriber
  BY PeerIsOther, BothSides
<1>3. link[s] # <<>> /\ link[s][1].phase = "senderHello" /\ 1 \in 1 .. Len(link[s])
  BY <1>1, FirstReceived
<1>4. m.phase = "receiverHello" /\ m.value = fresh + 1
  OBVIOUS
<1>5. /\ Len(link[s]) \in Nat /\ Len(link[p]) \in Nat
      /\ link[p] = <<>> <=> Len(link[p]) = 0
      /\ link'[s] = <<>> <=> Len(link'[s]) = 0
      /\ link'[p] = <<>> <=> Len(link'[p]) = 0
      /\ Len(link[s]) = Len(link'[s]) + 1 /\ Len(link'[p]) = Len(link[p]) + 1
      /\ \A i \in 1 .. Len(link'[s]) : i + 1 \in 2 .. Len(link[s]) /\ link'[s][i] = link[s][i + 1]
      /\ \A i \in 1 .. Len(link[p]) : link'[p][i] = link[p][i]
      /\ link'[p][Len(link[p]) + 1] = m
  BY <1>1, <1>2, LinkTypes DEF Drops, Adds
<1> HIDE DEF p, m
<1>6. CASE Alone /\ Calling(p)
  <2>1. BothOpen' /\ NobodyIsSure'
    BY <1>1, <1>2, <1>6 DEF Calling, BothOpen, NobodyIsSure
  <2>2. Heard(p)'
    BY <1>2, <1>4, <1>5, <1>6, <2>1 DEF Calling, Heard
  <2>3. chat'[Reporter].cause.kind # "subscription"
    <3>1. ~chat[s].open /\ chat[p].open
      BY <1>2, <1>6 DEF Calling
    <3>2. chat[Reporter].open => chat[Reporter].cause.kind # "subscription"
      BY <1>6 DEF Alone
    <3> QED BY <1>1, <1>2, <3>1, <3>2, BothSides
  <2> QED BY <1>2, <2>2, <2>3 DEF Alone, Ways
<1>7. CASE Crossing /\ s = Reporter
  <2>0. p = Subscriber /\ BothOpen /\ NobodyIsSure
    BY <1>2, <1>7, BothSides DEF Crossing
  <2>1. BothOpen' /\ NobodyIsSure'
    BY <1>1, <1>2, <2>0 DEF BothOpen, NobodyIsSure
  <2>2. /\ \A i \in 2 .. Len(link[s]) : link[s][i].phase = "receiverHello"
        /\ Only(link[p], {"senderHello"}) /\ (link[p] # <<>> \/ Len(link[s]) > 1)
        /\ \/ IsNowhere(link[s], link[p], chat[p].to)
           \/ IsOffered(link[s], link[p], chat[p].to)
    BY <1>7, <2>0 DEF Crossing
  <2>3. \A i \in 2 .. Len(link[s]) : i \in 1 .. Len(link[s]) /\ link[s][i].value # m.value
    BY <1>4, <1>5, <2>2, DrawnBefore
  <2>4. OffersAreFutile(link'[s], link'[p], fresh + 1)
    BY <1>1, <1>4, <1>5, <2>2, <2>3, ReporterOffers
  <2>5. /\ IsNowhere(link'[s], link[p], chat[p].to) \/ IsOffered(link'[s], link[p], chat[p].to)
    BY <1>1, <1>3, <2>2, DropsUp DEF KeyMakers
  <2>6. Only(link'[p], {"senderHello", "receiverHello"})
    BY <1>1, <1>4, <2>2, AddSteps DEF Only
  <2>7. /\ Only(link'[s], KeyMakers) /\ Only(link'[p], KeyMakers \union {"senderHello"})
    <3>1. ASSUME NEW i \in 1 .. Len(link'[s]) PROVE link'[s][i].phase = "receiverHello"
      <4>1. i + 1 \in 2 .. Len(link[s]) /\ link'[s][i] = link[s][i + 1]
        BY <1>5
      <4> QED BY <2>2, <4>1
    <3> QED BY <2>6, <3>1 DEF Only, KeyMakers
  <2>8. /\ IsNowhere(link'[s], link'[p], chat[p].to) \/ IsOffered(link'[s], link'[p], chat[p].to)
        /\ OfferIsLast(link'[p])
    <3>1. OfferIsLast(link'[p])
      BY <1>1, <1>4, AddsLast
    <3>2. \A i \in 1 .. Len(link'[p]) : link'[p][i].phase # "senderCertificate"
      BY <2>6 DEF Only
    <3> QED BY <2>5, <3>1, <3>2 DEF IsNowhere, IsOffered
  <2>9. Crossed'
    BY <1>1, <1>2, <1>7, <2>0, <2>1, <2>4, <2>7, <2>8 DEF Crossed, Rounds, IsSomewhere
  <2> QED BY <2>9 DEF Ways
<1>8. s = Subscriber =>
        /\ IsOffered(link'[p], link'[s], fresh + 1)
        /\ \A taken : OffersAreFutile(link[p], link[s], taken)
                          => OffersAreFutile(link'[p], link'[s], taken)
  BY <1>1, <1>2, <1>3, <1>4, DrawnBefore, SubscriberDraws
<1>9. CASE Crossing /\ s = Subscriber
  <2>0. p = Reporter /\ BothOpen /\ NobodyIsSure
    BY <1>2, <1>9, BothSides DEF Crossing
  <2>1. BothOpen' /\ NobodyIsSure'
    BY <1>1, <1>2, <2>0 DEF BothOpen, NobodyIsSure
  <2>2. /\ link[p] # <<>> /\ link[p][1].phase = "senderHello"
        /\ \A i \in 2 .. Len(link[p]) : link[p][i].phase = "receiverHello"
        /\ Only(link[s], {"senderHello"})
    BY <1>9, <2>0 DEF Crossing
  <2>3. Only(link'[s], {"senderHello"})
    BY <1>1, <2>2, OnlyDrops
  <2>4. /\ link'[p] # <<>> /\ link'[p][1].phase = "senderHello" /\ Len(link'[p]) > 1
        /\ \A i \in 2 .. Len(link'[p]) : link'[p][i].phase = "receiverHello"
    <3>1. link'[p] # <<>> /\ link'[p][1] = link[p][1] /\ Len(link'[p]) > 1
      BY <1>5, <2>2
    <3>2. ASSUME NEW i \in 2 .. Len(link'[p]) PROVE link'[p][i].phase = "receiverHello"
      <4>1. CASE i = Len(link[p]) + 1
        BY <1>4, <1>5, <4>1
      <4>2. CASE i # Len(link[p]) + 1
        <5>1. i \in 2 .. Len(link[p]) /\ link'[p][i] = link[p][i]
          BY <1>5, <4>2
        <5> QED BY <2>2, <5>1
      <4> QED BY <4>1, <4>2
    <3> QED BY <2>2, <3>1, <3>2
  <2>5. Crossing'
    BY <1>1, <1>8, <1>9, <2>0, <2>1, <2>3, <2>4 DEF Crossing
  <2> QED BY <2>5 DEF Ways
<1>10. CASE Crossed /\ s = Subscriber
  <2>0. p = Reporter /\ BothOpen /\ NobodyIsSure
    BY <1>2, <1>10, BothSides DEF Crossed
  <2>1. BothOpen' /\ NobodyIsSure'
    BY <1>1, <1>2, <2>0 DEF BothOpen, NobodyIsSure
  <2>2. /\ Only(link[p], KeyMakers) /\ Only(link[s], KeyMakers \union {"senderHello"})
        /\ OffersAreFutile(link[p], link[s], chat[p].to)
        /\ OfferIsLast(link[s]) \/ Free(link[s], 0, Openers)
    BY <1>10, <2>0 DEF Crossed, Rounds
  <2>3. Only(link'[p], KeyMakers) /\ Only(link'[s], KeyMakers \union {"senderHello"})
    BY <1>1, <1>4, <2>2, OnlyDrops, OnlyAdds DEF KeyMakers
  <2>4. OfferIsLast(link'[s])
    <3>1. ~Free(link[s], 0, Openers)
      BY <1>3 DEF Free, Openers
    <3> QED BY <1>1, <1>3, <2>2, <3>1, DropsLast
  <2>5. Rounds'
    BY <1>1, <1>8, <1>10, <2>0, <2>2 DEF Rounds, IsSomewhere
  <2>6. Crossed'
    BY <1>10, <2>0, <2>1, <2>3, <2>4, <2>5 DEF Crossed
  <2> QED BY <2>6 DEF Ways
<1>11. CASE Subscribing /\ s = Subscriber
  <2>0. p = Reporter
    BY <1>2, <1>11, BothSides
  <2>1. /\ chat[p].open /\ chat[p].cause.kind = "subscription"
        /\ ~chat[s].open => /\ NobodyIsSure /\ link[p] = <<>> /\ Only(link[s], {"senderHello"})
        /\ Free(link[p], 0, {"senderHello"}) /\ Free(link[s], 0, {"receiverFinishedMessage"})
        /\ OffersAreFutile(link[p], link[s], chat[p].to)
        /\ HelloIsLast(link[s], chat[p].from) \/ IsCurrent
        /\ EndsAreShared(link[p], link[s], chat[p].key, chat[s].key)
        /\ chat[p].authenticated => HasTheKey
    BY <1>11, <2>0 DEF Subscribing, Rounds
  <2>2. /\ Free(link'[p], 0, {"senderHello"}) /\ Free(link'[s], 0, {"receiverFinishedMessage"})
    BY <1>1, <1>4, <2>1, FreeDrops, FreeAdds
  <2>3. Rounds'
    BY <1>1, <1>8, <1>11, <2>0, <2>1 DEF Rounds, IsSomewhere
  <2>4. (HelloIsLast(link[Subscriber], chat[Reporter].from) \/ IsCurrent)'
    <3>1. ~IsCurrent
      BY <1>3, <1>11 DEF IsCurrent, Free, Openers
    <3>2. CASE HelloIsLast(link'[s], chat[p].from)
      BY <1>1, <1>11, <2>0, <3>2
    <3>3. CASE /\ link[s][1] = [phase |-> "senderHello", value |-> chat[p].from]
               /\ Free(link'[s], 0, Openers)
      <4>1. chat'[s].from = chat'[p].from
        BY <1>1, <3>3
      <4> QED BY <1>1, <1>8, <1>11, <2>0, <3>3, <4>1 DEF IsCurrent, IsOnCourse
    <3> QED BY <1>1, <2>1, <3>1, <3>2, <3>3, DropsLast
  <2>5. EndsAreShared(link[Reporter], link[Subscriber], chat[Reporter].key, chat[Subscriber].key)'
    <3>1. CASE chat[s].open
      <4>1. EndsAreShared(link[p], link'[s], chat[p].key, chat[s].key)
        BY <1>1, <2>1, EndsStay
      <4>2. EndsAreShared(link'[p], link'[s], chat[p].key, chat[s].key)
        BY <1>1, <1>4, <4>1, EndsStay
      <4> QED BY <1>1, <1>11, <2>0, <3>1, <4>2
    <3>2. CASE ~chat[s].open
      <4>1. Free(link'[p], 0, {"receiverFinishedMessage"})
        BY <1>4, <1>5, <2>1, <3>2 DEF Free
      <4> QED BY <1>11, <2>0, <4>1, FreeEnds
    <3> QED BY <3>1, <3>2
  <2>6. Subscribing'
    BY <1>1, <1>11, <2>0, <2>1, <2>2, <2>3, <2>4, <2>5 DEF Subscribing
  <2> QED BY <2>6 DEF Ways
<1> QED BY <1>1, <1>2, <1>6, <1>7, <1>9, <1>10, <1>11, PhaseOfWays DEF p

LEMMA ReceiverHelloWays ==
    ASSUME TypeOK, TypeOK', Ways, HasTheKey => HasTheKey', NEW s \in Sides, ReceiverHello(s)
    PROVE  Ways'
<1> DEFINE p == Peer(s)
           v == link[s][1].value
           k == <<fresh + 1, v, chat[s].from>>
           m == [phase |-> "senderCertificate", value |-> fresh + 1, key |-> k]
<1>1. /\ Receive(s, "receiverHello") /\ m \in Messages
      /\ Drops(link[s], link'[s]) /\ Adds(link[p], m, link'[p])
      /\ chat'[p] = chat[p] /\ chat'[s].to = v /\ chat'[s].key = m.key
      /\ chat'[s].open = chat[s].open /\ chat'[s].from = chat[s].from
      /\ chat'[s].cause = chat[s].cause
      /\ chat'[s].authenticated = chat[s].authenticated
  BY ReceiverHelloFields
<1>2. /\ p \in Sides /\ p # s /\ Peer(p) = s /\ \A t \in Sides : t = s \/ t = p
      /\ s = Reporter \/ s = Subscriber
  BY PeerIsOther, BothSides
<1>3. /\ link[s] # <<>> /\ link[s][1].phase = "receiverHello" /\ 1 \in 1 .. Len(link[s])
      /\ Len(link[s]) \in Nat /\ Len(link[p]) \in Nat
      /\ ~Free(link[s], 0, Openers) /\ ~Free(link[s], 0, KeyMakers)
  <2> HIDE DEF p, v, k, m
  <2>1. /\ link[s] # <<>> /\ link[s][1].phase = "receiverHello" /\ 1 \in 1 .. Len(link[s])
        /\ Len(link[s]) \in Nat
        /\ \A phases : Free(link[s], 0, phases) => "receiverHello" \notin phases
    BY <1>1, FirstReceived
  <2>2. Len(link[p]) \in Nat
    BY <1>2, LinkTypes
  <2> QED BY <2>1, <2>2 DEF Openers, KeyMakers
<1>4. /\ m.phase = "senderCertificate" /\ m.value = fresh + 1 /\ m.key = k
      /\ k[2] = v /\ k[3] = chat[s].from /\ k = <<fresh + 1, v, chat[s].from>>
  OBVIOUS
<1>5. /\ BothOpen <=> BothOpen'
      /\ NobodyIsSure <=> NobodyIsSure'
  BY <1>1, <1>2 DEF BothOpen, NobodyIsSure
<1>c. m.key = <<m.value, link[s][1].value, m.key[3]>> /\ m.key[2] = link[s][1].value
  OBVIOUS
<1> HIDE DEF p, v, m, k
<1>d. /\ \A drawn : IsNowhere(link[s], link[p], drawn) => IsNowhere(link'[s], link'[p], drawn)
      /\ \A drawn : IsOffered(link[s], link[p], drawn) =>
            \/ IsOffered(link'[s], link'[p], drawn)
            \/ IsTaken(link'[s], link'[p], drawn, k)
      /\ \A drawn, key : ~IsTaken(link[s], link[p], drawn, key)
      /\ \A taken : OffersAreFutile(link[s], link[p], taken) => OffersAreFutile(link'[s], link'[p], v)
  <2>1. v = link[s][1].value
    BY DEF v
  <2>2. ASSUME NEW drawn
        PROVE  /\ IsNowhere(link[s], link[p], drawn) => IsNowhere(link'[s], link'[p], drawn)
               /\ IsOffered(link[s], link[p], drawn) =>
                     \/ IsOffered(link'[s], link'[p], drawn)
                     \/ IsTaken(link'[s], link'[p], drawn, m.key)
               /\ \A key : ~IsTaken(link[s], link[p], drawn, key)
               /\ \A taken : OffersAreFutile(link[s], link[p], taken)
                               => OffersAreFutile(link'[s], link'[p], link[s][1].value)
    BY <1>1, <1>3, <1>4, <1>c, ReporterTakes
  <2> QED BY <1>4, <2>1, <2>2
<1>6. CASE Alone /\ Heard(s)
  <2>1. Proposing(s)'
    <3>1. link'[s] = <<>> /\ Len(link'[p]) = 1 /\ link'[p][1] = m
      BY <1>1, <1>2, <1>6, LinkTypes DEF Heard, p, Drops, Adds
    <3> QED BY <1>1, <1>4, <1>5, <1>6, <3>1 DEF Heard, Proposing, p
  <2>2. chat'[Reporter].open => chat'[Reporter].cause.kind # "subscription"
    BY <1>1, <1>2, <1>6, BothSides DEF Alone
  <2> QED BY <2>1, <2>2 DEF Alone, Ways
<1>7. CASE Crossed /\ s = Reporter
  <2>0. p = Subscriber
    BY <1>2, <1>7, BothSides
  <2>1. /\ BothOpen /\ NobodyIsSure
        /\ Only(link[s], KeyMakers) /\ Only(link[p], KeyMakers \union {"senderHello"})
        /\ IsSomewhere(link[s], link[p], chat[p].to, chat[s].key)
        /\ OffersAreFutile(link[s], link[p], chat[s].to)
        /\ \/ OfferIsLast(link[p])
           \/ Free(link[p], 0, Openers) /\ IsNowhere(link[s], link[p], chat[p].to)
    BY <1>7, <2>0 DEF Crossed, Rounds
  <2>2. /\ Only(link'[s], KeyMakers) /\ Only(link'[p], KeyMakers \union {"senderHello"})
    BY <1>1, <1>4, <2>1, OnlyDrops, OnlyAdds DEF KeyMakers
  <2>3. /\ IsSomewhere(link'[s], link'[p], chat[p].to, k)
        /\ OffersAreFutile(link'[s], link'[p], v)
        /\ IsNowhere(link[s], link[p], chat[p].to) => IsNowhere(link'[s], link'[p], chat[p].to)
    BY <1>d, <2>1 DEF IsSomewhere
  <2>4. \/ OfferIsLast(link'[p])
        \/ Free(link'[p], 0, Openers) /\ IsNowhere(link'[s], link'[p], chat[p].to)
    <3>1. m.phase \notin Openers
      BY <1>4 DEF Openers
    <3> QED BY <1>1, <2>1, <2>3, <3>1, AddsLast, FreeAdds
  <2>5. Crossed'
    BY <1>1, <1>4, <1>5, <1>7, <2>0, <2>1, <2>2, <2>3, <2>4 DEF Crossed, Rounds
  <2> QED BY <2>5 DEF Ways
<1>8. \A taken : OffersAreFutile(link[p], link[s], taken) =>
        /\ IsNowhere(link'[p], link'[s], v)
        /\ OffersAreFutile(link'[p], link'[s], taken)
  <2>1. ASSUME NEW taken, OffersAreFutile(link[p], link[s], taken)
        PROVE  /\ IsNowhere(link'[p], link'[s], link[s][1].value)
               /\ OffersAreFutile(link'[p], link'[s], taken)
    BY <1>1, <1>3, <1>4, <1>c, <2>1, SubscriberTakes
  <2> QED BY <2>1 DEF v
<1>9. CASE Crossed /\ s = Subscriber
  <2>0. p = Reporter
    BY <1>2, <1>9, BothSides
  <2>1. /\ BothOpen /\ NobodyIsSure
        /\ Only(link[p], KeyMakers) /\ Only(link[s], KeyMakers \union {"senderHello"})
        /\ OffersAreFutile(link[p], link[s], chat[p].to)
        /\ OfferIsLast(link[s])
    BY <1>3, <1>9, <2>0 DEF Crossed, Rounds
  <2>2. Only(link'[p], KeyMakers) /\ Only(link'[s], KeyMakers \union {"senderHello"})
    BY <1>1, <1>4, <2>1, OnlyDrops, OnlyAdds DEF KeyMakers
  <2>3. OfferIsLast(link'[s]) \/ Free(link'[s], 0, Openers)
    BY <1>1, <2>1, DropsLast
  <2>4. Crossed'
    BY <1>1, <1>5, <1>8, <1>9, <2>0, <2>1, <2>2, <2>3 DEF Crossed, Rounds, IsSomewhere
  <2> QED BY <2>4 DEF Ways
<1>10. CASE Subscribing /\ BothOpen
  <2>0. /\ chat[Reporter].cause.kind = "subscription"
        /\ Free(link[Reporter], 0, {"senderHello"})
        /\ Free(link[Subscriber], 0, {"receiverFinishedMessage"})
        /\ IsSomewhere(link[Reporter], link[Subscriber], chat[Subscriber].to, chat[Reporter].key)
        /\ OffersAreFutile(link[Reporter], link[Subscriber], chat[Reporter].to)
        /\ HelloIsLast(link[Subscriber], chat[Reporter].from) \/ IsCurrent
        /\ EndsAreShared(link[Reporter], link[Subscriber], chat[Reporter].key, chat[Subscriber].key)
        /\ chat[Reporter].authenticated => HasTheKey
    BY <1>10 DEF Subscribing, Rounds
  <2>1. /\ Free(link'[Reporter], 0, {"senderHello"})
        /\ Free(link'[Subscriber], 0, {"receiverFinishedMessage"})
    BY <1>1, <1>2, <1>4, <2>0, BothSides, FreeDrops, FreeAdds
  <2>2. EndsAreShared(link[Reporter], link[Subscriber], chat[Reporter].key, chat[Subscriber].key)'
    <3>1. Free(link[Reporter], 0, {"receiverFinishedMessage"})
      BY <1>2, <1>3, <2>0, BothSides, NoEndYet DEF KeyMakers
    <3>2. Free(link'[Reporter], 0, {"receiverFinishedMessage"})
      BY <1>1, <1>2, <1>4, <3>1, BothSides, FreeDrops, FreeAdds
    <3> QED BY <3>2, FreeEnds
  <2>3. Rounds' /\ (HelloIsLast(link[Subscriber], chat[Reporter].from) \/ IsCurrent)'
    <3>1. CASE s = Reporter
      <4>0. p = Subscriber
        BY <1>2, <3>1, BothSides
      <4>1. /\ IsSomewhere(link'[s], link'[p], chat[p].to, k)
            /\ OffersAreFutile(link'[s], link'[p], v)
            /\ IsOffered(link[s], link[p], chat[p].to) =>
                  \/ IsOffered(link'[s], link'[p], chat[p].to)
                  \/ IsTaken(link'[s], link'[p], chat[p].to, k)
            /\ ~IsTaken(link[s], link[p], chat[p].to, chat[s].key)
        BY <1>d, <2>0, <3>1, <4>0 DEF IsSomewhere
      <4>2. m.phase \notin Openers
        BY <1>4 DEF Openers
      <4>3. CASE HelloIsLast(link[Subscriber], chat[Reporter].from)
        <5>1. HelloIsLast(link'[p], chat[s].from)
          BY <1>1, <3>1, <4>0, <4>2, <4>3, AddsLast
        <5> QED BY <1>1, <1>4, <3>1, <4>0, <4>1, <5>1 DEF Rounds
      <4>4. CASE IsCurrent
        <5>1. /\ chat[p].from = chat[s].from /\ Free(link[p], 0, Openers)
              /\ IsOffered(link[s], link[p], chat[p].to)
          BY <1>3, <3>1, <4>0, <4>1, <4>4 DEF IsCurrent, IsOnCourse
        <5>2. Free(link'[p], 0, Openers)
          BY <1>1, <4>2, <5>1, FreeAdds
        <5>3. IsCurrent'
          BY <1>1, <1>4, <3>1, <4>0, <4>1, <5>1, <5>2 DEF IsCurrent, IsOnCourse
        <5> QED BY <1>1, <1>4, <3>1, <4>0, <4>1, <5>3 DEF Rounds
      <4> QED BY <2>0, <4>3, <4>4
    <3>2. CASE s = Subscriber
      <4>0. p = Reporter
        BY <1>2, <3>2, BothSides
      <4>1. ~IsCurrent
        BY <1>3, <3>2 DEF IsCurrent
      <4>2. HelloIsLast(link'[s], chat[p].from)
        <5>1. HelloIsLast(link[s], chat[p].from)
          BY <2>0, <3>2, <4>0, <4>1
        <5>2. link[s][1] # [phase |-> "senderHello", value |-> chat[p].from]
          BY <1>3
        <5> QED BY <1>1, <5>1, <5>2, DropsLast
      <4> QED BY <1>1, <1>8, <2>0, <3>2, <4>0, <4>2 DEF Rounds, IsSomewhere
    <3> QED BY <1>2, <3>1, <3>2
  <2>4. /\ chat'[Reporter].open /\ chat'[Subscriber].open
        /\ chat'[Reporter].cause = chat[Reporter].cause
        /\ chat'[Reporter].authenticated = chat[Reporter].authenticated
    BY <1>1, <1>2, <1>10, BothSides DEF BothOpen
  <2>5. Subscribing'
    BY <2>0, <2>1, <2>2, <2>3, <2>4 DEF Subscribing
  <2> QED BY <2>5 DEF Ways
<1> QED BY <1>1, <1>2, <1>6, <1>7, <1>9, <1>10, PhaseOfWays

LEMMA SenderCertificateWays ==
    ASSUME TypeOK, TypeOK', Ways, HasTheKey => HasTheKey', NEW s \in Sides, SenderCertificate(s)
    PROVE  Ways'
<1> DEFINE p   == Peer(s)
           c   == link[s][1]
           k   == <<c.value, chat[s].to, chat[s].from>>
           end == [phase |-> "receiverFinishedMessage", key |-> k]
<1>1. /\ Receive(s, "senderCertificate") /\ end \in Messages
      /\ Drops(link[s], link'[s])
      /\ \/ /\ k = c.key /\ Adds(link[p], end, link'[p]) /\ chat'[s].authenticated
         \/ /\ k # c.key /\ link'[p] = link[p]
            /\ chat'[s].authenticated = chat[s].authenticated
      /\ chat'[p] = chat[p] /\ chat'[s].key = k /\ chat'[s].open = chat[s].open
      /\ chat'[s].from = chat[s].from /\ chat'[s].to = chat[s].to
      /\ chat'[s].cause = chat[s].cause
  BY SenderCertificateFields
<1>2. /\ p \in Sides /\ p # s /\ Peer(p) = s /\ \A t \in Sides : t = s \/ t = p
      /\ s = Reporter \/ s = Subscriber
  BY PeerIsOther, BothSides
<1>3. /\ link[s] # <<>> /\ c.phase = "senderCertificate" /\ 1 \in 1 .. Len(link[s])
      /\ c = link[s][1]
      /\ Len(link[s]) \in Nat /\ Len(link[p]) \in Nat
      /\ ~Free(link[s], 0, KeyMakers) /\ c.phase \in KeyMakers
  <2>1. /\ link[s] # <<>> /\ c.phase = "senderCertificate" /\ 1 \in 1 .. Len(link[s])
        /\ \A phases : Free(link[s], 0, phases) => "senderCertificate" \notin phases
    BY <1>1, FirstReceived
  <2>2. "senderCertificate" \in KeyMakers
    BY DEF KeyMakers
  <2> QED BY <1>2, <2>1, <2>2, LinkTypes
<1>4. /\ end.phase = "receiverFinishedMessage" /\ end.key = k
      /\ k[1] = c.value /\ k[2] = chat[s].to /\ k[3] = chat[s].from
      /\ end.phase \notin KeyMakers /\ end.phase \notin Openers
      /\ k = <<c.value, chat[s].to, chat[s].from>>
  BY DEF KeyMakers, Openers
<1> HIDE DEF p, c, k, end
<1>5. BothOpen <=> BothOpen'
  BY <1>1, <1>2 DEF BothOpen
<1>6. CASE Alone /\ Proposing(p)
  <2>1. /\ BothOpen /\ NobodyIsSure /\ link[p] = <<>> /\ Len(link[s]) = 1
        /\ c.key = chat[p].key
    BY <1>2, <1>3, <1>6 DEF Proposing
  <2>2. link'[s] = <<>>
    BY <1>1, <1>2, <2>1, LinkTypes DEF Drops
  <2>3. CASE k = c.key
    <3>1. Len(link'[p]) = 1 /\ link'[p][1] = end /\ link'[p] # <<>>
      BY <1>1, <1>2, <2>1, <2>3, LinkTypes DEF Adds
    <3>2. AllSettled(link'[p], 2, chat'[p].key)
      BY <3>1 DEF AllSettled
    <3>3. chat'[s].authenticated /\ ~chat'[p].authenticated /\ chat'[s].key = chat'[p].key
      BY <1>1, <1>2, <2>1, <2>3 DEF NobodyIsSure
    <3>4. Ending(p)'
      BY <1>2, <1>4, <1>5, <2>1, <2>2, <3>1, <3>2, <3>3 DEF Ending
    <3>5. chat'[Reporter].open => chat'[Reporter].cause.kind # "subscription"
      BY <1>1, <1>2, <1>6, BothSides DEF Alone
    <3> QED BY <1>2, <3>4, <3>5 DEF Alone, Ways
  <2>4. CASE k # c.key
    <3>1. GivenUp'
      BY <1>1, <1>2, <1>5, <2>1, <2>2, <2>4 DEF GivenUp, NobodyIsSure
    <3>2. chat'[Reporter].open => chat'[Reporter].cause.kind # "subscription"
      BY <1>1, <1>2, <1>6, BothSides DEF Alone
    <3> QED BY <3>1, <3>2 DEF Alone, Ways
  <2> QED BY <2>3, <2>4
\* The reporter has taken another value by then.
<1>7. ASSUME s = Reporter, OffersAreFutile(link[s], link[p], chat[s].to)
      PROVE  /\ k # c.key /\ link'[p] = link[p] /\ chat'[s].authenticated = chat[s].authenticated
             /\ OffersAreFutile(link'[s], link'[p], chat'[s].to)
             /\ \A drawn : IsNowhere(link[s], link[p], drawn) => IsNowhere(link'[s], link'[p], drawn)
             /\ \A drawn : IsOffered(link[s], link[p], drawn) => IsOffered(link'[s], link'[p], drawn)
             /\ \A drawn, key : ~IsTaken(link[s], link[p], drawn, key)
  <2>1. ASSUME NEW drawn
        PROVE  /\ c.key[2] # chat[s].to
               /\ IsNowhere(link[s], link[p], drawn) => IsNowhere(link'[s], link[p], drawn)
               /\ IsOffered(link[s], link[p], drawn) => IsOffered(link'[s], link[p], drawn)
               /\ \A key : ~IsTaken(link[s], link[p], drawn, key)
               /\ OffersAreFutile(link'[s], link[p], chat[s].to)
    BY <1>1, <1>3, <1>7, ReporterIsAnswered
  <2>2. k # c.key
    BY <1>4, <2>1
  <2>3. /\ link'[p] = link[p] /\ chat'[s].authenticated = chat[s].authenticated
        /\ chat'[s].to = chat[s].to
    BY <1>1, <2>2
  <2> QED BY <2>1, <2>2, <2>3
<1>8. \A drawn, key, taken :
        /\ IsNowhere(link[p], link[s], drawn) =>
              c.key[2] # drawn /\ IsNowhere(link[p], link'[s], drawn)
        /\ IsOffered(link[p], link[s], drawn) =>
              c.key[2] # drawn /\ IsOffered(link[p], link'[s], drawn)
        /\ IsTaken(link[p], link[s], drawn, key) =>
              \/ c.key[2] # drawn /\ IsTaken(link[p], link'[s], drawn, key)
              \/ /\ c.key = key /\ key = <<c.value, drawn, key[3]>>
                 /\ Free(link[p], 0, KeyMakers) /\ Free(link'[s], 0, KeyMakers)
        /\ OffersAreFutile(link[p], link[s], taken) => OffersAreFutile(link[p], link'[s], taken)
  <2> SUFFICES ASSUME NEW drawn
               PROVE  /\ IsNowhere(link[p], link[s], drawn) =>
                            c.key[2] # drawn /\ IsNowhere(link[p], link'[s], drawn)
                      /\ IsOffered(link[p], link[s], drawn) =>
                            c.key[2] # drawn /\ IsOffered(link[p], link'[s], drawn)
                      /\ \A key : IsTaken(link[p], link[s], drawn, key) =>
                            \/ c.key[2] # drawn /\ IsTaken(link[p], link'[s], drawn, key)
                            \/ /\ c.key = key /\ key = <<c.value, drawn, key[3]>>
                               /\ Free(link[p], 0, KeyMakers) /\ Free(link'[s], 0, KeyMakers)
                      /\ \A taken : OffersAreFutile(link[p], link[s], taken)
                                        => OffersAreFutile(link[p], link'[s], taken)
    OBVIOUS
  <2> QED BY <1>1, <1>3, SubscriberIsAnswered, Zenon DEF c
<1>9. CASE Crossed /\ s = Reporter
  <2>0. p = Subscriber
    BY <1>2, <1>9, BothSides
  <2>1. /\ BothOpen /\ NobodyIsSure
        /\ Only(link[s], KeyMakers) /\ Only(link[p], KeyMakers \union {"senderHello"})
        /\ IsSomewhere(link[s], link[p], chat[p].to, chat[s].key)
        /\ OffersAreFutile(link[s], link[p], chat[s].to)
        /\ \/ OfferIsLast(link[p])
           \/ Free(link[p], 0, Openers) /\ IsNowhere(link[s], link[p], chat[p].to)
    BY <1>9, <2>0 DEF Crossed, Rounds
  <2>2. Only(link'[s], KeyMakers)
    BY <1>1, <2>1, OnlyDrops
  <2>3. /\ IsSomewhere(link'[s], link'[p], chat[p].to, chat'[s].key)
        /\ OffersAreFutile(link'[s], link'[p], chat'[s].to)
        /\ IsNowhere(link[s], link[p], chat[p].to) => IsNowhere(link'[s], link'[p], chat[p].to)
        /\ link'[p] = link[p] /\ chat'[s].authenticated = chat[s].authenticated
    BY <1>7, <1>9, <2>1 DEF IsSomewhere
  <2>4. NobodyIsSure'
    BY <1>1, <1>2, <2>1, <2>3 DEF NobodyIsSure
  <2>5. Crossed'
    BY <1>1, <1>5, <1>9, <2>0, <2>1, <2>2, <2>3, <2>4 DEF Crossed, Rounds
  <2> QED BY <2>5 DEF Ways
<1>10. CASE Crossed /\ s = Subscriber
  <2>0. p = Reporter
    BY <1>2, <1>10, BothSides
  <2>1. /\ BothOpen /\ NobodyIsSure
        /\ Only(link[p], KeyMakers) /\ Only(link[s], KeyMakers \union {"senderHello"})
        /\ OffersAreFutile(link[p], link[s], chat[p].to)
        /\ \/ OfferIsLast(link[s])
           \/ Free(link[s], 0, Openers) /\ IsNowhere(link[p], link[s], chat[s].to)
    BY <1>10, <2>0 DEF Crossed, Rounds
  <2>2. ~OfferIsLast(link[s])
    <3>1. ASSUME NEW j \in 1 .. Len(link[s]), link[s][j].phase = "receiverHello" PROVE FALSE
      <4>1. OfferIsFutile(link[p], link[s], chat[p].to, j)
        BY <2>1, <3>1 DEF OffersAreFutile
      <4>2. 1 \in 1 .. j
        BY <3>1
      <4> QED BY <1>3, <4>1, <4>2 DEF OfferIsFutile
    <3> QED BY <3>1 DEF OfferIsLast
  <2>3. /\ Free(link[s], 0, Openers) /\ IsNowhere(link[p], link[s], chat[s].to)
        /\ c.key[2] # chat[s].to /\ k # c.key
        /\ IsNowhere(link[p], link'[s], chat[s].to)
    <3>1. Free(link[s], 0, Openers) /\ IsNowhere(link[p], link[s], chat[s].to)
      BY <2>1, <2>2
    <3>2. c.key[2] # chat[s].to /\ IsNowhere(link[p], link'[s], chat[s].to)
      BY <1>8, <3>1
    <3> QED BY <1>4, <3>1, <3>2
  <2>4. link'[p] = link[p] /\ chat'[s].authenticated = chat[s].authenticated
    BY <1>1, <2>3
  <2>5. Only(link'[s], KeyMakers \union {"senderHello"}) /\ Free(link'[s], 0, Openers)
    BY <1>1, <2>1, <2>3, OnlyDrops, FreeDrops
  <2>6. NobodyIsSure'
    BY <1>1, <1>2, <2>1, <2>4 DEF NobodyIsSure
  <2>7. OffersAreFutile(link[p], link'[s], chat[p].to)
    BY <1>8, <2>1
  <2>8. Crossed'
    BY <1>1, <1>5, <1>10, <2>0, <2>1, <2>3, <2>4, <2>5, <2>6, <2>7
       DEF Crossed, Rounds, IsSomewhere
  <2> QED BY <2>8 DEF Ways
<1>11. CASE Subscribing /\ BothOpen
  <2>0. /\ chat[Reporter].cause.kind = "subscription"
        /\ Free(link[Reporter], 0, {"senderHello"})
        /\ Free(link[Subscriber], 0, {"receiverFinishedMessage"})
        /\ IsSomewhere(link[Reporter], link[Subscriber], chat[Subscriber].to, chat[Reporter].key)
        /\ OffersAreFutile(link[Reporter], link[Subscriber], chat[Reporter].to)
        /\ HelloIsLast(link[Subscriber], chat[Reporter].from) \/ IsCurrent
        /\ EndsAreShared(link[Reporter], link[Subscriber], chat[Reporter].key, chat[Subscriber].key)
        /\ chat[Reporter].authenticated => HasTheKey
    BY <1>11 DEF Subscribing, Rounds
  <2>1. Free(link[Reporter], 0, {"receiverFinishedMessage"})
    BY <1>2, <1>3, <2>0, BothSides, NoEndYet
  <2>2. /\ chat'[Reporter].open /\ chat'[Subscriber].open
        /\ chat'[Reporter].cause = chat[Reporter].cause
        /\ chat'[Reporter].from = chat[Reporter].from /\ chat'[Reporter].to = chat[Reporter].to
        /\ chat'[Subscriber].from = chat[Subscriber].from
        /\ chat'[Subscriber].to = chat[Subscriber].to
    BY <1>1, <1>2, <1>11, BothSides DEF BothOpen
  <2>3. CASE s = Reporter
    <3>0. p = Subscriber
      BY <1>2, <2>3, BothSides
    <3>1. /\ link'[p] = link[p] /\ chat'[s].authenticated = chat[s].authenticated
          /\ OffersAreFutile(link'[s], link'[p], chat'[s].to)
          /\ IsNowhere(link[s], link[p], chat[p].to) => IsNowhere(link'[s], link'[p], chat[p].to)
          /\ IsOffered(link[s], link[p], chat[p].to) => IsOffered(link'[s], link'[p], chat[p].to)
          /\ \A key : ~IsTaken(link[s], link[p], chat[p].to, key)
      BY <1>7, <2>0, <2>3, <3>0
    <3>2. Rounds'
      BY <1>1, <2>0, <2>2, <2>3, <3>0, <3>1 DEF Rounds, IsSomewhere
    <3>3. IsCurrent => IsCurrent'
      BY <1>1, <1>3, <2>2, <2>3, <3>0, <3>1 DEF IsCurrent, IsOnCourse
    <3>4. /\ Free(link'[s], 0, {"senderHello"}) /\ Free(link'[s], 0, {"receiverFinishedMessage"})
      BY <1>1, <2>0, <2>1, <2>3, FreeDrops
    <3>5. EndsAreShared(link[Reporter], link[Subscriber], chat[Reporter].key, chat[Subscriber].key)'
      BY <2>3, <3>4, FreeEnds
    <3>6. Subscribing'
      BY <2>0, <2>2, <2>3, <3>0, <3>1, <3>2, <3>3, <3>4, <3>5 DEF Subscribing
    <3> QED BY <3>6 DEF Ways
  <2>4. CASE s = Subscriber
    <3>0. p = Reporter
      BY <1>2, <2>4, BothSides
    <3>1. /\ OffersAreFutile(link[p], link'[s], chat[p].to)
          /\ Free(link'[s], 0, {"receiverFinishedMessage"})
          /\ HelloIsLast(link[s], chat[p].from) => HelloIsLast(link'[s], chat[p].from)
          /\ Free(link[s], 0, Openers) => Free(link'[s], 0, Openers)
      <4>1. c # [phase |-> "senderHello", value |-> chat[p].from]
        BY <1>3
      <4>2. HelloIsLast(link[s], chat[p].from) => HelloIsLast(link'[s], chat[p].from)
        BY <1>1, <1>3, <4>1, DropsLast
      <4> QED BY <1>1, <1>8, <2>0, <2>4, <3>0, <4>2, FreeDrops
    <3>2. CASE k = c.key
      <4>1. /\ c.key = chat[p].key /\ Free(link[p], 0, KeyMakers) /\ Free(link'[s], 0, KeyMakers)
        <5>1. c.key[2] = chat[s].to
          BY <1>4, <3>2
        <5>2. IsTaken(link[p], link[s], chat[s].to, chat[p].key)
          BY <1>8, <2>0, <2>4, <3>0, <5>1 DEF IsSomewhere
        <5> QED BY <1>8, <5>1, <5>2
      <4>2. Adds(link[p], end, link'[p])
        BY <1>1, <3>2
      <4>3. Free(link'[p], 0, KeyMakers) /\ Free(link'[p], 0, {"senderHello"})
        BY <1>4, <2>0, <3>0, <4>1, <4>2, FreeAdds
      <4>4. OffersAreFutile(link'[p], link'[s], chat[p].to)
        BY <1>4, <3>1, <4>2, AddsUp
      <4>5. Rounds'
        BY <1>1, <2>2, <2>4, <3>0, <4>1, <4>3, <4>4, FreeIsNowhere DEF Rounds, IsSomewhere
      <4>6. chat'[s].key = chat'[p].key /\ chat'[p] = chat[p]
        BY <1>1, <3>2, <4>1
      <4>7. IsCurrent => IsCurrent'
        BY <2>2, <2>4, <3>0, <3>1, <4>1, <4>3, <4>6 DEF IsCurrent, IsOnCourse
      <4>8. EndsAreShared(link'[p], link'[s], chat'[p].key, chat'[s].key)
        <5>1. ASSUME NEW i \in 1 .. Len(link'[p]), link'[p][i].phase = "receiverFinishedMessage"
              PROVE  link'[p][i].key = chat[p].key
          <6>1. i = Len(link'[p]) /\ link'[p][i] = end
            <7>1. i \in 1 .. Len(link[p]) => link[p][i].phase # "receiverFinishedMessage"
              BY <2>1, <3>0 DEF Free
            <7> QED BY <4>2, <5>1, <7>1, AddSteps
          <6> QED BY <1>4, <3>2, <4>1, <6>1
        <5>2. \A i \in 1 .. Len(link'[p]) : \A j \in 1 .. i - 1 : link'[p][j].phase \notin KeyMakers
          <6>1. Len(link'[p]) \in Nat
            BY <1>2, LinkTypes
          <6> QED BY <4>3, <6>1 DEF Free
        <5> QED BY <4>1, <4>6, <5>1, <5>2 DEF EndsAreShared
      <4>9. Subscribing'
        BY <1>1, <2>0, <2>2, <2>4, <3>0, <3>1, <4>3, <4>5, <4>6, <4>7, <4>8 DEF Subscribing
      <4> QED BY <4>9 DEF Ways
    <3>3. CASE k # c.key
      <4>1. link'[p] = link[p] /\ chat'[p] = chat[p]
        BY <1>1, <3>3
      <4>2. IsTaken(link[p], link[s], chat[s].to, chat[p].key) =>
               \/ IsTaken(link[p], link'[s], chat[s].to, chat[p].key)
               \/ /\ IsNowhere(link[p], link'[s], chat[s].to)
                  /\ chat[p].key[3] # chat[s].from
        <5>1. CASE IsTaken(link[p], link'[s], chat[s].to, chat[p].key)
          BY <5>1
        <5>2. CASE /\ c.key = chat[p].key /\ chat[p].key = <<c.value, chat[s].to, chat[p].key[3]>>
                   /\ Free(link[p], 0, KeyMakers) /\ Free(link'[s], 0, KeyMakers)
          <6>1. chat[p].key[3] # chat[s].from
            BY <1>4, <3>3, <5>2
          <6> QED BY <5>2, <6>1, FreeIsNowhere
        <5> QED BY <1>8, <5>1, <5>2
      <4>3. Rounds'
        BY <1>8, <2>0, <2>2, <2>4, <3>0, <3>1, <4>1, <4>2 DEF Rounds, IsSomewhere
      <4>4. ASSUME IsCurrent PROVE IsCurrent'
        <5>1. /\ chat[s].from = chat[p].from /\ Free(link[s], 0, Openers)
              /\ \/ IsOffered(link[p], link[s], chat[s].to)
                 \/ /\ IsTaken(link[p], link[s], chat[s].to, chat[p].key)
                    /\ chat[p].key[3] = chat[s].from
          BY <1>3, <2>4, <3>0, <4>4 DEF IsCurrent, IsOnCourse
        <5>2. \/ IsOffered(link[p], link'[s], chat[s].to)
              \/ /\ IsTaken(link[p], link'[s], chat[s].to, chat[p].key)
                 /\ chat[p].key[3] = chat[s].from
          BY <1>8, <4>2, <5>1
        <5> QED BY <2>2, <2>4, <3>0, <3>1, <4>1, <5>1, <5>2 DEF IsCurrent, IsOnCourse
      <4>5. EndsAreShared(link[Reporter], link[Subscriber], chat[Reporter].key, chat[Subscriber].key)'
        BY <2>1, <3>0, <4>1, FreeEnds
      <4>6. Subscribing'
        BY <1>1, <2>0, <2>2, <2>4, <3>0, <3>1, <4>1, <4>3, <4>4, <4>5 DEF Subscribing
      <4> QED BY <4>6 DEF Ways
    <3> QED BY <3>2, <3>3
  <2> QED BY <1>2, <2>3, <2>4
<1> QED BY <1>1, <1>2, <1>6, <1>9, <1>10, <1>11, PhaseOfWays DEF p

-----------------------------------------------------------------------------
(* What follows a handshake disturbs none.                                 *)

\* A sequence that is the same, lost a first element that makes and opens
\* nothing, or got a message that follows a handshake.
Moves(seq, next) ==
    \/ next = seq
    \/ Drops(seq, next) /\ seq[1].phase \notin KeyMakers \union Openers
    \/ \E m : Adds(seq, m, next) /\ m.phase \in Settled

LEMMA SettledOpensNothing ==
    \A phase \in Settled :
        /\ phase \notin KeyMakers \union Openers
        /\ phase \notin {"senderHello"} /\ phase \notin {"receiverFinishedMessage"}
        /\ phase # "receiverFinishedMessage"
BY DEF Settled, KeyMakers, Openers

LEMMA MovesUp ==
    ASSUME NEW up, NEW down, NEW next, Moves(up, next), NEW drawn
    PROVE  /\ IsNowhere(up, down, drawn) => IsNowhere(next, down, drawn)
           /\ IsOffered(up, down, drawn) => IsOffered(next, down, drawn)
           /\ \A key : IsTaken(up, down, drawn, key) => IsTaken(next, down, drawn, key)
           /\ \A taken : OffersAreFutile(up, down, taken) => OffersAreFutile(next, down, taken)
<1>1. CASE next = up
  BY <1>1
<1>2. CASE Drops(up, next) /\ up[1].phase \notin KeyMakers \union Openers
  BY <1>2, DropsUp
<1>3. CASE \E m : Adds(up, m, next) /\ m.phase \in Settled
  <2>1. PICK m : Adds(up, m, next) /\ m.phase \in Settled
    BY <1>3
  <2>2. m.phase \notin KeyMakers
    BY <2>1, SettledOpensNothing
  <2> QED BY <2>1, <2>2, AddsUp
<1> QED BY <1>1, <1>2, <1>3 DEF Moves

LEMMA MovesDown ==
    ASSUME NEW up, NEW down, NEW next, Moves(down, next), NEW drawn
    PROVE  /\ IsNowhere(up, down, drawn) => IsNowhere(up, next, drawn)
           /\ IsOffered(up, down, drawn) => IsOffered(up, next, drawn)
           /\ \A key : IsTaken(up, down, drawn, key) => IsTaken(up, next, drawn, key)
           /\ \A taken : OffersAreFutile(up, down, taken) => OffersAreFutile(up, next, taken)
<1>1. CASE next = down
  BY <1>1
<1>2. CASE Drops(down, next) /\ down[1].phase \notin KeyMakers \union Openers
  <2>1. down[1].phase # "senderHello"
    BY <1>2 DEF Openers
  <2> QED BY <1>2, <2>1, DropsDown
<1>3. CASE \E m : Adds(down, m, next) /\ m.phase \in Settled
  <2>1. PICK m : Adds(down, m, next) /\ m.phase \in Settled
    BY <1>3
  <2>2. m.phase \notin KeyMakers
    BY <2>1, SettledOpensNothing
  <2> QED BY <2>1, <2>2, AddsDown
<1> QED BY <1>1, <1>2, <1>3 DEF Moves

LEMMA MovesFree ==
    ASSUME NEW seq, NEW next, Moves(seq, next), NEW phases, Free(seq, 0, phases),
           \A phase \in Settled : phase \notin phases
    PROVE  Free(next, 0, phases)
BY FreeDrops, FreeAdds DEF Moves

LEMMA MovesLast ==
    ASSUME NEW seq, NEW next, Moves(seq, next), NEW value, HelloIsLast(seq, value)
    PROVE  HelloIsLast(next, value)
<1>1. CASE next = seq
  BY <1>1
<1>2. CASE Drops(seq, next) /\ seq[1].phase \notin KeyMakers \union Openers
  <2>1. seq[1] # [phase |-> "senderHello", value |-> value]
    BY <1>2 DEF Openers
  <2> QED BY <1>2, <2>1, DropsLast
<1>3. CASE \E m : Adds(seq, m, next) /\ m.phase \in Settled
  <2>1. PICK m : Adds(seq, m, next) /\ m.phase \in Settled
    BY <1>3
  <2>2. m.phase \notin Openers
    BY <2>1, SettledOpensNothing
  <2> QED BY <2>1, <2>2, AddsLast
<1> QED BY <1>1, <1>2, <1>3 DEF Moves

LEMMA MovesEnds ==
    ASSUME NEW up, NEW down, NEW next, NEW rest, NEW key, NEW kept,
           EndsAreShared(up, down, key, kept), Moves(up, next), Moves(down, rest)
    PROVE  EndsAreShared(next, rest, key, kept)
<1>1. EndsAreShared(next, down, key, kept)
  <2>1. CASE \E m : Adds(up, m, next) /\ m.phase \in Settled
    <3>1. PICK m : Adds(up, m, next) /\ m.phase \in Settled
      BY <2>1
    <3> QED BY <3>1, EndsStay, SettledOpensNothing
  <2>2. CASE Drops(up, next)
    BY <2>2, EndsStay
  <2> QED BY <2>1, <2>2 DEF Moves
<1>2. CASE \E m : Adds(down, m, rest) /\ m.phase \in Settled
  <2>1. PICK m : Adds(down, m, rest) /\ m.phase \in Settled
    BY <1>2
  <2>2. m.phase \notin KeyMakers
    BY <2>1, SettledOpensNothing
  <2> QED BY <1>1, <2>1, <2>2, EndsStay
<1>3. CASE Drops(down, rest)
  BY <1>1, <1>3, EndsStay
<1> QED BY <1>1, <1>2, <1>3 DEF Moves

\* The handshake of a subscription goes on beside it.
LEMMA SubscribingMoves ==
    ASSUME Subscribing, BothOpen, \A s \in Sides : Moves(link[s], link'[s]),
           \A s \in Sides : /\ chat'[s].open = chat[s].open /\ chat'[s].cause = chat[s].cause
                            /\ chat'[s].from = chat[s].from /\ chat'[s].to = chat[s].to
                            /\ chat'[s].key = chat[s].key,
           chat'[Reporter].authenticated => HasTheKey'
    PROVE  Subscribing'
<1>0. Reporter \in Sides /\ Subscriber \in Sides
  BY BothSides
<1> DEFINE up == link[Reporter]  down == link[Subscriber]
           drawn == chat[Subscriber].to  key == chat[Reporter].key
           from == chat[Reporter].from
<1>1. /\ Moves(up, up') /\ Moves(down, down')
      /\ chat'[Reporter].cause.kind = "subscription"
      /\ chat'[Reporter].open /\ chat'[Subscriber].open
      /\ drawn' = drawn /\ key' = key /\ from' = from
      /\ chat'[Reporter].to = chat[Reporter].to
      /\ chat'[Subscriber].from = chat[Subscriber].from
      /\ chat'[Subscriber].key = chat[Subscriber].key
  BY <1>0 DEF BothOpen, Subscribing
<1>2. /\ Free(up, 0, {"senderHello"}) /\ Free(down, 0, {"receiverFinishedMessage"})
      /\ IsSomewhere(up, down, drawn, key) /\ OffersAreFutile(up, down, chat[Reporter].to)
      /\ HelloIsLast(down, from) \/ IsCurrent
      /\ EndsAreShared(up, down, key, chat[Subscriber].key)
  BY DEF Subscribing, Rounds
<1>3. IsCurrent =>
        /\ chat[Subscriber].from = from /\ Free(down, 0, Openers)
        /\ IsOnCourse(up, down, drawn, chat[Subscriber].from, key, chat[Subscriber].key)
  BY DEF IsCurrent
<1> DEFINE up1 == up'  down1 == down'
<1> HIDE DEF up, down, drawn, key, from, up1, down1
<1>4. Moves(up, up1) /\ Moves(down, down1)
  BY <1>1 DEF up1, down1
<1>5. /\ Free(up1, 0, {"senderHello"}) /\ Free(down1, 0, {"receiverFinishedMessage"})
      /\ Free(down, 0, Openers) => Free(down1, 0, Openers)
      /\ Free(up, 0, KeyMakers) => Free(up1, 0, KeyMakers)
      /\ Free(down, 0, KeyMakers) => Free(down1, 0, KeyMakers)
      /\ HelloIsLast(down, from) => HelloIsLast(down1, from)
      /\ EndsAreShared(up1, down1, key, chat[Subscriber].key)
  BY <1>2, <1>4, MovesFree, MovesLast, MovesEnds, SettledOpensNothing
<1>6. /\ IsNowhere(up, down, drawn) => IsNowhere(up1, down1, drawn)
      /\ IsOffered(up, down, drawn) => IsOffered(up1, down1, drawn)
      /\ IsTaken(up, down, drawn, key) => IsTaken(up1, down1, drawn, key)
      /\ OffersAreFutile(up1, down1, chat[Reporter].to)
  BY <1>2, <1>4, MovesUp, MovesDown
<1>7. IsSomewhere(up1, down1, drawn, key)
  BY <1>2, <1>6 DEF IsSomewhere
<1>8. IsCurrent =>
        /\ chat[Subscriber].from = from /\ Free(down1, 0, Openers)
        /\ IsOnCourse(up1, down1, drawn, chat[Subscriber].from, key, chat[Subscriber].key)
  BY <1>3, <1>5, <1>6 DEF IsOnCourse
<1>9. Rounds' /\ (IsCurrent => IsCurrent')
  BY <1>1, <1>6, <1>7, <1>8 DEF Rounds, IsCurrent, up, down, drawn, key, from, up1, down1
<1> QED BY <1>1, <1>2, <1>5, <1>9 DEF Subscribing, up, down, key, from, up1, down1

LEMMA FinishedFields ==
    ASSUME TypeOK, NEW s \in Sides, Finished(s)
    PROVE  /\ Receive(s, "receiverFinishedMessage") /\ Drops(link[s], link'[s])
           /\ \/ /\ link[s][1].key # chat[s].key /\ link'[Peer(s)] = link[Peer(s)]
                 /\ memory' = memory
              \/ \E m \in Messages :
                    /\ Answer(s, m) /\ Adds(link[Peer(s)], m, link'[Peer(s)])
                    /\ m.key = chat[s].key
                    /\ \/ /\ m.phase = "message" /\ chat[s].cause.kind = "message"
                          /\ memory' = memory
                       \/ /\ m.phase = "reporterSessionKey"
                          /\ chat[s].cause.kind = "subscription"
                          /\ m.value = memory'[s] /\ m.value # 0
           /\ chat'[Peer(s)] = chat[Peer(s)]
           /\ chat'[s].authenticated /\ chat'[s].open = chat[s].open
           /\ chat'[s].key = chat[s].key /\ chat'[s].cause = chat[s].cause
           /\ chat'[s].from = chat[s].from /\ chat'[s].to = chat[s].to
           /\ memory[s] # 0 => memory' = memory
           /\ \A t \in Sides : t # s => memory'[t] = memory[t]
           /\ UNCHANGED <<sent, arrived, subscription, update, odd>>
<1> DEFINE cause  == chat[s].cause
           posted == Encrypted(s, cause.nr)
           handed == [phase |-> "reporterSessionKey", key |-> chat[s].key, value |-> memory'[s]]
           c      == [chat[s] EXCEPT !.authenticated = TRUE]
<1>1. /\ Receive(s, "receiverFinishedMessage") /\ chat' = [chat EXCEPT ![s] = c]
      /\ \/ /\ link[s][1].key # chat[s].key
            /\ Drop(s) /\ memory' = memory
         \/ /\ cause.kind = "message" /\ posted \in Messages
            /\ Answer(s, posted) /\ memory' = memory
         \/ /\ cause.kind = "subscription" /\ handed \in Messages /\ Answer(s, handed)
            /\ memory'[s] # 0 /\ (memory[s] # 0 => memory' = memory)
            /\ \A t \in Sides : t # s => memory'[t] = memory[t]
      /\ UNCHANGED <<sent, arrived, subscription, update, odd>>
  BY FinishedEffect
<1>2. link[s] # <<>> /\ chat[s] \in Chats
  BY <1>1, SideTypes DEF Receive
<1>3. /\ posted.phase = "message" /\ posted.key = chat[s].key
      /\ handed.phase = "reporterSessionKey" /\ handed.key = chat[s].key
      /\ handed.value = memory'[s]
  BY DEF Encrypted
<1>4. chat'[s] = c /\ chat'[Peer(s)] = chat[Peer(s)]
  BY <1>1, ChatChanges
<1>5. /\ chat'[s].authenticated /\ chat'[s].open = chat[s].open
      /\ chat'[s].key = chat[s].key /\ chat'[s].cause = chat[s].cause
      /\ chat'[s].from = chat[s].from /\ chat'[s].to = chat[s].to
  BY <1>2, <1>4 DEF Chats
<1> HIDE DEF posted, handed, c
<1>6. /\ Drops(link[s], link'[s])
      /\ Drop(s) => link'[Peer(s)] = link[Peer(s)]
      /\ \A m \in Messages : Answer(s, m) => Adds(link[Peer(s)], m, link'[Peer(s)])
  BY <1>1, <1>2, DropLinks, AnswerLinks
<1>7. CASE /\ link[s][1].key # chat[s].key /\ Drop(s) /\ memory' = memory
  BY <1>1, <1>4, <1>5, <1>6, <1>7
<1>8. CASE /\ cause.kind = "message" /\ posted \in Messages
           /\ Answer(s, posted) /\ memory' = memory
  BY <1>1, <1>3, <1>4, <1>5, <1>6, <1>8
<1>9. CASE /\ cause.kind = "subscription" /\ handed \in Messages /\ Answer(s, handed)
           /\ memory'[s] # 0 /\ (memory[s] # 0 => memory' = memory)
           /\ \A t \in Sides : t # s => memory'[t] = memory[t]
  BY <1>1, <1>3, <1>4, <1>5, <1>6, <1>9
<1> QED BY <1>1, <1>7, <1>8, <1>9

LEMMA FinishedWays ==
    ASSUME TypeOK, TypeOK', Ways, NEW s \in Sides, Finished(s)
    PROVE  Ways'
<1> DEFINE p == Peer(s)
<1>1. /\ Receive(s, "receiverFinishedMessage") /\ Drops(link[s], link'[s])
      /\ chat'[p] = chat[p]
      /\ chat'[s].authenticated /\ chat'[s].open = chat[s].open
      /\ chat'[s].key = chat[s].key /\ chat'[s].cause = chat[s].cause
      /\ chat'[s].from = chat[s].from /\ chat'[s].to = chat[s].to
  BY FinishedFields
<1>2. \/ link[s][1].key # chat[s].key /\ link'[p] = link[p]
      \/ \E m \in Messages :
            /\ Adds(link[p], m, link'[p]) /\ m.key = chat[s].key
            /\ m.phase \in {"message", "reporterSessionKey"}
            /\ m.phase = "message" => chat[s].cause.kind = "message"
  BY FinishedFields
<1>3. /\ p \in Sides /\ p # s /\ Peer(p) = s /\ \A t \in Sides : t = s \/ t = p
      /\ s = Reporter \/ s = Subscriber
  BY PeerIsOther, BothSides
<1>4. /\ link[s] # <<>> /\ link[s][1].phase = "receiverFinishedMessage"
      /\ Len(link[s]) \in Nat /\ 1 \in 1 .. Len(link[s])
  BY <1>1, FirstReceived
<1> HIDE DEF p
<1>5. CASE Alone /\ Ending(s)
  <2>1. /\ BothOpen /\ chat[p].authenticated /\ chat[p].key = chat[s].key
        /\ link[p] = <<>> /\ AllSettled(link[s], 2, chat[s].key)
    BY <1>5 DEF Ending, p
  <2>2. AllSettled(link'[s], 1, chat[s].key)
    <3>1. \A i \in 1 .. Len(link'[s]) : i + 1 \in 2 .. Len(link[s]) /\ link'[s][i] = link[s][i + 1]
      BY <1>1 DEF Drops
    <3> QED BY <2>1, <3>1 DEF AllSettled
  <2>3. AllSettled(link'[p], 1, chat[s].key)
    <3>1. Len(link[p]) = 0
      BY <1>3, <2>1, LinkTypes
    <3>2. CASE link'[p] = link[p]
      BY <3>1, <3>2 DEF AllSettled
    <3>3. CASE \E m \in Messages :
                  /\ Adds(link[p], m, link'[p]) /\ m.key = chat[s].key
                  /\ m.phase \in {"message", "reporterSessionKey"}
      BY <3>1, <3>3 DEF AllSettled, Adds, Settled
    <3> QED BY <1>2, <3>2, <3>3
  <2>4. Agreed'
    <3>1. \A t \in Sides : /\ chat'[t].open /\ chat'[t].authenticated /\ chat'[t].key = chat[s].key
                           /\ AllSettled(link'[t], 1, chat[s].key)
      BY <1>1, <1>3, <2>1, <2>2, <2>3 DEF BothOpen
    <3> QED BY <3>1, BothSides DEF Agreed, Reporter, Subscriber
  <2>5. chat'[Reporter].open => chat'[Reporter].cause.kind # "subscription"
    BY <1>1, <1>3, <1>5, BothSides DEF Alone
  <2> QED BY <2>4, <2>5 DEF Alone, Ways
<1>6. CASE s = Reporter /\ Subscribing /\ BothOpen
  <2>0. p = Subscriber
    BY <1>3, <1>6, BothSides
  <2>1. chat[s].cause.kind = "subscription"
        /\ EndsAreShared(link[s], link[p], chat[s].key, chat[p].key)
    BY <1>6, <2>0 DEF Subscribing
  <2>2. link[s][1].key = chat[s].key /\ chat[s].key = chat[p].key /\ Free(link[p], 0, KeyMakers)
    BY <1>4, <2>1 DEF EndsAreShared
  <2>3. PICK m \in Messages :
          Adds(link[p], m, link'[p]) /\ m.key = chat[s].key /\ m.phase = "reporterSessionKey"
    BY <1>2, <2>1, <2>2
  <2>4. Moves(link[s], link'[s]) /\ Moves(link[p], link'[p])
    <3>1. m.phase \in Settled /\ link[s][1].phase \notin KeyMakers \union Openers
      BY <1>4, <2>3 DEF Settled, KeyMakers, Openers
    <3> QED BY <1>1, <2>3, <3>1 DEF Moves
  <2>5. KeyIsReadable(link'[p], chat'[p].key)
    <3>1. /\ Len(link'[p]) \in 1 .. Len(link'[p]) /\ link'[p][Len(link'[p])] = m
          /\ \A j \in 1 .. Len(link'[p]) - 1 : j \in 1 .. Len(link[p]) /\ link'[p][j] = link[p][j]
      BY <2>3 DEF Adds
    <3>2. \A j \in 1 .. Len(link'[p]) - 1 : link'[p][j].phase \notin KeyMakers
      BY <2>2, <3>1 DEF Free
    <3> QED BY <1>1, <2>2, <2>3, <3>1, <3>2 DEF KeyIsReadable
  <2>6. Subscribing'
    <3>1. HasTheKey'
      BY <2>0, <2>5 DEF HasTheKey
    <3>2. \A t \in Sides :
            /\ chat'[t].open = chat[t].open /\ chat'[t].cause = chat[t].cause
            /\ chat'[t].from = chat[t].from /\ chat'[t].to = chat[t].to
            /\ chat'[t].key = chat[t].key /\ Moves(link[t], link'[t])
      BY <1>1, <1>3, <2>4
    <3> QED BY <1>6, <3>1, <3>2, SubscribingMoves
  <2> QED BY <2>6 DEF Ways
<1> QED BY <1>1, <1>5, <1>6, PhaseOfWays

\* The messages that follow a handshake are taken.
LEMMA SettledWays ==
    ASSUME TypeOK, TypeOK', Ways, HasTheKey => HasTheKey', NEW s \in Sides,
           ReporterSessionKey(s) \/ ReceiverAcknowledge(s) \/ Arrive(s)
    PROVE  Ways'
<1> DEFINE p   == Peer(s)
           ack == [phase |-> "receiverAcknowledge", key |-> link[s][1].key]
<1>1. /\ chat' = chat
      /\ \E phase \in Settled : Receive(s, phase)
      /\ Drop(s) \/ (ack \in Messages /\ Answer(s, ack))
  <2>1. CASE ReporterSessionKey(s)
    BY <2>1, ReporterSessionKeyEffect DEF Settled
  <2>2. CASE ReceiverAcknowledge(s)
    BY <2>2 DEF ReceiverAcknowledge, Settled
  <2>3. CASE Arrive(s)
    BY <2>3, ArriveEffect DEF Settled
  <2> QED BY <2>1, <2>2, <2>3
<1>2. ack.phase \in Settled /\ ack.key = link[s][1].key
  BY DEF Settled
<1> HIDE DEF ack
<1>3. PICK phase \in Settled : Receive(s, phase)
  BY <1>1
<1>4. /\ link[s] # <<>> /\ link[s][1].phase \in Settled
      /\ Len(link[s]) \in Nat /\ 1 \in 1 .. Len(link[s])
  BY <1>3, FirstReceived
<1>5. /\ p \in Sides /\ p # s /\ \A t \in Sides : t = s \/ t = p
  BY PeerIsOther
<1>6. CASE Alone /\ Agreed
  <2>1. \A t \in Sides : AllSettled(link[t], 1, chat["reporter"].key)
    BY <1>6 DEF Agreed
  <2>2. link[s][1].key = chat["reporter"].key
    BY <1>4, <2>1 DEF AllSettled
  <2>3. \A t \in Sides : AllSettled(link'[t], 1, chat["reporter"].key)
    BY <1>1, <1>2, <1>4, <1>5, <2>1, <2>2, SettledAnswer
  <2>4. Agreed'
    BY <1>1, <1>6, <2>3 DEF Agreed
  <2> QED BY <1>1, <1>6, <2>4 DEF Alone, Ways
<1>7. CASE Subscribing /\ BothOpen
  <2>1. Moves(link[s], link'[s]) /\ Moves(link[p], link'[p])
    <3>1. Drops(link[s], link'[s]) /\ link[s][1].phase \notin KeyMakers \union Openers
      BY <1>1, <1>4, DropLinks, AnswerLinks, SettledOpensNothing
    <3>2. link'[p] = link[p] \/ Adds(link[p], ack, link'[p])
      BY <1>1, <1>4, DropLinks, AnswerLinks
    <3> QED BY <1>2, <3>1, <3>2 DEF Moves
  <2>2. chat'[Reporter].authenticated => HasTheKey'
    BY <1>1, <1>7 DEF Subscribing
  <2>3. Subscribing'
    BY <1>1, <1>5, <1>7, <2>1, <2>2, SubscribingMoves
  <2> QED BY <2>3 DEF Ways
<1> QED BY <1>3, <1>6, <1>7, PhaseOfWays

-----------------------------------------------------------------------------
(* Messages that are sent, and subscriptions.                              *)

\* Nothing of the handshakes changes.
LEMMA WaysStay ==
    ASSUME Ways, UNCHANGED <<chat, link>>, HasTheKey => HasTheKey'
    PROVE  Ways'
<1>1. chat' = chat /\ link' = link
  OBVIOUS
<1>2. (BothOpen => BothOpen') /\ (NobodyIsSure => NobodyIsSure')
  BY <1>1 DEF BothOpen, NobodyIsSure
<1>3. CASE Quiet
  BY <1>1, <1>3 DEF Quiet, Ways
<1>4. CASE Alone
  <2>1. (Agreed => Agreed') /\ (GivenUp => GivenUp')
    BY <1>1, <1>2 DEF Agreed, GivenUp
  <2>2. \A s \in Sides : /\ Calling(s) => Calling(s)'
                         /\ Heard(s) => Heard(s)'
                         /\ Proposing(s) => Proposing(s)'
                         /\ Ending(s) => Ending(s)'
    BY <1>1, <1>2 DEF Calling, Heard, Proposing, Ending
  <2> QED BY <1>1, <1>4, <2>1, <2>2 DEF Alone, Ways
<1>5. CASE Crossing
  BY <1>1, <1>2, <1>5 DEF Crossing, Ways
<1>6. Rounds => Rounds'
  BY <1>1 DEF Rounds
<1>7. CASE Crossed
  BY <1>1, <1>2, <1>6, <1>7 DEF Crossed, Ways
<1>8. CASE Subscribing
  <2>1. IsCurrent => IsCurrent'
    BY <1>1 DEF IsCurrent
  <2> QED BY <1>1, <1>2, <1>6, <1>8, <2>1 DEF Subscribing, Ways
<1> QED BY <1>3, <1>4, <1>5, <1>7, <1>8 DEF Ways

LEMMA AloneStays ==
    ASSUME Alone, link' = link,
           \A s \in Sides : /\ chat'[s].open <=> chat[s].open
                            /\ chat'[s].authenticated <=> chat[s].authenticated
                            /\ chat'[s].key = chat[s].key /\ chat'[s].cause = chat[s].cause
    PROVE  Alone'
<1>1. (BothOpen => BothOpen') /\ (NobodyIsSure => NobodyIsSure')
  BY DEF BothOpen, NobodyIsSure
<1>2. Agreed => Agreed'
  BY BothSides DEF Agreed, Reporter, Subscriber
<1>3. GivenUp => GivenUp'
  BY <1>1 DEF GivenUp
<1>4. ASSUME NEW s \in Sides
      PROVE  /\ Calling(s) => Calling(s)'
             /\ Heard(s) => Heard(s)'
             /\ Proposing(s) => Proposing(s)'
             /\ Ending(s) => Ending(s)'
  BY <1>1, PeerIsOther DEF Calling, Heard, Proposing, Ending
<1>5. chat'[Reporter].open => chat'[Reporter].cause.kind # "subscription"
  BY BothSides DEF Alone
<1> QED BY <1>2, <1>3, <1>4, <1>5 DEF Alone

\* Where a side may be that has no chat keys, or that counts as authenticated.
LEMMA ClosedWays ==
    ASSUME Ways, NEW s \in Sides, ~chat[s].open
    PROVE  Quiet \/ (Alone /\ Calling(Peer(s))) \/ (s = Subscriber /\ Subscribing)
<1>1. ~BothOpen
  BY DEF BothOpen
<1>2. CASE Alone
  <2>1. ~Agreed /\ ~GivenUp
    BY <1>1 DEF Agreed, GivenUp
  <2>2. \A t \in Sides : ~Heard(t) /\ ~Proposing(t) /\ ~Ending(t)
    BY <1>1 DEF Heard, Proposing, Ending
  <2>3. \A t \in Sides : Calling(t) => t = Peer(s)
    BY PeerIsOther DEF Calling
  <2> QED BY <1>2, <2>1, <2>2, <2>3 DEF Alone
<1>3. CASE Crossing
  BY <1>1, <1>3 DEF Crossing
<1>4. CASE Crossed
  BY <1>1, <1>4 DEF Crossed
<1>5. CASE Subscribing
  BY <1>5, BothSides DEF Subscribing
<1> QED BY <1>2, <1>3, <1>4, <1>5 DEF Ways

LEMMA SureWays ==
    ASSUME Ways, NEW s \in Sides, chat[s].authenticated
    PROVE  (Alone /\ (Agreed \/ Ending(Peer(s)))) \/ (Subscribing /\ BothOpen)
<1>1. ~NobodyIsSure /\ ~Quiet
  BY DEF NobodyIsSure, Quiet
<1>2. CASE Alone
  <2>1. ~GivenUp
    BY <1>1 DEF GivenUp
  <2>2. \A t \in Sides : ~Calling(t) /\ ~Heard(t) /\ ~Proposing(t)
    BY <1>1 DEF Calling, Heard, Proposing
  <2>3. \A t \in Sides : Ending(t) => t = Peer(s)
    BY PeerIsOther DEF Ending
  <2> QED BY <1>2, <2>1, <2>2, <2>3 DEF Alone
<1>3. CASE Crossing
  BY <1>1, <1>3 DEF Crossing
<1>4. CASE Crossed
  BY <1>1, <1>4 DEF Crossed
<1>5. CASE Subscribing
  <2>1. chat[Reporter].open /\ chat[Subscriber].open
    BY <1>1, <1>5 DEF Subscribing
  <2> QED BY <1>5, <2>1, BothSides DEF BothOpen
<1> QED BY <1>1, <1>2, <1>3, <1>4, <1>5 DEF Ways

\* A side that counts as authenticated sends something with its keys.
LEMMA PostWays ==
    ASSUME TypeOK, TypeOK', Ways, HasTheKey => HasTheKey', NEW s \in Sides, chat[s].authenticated,
           chat' = chat, link'[s] = link[s], NEW m, Adds(link[Peer(s)], m, link'[Peer(s)]),
           m.phase \in Settled, m.key = chat[s].key
    PROVE  Ways'
<1> DEFINE p == Peer(s)
<1>1. /\ p \in Sides /\ p # s /\ Peer(p) = s /\ \A t \in Sides : t = s \/ t = p
      /\ Len(link[p]) \in Nat /\ (link[p] = <<>> <=> Len(link[p]) = 0)
      /\ link'[p] = <<>> <=> Len(link'[p]) = 0
  BY PeerIsOther, LinkTypes
<1>2. Adds(link[p], m, link'[p])
  OBVIOUS
<1> HIDE DEF p
<1>3. /\ Len(link'[p]) = Len(link[p]) + 1 /\ link'[p][Len(link[p]) + 1] = m
      /\ \A i \in 1 .. Len(link[p]) : link'[p][i] = link[p][i]
  BY <1>2 DEF Adds
<1>4. ASSUME NEW n \in {1, 2}, AllSettled(link[p], n, chat[s].key)
      PROVE  AllSettled(link'[p], n, chat[s].key)
  <2>1. \A i \in n .. Len(link'[p]) : i \in n .. Len(link[p]) \/ i = Len(link[p]) + 1
    BY <1>1, <1>3
  <2>2. \A i \in n .. Len(link[p]) : i \in 1 .. Len(link[p])
    BY <1>1
  <2> QED BY <1>3, <1>4, <2>1, <2>2 DEF AllSettled
<1>5. CASE Alone /\ Agreed
  <2>1. \A t \in Sides : AllSettled(link[t], 1, chat["reporter"].key)
    BY <1>5 DEF Agreed
  <2>2. chat[s].key = chat["reporter"].key
    BY <1>5, BothSides DEF Agreed, Reporter, Subscriber
  <2>3. \A t \in Sides : AllSettled(link'[t], 1, chat["reporter"].key)
    BY <1>1, <1>4, <2>1, <2>2
  <2>4. Agreed'
    BY <1>5, <2>3 DEF Agreed
  <2> QED BY <1>5, <2>4 DEF Alone, Ways
<1>6. CASE Alone /\ Ending(p)
  <2>1. /\ BothOpen /\ chat[s].authenticated /\ ~chat[p].authenticated
        /\ chat[s].key = chat[p].key /\ link[s] = <<>>
        /\ link[p] # <<>> /\ link[p][1].phase = "receiverFinishedMessage"
        /\ AllSettled(link[p], 2, chat[p].key)
    BY <1>1, <1>6 DEF Ending
  <2>2. /\ link'[p] # <<>> /\ link'[p][1].phase = "receiverFinishedMessage"
        /\ AllSettled(link'[p], 2, chat[p].key)
    BY <1>1, <1>3, <1>4, <2>1
  <2>3. BothOpen'
    BY <2>1 DEF BothOpen
  <2>4. Ending(p)'
    <3>1. Peer(p)' = s
      BY <1>1
    <3> QED BY <1>1, <2>1, <2>2, <2>3, <3>1 DEF Ending
  <2> QED BY <1>1, <1>6, <2>4 DEF Alone, Ways
<1>7. CASE Subscribing /\ BothOpen
  <2>1. \A t \in Sides : Moves(link[t], link'[t])
    BY <1>1, <1>2 DEF Moves
  <2>2. chat'[Reporter].authenticated => HasTheKey'
    BY <1>7 DEF Subscribing
  <2>3. Subscribing'
    BY <1>7, <2>1, <2>2, SubscribingMoves
  <2> QED BY <2>3 DEF Ways
<1> QED BY <1>5, <1>6, <1>7, SureWays DEF p

\* Both sides have begun a handshake, the second before it heard of the first.
LEMMA SecondBegins ==
    ASSUME TypeOK, TypeOK', NEW s \in Sides, ~chat[s].open,
           (Alone /\ Calling(Peer(s))) \/ (s = Subscriber /\ Subscribing),
           chat'[Peer(s)] = chat[Peer(s)], chat'[s].open, ~chat'[s].authenticated,
           link'[s] = link[s], NEW m, Adds(link[Peer(s)], m, link'[Peer(s)]),
           m.phase = "senderHello"
    PROVE  Crossing'
<1> DEFINE p == Peer(s)
<1>1. /\ p \in Sides /\ p # s /\ Peer(p) = s /\ \A t \in Sides : t = s \/ t = p
      /\ s = Reporter \/ s = Subscriber
      /\ \A t \in Sides : /\ Len(link[t]) \in Nat /\ (link[t] = <<>> <=> Len(link[t]) = 0)
                          /\ Len(link'[t]) \in Nat /\ (link'[t] = <<>> <=> Len(link'[t]) = 0)
  BY PeerIsOther, BothSides, LinkTypes
<1>2. Adds(link[p], m, link'[p]) /\ chat'[p] = chat[p]
  OBVIOUS
<1>3. /\ chat[p].open /\ NobodyIsSure /\ link[p] = <<>> /\ link[s] # <<>>
      /\ Only(link[s], {"senderHello"})
      /\ s = Reporter => Len(link[s]) = 1
  <2>1. CASE Alone /\ Calling(p)
    <3>1. /\ chat[p].open /\ NobodyIsSure /\ link[p] = <<>>
          /\ Len(link[s]) = 1 /\ link[s][1].phase = "senderHello"
      BY <1>1, <2>1 DEF Calling
    <3> QED BY <1>1, <3>1 DEF Only
  <2>2. CASE s = Subscriber /\ Subscribing
    BY <2>2, BothSides DEF Subscribing
  <2> QED BY <2>1, <2>2
<1> HIDE DEF p
<1>4. Len(link'[p]) = 1 /\ link'[p][1].phase = "senderHello" /\ link'[p] # <<>>
  BY <1>1, <1>2, <1>3 DEF Adds
<1>5. Only(link'[p], {"senderHello"})
  BY <1>4 DEF Only
<1>6. BothOpen' /\ NobodyIsSure'
  BY <1>1, <1>2, <1>3 DEF BothOpen, NobodyIsSure
<1> DEFINE up == link'[Reporter]  down == link'[Subscriber]
<1>7. /\ Only(up, {"senderHello"}) /\ Only(down, {"senderHello"})
      /\ up # <<>> /\ down # <<>> /\ Len(up) = 1
  <2>1. CASE s = Reporter
    <3>1. p = Subscriber
      BY <2>1, BothSides DEF p
    <3> QED BY <1>3, <1>4, <1>5, <2>1, <3>1
  <2>2. CASE s = Subscriber
    <3>1. p = Reporter
      BY <2>2, BothSides DEF p
    <3> QED BY <1>3, <1>4, <1>5, <2>2, <3>1
  <2> QED BY <1>1, <2>1, <2>2
<1> HIDE DEF up, down
<1>8. IsNowhere(up, down, chat'[Subscriber].to) /\ up[1].phase = "senderHello"
  BY <1>7 DEF IsNowhere, Only
<1> QED BY <1>6, <1>7, <1>8 DEF Crossing, up, down

LEMMA SendFields ==
    ASSUME TypeOK, NEW s \in Sides, Send(s)
    PROVE  LET hello == [phase |-> "senderHello", value |-> fresh + 1]
           IN  /\ \/ /\ ~chat[s].open /\ hello \in Messages
                     /\ Adds(link[Peer(s)], hello, link'[Peer(s)]) /\ link'[s] = link[s]
                     /\ chat'[Peer(s)] = chat[Peer(s)]
                     /\ chat'[s].open /\ ~chat'[s].authenticated
                     /\ chat'[s].cause.kind = "message" /\ fresh' = fresh + 1
                  \/ /\ chat[s].authenticated /\ UNCHANGED <<chat, fresh>> /\ link'[s] = link[s]
                     /\ \E m \in Messages :
                           /\ Adds(link[Peer(s)], m, link'[Peer(s)])
                           /\ m.phase = "message" /\ m.key = chat[s].key
                  \/ UNCHANGED <<chat, fresh, link>>
               /\ UNCHANGED <<arrived, subscription, memory, stored, update, odd>>
<1> DEFINE n      == Len(sent) + 1
           cause  == [kind |-> "message", nr |-> n]
           hello  == [phase |-> "senderHello", value |-> fresh + 1]
           posted == Encrypted(s, n)
           new    == NewChat(cause, 0)
           c      == [new EXCEPT !.from = fresh + 1]
<1>1. n \in Sends /\ UNCHANGED <<arrived, subscription, memory, stored, update, odd>>
  BY DEF Send, keys
<1>2. CASE /\ ~chat[s].open /\ chat' = [chat EXCEPT ![s] = c]
           /\ fresh' = fresh + 1 /\ Post(s, hello)
  <2>1. hello \in Messages /\ cause \in Causes
    BY <1>1, SideTypes DEF Messages, Causes
  <2>2. new \in Chats /\ new.open /\ ~new.authenticated /\ new.cause = cause
    BY <2>1, NewChatFits
  <2>3. cause.kind = "message"
    OBVIOUS
  <2> HIDE DEF hello, cause, new
  <2>4. Adds(link[Peer(s)], hello, link'[Peer(s)]) /\ link'[s] = link[s]
    BY <1>2, <2>1, PostLinks
  <2>5. c.open /\ ~c.authenticated /\ c.cause = cause
    BY <2>2 DEF Chats
  <2> HIDE DEF c
  <2>6. chat'[s] = c /\ chat'[Peer(s)] = chat[Peer(s)]
    BY <1>2, ChatChanges
  <2> QED BY <1>1, <1>2, <2>1, <2>3, <2>4, <2>5, <2>6 DEF hello
<1>3. CASE chat[s].authenticated /\ Post(s, posted) /\ UNCHANGED <<chat, fresh>>
  <2>1. posted \in Messages
    BY <1>1, SideTypes DEF Encrypted, Messages
  <2>2. posted.phase = "message" /\ posted.key = chat[s].key
    BY DEF Encrypted
  <2> HIDE DEF posted
  <2>3. Adds(link[Peer(s)], posted, link'[Peer(s)]) /\ link'[s] = link[s]
    BY <1>3, <2>1, PostLinks
  <2> QED BY <1>1, <1>3, <2>1, <2>2, <2>3
<1>4. CASE UNCHANGED <<chat, fresh, link>>
  BY <1>1, <1>4
<1> QED BY <1>2, <1>3, <1>4 DEF Send

LEMMA SubscribeFields ==
    ASSUME TypeOK, NEW n \in Subscribes, Subscribe(n)
    PROVE  LET hello == [phase |-> "senderHello", value |-> fresh + 1]
               c     == chat'[Reporter]
           IN  /\ chat'[Subscriber] = chat[Subscriber] /\ link'[Reporter] = link[Reporter]
               /\ \/ /\ ~chat[Reporter].authenticated /\ ~c.authenticated /\ c.open
                     /\ c.from = fresh + 1 /\ fresh' = fresh + 1 /\ hello \in Messages
                     /\ ~chat[Reporter].open => c.cause.kind = "subscription"
                     /\ chat[Reporter].open => /\ c.cause = chat[Reporter].cause
                                               /\ c.key = chat[Reporter].key
                                               /\ c.to = chat[Reporter].to
                     /\ c.cause.kind = "subscription"
                           => Adds(link[Subscriber], hello, link'[Subscriber])
                     /\ c.cause.kind # "subscription" => link' = link
                     /\ memory' = memory
                     /\ subscription' = [subscription EXCEPT ![n] = "waiting"]
                  \/ /\ chat[Reporter].authenticated /\ chat' = chat
                     /\ \E m \in Messages :
                           /\ Adds(link[Subscriber], m, link'[Subscriber])
                           /\ m.phase = "reporterSessionKey" /\ m.key = chat[Reporter].key
                           /\ m.value = memory'[Reporter] /\ m.value # 0
                     /\ memory[Reporter] # 0 => memory' = memory
                     /\ memory'[Subscriber] = memory[Subscriber]
                     /\ fresh <= fresh'
               /\ "raced" \in odd' <=> "raced" \in odd
               /\ UNCHANGED <<sent, arrived, update>>
<1> DEFINE old   == chat[Reporter]
           cause == [kind |-> "subscription"]
           new   == IF old.open THEN old ELSE NewChat(cause, n)
           hello == [phase |-> "senderHello", value |-> fresh + 1]
           c     == [new EXCEPT !.from = fresh + 1]
<1>0. /\ Reporter \in Sides /\ Subscriber = Peer(Reporter) /\ Subscriber \in Sides
      /\ Subscriber # Reporter
  BY BothSides
<1>1. CASE ~old.authenticated
  <2>1. /\ subscription' = [subscription EXCEPT ![n] = "waiting"]
        /\ chat' = [chat EXCEPT ![Reporter] = c]
        /\ fresh' = fresh + 1
        /\ new.cause.kind = "subscription" => Post(Reporter, hello)
        /\ new.cause.kind # "subscription" => link' = link
        /\ odd' \in {odd, odd \union {"disturbed"}}
        /\ UNCHANGED <<memory, sent, arrived, update>>
    BY <1>1 DEF Subscribe, keys, Reporter
  <2>2. cause \in Causes /\ hello \in Messages
    BY <1>0, SideTypes DEF Causes, Messages
  <2>3. cause.kind = "subscription"
    OBVIOUS
  <2> HIDE DEF cause, hello
  <2>4. /\ NewChat(cause, n) \in Chats /\ old \in Chats
        /\ NewChat(cause, n).open /\ ~NewChat(cause, n).authenticated
        /\ NewChat(cause, n).cause = cause
    BY <1>0, <2>2, NewChatFits, SideTypes DEF old
  <2>5. /\ new \in Chats /\ new.open /\ ~new.authenticated
        /\ old.open => new = old
        /\ ~old.open => new.cause = cause
    BY <1>1, <2>4
  <2> HIDE DEF new, old
  <2>6. /\ c.from = fresh + 1 /\ c.open = new.open /\ c.authenticated = new.authenticated
        /\ c.cause = new.cause /\ c.key = new.key /\ c.to = new.to
    BY <2>5 DEF Chats
  <2> HIDE DEF c
  <2>7. chat'[Reporter] = c /\ chat'[Subscriber] = chat[Subscriber]
    BY <1>0, <2>1, ChatChanges
  <2>8. /\ link'[Reporter] = link[Reporter]
        /\ new.cause.kind = "subscription" => Adds(link[Subscriber], hello, link'[Subscriber])
    BY <1>0, <2>1, <2>2, PostLinks
  <2>9. "raced" \in odd' <=> "raced" \in odd
    BY <2>1
  <2> QED BY <1>1, <2>1, <2>2, <2>3, <2>5, <2>6, <2>7, <2>8, <2>9 DEF old, hello
<1>2. CASE old.authenticated
  <2> DEFINE m == [phase |-> "reporterSessionKey", value |-> memory'[Reporter],
                   key |-> chat[Reporter].key]
  <2>1. SessionKey(Reporter) /\ UNCHANGED <<chat, sent, arrived, update, odd>>
    BY <1>2 DEF Subscribe, Reporter
  <2>2. /\ memory' \in [Sides -> Nat] /\ link'[Reporter] = link[Reporter]
        /\ link'[Subscriber] = Append(link[Subscriber], m)
        /\ memory[Reporter] # 0 => memory' = memory
        /\ memory'[Subscriber] = memory[Subscriber]
        /\ memory'[Reporter] # 0 /\ fresh <= fresh'
    BY <1>0, <2>1, SessionKeyTypes
  <2>3. m \in Messages /\ link[Subscriber] \in Seq(Messages)
    BY <1>0, <2>2, SideTypes DEF Messages, TypeOK
  <2>4. /\ m.phase = "reporterSessionKey" /\ m.key = chat[Reporter].key
        /\ m.value = memory'[Reporter]
    OBVIOUS
  <2> HIDE DEF m
  <2>5. Adds(link[Subscriber], m, link'[Subscriber])
    BY <2>2, <2>3, AppendAdds
  <2> QED BY <1>2, <2>1, <2>2, <2>3, <2>4, <2>5
<1> QED BY <1>1, <1>2

LEMMA SendWays ==
    ASSUME TypeOK, TypeOK', Ways, HasTheKey => HasTheKey', NEW s \in Sides, Send(s)
    PROVE  Ways'
<1> DEFINE p == Peer(s)
<1>1. \/ /\ ~chat[s].open /\ chat'[p] = chat[p] /\ link'[s] = link[s]
         /\ \E m : Adds(link[p], m, link'[p]) /\ m.phase = "senderHello"
         /\ chat'[s].open /\ ~chat'[s].authenticated /\ chat'[s].cause.kind = "message"
      \/ /\ chat[s].authenticated /\ chat' = chat /\ link'[s] = link[s]
         /\ \E m : /\ Adds(link[p], m, link'[p])
                   /\ m.phase \in Settled /\ m.key = chat[s].key
      \/ UNCHANGED <<chat, link>>
  <2>1. /\ [phase |-> "senderHello", value |-> fresh + 1].phase = "senderHello"
        /\ "message" \in Settled
    BY DEF Settled
  <2> QED BY <2>1, SendFields
<1>2. CASE /\ ~chat[s].open /\ chat'[p] = chat[p] /\ link'[s] = link[s]
           /\ \E m : Adds(link[p], m, link'[p]) /\ m.phase = "senderHello"
           /\ chat'[s].open /\ ~chat'[s].authenticated /\ chat'[s].cause.kind = "message"
  <2>1. PICK m : Adds(link[p], m, link'[p]) /\ m.phase = "senderHello"
    BY <1>2
  <2>2. CASE Quiet
    <3>1. /\ p \in Sides /\ p # s /\ Peer(p) = s /\ \A t \in Sides : t = s \/ t = p
          /\ s = Reporter \/ s = Subscriber
          /\ Len(link[p]) = 0
      BY <2>2, PeerIsOther, BothSides, LinkTypes DEF Quiet
    <3>2. Len(link'[p]) = 1 /\ link'[p][1] = m /\ link'[s] = <<>>
      BY <1>2, <2>1, <2>2, <3>1 DEF Adds, Quiet
    <3>3. NobodyIsSure' /\ ~chat'[p].open
      BY <1>2, <2>2, <3>1 DEF NobodyIsSure, Quiet
    <3>4. Calling(s)'
      BY <1>2, <2>1, <3>2, <3>3 DEF Calling
    <3>5. chat'[Reporter].open => chat'[Reporter].cause.kind # "subscription"
      BY <1>2, <3>1, <3>3, BothSides
    <3> QED BY <3>4, <3>5 DEF Alone, Ways
  <2>3. CASE (Alone /\ Calling(p)) \/ (s = Subscriber /\ Subscribing)
    <3>1. Crossing'
      BY <1>2, <2>1, <2>3, SecondBegins
    <3> QED BY <3>1 DEF Ways
  <2> QED BY <1>2, <2>2, <2>3, ClosedWays
<1>3. CASE /\ chat[s].authenticated /\ chat' = chat /\ link'[s] = link[s]
           /\ \E m : /\ Adds(link[p], m, link'[p])
                     /\ m.phase \in Settled /\ m.key = chat[s].key
  <2>1. PICK m : Adds(link[p], m, link'[p]) /\ m.phase \in Settled /\ m.key = chat[s].key
    BY <1>3
  <2> QED BY <1>3, <2>1, PostWays
<1>4. CASE UNCHANGED <<chat, link>>
  BY <1>4, WaysStay
<1> QED BY <1>1, <1>2, <1>3, <1>4

LEMMA SubscribeWays ==
    ASSUME TypeOK, TypeOK', Ways, HasTheKey => HasTheKey', NEW n \in Subscribes, Subscribe(n)
    PROVE  Ways'
<1> DEFINE old  == chat[Reporter]
           new  == chat'[Reporter]
           m    == [phase |-> "senderHello", value |-> fresh + 1]
           up   == link[Reporter]  down == link[Subscriber]  next == link'[Subscriber]
<1>1. /\ chat'[Subscriber] = chat[Subscriber] /\ link'[Reporter] = up
      /\ \/ /\ ~old.authenticated /\ ~new.authenticated /\ new.open /\ new.from = fresh + 1
            /\ ~old.open => new.cause.kind = "subscription"
            /\ old.open => /\ new.cause = old.cause /\ new.key = old.key /\ new.to = old.to
            /\ new.cause.kind = "subscription" => Adds(down, m, next)
            /\ new.cause.kind # "subscription" => link' = link
         \/ /\ old.authenticated /\ chat' = chat
            /\ \E k \in Messages :
                  /\ Adds(down, k, next) /\ k.phase = "reporterSessionKey" /\ k.key = old.key
  BY SubscribeFields
<1>2. /\ Reporter \in Sides /\ Subscriber \in Sides /\ Peer(Reporter) = Subscriber
      /\ Peer(Subscriber) = Reporter
      /\ \A t \in Sides : t = Reporter \/ t = Subscriber
  BY BothSides
<1>3. /\ m.phase = "senderHello" /\ m.phase \notin KeyMakers
      /\ m = [phase |-> "senderHello", value |-> fresh + 1]
  BY DEF KeyMakers
<1>4. CASE old.authenticated
  <2>1. PICK k \in Messages :
          Adds(down, k, next) /\ k.phase = "reporterSessionKey" /\ k.key = old.key
    BY <1>1, <1>4
  <2>2. k.phase \in Settled
    BY <2>1 DEF Settled
  <2> QED BY <1>1, <1>2, <1>4, <2>1, <2>2, PostWays
<1> HIDE DEF m
<1>5. CASE ~old.authenticated /\ ~old.open
  <2>1. Adds(down, m, next) /\ new.cause.kind = "subscription"
    BY <1>1, <1>5
  <2>2. CASE Quiet
    <3>1. /\ up = <<>> /\ Len(up) = 0 /\ Len(down) = 0 /\ ~chat[Subscriber].open
          /\ ~chat[Subscriber].authenticated
      BY <1>2, <2>2, LinkTypes DEF Quiet
    <3>2. Len(next) = 1 /\ next[1] = m /\ next # <<>>
      BY <1>2, <2>1, <3>1, LinkTypes DEF Adds
    <3>3. /\ Free(up, 0, {"senderHello"}) /\ Free(up, 0, {"receiverFinishedMessage"})
          /\ Free(up, 0, KeyMakers) /\ Free(next, 0, KeyMakers)
          /\ Free(next, 0, {"receiverFinishedMessage"}) /\ Only(next, {"senderHello"})
      BY <1>3, <3>1, <3>2 DEF Free, Only
    <3>4. NobodyIsSure'
      BY <1>1, <1>2, <1>5, <3>1 DEF NobodyIsSure
    <3> HIDE DEF up, next
    <3>5. OffersAreFutile(up, next, new.to)
      BY <3>3 DEF OffersAreFutile, Free, KeyMakers
    <3>6. Rounds'
      BY <1>1, <3>3, <3>5, FreeIsNowhere DEF Rounds, IsSomewhere, up, next
    <3>7. HelloIsLast(next, new.from)
      BY <1>1, <1>3, <1>5, <2>1, AddsLast
    <3>8. Subscribing'
      BY <1>1, <1>5, <2>1, <3>1, <3>2, <3>3, <3>4, <3>6, <3>7, FreeEnds
         DEF Subscribing, up, next
    <3> QED BY <3>8 DEF Ways
  <2>3. CASE Alone /\ Calling(Subscriber)
    <3>1. Crossing'
      BY <1>1, <1>2, <1>3, <1>5, <2>1, <2>3, SecondBegins
    <3> QED BY <3>1 DEF Ways
  <2>4. Reporter # Subscriber
    BY BothSides
  <2> QED BY <1>2, <1>5, <2>2, <2>3, <2>4, ClosedWays
<1>6. CASE ~old.authenticated /\ old.open
  <2>0. /\ new.cause = old.cause /\ new.key = old.key /\ new.to = old.to
        /\ new.open /\ ~new.authenticated /\ new.from = fresh + 1
        /\ BothOpen => BothOpen'
        /\ NobodyIsSure => NobodyIsSure'
    BY <1>1, <1>2, <1>6 DEF BothOpen, NobodyIsSure
  <2>1. CASE Alone
    <3>1. link' = link
      <4>1. old.cause.kind # "subscription"
        BY <1>6, <2>1 DEF Alone
      <4> QED BY <1>1, <1>6, <2>0, <4>1
    <3>2. Alone'
      BY <1>1, <1>2, <1>6, <2>0, <2>1, <3>1, AloneStays
    <3> QED BY <3>2 DEF Ways
  <2>2. CASE link' = link /\ Crossing
    <3>1. Crossing'
      BY <1>1, <2>0, <2>2 DEF Crossing
    <3> QED BY <3>1 DEF Ways
  <2>3. CASE link' = link /\ Crossed
    <3>1. Crossed'
      BY <1>1, <2>0, <2>3 DEF Crossed, Rounds
    <3> QED BY <3>1 DEF Ways
  <2>4. CASE old.cause.kind = "subscription"
    <3>1. Adds(down, m, next)
      BY <1>1, <2>0, <2>4, <1>6
    <3>2. \A drawn, taken :
            /\ IsNowhere(up, down, drawn) => IsNowhere(up, next, drawn)
            /\ IsOffered(up, down, drawn) => IsOffered(up, next, drawn)
            /\ \A key : IsTaken(up, down, drawn, key) => IsTaken(up, next, drawn, key)
            /\ OffersAreFutile(up, down, taken) => OffersAreFutile(up, next, taken)
      <4>1. ASSUME NEW drawn
            PROVE  /\ IsNowhere(up, down, drawn) => IsNowhere(up, next, drawn)
                   /\ IsOffered(up, down, drawn) => IsOffered(up, next, drawn)
                   /\ \A key : IsTaken(up, down, drawn, key) => IsTaken(up, next, drawn, key)
                   /\ \A taken : OffersAreFutile(up, down, taken) => OffersAreFutile(up, next, taken)
        BY <1>3, <3>1, AddsDown
      <4> QED BY <4>1
    <3>3. CASE Crossing
      <4>1. Only(next, {"senderHello"}) /\ next # <<>>
        <5>1. Only(next, {"senderHello"})
          BY <1>3, <3>1, <3>3, OnlyAdds DEF Crossing
        <5> QED BY <1>2, <3>1, <5>1, LinkTypes DEF Adds
      <4>2. Crossing'
        BY <1>1, <2>0, <3>2, <3>3, <4>1 DEF Crossing
      <4> QED BY <4>2 DEF Ways
    <3>4. HelloIsLast(next, new.from)
      BY <1>3, <2>0, <3>1, AddsLast
    <3>5. Rounds => Rounds'
      BY <1>1, <2>0, <3>2 DEF Rounds, IsSomewhere
    <3>6. CASE Crossed
      <4>1. /\ Free(up, 0, {"senderHello"}) /\ Free(up, 0, {"receiverFinishedMessage"})
            /\ Free(down, 0, {"receiverFinishedMessage"})
        BY <3>6 DEF Crossed, Only, Free, KeyMakers
      <4>2. Free(next, 0, {"receiverFinishedMessage"})
        BY <1>3, <3>1, <4>1, FreeAdds
      <4>3. BothOpen' /\ Rounds'
        BY <2>0, <3>5, <3>6 DEF Crossed
      <4>4. chat'[Subscriber].open
        BY <1>2, <4>3 DEF BothOpen
      <4>5. Subscribing'
        BY <1>1, <2>0, <2>4, <3>4, <4>1, <4>2, <4>3, <4>4, FreeEnds DEF Subscribing
      <4> QED BY <4>5 DEF Ways
    <3>7. CASE Subscribing
      <4>1. /\ Free(up, 0, {"senderHello"}) /\ Free(down, 0, {"receiverFinishedMessage"})
            /\ EndsAreShared(up, down, old.key, chat[Subscriber].key) /\ Rounds
            /\ ~chat[Subscriber].open =>
                  NobodyIsSure /\ up = <<>> /\ Only(down, {"senderHello"})
        BY <3>7 DEF Subscribing
      <4>2. /\ Free(next, 0, {"receiverFinishedMessage"})
            /\ EndsAreShared(up, next, old.key, chat[Subscriber].key)
            /\ next # <<>>
            /\ ~chat[Subscriber].open => Only(next, {"senderHello"})
        <5>1. Free(next, 0, {"receiverFinishedMessage"})
          BY <1>3, <3>1, <4>1, FreeAdds
        <5>2. EndsAreShared(up, next, old.key, chat[Subscriber].key)
          BY <1>3, <3>1, <4>1, EndsStay
        <5>3. next # <<>>
          BY <1>2, <3>1, LinkTypes DEF Adds
        <5>4. ~chat[Subscriber].open => Only(next, {"senderHello"})
          BY <1>3, <3>1, <4>1, OnlyAdds
        <5> QED BY <5>1, <5>2, <5>3, <5>4
      <4>3. Subscribing'
        BY <1>1, <2>0, <2>4, <3>4, <3>5, <4>1, <4>2 DEF Subscribing
      <4> QED BY <4>3 DEF Ways
    <3>8. ~Quiet
      BY <1>2, <1>6 DEF Quiet
    <3> QED BY <2>1, <3>3, <3>6, <3>7, <3>8 DEF Ways
  <2>5. CASE old.cause.kind # "subscription"
    <3>1. link' = link
      BY <1>1, <1>6, <2>0, <2>5
    <3>2. ~Quiet /\ ~Subscribing
      BY <1>2, <1>6, <2>5 DEF Quiet, Subscribing
    <3> QED BY <2>1, <2>2, <2>3, <3>1, <3>2 DEF Ways
  <2> QED BY <2>4, <2>5
<1> QED BY <1>1, <1>4, <1>5, <1>6

-----------------------------------------------------------------------------
(* The key of the object is kept.                                          *)

LEMMA ReadableStays ==
    ASSUME NEW seq, NEW key, KeyIsReadable(seq, key), Len(seq) \in Nat
    PROVE  /\ seq[1].phase \notin KeyMakers
           /\ \A m, more : Adds(seq, m, more) => KeyIsReadable(more, key)
           /\ \A rest : Drops(seq, rest) =>
                  \/ KeyIsReadable(rest, key)
                  \/ seq[1].phase = "reporterSessionKey" /\ seq[1].key = key
<1>1. PICK i \in 1 .. Len(seq) :
        /\ seq[i].phase = "reporterSessionKey" /\ seq[i].key = key
        /\ \A j \in 1 .. i - 1 : seq[j].phase \notin KeyMakers
  BY DEF KeyIsReadable
<1>2. seq[1].phase \notin KeyMakers
  <2>1. CASE i = 1
    BY <1>1, <2>1 DEF KeyMakers
  <2>2. CASE i # 1
    <3>1. 1 \in 1 .. i - 1
      BY <2>2
    <3> QED BY <1>1, <3>1
  <2> QED BY <2>1, <2>2
<1>3. ASSUME NEW m, NEW more, Adds(seq, m, more) PROVE KeyIsReadable(more, key)
  <2>1. /\ i \in 1 .. Len(more) /\ more[i] = seq[i]
        /\ \A j \in 1 .. i - 1 : more[j] = seq[j]
    BY <1>3 DEF Adds
  <2> QED BY <1>1, <2>1 DEF KeyIsReadable
<1>4. ASSUME NEW rest, Drops(seq, rest), i # 1 PROVE KeyIsReadable(rest, key)
  <2>1. /\ i - 1 \in 1 .. Len(rest) /\ rest[i - 1] = seq[i]
        /\ \A j \in 1 .. i - 1 - 1 : rest[j] = seq[j + 1] /\ j + 1 \in 1 .. i - 1
    <3>1. i - 1 \in 1 .. Len(rest) /\ rest[i - 1] = seq[i]
      BY <1>4, DropSteps
    <3> QED BY <1>4, <3>1 DEF Drops
  <2> QED BY <1>1, <2>1 DEF KeyIsReadable
<1> QED BY <1>1, <1>2, <1>3, <1>4

\* Nobody is handed the key who has no chat keys.
LEMMA HandedToOpen ==
    ASSUME TypeOK, Ways, KeyIsReadable(link[Subscriber], chat[Subscriber].key)
    PROVE  chat[Subscriber].open
<1> SUFFICES ASSUME ~chat[Subscriber].open
             PROVE  FALSE
  OBVIOUS
<1> DEFINE down == link[Subscriber]
<1>1. PICK i \in 1 .. Len(down) : down[i].phase = "reporterSessionKey"
  BY DEF KeyIsReadable
<1>2. Subscriber \in Sides /\ Peer(Subscriber) = Reporter /\ Peer(Reporter) = Subscriber
      /\ down \in Seq(Messages) /\ Len(down) \in Nat
  BY BothSides DEF TypeOK
<1>3. CASE Quiet
  BY <1>1, <1>2, <1>3 DEF Quiet
<1>4. CASE Calling(Reporter)
  BY <1>1, <1>2, <1>4 DEF Calling
<1>5. CASE Subscribing
  <2>1. Only(down, {"senderHello"})
    BY <1>5 DEF Subscribing
  <2> QED BY <1>1, <2>1 DEF Only
<1> QED BY <1>2, <1>3, <1>4, <1>5, ClosedWays

\* What a side t may be sent: m, by a step.
Fits(t, m) ==
    /\ IsDrawn(m, fresh')
    /\ m.phase = "reporterSessionKey" =>
          t = Subscriber /\ m.value # 0 /\ m.value = memory'[Reporter]
    /\ m.phase = "receiverAcknowledge" => t = Reporter /\ memory'[Subscriber] # 0

\* The key of the object is not lost with the first message that t has.
IsSpent(t) ==
    \/ t = Reporter \/ link[t][1].phase # "reporterSessionKey"
    \/ link[t][1].key # chat[t].key \/ memory'[Subscriber] # 0

\* What a step may do to the links and to the key of the object.
KeepsTheKey ==
    /\ fresh <= fresh' /\ ("raced" \in odd => "raced" \in odd')
    /\ \A t \in Sides :
          \/ link'[t] = link[t]
          \/ Drops(link[t], link'[t]) /\ IsSpent(t)
          \/ \E m : Adds(link[t], m, link'[t]) /\ Fits(t, m)
    /\ chat'[Subscriber].cause.kind # "subscription"
    /\ KeyIsReadable(link[Subscriber], chat[Subscriber].key)
          => chat'[Subscriber].key = chat[Subscriber].key
    /\ "raced" \notin odd' => memory[Reporter] \in {0, memory'[Reporter]}
    /\ \/ memory'[Subscriber] = memory[Subscriber]
       \/ \E i \in 1 .. Len(link[Subscriber]) :
             /\ link[Subscriber][i].phase = "reporterSessionKey"
             /\ link[Subscriber][i].value = memory'[Subscriber]
    /\ (\E n \in Subscribes : subscription'[n] = "told") =>
          (\E n \in Subscribes : subscription[n] = "told") \/ HasTheKey'

LEMMA KeyIsKept ==
    ASSUME TypeOK, TypeOK', ValuesAreDrawn, OnlyReporterHands, OneKey, ToldWillHaveIt, KeepsTheKey
    PROVE  /\ HasTheKey => HasTheKey'
           /\ ValuesAreDrawn' /\ OnlyReporterHands' /\ OneKey' /\ ToldWillHaveIt'
<1> DEFINE up == link[Reporter]  down == link[Subscriber]
<1>0. /\ Reporter \in Sides /\ Subscriber \in Sides /\ Reporter # Subscriber
      /\ \A t \in Sides : Len(link[t]) \in Nat /\ Len(link'[t]) \in Nat
      /\ fresh \in Nat /\ fresh' \in Nat
  BY BothSides, LinkTypes DEF TypeOK
<1>1. /\ \A t \in Sides :
            \/ link'[t] = link[t]
            \/ Drops(link[t], link'[t]) /\ IsSpent(t)
            \/ \E m : Adds(link[t], m, link'[t]) /\ Fits(t, m)
      /\ fresh <= fresh' /\ ("raced" \in odd => "raced" \in odd')
      /\ "raced" \notin odd' => memory[Reporter] \in {0, memory'[Reporter]}
      /\ \/ memory'[Subscriber] = memory[Subscriber]
         \/ \E i \in 1 .. Len(down) :
               down[i].phase = "reporterSessionKey" /\ down[i].value = memory'[Subscriber]
  BY DEF KeepsTheKey
\* Every message was on its way before, or fits.
<1>2. ASSUME NEW t \in Sides, NEW i \in 1 .. Len(link'[t])
      PROVE  \/ \E j \in 1 .. Len(link[t]) : link'[t][i] = link[t][j]
             \/ Fits(t, link'[t][i])
  <2>1. CASE link'[t] = link[t]
    BY <2>1
  <2>2. CASE Drops(link[t], link'[t])
    <3>1. i + 1 \in 1 .. Len(link[t]) /\ link'[t][i] = link[t][i + 1]
      BY <2>2, DropSteps
    <3> QED BY <3>1
  <2>3. CASE \E m : Adds(link[t], m, link'[t]) /\ Fits(t, m)
    <3>1. PICK m : Adds(link[t], m, link'[t]) /\ Fits(t, m)
      BY <2>3
    <3> QED BY <3>1, AddSteps
  <2> QED BY <1>1, <2>1, <2>2, <2>3
<1>3. ValuesAreDrawn'
  <2>1. ASSUME NEW t \in Sides, NEW i \in 1 .. Len(link'[t]) PROVE IsDrawn(link'[t][i], fresh')
    <3>1. CASE Fits(t, link'[t][i])
      BY <3>1 DEF Fits
    <3>2. CASE \E j \in 1 .. Len(link[t]) : link'[t][i] = link[t][j]
      <4>1. PICK j \in 1 .. Len(link[t]) : link'[t][i] = link[t][j]
        BY <3>2
      <4>2. IsDrawn(link[t][j], fresh) /\ link[t][j] \in Messages
        BY <4>1 DEF ValuesAreDrawn, TypeOK
      <4>3. link[t][j].phase = "receiverHello" => link[t][j].value \in Nat
        BY <4>2, MessageFields
      <4> QED BY <1>0, <1>1, <4>1, <4>2, <4>3 DEF IsDrawn
    <3> QED BY <1>2, <3>1, <3>2
  <2> QED BY <2>1 DEF ValuesAreDrawn
<1>4. OnlyReporterHands'
  <2>1. ASSUME NEW i \in 1 .. Len(up') PROVE up'[i].phase # "reporterSessionKey"
    <3>1. \A j \in 1 .. Len(up) : up[j].phase # "reporterSessionKey"
      BY DEF OnlyReporterHands, Free
    <3> QED BY <1>0, <1>2, <3>1 DEF Fits
  <2>2. ASSUME NEW i \in 1 .. Len(down') PROVE down'[i].phase # "receiverAcknowledge"
    <3>1. \A j \in 1 .. Len(down) : down[j].phase # "receiverAcknowledge"
      BY DEF OnlyReporterHands, Free
    <3> QED BY <1>0, <1>2, <3>1 DEF Fits
  <2> QED BY <2>1, <2>2 DEF OnlyReporterHands, Free, KeepsTheKey
<1>5. \A j \in 1 .. Len(down) : down[j].phase = "reporterSessionKey" =>
         /\ down[j].value # 0
         /\ "raced" \notin odd' => down[j].value = memory[Reporter] /\ down[j].value = memory'[Reporter]
  BY <1>1 DEF OneKey
<1>6. OneKey'
  <2>1. ASSUME NEW i \in 1 .. Len(down'), down'[i].phase = "reporterSessionKey"
        PROVE  /\ down'[i].value # 0
               /\ "raced" \notin odd' => down'[i].value = memory'[Reporter]
    <3>1. CASE Fits(Subscriber, down'[i])
      BY <2>1, <3>1 DEF Fits
    <3>2. CASE \E j \in 1 .. Len(down) : down'[i] = down[j]
      BY <1>5, <2>1, <3>2
    <3> QED BY <1>0, <1>2, <3>1, <3>2
  <2>2. "raced" \notin odd' => memory'[Subscriber] \in {0, memory'[Reporter]}
    <3>1. CASE memory'[Subscriber] = memory[Subscriber]
      BY <1>1, <3>1 DEF OneKey
    <3>2. CASE \E i \in 1 .. Len(down) :
                  down[i].phase = "reporterSessionKey" /\ down[i].value = memory'[Subscriber]
      BY <1>5, <3>2
    <3> QED BY <1>1, <3>1, <3>2
  <2> QED BY <2>1, <2>2 DEF OneKey
<1>7. memory[Subscriber] # 0 => memory'[Subscriber] # 0
  BY <1>1, <1>5
<1>8. ASSUME HasTheKey PROVE HasTheKey'
  <2>1. CASE memory[Subscriber] # 0
    BY <1>7, <2>1 DEF HasTheKey
  <2>2. CASE KeyIsReadable(down, chat[Subscriber].key)
    <3>1. chat'[Subscriber].key = chat[Subscriber].key
      BY <2>2 DEF KeepsTheKey
    <3>2. CASE down' = down
      BY <2>2, <3>1, <3>2 DEF HasTheKey
    <3>3. CASE \E m : Adds(down, m, down')
      <4>1. KeyIsReadable(down', chat[Subscriber].key)
        BY <1>0, <2>2, <3>3, ReadableStays
      <4> QED BY <3>1, <4>1 DEF HasTheKey
    <3>4. CASE Drops(down, down') /\ IsSpent(Subscriber)
      <4>1. \/ KeyIsReadable(down', chat[Subscriber].key)
            \/ down[1].phase = "reporterSessionKey" /\ down[1].key = chat[Subscriber].key
        BY <1>0, <2>2, <3>4, ReadableStays
      <4>2. \/ KeyIsReadable(down', chat[Subscriber].key)
            \/ memory'[Subscriber] # 0
        BY <1>0, <3>4, <4>1 DEF IsSpent
      <4> QED BY <3>1, <4>2 DEF HasTheKey
    <3> QED BY <1>0, <1>1, <3>2, <3>3, <3>4
  <2> QED BY <1>8, <2>1, <2>2 DEF HasTheKey
<1>9. ToldWillHaveIt'
  <2>1. CASE memory[Subscriber] # 0
    BY <1>7, <2>1 DEF ToldWillHaveIt, HasTheKey
  <2>2. CASE memory'[Subscriber] # 0
    BY <2>2 DEF ToldWillHaveIt, HasTheKey
  <2>3. CASE memory[Subscriber] = 0 /\ memory'[Subscriber] = 0
    <3>1. \A j \in 1 .. Len(up) : up[j].phase # "receiverAcknowledge"
      BY <2>3 DEF ToldWillHaveIt, Free
    <3>2. ASSUME NEW i \in 1 .. Len(up') PROVE up'[i].phase # "receiverAcknowledge"
      BY <1>0, <1>2, <2>3, <3>1 DEF Fits
    <3>3. (\E n \in Subscribes : subscription'[n] = "told") => HasTheKey'
      BY <1>8 DEF KeepsTheKey, ToldWillHaveIt
    <3> QED BY <3>2, <3>3 DEF ToldWillHaveIt, Free
  <2> QED BY <2>1, <2>2, <2>3
<1> QED BY <1>3, <1>4, <1>6, <1>8, <1>9

\* A handler takes the first message of a side, and may send one.
LEMMA HandlerKeeps ==
    ASSUME TypeOK, OnlyReporterHands, NEW s \in Sides,
           fresh <= fresh', "raced" \in odd => "raced" \in odd',
           Drops(link[s], link'[s]), IsSpent(s),
           \/ link'[Peer(s)] = link[Peer(s)]
           \/ \E m : Adds(link[Peer(s)], m, link'[Peer(s)]) /\ Fits(Peer(s), m),
           chat'[Peer(s)] = chat[Peer(s)], chat'[s].cause.kind \in {chat[s].cause.kind, "handshake"},
           s = Subscriber /\ KeyIsReadable(link[s], chat[s].key) => chat'[s].key = chat[s].key,
           memory'[Reporter] = memory[Reporter] \/ memory[Reporter] = 0,
           \/ memory'[Subscriber] = memory[Subscriber]
           \/ \E i \in 1 .. Len(link[Subscriber]) :
                 /\ link[Subscriber][i].phase = "reporterSessionKey"
                 /\ link[Subscriber][i].value = memory'[Subscriber],
           subscription' = subscription \/ HasTheKey'
    PROVE  KeepsTheKey
<1>1. /\ s = Reporter \/ s = Subscriber
      /\ Peer(Reporter) = Subscriber /\ Peer(Subscriber) = Reporter /\ Reporter # Subscriber
      /\ \A t \in Sides : t = s \/ t = Peer(s)
  BY BothSides, PeerIsOther
<1>2. \A t \in Sides :
          \/ link'[t] = link[t]
          \/ Drops(link[t], link'[t]) /\ IsSpent(t)
          \/ \E m : Adds(link[t], m, link'[t]) /\ Fits(t, m)
  BY <1>1
<1>3. chat'[Subscriber].cause.kind # "subscription"
  BY <1>1 DEF OnlyReporterHands
<1>4. KeyIsReadable(link[Subscriber], chat[Subscriber].key)
          => chat'[Subscriber].key = chat[Subscriber].key
  BY <1>1
<1>5. "raced" \notin odd' => memory[Reporter] \in {0, memory'[Reporter]}
  OBVIOUS
<1>6. (\E n \in Subscribes : subscription'[n] = "told") =>
          (\E n \in Subscribes : subscription[n] = "told") \/ HasTheKey'
  OBVIOUS
<1> QED BY <1>2, <1>3, <1>4, <1>5, <1>6 DEF KeepsTheKey

LEMMA SenderHelloKeeps ==
    ASSUME TypeOK, Ways, OnlyReporterHands, NEW s \in Sides, SenderHello(s)
    PROVE  KeepsTheKey
<1> DEFINE m == [phase |-> "receiverHello", value |-> fresh + 1]
<1>1. /\ Receive(s, "senderHello")
      /\ Drops(link[s], link'[s]) /\ Adds(link[Peer(s)], m, link'[Peer(s)])
      /\ chat'[Peer(s)] = chat[Peer(s)]
      /\ chat[s].open => chat'[s].key = chat[s].key /\ chat'[s].cause = chat[s].cause
      /\ ~chat[s].open => chat'[s].cause.kind = "handshake"
      /\ fresh' = fresh + 1 /\ ("raced" \in odd' <=> "raced" \in odd)
      /\ memory' = memory /\ subscription' = subscription
  BY SenderHelloFields
<1>2. m.phase = "receiverHello" /\ m.value = fresh + 1 /\ fresh \in Nat
  BY SideTypes
<1> HIDE DEF m
<1>3. Fits(Peer(s), m) /\ fresh <= fresh'
  BY <1>1, <1>2 DEF Fits, IsDrawn
<1>4. IsSpent(s)
  BY <1>1, FirstReceived DEF IsSpent
<1>5. s = Subscriber /\ KeyIsReadable(link[s], chat[s].key) => chat'[s].key = chat[s].key
  BY <1>1, HandedToOpen
<1>6. chat'[s].cause.kind \in {chat[s].cause.kind, "handshake"}
  BY <1>1
<1>7. memory'[Reporter] = memory[Reporter] /\ memory'[Subscriber] = memory[Subscriber]
  BY <1>1
<1> QED BY <1>1, <1>3, <1>4, <1>5, <1>6, <1>7, HandlerKeeps

\* Keys that are handed over can be read no longer when others are made before.
LEMMA KeysAreMadeLast ==
    ASSUME TypeOK, NEW s \in Sides, NEW phase, Receive(s, phase), phase \in KeyMakers
    PROVE  ~KeyIsReadable(link[s], chat[s].key) /\ IsSpent(s)
<1>1. link[s][1].phase \in KeyMakers /\ Len(link[s]) \in Nat
  BY FirstReceived
<1>2. "reporterSessionKey" \notin KeyMakers
  BY DEF KeyMakers
<1> QED BY <1>1, <1>2, ReadableStays DEF IsSpent

LEMMA ReceiverHelloKeeps ==
    ASSUME TypeOK, ValuesAreDrawn, OnlyReporterHands, NEW s \in Sides, ReceiverHello(s)
    PROVE  KeepsTheKey
<1> DEFINE v == link[s][1].value
           m == [phase |-> "senderCertificate", value |-> fresh + 1,
                 key |-> <<fresh + 1, v, chat[s].from>>]
<1>1. /\ Receive(s, "receiverHello") /\ v \in Nat
      /\ Drops(link[s], link'[s]) /\ Adds(link[Peer(s)], m, link'[Peer(s)])
      /\ chat'[Peer(s)] = chat[Peer(s)] /\ chat'[s].cause = chat[s].cause
      /\ fresh' = fresh + 1 /\ UNCHANGED <<subscription, memory, odd>>
  BY ReceiverHelloFields
<1>2. m.phase = "senderCertificate" /\ m.key[2] = v /\ fresh \in Nat
  BY SideTypes
<1>3. v <= fresh
  <2>1. 1 \in 1 .. Len(link[s]) /\ link[s][1].phase = "receiverHello"
    BY <1>1, FirstReceived
  <2> QED BY <2>1 DEF ValuesAreDrawn, IsDrawn
<1> HIDE DEF v, m
<1>4. Fits(Peer(s), m) /\ fresh <= fresh'
  BY <1>1, <1>2, <1>3 DEF Fits, IsDrawn
<1>5. ~KeyIsReadable(link[s], chat[s].key) /\ IsSpent(s)
  BY <1>1, KeysAreMadeLast DEF KeyMakers
<1>6. /\ memory'[Reporter] = memory[Reporter] /\ memory'[Subscriber] = memory[Subscriber]
      /\ chat'[s].cause.kind \in {chat[s].cause.kind, "handshake"} /\ odd' = odd
      /\ subscription' = subscription
  BY <1>1
<1> QED BY <1>1, <1>4, <1>5, <1>6, HandlerKeeps

LEMMA SenderCertificateKeeps ==
    ASSUME TypeOK, OnlyReporterHands, NEW s \in Sides, SenderCertificate(s)
    PROVE  KeepsTheKey
<1> DEFINE p   == Peer(s)
           k   == <<link[s][1].value, chat[s].to, chat[s].from>>
           end == [phase |-> "receiverFinishedMessage", key |-> k]
<1>1. /\ Receive(s, "senderCertificate") /\ Drops(link[s], link'[s])
      /\ link'[p] = link[p] \/ Adds(link[p], end, link'[p])
      /\ chat'[p] = chat[p] /\ chat'[s].cause = chat[s].cause
      /\ UNCHANGED <<fresh, subscription, memory, odd>>
  BY SenderCertificateFields
<1>2. end.phase = "receiverFinishedMessage" /\ fresh \in Nat
  BY SideTypes
<1> HIDE DEF k, end, p
<1>3. Fits(p, end) /\ fresh <= fresh'
  BY <1>1, <1>2 DEF Fits, IsDrawn
<1>4. ~KeyIsReadable(link[s], chat[s].key) /\ IsSpent(s)
  BY <1>1, KeysAreMadeLast DEF KeyMakers
<1>5. /\ memory'[Reporter] = memory[Reporter] /\ memory'[Subscriber] = memory[Subscriber]
      /\ chat'[s].cause.kind \in {chat[s].cause.kind, "handshake"} /\ odd' = odd
      /\ subscription' = subscription
  BY <1>1
<1> QED BY <1>1, <1>3, <1>4, <1>5, HandlerKeeps DEF p

LEMMA FinishedKeeps ==
    ASSUME TypeOK, TypeOK', OnlyReporterHands, NEW s \in Sides, Finished(s)
    PROVE  KeepsTheKey
<1> DEFINE p == Peer(s)
<1>1. /\ Receive(s, "receiverFinishedMessage") /\ Drops(link[s], link'[s])
      /\ \/ link'[p] = link[p] /\ memory' = memory
         \/ \E m \in Messages :
               /\ Adds(link[p], m, link'[p])
               /\ \/ m.phase = "message" /\ memory' = memory
                  \/ /\ m.phase = "reporterSessionKey" /\ chat[s].cause.kind = "subscription"
                     /\ m.value = memory'[s] /\ m.value # 0
      /\ chat'[p] = chat[p] /\ chat'[s].key = chat[s].key /\ chat'[s].cause = chat[s].cause
      /\ memory[s] # 0 => memory' = memory
      /\ \A t \in Sides : t # s => memory'[t] = memory[t]
      /\ UNCHANGED <<subscription, odd>>
  BY FinishedFields
<1>2. /\ s = Reporter \/ s = Subscriber
      /\ Peer(Reporter) = Subscriber /\ Peer(Subscriber) = Reporter /\ Reporter # Subscriber
      /\ Reporter \in Sides /\ Subscriber \in Sides
  BY BothSides
<1>3. fresh <= fresh'
  <2>1. fresh' = fresh \/ fresh <= fresh'
    BY FinishedEffect
  <2> QED BY <2>1, SideTypes
<1>4. IsSpent(s)
  BY <1>1, FirstReceived DEF IsSpent
<1> HIDE DEF p
<1>5. \/ link'[p] = link[p]
      \/ \E m : Adds(link[p], m, link'[p]) /\ Fits(p, m)
  <2>1. CASE link'[p] = link[p]
    BY <2>1
  <2>2. ASSUME NEW m \in Messages, Adds(link[p], m, link'[p]), m.phase = "message"
        PROVE  Fits(p, m)
    BY <2>2 DEF Fits, IsDrawn
  <2>3. ASSUME NEW m \in Messages, Adds(link[p], m, link'[p]), m.phase = "reporterSessionKey",
               chat[s].cause.kind = "subscription", m.value = memory'[s], m.value # 0
        PROVE  Fits(p, m)
    <3>1. s = Reporter /\ p = Subscriber
      BY <1>2, <2>3 DEF OnlyReporterHands, p
    <3> QED BY <2>3, <3>1 DEF Fits, IsDrawn
  <2> QED BY <1>1, <2>1, <2>2, <2>3
<1>6. memory'[Subscriber] = memory[Subscriber]
  <2>1. CASE s = Reporter
    BY <1>1, <1>2, <2>1
  <2>2. CASE s = Subscriber
    <3>1. chat[s].cause.kind # "subscription"
      BY <2>2 DEF OnlyReporterHands
    <3> QED BY <1>1, <3>1
  <2> QED BY <1>2, <2>1, <2>2
<1>7. memory'[Reporter] = memory[Reporter] \/ memory[Reporter] = 0
  BY <1>1, <1>2
<1>8. /\ chat'[s].cause.kind \in {chat[s].cause.kind, "handshake"} /\ odd' = odd
      /\ subscription' = subscription
  BY <1>1
<1> QED BY <1>1, <1>3, <1>4, <1>5, <1>6, <1>7, <1>8, HandlerKeeps DEF p

LEMMA ReporterSessionKeyKeeps ==
    ASSUME TypeOK, OnlyReporterHands, OneKey, NEW s \in Sides, ReporterSessionKey(s)
    PROVE  KeepsTheKey
<1> DEFINE m   == link[s][1]
           ack == [phase |-> "receiverAcknowledge", key |-> m.key]
<1>1. /\ Receive(s, "reporterSessionKey") /\ m.value \in Nat /\ ack \in Messages
      /\ \/ /\ m.key = chat[s].key /\ memory' = [memory EXCEPT ![s] = m.value]
            /\ Answer(s, ack)
         \/ m.key # chat[s].key /\ Drop(s) /\ memory' = memory
      /\ UNCHANGED <<chat, fresh, subscription, odd>>
  BY ReporterSessionKeyEffect
<1>2. /\ link[s] # <<>> /\ 1 \in 1 .. Len(link[s]) /\ m.phase = "reporterSessionKey"
      /\ \A phases : Free(link[s], 0, phases) => "reporterSessionKey" \notin phases
  BY <1>1, FirstReceived
<1>3. s = Subscriber /\ Peer(s) = Reporter /\ Reporter \in Sides /\ Reporter # s
  BY <1>2, BothSides DEF OnlyReporterHands
<1>4. m.value # 0
  BY <1>2, <1>3 DEF OneKey
<1>5. ack.phase = "receiverAcknowledge" /\ fresh \in Nat
  BY SideTypes
<1> HIDE DEF ack
<1>6. /\ Drops(link[s], link'[s])
      /\ Answer(s, ack) => Adds(link[Peer(s)], ack, link'[Peer(s)])
      /\ Drop(s) => link'[Peer(s)] = link[Peer(s)]
  BY <1>1, <1>2, DropLinks, AnswerLinks
<1>7. /\ memory'[Reporter] = memory[Reporter]
      /\ \/ m.key = chat[s].key /\ memory'[Subscriber] = m.value
         \/ m.key # chat[s].key /\ memory'[Subscriber] = memory[Subscriber] /\ Drop(s)
  BY <1>1, <1>3 DEF TypeOK
<1>8. IsSpent(s)
  BY <1>4, <1>7 DEF IsSpent
<1>9. \/ link'[Peer(s)] = link[Peer(s)]
      \/ \E a : Adds(link[Peer(s)], a, link'[Peer(s)]) /\ Fits(Peer(s), a)
  <2>1. memory'[Subscriber] # 0 => Fits(Peer(s), ack)
    BY <1>3, <1>5 DEF Fits, IsDrawn
  <2> QED BY <1>1, <1>4, <1>6, <1>7, <2>1
<1>10. \/ memory'[Subscriber] = memory[Subscriber]
       \/ \E i \in 1 .. Len(link[Subscriber]) :
             /\ link[Subscriber][i].phase = "reporterSessionKey"
             /\ link[Subscriber][i].value = memory'[Subscriber]
  BY <1>2, <1>3, <1>7
<1>11. /\ chat'[s].cause.kind \in {chat[s].cause.kind, "handshake"} /\ odd' = odd
       /\ chat'[s].key = chat[s].key /\ chat'[Peer(s)] = chat[Peer(s)]
       /\ subscription' = subscription /\ fresh <= fresh'
  BY <1>1, <1>5
<1> QED BY <1>6, <1>7, <1>8, <1>9, <1>10, <1>11, HandlerKeeps

LEMMA ReceiverAcknowledgeKeeps ==
    ASSUME TypeOK, OnlyReporterHands, ToldWillHaveIt, NEW s \in Sides, ReceiverAcknowledge(s)
    PROVE  KeepsTheKey
<1>1. /\ Receive(s, "receiverAcknowledge") /\ Drop(s)
      /\ UNCHANGED <<chat, fresh, memory, odd>>
  BY DEF ReceiverAcknowledge, keys
<1>2. /\ link[s] # <<>> /\ link[s][1].phase = "receiverAcknowledge"
      /\ \A phases : Free(link[s], 0, phases) => "receiverAcknowledge" \notin phases
  BY <1>1, FirstReceived
<1>3. s = Reporter
  BY <1>2, BothSides DEF OnlyReporterHands
<1>4. HasTheKey'
  <2>1. memory[Subscriber] # 0
    BY <1>2, <1>3 DEF ToldWillHaveIt
  <2> QED BY <1>1, <2>1 DEF HasTheKey
<1>5. Drops(link[s], link'[s]) /\ link'[Peer(s)] = link[Peer(s)]
  BY <1>1, <1>2, DropLinks
<1>6. IsSpent(s)
  BY <1>3 DEF IsSpent
<1>7. /\ chat'[s].cause.kind \in {chat[s].cause.kind, "handshake"} /\ odd' = odd
      /\ chat'[s].key = chat[s].key /\ chat'[Peer(s)] = chat[Peer(s)]
      /\ memory' = memory /\ fresh <= fresh'
  BY <1>1 DEF TypeOK
<1> QED BY <1>4, <1>5, <1>6, <1>7, HandlerKeeps

LEMMA ArriveKeeps ==
    ASSUME TypeOK, OnlyReporterHands, NEW s \in Sides, Arrive(s)
    PROVE  KeepsTheKey
<1>1. /\ Receive(s, "message") /\ Drop(s) /\ UNCHANGED <<chat, fresh, subscription, memory>>
      /\ odd' \in {odd, odd \union {"unreadable"}}
  BY ArriveEffect
<1>2. link[s] # <<>> /\ link[s][1].phase = "message"
  BY <1>1, FirstReceived
<1>3. Drops(link[s], link'[s]) /\ link'[Peer(s)] = link[Peer(s)]
  BY <1>1, <1>2, DropLinks
<1>4. IsSpent(s)
  BY <1>2 DEF IsSpent
<1>5. /\ chat'[s].cause.kind \in {chat[s].cause.kind, "handshake"}
      /\ "raced" \in odd => "raced" \in odd'
      /\ chat'[s].key = chat[s].key /\ chat'[Peer(s)] = chat[Peer(s)]
      /\ memory' = memory /\ subscription' = subscription /\ fresh <= fresh'
  BY <1>1 DEF TypeOK
<1> QED BY <1>3, <1>4, <1>5, HandlerKeeps

LEMMA SendKeeps ==
    ASSUME TypeOK, Ways, OnlyReporterHands, NEW s \in Sides, Send(s)
    PROVE  KeepsTheKey
<1> DEFINE p == Peer(s)
<1>1. /\ \/ /\ ~chat[s].open /\ chat'[p] = chat[p] /\ link'[s] = link[s]
            /\ \E m : Adds(link[p], m, link'[p]) /\ m.phase \in {"senderHello", "message"}
            /\ chat'[s].cause.kind = "message" /\ fresh' = fresh + 1
         \/ /\ chat' = chat /\ link'[s] = link[s] /\ fresh' = fresh
            /\ \E m : Adds(link[p], m, link'[p]) /\ m.phase \in {"senderHello", "message"}
         \/ UNCHANGED <<chat, fresh, link>>
      /\ UNCHANGED <<subscription, memory, odd>>
  <2>1. [phase |-> "senderHello", value |-> fresh + 1].phase = "senderHello"
    OBVIOUS
  <2> QED BY <2>1, SendFields
<1>2. /\ p \in Sides /\ p # s /\ \A t \in Sides : t = s \/ t = p
      /\ s = Reporter \/ s = Subscriber
      /\ Subscriber \in Sides /\ fresh \in Nat
  BY PeerIsOther, BothSides, SideTypes
<1> HIDE DEF p
<1>3. fresh <= fresh'
  BY <1>1, <1>2
<1>4. \A t, m : m.phase \in {"senderHello", "message"} => Fits(t, m)
  BY DEF Fits, IsDrawn
<1>5. \A t \in Sides :
          \/ link'[t] = link[t]
          \/ Drops(link[t], link'[t]) /\ IsSpent(t)
          \/ \E m : Adds(link[t], m, link'[t]) /\ Fits(t, m)
  <2>1. CASE link' = link
    BY <2>1
  <2>2. CASE /\ link'[s] = link[s]
             /\ \E m : Adds(link[p], m, link'[p]) /\ m.phase \in {"senderHello", "message"}
    BY <1>2, <1>4, <2>2
  <2> QED BY <1>1, <2>1, <2>2
<1>6. chat'[Subscriber].cause.kind # "subscription"
  BY <1>1, <1>2 DEF OnlyReporterHands
<1>7. KeyIsReadable(link[Subscriber], chat[Subscriber].key)
          => chat'[Subscriber].key = chat[Subscriber].key
  BY <1>1, <1>2, HandedToOpen
<1> QED BY <1>1, <1>3, <1>5, <1>6, <1>7 DEF KeepsTheKey

\* The reporter hands over a key the subscriber can read, if it counts as
\* authenticated.
LEMMA HandedIsReadable ==
    ASSUME TypeOK, Ways, chat[Reporter].authenticated, chat' = chat,
           memory'[Subscriber] = memory[Subscriber],
           NEW m, Adds(link[Subscriber], m, link'[Subscriber]),
           m.phase = "reporterSessionKey", m.key = chat[Reporter].key
    PROVE  HasTheKey'
<1> DEFINE down == link[Subscriber]  next == link'[Subscriber]
<1>1. /\ Reporter \in Sides /\ Subscriber \in Sides /\ Peer(Reporter) = Subscriber
      /\ Len(down) \in Nat
      /\ Peer(Subscriber) = Reporter
  BY BothSides DEF TypeOK
<1>2. /\ Len(next) \in 1 .. Len(next) /\ next[Len(next)] = m
      /\ \A i \in 1 .. Len(next) - 1 : i \in 1 .. Len(down) /\ next[i] = down[i]
  BY DEF Adds
<1>3. ASSUME \A i \in 1 .. Len(down) : down[i].phase \notin KeyMakers,
             chat[Subscriber].key = chat[Reporter].key
      PROVE  HasTheKey'
  <2>1. \A i \in 1 .. Len(next) - 1 : next[i].phase \notin KeyMakers
    BY <1>2, <1>3
  <2> QED BY <1>2, <1>3, <2>1 DEF KeyIsReadable, HasTheKey
<1>4. CASE Alone /\ Agreed
  <2>1. chat[Subscriber].key = chat[Reporter].key /\ AllSettled(down, 1, chat["reporter"].key)
    BY <1>1, <1>4 DEF Agreed, Reporter, Subscriber
  <2>2. \A i \in 1 .. Len(down) : down[i].phase \notin KeyMakers
    BY <2>1, SettledOpensNothing DEF AllSettled
  <2> QED BY <1>3, <2>1, <2>2
<1>5. CASE Alone /\ Ending(Subscriber)
  <2>1. /\ chat[Subscriber].key = chat[Reporter].key
        /\ down[1].phase = "receiverFinishedMessage"
        /\ AllSettled(down, 2, chat[Subscriber].key)
    BY <1>1, <1>5 DEF Ending
  <2>2. ASSUME NEW i \in 1 .. Len(down) PROVE down[i].phase \notin KeyMakers
    <3>1. CASE i = 1
      BY <2>1, <3>1 DEF KeyMakers
    <3>2. CASE i \in 2 .. Len(down)
      BY <2>1, <3>2, SettledOpensNothing DEF AllSettled
    <3> QED BY <1>1, <3>1, <3>2
  <2> QED BY <1>3, <2>1, <2>2
<1>6. CASE Subscribing
  <2>1. HasTheKey
    BY <1>6 DEF Subscribing
  <2>2. CASE memory[Subscriber] # 0
    BY <2>2 DEF HasTheKey
  <2>3. CASE KeyIsReadable(down, chat[Subscriber].key)
    <3>1. KeyIsReadable(next, chat[Subscriber].key)
      BY <1>1, <2>3, ReadableStays
    <3> QED BY <3>1 DEF HasTheKey
  <2> QED BY <2>1, <2>2, <2>3 DEF HasTheKey
<1> QED BY <1>1, <1>4, <1>5, <1>6, SureWays

LEMMA SubscribeKeeps ==
    ASSUME TypeOK, Ways, OnlyReporterHands, NEW n \in Subscribes, Subscribe(n)
    PROVE  KeepsTheKey
<1> DEFINE hello == [phase |-> "senderHello", value |-> fresh + 1]
           down  == link[Subscriber]  next == link'[Subscriber]
<1>1. /\ chat'[Subscriber] = chat[Subscriber] /\ link'[Reporter] = link[Reporter]
      /\ \/ /\ fresh' = fresh + 1
            /\ Adds(down, hello, next) \/ link' = link
            /\ memory' = memory
            /\ subscription' = [subscription EXCEPT ![n] = "waiting"]
         \/ /\ chat[Reporter].authenticated /\ chat' = chat
            /\ \E m \in Messages :
                  /\ Adds(down, m, next)
                  /\ m.phase = "reporterSessionKey" /\ m.key = chat[Reporter].key
                  /\ m.value = memory'[Reporter] /\ m.value # 0
            /\ memory[Reporter] # 0 => memory' = memory
            /\ memory'[Subscriber] = memory[Subscriber]
            /\ fresh <= fresh'
      /\ "raced" \in odd' <=> "raced" \in odd
  BY SubscribeFields
<1>2. /\ hello.phase = "senderHello" /\ fresh \in Nat
      /\ Reporter \in Sides /\ Subscriber \in Sides
      /\ \A t \in Sides : t = Reporter \/ t = Subscriber
  BY BothSides, SideTypes
<1> HIDE DEF hello
<1>3. Fits(Subscriber, hello)
  BY <1>2 DEF Fits, IsDrawn
<1>4. CASE /\ fresh' = fresh + 1
           /\ Adds(down, hello, next) \/ link' = link
           /\ memory' = memory
           /\ subscription' = [subscription EXCEPT ![n] = "waiting"]
  <2>1. \A t \in Sides :
            \/ link'[t] = link[t]
            \/ Drops(link[t], link'[t]) /\ IsSpent(t)
            \/ \E m : Adds(link[t], m, link'[t]) /\ Fits(t, m)
    BY <1>1, <1>2, <1>3, <1>4
  <2>2. (\E k \in Subscribes : subscription'[k] = "told") =>
            (\E k \in Subscribes : subscription[k] = "told")
    <3>1. ASSUME NEW k \in Subscribes, subscription'[k] = "told" PROVE subscription[k] = "told"
      BY <1>4, <3>1 DEF TypeOK
    <3> QED BY <3>1
  <2>3. fresh <= fresh' /\ memory[Reporter] \in {0, memory'[Reporter]}
    BY <1>2, <1>4
  <2> QED BY <1>1, <1>4, <2>1, <2>2, <2>3 DEF KeepsTheKey, OnlyReporterHands
<1>5. ASSUME chat[Reporter].authenticated, chat' = chat, NEW m \in Messages,
             Adds(down, m, next), m.phase = "reporterSessionKey", m.key = chat[Reporter].key,
             m.value = memory'[Reporter], m.value # 0,
             memory[Reporter] # 0 => memory' = memory,
             memory'[Subscriber] = memory[Subscriber], fresh <= fresh'
      PROVE  KeepsTheKey
  <2>1. Fits(Subscriber, m)
    BY <1>5 DEF Fits, IsDrawn
  <2>2. \A t \in Sides :
            \/ link'[t] = link[t]
            \/ Drops(link[t], link'[t]) /\ IsSpent(t)
            \/ \E k : Adds(link[t], k, link'[t]) /\ Fits(t, k)
    BY <1>1, <1>2, <1>5, <2>1
  <2>3. HasTheKey'
    BY <1>5, HandedIsReadable
  <2>4. memory[Reporter] \in {0, memory'[Reporter]}
    BY <1>5
  <2> QED BY <1>1, <1>5, <2>2, <2>3, <2>4 DEF KeepsTheKey, OnlyReporterHands
<1> QED BY <1>1, <1>4, <1>5

LEMMA UpdateKeeps ==
    ASSUME TypeOK, OnlyReporterHands, NEW n \in Updates, ReadKey(n) \/ MakeKey(n)
    PROVE  KeepsTheKey
<1>1. UNCHANGED <<chat, link, subscription>>
  BY UpdateTypes
<1>2. /\ Reporter \in Sides /\ Subscriber \in Sides /\ Reporter # Subscriber
      /\ memory \in [Sides -> Nat] /\ fresh \in Nat
  BY BothSides DEF TypeOK
<1>3. /\ fresh <= fresh' /\ ("raced" \in odd => "raced" \in odd')
      /\ "raced" \notin odd' => memory[Reporter] \in {0, memory'[Reporter]}
      /\ memory'[Subscriber] = memory[Subscriber]
  <2>1. CASE ReadKey(n)
    BY <1>2, <2>1 DEF ReadKey
  <2>2. CASE MakeKey(n) /\ update[n].key # 0
    BY <1>2, <2>2 DEF MakeKey
  <2>3. CASE MakeKey(n) /\ update[n].key = 0
    <3>1. /\ fresh' = fresh + 1 /\ memory' = [memory EXCEPT ![Reporter] = fresh + 1]
          /\ odd' = IF memory[Reporter] # 0 THEN odd \union {"raced"} ELSE odd
      BY <2>3 DEF MakeKey, Reporter
    <3> QED BY <1>2, <3>1
  <2> QED BY <2>1, <2>2, <2>3
<1> QED BY <1>1, <1>2, <1>3 DEF KeepsTheKey, OnlyReporterHands

-----------------------------------------------------------------------------
(* The invariant.                                                          *)

LEMMA InitAgreement == Init => AgreementInv
<1> SUFFICES ASSUME Init
             PROVE  AgreementInv
  OBVIOUS
<1>1. /\ \A s \in Sides : /\ chat[s] = NoChat /\ link[s] = <<>> /\ Len(link[s]) = 0
                          /\ memory[s] = 0
      /\ \A n \in Subscribes : subscription[n] = "none"
      /\ Reporter \in Sides /\ Subscriber \in Sides
  BY BothSides DEF Init
<1>2. ~NoChat.open /\ ~NoChat.authenticated /\ NoChat.cause.kind = "handshake"
  BY DEF NoChat
<1>3. Quiet
  BY <1>1, <1>2 DEF Quiet
<1>4. ValuesAreDrawn /\ OneKey /\ ToldWillHaveIt
  BY <1>1 DEF ValuesAreDrawn, OneKey, ToldWillHaveIt, Free
<1>5. OnlyReporterHands
  BY <1>1, <1>2 DEF OnlyReporterHands, Free
<1> QED BY <1>3, <1>4, <1>5 DEF AgreementInv, Ways

LEMMA NextAgreement == TypeOK /\ AgreementInv /\ [Next]_vars => AgreementInv'
<1> SUFFICES ASSUME TypeOK, AgreementInv, [Next]_vars
             PROVE  AgreementInv'
  OBVIOUS
<1>1. /\ TypeOK' /\ ValuesAreDrawn /\ Ways /\ OnlyReporterHands /\ OneKey /\ ToldWillHaveIt
  BY NextTypes DEF AgreementInv
<1>2. KeepsTheKey =>
        /\ HasTheKey => HasTheKey'
        /\ ValuesAreDrawn' /\ OnlyReporterHands' /\ OneKey' /\ ToldWillHaveIt'
  BY <1>1, KeyIsKept
<1>3. ASSUME NEW s \in Sides, Send(s)
      PROVE  AgreementInv'
  BY <1>1, <1>2, <1>3, SendKeeps, SendWays DEF AgreementInv
<1>4. ASSUME NEW s \in Sides, SenderHello(s)
      PROVE  AgreementInv'
  BY <1>1, <1>2, <1>4, SenderHelloKeeps, SenderHelloWays DEF AgreementInv
<1>5. ASSUME NEW s \in Sides, ReceiverHello(s)
      PROVE  AgreementInv'
  BY <1>1, <1>2, <1>5, ReceiverHelloKeeps, ReceiverHelloWays DEF AgreementInv
<1>6. ASSUME NEW s \in Sides, SenderCertificate(s)
      PROVE  AgreementInv'
  BY <1>1, <1>2, <1>6, SenderCertificateKeeps, SenderCertificateWays DEF AgreementInv
<1>7. ASSUME NEW s \in Sides, Finished(s)
      PROVE  AgreementInv'
  BY <1>1, <1>2, <1>7, FinishedKeeps, FinishedWays DEF AgreementInv
<1>8. ASSUME NEW s \in Sides, ReporterSessionKey(s) \/ ReceiverAcknowledge(s) \/ Arrive(s)
      PROVE  AgreementInv'
  BY <1>1, <1>2, <1>8, ReporterSessionKeyKeeps, ReceiverAcknowledgeKeeps, ArriveKeeps, SettledWays
     DEF AgreementInv
<1>9. ASSUME NEW n \in Subscribes, Subscribe(n)
      PROVE  AgreementInv'
  BY <1>1, <1>2, <1>9, SubscribeKeeps, SubscribeWays DEF AgreementInv
<1>10. ASSUME NEW n \in Updates, ReadKey(n) \/ MakeKey(n)
       PROVE  AgreementInv'
  BY <1>1, <1>2, <1>10, UpdateKeeps, UpdateTypes, WaysStay DEF AgreementInv
<1>11. CASE UNCHANGED vars
  <2>1. /\ UNCHANGED <<chat, link, fresh, memory, odd, subscription>>
    BY <1>11 DEF vars, keys
  <2>2. KeepsTheKey
    BY <1>1, <2>1 DEF KeepsTheKey, OnlyReporterHands, TypeOK
  <2> QED BY <1>1, <1>2, <2>1, <2>2, WaysStay DEF AgreementInv
<1> QED BY <1>3, <1>4, <1>5, <1>6, <1>7, <1>8, <1>9, <1>10, <1>11 DEF Next, Handle

LEMMA SpecAgreement == Spec => []AgreementInv
<1>1. Init => AgreementInv
  BY InitAgreement
<1>2. TypeOK /\ AgreementInv /\ [Next]_vars => AgreementInv'
  BY NextAgreement
<1>3. Spec => []TypeOK
  BY HandshakeTypes
<1> QED BY <1>1, <1>2, <1>3, PTL DEF Spec

-----------------------------------------------------------------------------
(* What it says.                                                           *)

\* Sides that both count as authenticated have the same keys when nothing is on
\* its way, whatever handshakes were crossed or disturbed: none of the phases
\* of _doHandShakePhase leaves the keys of one behind those of the other.
THEOREM AuthenticatedSidesAgree == Spec => []AuthenticatedAgree
<1>1. AgreementInv => AuthenticatedAgree
  <2> SUFFICES ASSUME AgreementInv, \A s \in Sides : chat[s].authenticated,
                      \A s \in Sides : link[s] = <<>>
               PROVE  chat["reporter"].key = chat["subscriber"].key
    BY DEF AuthenticatedAgree
  <2>1. /\ Ways /\ Reporter \in Sides /\ Subscriber \in Sides
        /\ link[Reporter] = <<>> /\ link[Subscriber] = <<>>
        /\ Len(link[Subscriber]) = 0
    BY BothSides DEF AgreementInv
  <2>2. CASE Agreed
    BY <2>2 DEF Agreed
  <2>3. CASE Ending(Subscriber)
    BY <2>1, <2>3 DEF Ending
  <2>4. CASE Subscribing
    <3>1. IsCurrent
      BY <2>1, <2>4 DEF Subscribing, HelloIsLast
    <3>2. chat[Subscriber].key = chat[Reporter].key
      BY <2>1, <3>1 DEF IsCurrent, IsOnCourse, IsOffered, IsTaken
    <3> QED BY <3>2 DEF Reporter, Subscriber
  <2>5. (Alone /\ (Agreed \/ Ending(Subscriber))) \/ Subscribing
    BY <2>1, SureWays, BothSides
  <2> QED BY <2>2, <2>3, <2>4, <2>5
<1> QED BY <1>1, SpecAgreement, PTL

\* A subscriber that was let in has the object's session key, or it is on its
\* way and the subscriber has the keys to read it with, unless an update that
\* found none stored made another.
THEOREM ToldSubscribersHaveTheKey == Spec => []ToldHaveTheKey
<1>1. AgreementInv => ToldHaveTheKey
  <2> SUFFICES ASSUME AgreementInv, NEW n \in Subscribes, subscription[n] = "told",
                      "raced" \notin odd
               PROVE  \/ memory["subscriber"] = memory["reporter"]
                      \/ \E i \in 1 .. Len(link["subscriber"]) :
                            /\ link["subscriber"][i].phase = "reporterSessionKey"
                            /\ link["subscriber"][i].value = memory["reporter"]
                            /\ link["subscriber"][i].key = chat["subscriber"].key
    BY DEF ToldHaveTheKey
  <2>1. HasTheKey /\ OneKey
    BY DEF AgreementInv, ToldWillHaveIt
  <2>2. CASE memory[Subscriber] # 0
    BY <2>1, <2>2 DEF OneKey, Reporter, Subscriber
  <2>3. CASE KeyIsReadable(link[Subscriber], chat[Subscriber].key)
    <3>1. PICK i \in 1 .. Len(link[Subscriber]) :
            /\ link[Subscriber][i].phase = "reporterSessionKey"
            /\ link[Subscriber][i].key = chat[Subscriber].key
      BY <2>3 DEF KeyIsReadable
    <3>2. link[Subscriber][i].value = memory[Reporter]
      BY <2>1, <3>1 DEF OneKey
    <3> QED BY <3>1, <3>2 DEF Reporter, Subscriber
  <2> QED BY <2>1, <2>2, <2>3 DEF HasTheKey
<1> QED BY <1>1, SpecAgreement, PTL
=============================================================================
