------------------------------- MODULE ChatRoom -------------------------------
(***************************************************************************)
(* A chat that a hyperty creates (chatManager/ChatManager.js), as its      *)
(* controller sees it (chatManager/ChatController.js): whom it invites at  *)
(* once, whom when he goes live (chatManager/InvitationsHandler.js), and   *)
(* who participates; and the chats of others that the hyperty joined.      *)
(***************************************************************************)
EXTENDS Naturals, Sequences, SequencesExt, FiniteSets

CONSTANTS
    Hyperties,       \* chat hyperties of users that may be invited
    UserOf,          \* the user of each
    Others,          \* chats of others
    MaxDisconnected, \* how many disconnected hyperties wait for one discovery (5)
    MaxInvitations   \* bound on the invitations

VARIABLES
    room,            \* the chat: "none", "creating", "open", "closed"
    live,            \* the hyperties that are live
    found,           \* discoveries under way: what they found live, and disconnected
    invitations,     \* of the reporter: to whom, their state, and who looks at the answer
    waiting,         \* _pending: hyperties to be invited when they go live
    observers,       \* the hyperties that are subscribed
    participants,    \* the users in the chat's data
    joined,          \* _observersControllers
    dropped,         \* history: hyperties that were given up
    late             \* history: hyperties that came to wait when it was closed

vars == <<room, live, found, invitations, waiting, observers, participants, joined, dropped, late>>

-----------------------------------------------------------------------------
\* A discovery, and a look of processInvitations at an invitation, which knows
\* the hyperty if that was found live by the same discovery.
Founds == [live : SUBSET Hyperties, disconnected : SUBSET Hyperties]

Invitations ==
    [to : Hyperties, state : {"sent", "accepted", "refused"}, known : BOOLEAN]

TypeOK ==
    /\ room \in {"none", "creating", "open", "closed"}
    /\ found \in Founds \union {<<>>}
    /\ invitations \in Seq(Invitations)
    /\ waiting \in SUBSET Hyperties /\ live \in SUBSET Hyperties
    /\ observers \in SUBSET Hyperties
    /\ participants \in SUBSET {UserOf[h] : h \in Hyperties}
    /\ joined \in SUBSET Others
    /\ dropped \in SUBSET Hyperties /\ late \in SUBSET Hyperties

Init ==
    /\ room = "none"
    /\ live \in SUBSET Hyperties
    /\ found = <<>>
    /\ invitations = <<>>
    /\ waiting = {}
    /\ observers = {}
    /\ participants = {}
    /\ joined = {}
    /\ dropped = {}
    /\ late = {}

-----------------------------------------------------------------------------
Invited == {invitations[i].to : i \in DOMAIN invitations}

\* inviteObservers
Invite(hs) ==
    SetToSeq({[to |-> h, state |-> "sent", known |-> FALSE] : h \in hs})

\* processInvitations looks at all invitations, old ones too.  One that was
\* refused and is known waits; one that is not throws.
Processed(all, known) ==
    [i \in DOMAIN all |->
        [all[i] EXCEPT !.known = @ \/ all[i].to \in known]]

\* Mutant: who refuses is told of, and that is all.
InviteDisconnected_Told(hs) == UNCHANGED <<waiting, late>>

\* inviteDisconnectedHyperties
InviteDisconnected(hs) ==
    /\ waiting' = waiting \union hs
    /\ late' = IF room = "closed" THEN late \union hs ELSE late

\* The discoveries of create and addUser, which see each hyperty as it is now, and
\* keep not more than some of the disconnected ones.
Discover(hs, next) ==
    \E disconnected \in SUBSET (hs \ live) :
        /\ found = <<>>
        /\ Cardinality(disconnected) <= MaxDisconnected
        /\ Cardinality(disconnected) < MaxDisconnected => disconnected = hs \ live
        /\ Len(invitations) + Cardinality(hs) <= MaxInvitations
        /\ found' = [live |-> hs \intersect live, disconnected |-> disconnected]
        /\ room' = next
        /\ UNCHANGED <<live, invitations, waiting, observers, participants, joined, dropped, late>>

Create(hs) == room = "none" /\ Discover(hs, "creating")

AddUser(hs) == room = "open" /\ Discover(hs, "open")

\* The object was created, or the discovery of addUser ends, be it after the chat
\* was closed: the live ones are invited, the others wait.
DiscoveryEnds ==
    /\ found # <<>>
    /\ room' = IF room = "creating" THEN "open" ELSE room
    /\ invitations' = Processed(invitations \o Invite(found.live), found.live)
    /\ InviteDisconnected(found.disconnected \union
                          {invitations[i].to : i \in {j \in DOMAIN invitations :
                              invitations[j].state = "refused" /\ invitations[j].to \in found.live}})
    /\ found' = <<>>
    /\ UNCHANGED <<live, observers, participants, joined, dropped>>

\* The answer to an invitation.
Answered(i, state) ==
    LET h == invitations[i].to
    IN  /\ i \in DOMAIN invitations /\ invitations[i].state = "sent"
        /\ invitations' = [invitations EXCEPT ![i].state = state]
        /\ IF state = "refused" /\ invitations[i].known
           THEN InviteDisconnected({h}) ELSE UNCHANGED <<waiting, late>>
        /\ dropped' = IF state = "refused" /\ ~invitations[i].known
                      THEN dropped \union {h} ELSE dropped
        /\ UNCHANGED <<room, live, found, observers, participants, joined>>

\* onLive: the hyperty is invited, but nobody looks at its answer.
GoesLive(h) ==
    /\ h \notin live
    /\ live' = live \union {h}
    /\ h \in waiting => Len(invitations) < MaxInvitations
    /\ waiting' = waiting \ {h}
    /\ invitations' = IF h \in waiting THEN invitations \o Invite({h}) ELSE invitations
    /\ UNCHANGED <<room, found, observers, participants, joined, dropped, late>>

Disconnects(h) ==
    /\ h \in live
    /\ live' = live \ {h}
    /\ UNCHANGED <<room, found, invitations, waiting, observers, participants, joined, dropped, late>>

\* _onSubscribe: participants are found by their guid.
OnSubscribe(h) ==
    /\ room = "open" /\ h \in Invited \ observers
    /\ observers' = observers \union {h}
    /\ participants' = participants \union {UserOf[h]}
    /\ UNCHANGED <<room, live, found, invitations, waiting, joined, dropped, late>>

\* Mutant: the user is removed with one of his hyperties.
Left_Removed(h) == participants \ {UserOf[h]}

\* The participant is looked for by his URL, which finds none.
Left(h) == participants

OnUnsubscribe(h) ==
    /\ room = "open" /\ h \in observers
    /\ observers' = observers \ {h}
    /\ participants' = Left(h)
    /\ UNCHANGED <<room, live, found, invitations, waiting, joined, dropped, late>>

\* close, of a reporter: cleanInvitations, and the object is deleted.
Close ==
    /\ room = "open"
    /\ room' = "closed"
    /\ waiting' = {}
    /\ observers' = {}

CloseRoom ==
    /\ Close
    /\ UNCHANGED <<live, found, invitations, participants, joined, dropped, late>>

Join(c) ==
    /\ c \notin joined
    /\ joined' = joined \union {c}
    /\ UNCHANGED <<room, live, found, invitations, waiting, observers, participants, dropped, late>>

\* processNotification: when a chat that was joined is deleted by its reporter,
\* every other chat is closed as well, joined or own.
ProcessDelete(c) ==
    /\ c \in joined
    /\ joined' = {}
    /\ \/ Close
       \/ room # "open" /\ UNCHANGED <<room, waiting, observers>>
    /\ UNCHANGED <<live, found, invitations, participants, dropped, late>>

\* The runtime restarts, and the hyperty resumes its chat and, with
\* resumeDiscoveries, what waited.  Invitations that were not answered are lost.
Restart ==
    LET now == waiting \intersect live
    IN  /\ room = "open"
        /\ Cardinality(now) <= MaxInvitations
        /\ invitations' = Processed(Invite(now), now)
        /\ waiting' = waiting \ now
        /\ dropped' = dropped \union {invitations[i].to : i \in {j \in DOMAIN invitations :
                                          invitations[j].state = "sent"}}
        /\ found' = <<>>
        /\ joined' = {}
        /\ UNCHANGED <<room, live, observers, participants, late>>

Next ==
    \/ \E hs \in SUBSET Hyperties : Create(hs) \/ AddUser(hs)
    \/ \E h \in Hyperties : GoesLive(h) \/ Disconnects(h) \/ OnSubscribe(h) \/ OnUnsubscribe(h)
    \/ \E i \in DOMAIN invitations, state \in {"accepted", "refused"} : Answered(i, state)
    \/ \E c \in Others : Join(c) \/ ProcessDelete(c)
    \/ DiscoveryEnds \/ CloseRoom \/ Restart

Spec == Init /\ [][Next]_vars

-----------------------------------------------------------------------------
\* A hyperty that refused an invitation waits for its next chance, if it was
\* found live when it was invited; one that was invited when it went live does
\* not.
RefusedGetAnotherChance ==
    room = "open" =>
        \A i \in DOMAIN invitations :
            invitations[i].state = "refused" =>
                \/ invitations[i].to \in waiting \union dropped
                \/ \E j \in DOMAIN invitations : j > i /\ invitations[j].to = invitations[i].to

\* A closed chat invites nobody who goes live, except who refused, or was found,
\* after that.
ClosedInviteNobody ==
    room = "closed" => waiting \subseteq late

\* Whoever is subscribed is a participant, with any of his hyperties, although
\* participants are users.
ObserversParticipate ==
    \A h \in observers : UserOf[h] \in participants
===============================================================================
