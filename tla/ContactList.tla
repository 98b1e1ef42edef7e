------------------------------ MODULE ContactList ------------------------------
(***************************************************************************)
(* The contacts in the graph connector (graphconnector/                    *)
(* GraphConnectorBase.js), and the Bloom filter of them that the owner     *)
(* shows to others, without the private ones.  The global registry answers *)
(* a read at any time, with a record, a code, or nothing.                  *)
(*                                                                         *)
(* What no property tells apart (names, groups, locations) is left out;    *)
(* the calls that change it are there for what they store.                 *)
(***************************************************************************)
EXTENDS Naturals, Sequences

CONSTANTS
    Guids,       \* guids of contacts
    Owner,       \* the owner's
    Calls,       \* reads of the global registry under way
    MaxContacts  \* bound on the contacts

VARIABLES
    contacts,    \* the contacts, in their order
    filter,      \* contactsBloomFilter1Hop
    call,        \* the reads
    saved,       \* the contacts in storage
    overlapped   \* history: the guids that two calls were bringing in at once

vars == <<contacts, filter, call, saved, overlapped>>

-----------------------------------------------------------------------------
Contacts == [guid : Guids, private : BOOLEAN, plain : BOOLEAN]

Ops == {"add", "update", "query"}

Idle == [op |-> "idle"]

TypeOK ==
    /\ contacts \in Seq(Contacts)
    /\ filter \in SUBSET Guids
    /\ call \in [Calls -> [op : Ops, guid : Guids] \union {Idle}]
    /\ saved \in Seq(Contacts)
    /\ overlapped \in SUBSET Guids

Init ==
    /\ contacts = <<>>
    /\ filter = {}
    /\ call = [c \in Calls |-> Idle]
    /\ saved = <<>>
    /\ overlapped = {}

-----------------------------------------------------------------------------
Reading(op, g) == \E c \in Calls : call[c] = [op |-> op, guid |-> g]

Ask(c, op, g) ==
    /\ call[c] = Idle
    /\ call' = [call EXCEPT ![c] = [op |-> op, guid |-> g]]

Answer(c, op) ==
    /\ call[c].op = op
    /\ call' = [call EXCEPT ![c] = Idle]

NewContact(g) == [guid |-> g, private |-> FALSE, plain |-> FALSE]

\* The accessor of GraphConnectorContactData: a contact that comes from storage is
\* a plain object and has none, so that it gives undefined.
PrivateContact(contact) == ~contact.plain /\ contact.private

\* calculateBloomFilter1Hop: the guids that are added.
Filter(cs) == {cs[i].guid : i \in {j \in DOMAIN cs : ~PrivateContact(cs[j])}}

\* The owner's guid counts only if there are contacts.
GuidExist(cs, g) == \E i \in DOMAIN cs : g \in {cs[i].guid, Owner}

StoreContacts(cs) ==
    /\ contacts' = cs
    /\ saved' = cs

-----------------------------------------------------------------------------
(* The contacts.                                                           *)

\* addContact reads first and adds when it is answered; a contact that exists
\* already is refused at once.
AddContact(c, g) ==
    /\ Len(contacts) < MaxContacts
    /\ ~GuidExist(contacts, g)
    /\ Ask(c, "add", g)
    /\ overlapped' = IF Reading("add", g) THEN overlapped \union {g} ELSE overlapped
    /\ UNCHANGED <<contacts, filter, saved>>

\* A record that is not valid, or no answer, adds nothing; a code does.
Added(c) ==
    /\ Answer(c, "add")
    /\ \/ UNCHANGED <<contacts, saved>>
       \/ StoreContacts(Append(contacts, NewContact(call[c].guid)))
    /\ UNCHANGED <<filter, overlapped>>

\* updateContactInfo
UpdateContactInfo(c, g) ==
    /\ GuidExist(contacts, g)
    /\ Ask(c, "update", g)
    /\ UNCHANGED <<contacts, filter, saved, overlapped>>

Updated(c) ==
    /\ Answer(c, "update")
    /\ \/ UNCHANGED <<contacts, saved>>
       \/ StoreContacts(contacts)
    /\ UNCHANGED <<filter, overlapped>>

QueryGlobalRegistry(c, g) ==
    /\ Ask(c, "query", g)
    /\ UNCHANGED <<contacts, filter, saved, overlapped>>

\* What the contacts learn is not stored.
Queried(c) ==
    /\ Answer(c, "query")
    /\ UNCHANGED <<contacts, filter, saved, overlapped>>

FirstOf(g) ==
    CHOOSE i \in DOMAIN contacts :
        contacts[i].guid = g /\ \A j \in 1 .. i - 1 : contacts[j].guid # g

\* What editContact's loop makes of the contacts: a new guid is given to the first
\* contact of the old one only, for then it exists.
Edited(old, new, private) ==
    IF old = new
    THEN [i \in DOMAIN contacts |->
             IF contacts[i].guid = old THEN [contacts[i] EXCEPT !.private = private]
             ELSE contacts[i]]
    ELSE IF GuidExist(contacts, new) THEN contacts
    ELSE [contacts EXCEPT ![FirstOf(old)] = [@ EXCEPT !.guid = new, !.private = private]]

\* Mutant: a contact that becomes private stays in the filter.
EditContact_Unfiltered(old, new, private) ==
    /\ \E i \in DOMAIN contacts : contacts[i].guid = old
    /\ StoreContacts(Edited(old, new, private))
    /\ overlapped' = IF Reading("add", new) THEN overlapped \union {new} ELSE overlapped
    /\ UNCHANGED <<call, filter>>

\* The filter follows, if a contact of the old guid is private now.  Without a
\* contact of the old guid this is an Annotate.
EditContact(old, new, private) ==
    LET edited == Edited(old, new, private)
    IN  /\ \E i \in DOMAIN contacts : contacts[i].guid = old
        /\ StoreContacts(edited)
        /\ filter' = IF \E i \in DOMAIN contacts : contacts[i].guid = old /\ edited[i].private
                     THEN Filter(edited) ELSE filter
        /\ overlapped' = IF Reading("add", new) THEN overlapped \union {new} ELSE overlapped
        /\ UNCHANGED <<call>>

\* The contact after one that is removed is not looked at.
Without(cs, g) ==
    LET after[i \in 0 .. Len(cs)] ==
            IF i = 0 THEN [rest |-> <<>>, skip |-> FALSE]
            ELSE IF cs[i].guid = g /\ ~after[i - 1].skip
            THEN [rest |-> after[i - 1].rest, skip |-> TRUE]
            ELSE [rest |-> Append(after[i - 1].rest, cs[i]), skip |-> FALSE]
    IN  after[Len(cs)].rest

RemoveContact(g) ==
    /\ StoreContacts(Without(contacts, g))
    /\ filter' = Filter(contacts')
    /\ UNCHANGED <<call, overlapped>>

\* setContactUserIDs, setLocation, removeLocation, addGroupName, removeGroupName
\* and setBloomFilter1HopContact store all contacts.
Annotate ==
    /\ StoreContacts(contacts)
    /\ UNCHANGED <<filter, call, overlapped>>

\* _loadGraphConnector; the filter is not stored.
Restart ==
    /\ contacts' = [i \in DOMAIN saved |-> [saved[i] EXCEPT !.plain = TRUE]]
    /\ saved' = contacts'
    /\ filter' = {}
    /\ call' = [c \in Calls |-> Idle]
    /\ UNCHANGED <<overlapped>>

Next ==
    \/ \E g \in Guids :
          \/ RemoveContact(g)
          \/ \E c \in Calls : AddContact(c, g) \/ UpdateContactInfo(c, g)
                                \/ QueryGlobalRegistry(c, g)
          \/ \E new \in Guids, private \in BOOLEAN : EditContact(g, new, private)
    \/ \E c \in Calls : Added(c) \/ Updated(c) \/ Queried(c)
    \/ Annotate \/ Restart

Spec == Init /\ [][Next]_vars

-----------------------------------------------------------------------------
\* Two contacts have the same guid only if two calls brought it in at once: the
\* check of addContact is made before its read.
ContactsAreOnce ==
    \A i, j \in DOMAIN contacts :
        i # j /\ contacts[i].guid = contacts[j].guid => contacts[i].guid \in overlapped

\* The filter that others see has no private contact, except those that came
\* from storage, or are there twice.
PrivateStaysPrivate ==
    \A i \in DOMAIN contacts :
        contacts[i].private /\ contacts[i].guid \in filter =>
            contacts[i].plain \/ contacts[i].guid \in overlapped

===============================================================================
