------------------------------ MODULE IdAssertions ------------------------------
(***************************************************************************)
(* How the identity module (identity/IdentityModule.js) gets the id        *)
(* assertion of a user for a hyperty that is loaded or for a message that  *)
(* is sent: one it knows (identity/Identities.js), one that is refreshed,  *)
(* or one for which the user logs in, by the IdP that was asked for or as  *)
(* he chooses in the GUI.                                                  *)
(***************************************************************************)
CONSTANTS
    Users,
    Refreshable, \* the users whose IdP gives assertions that can be refreshed
    Requests     \* calls of getIdentityAssertion and getToken

VARIABLES
    known,       \* identities: the users in memory, and whether theirs expired
    default,     \* defaultIdentity
    saved,       \* the identities in storage
    demand,      \* the calls
    removed,     \* history: the users that were removed
    again        \* history: the calls for which someone logged in again

vars == <<known, default, saved, demand, removed, again>>

-----------------------------------------------------------------------------
None == "none"

Kinds == {"bundle", "choice", "token"}

\* What a call waits for, and the end of it: "told" is an answer that is no
\* assertion, and "stuck" a call that is never answered.
Stages ==
    {"idle", "refresh", "domain", "popup", "login", "gui", "hint", "hint popup", "generate",
     "storing", "answered", "told", "rejected", "stuck"}

Demand(kind, stage, user) ==
    [kind |-> kind, stage |-> stage, user |-> user, next |-> "answered", owner |-> None,
     fallback |-> kind = "bundle"]

TypeOK ==
    /\ known \in [Users -> {"absent", "valid", "expired"}]
    /\ saved \in [Users -> {"absent", "valid", "expired"}]
    /\ default \in Users \union {None}
    /\ demand \in [Requests -> [kind : Kinds, stage : Stages, user : Users \union {None},
                                next : Stages \union {"refreshed"},
                                owner : Users \union {None}, fallback : BOOLEAN]]
    /\ removed \in SUBSET Users
    /\ again \in SUBSET Requests

Init ==
    /\ known = [u \in Users |-> "absent"]
    /\ saved = known
    /\ default = None
    /\ demand = [r \in Requests |-> Demand("choice", "idle", None)]
    /\ removed = {}
    /\ again = {}

-----------------------------------------------------------------------------
At(r, stage) == demand[r].stage = stage

Go(r, stage) ==
    demand' = [demand EXCEPT ![r].stage = stage,
                             ![r].fallback = demand[r].fallback /\ stage # "gui"]

\* _getIdAssertionForDomain: what fails for the IdP that was asked for is chosen
\* in the GUI.
Fail(r) == Go(r, IF demand[r].fallback THEN "gui" ELSE "rejected")

\* _store: every identity in memory, whose writing may fail without telling.
Store(new) ==
    /\ known' = new
    /\ saved' \in {saved, [u \in Users |-> IF new[u] = "absent" THEN saved[u] ELSE new[u]]}

\* Mutant: the assertion is only stored.
Remember_Stored(r, u, next) ==
    /\ saved' = [saved EXCEPT ![u] = "valid"]
    /\ demand' = [demand EXCEPT ![r].stage = "storing", ![r].user = u, ![r].next = next]
    /\ removed' = removed \ {u}
    /\ UNCHANGED <<known, default, again>>

\* addAssertion, up to its writing.
Remember(r, u, next) ==
    /\ Store([known EXCEPT ![u] = "valid"])
    /\ demand' = [demand EXCEPT ![r].stage = "storing", ![r].user = u, ![r].next = next]
    /\ removed' = removed \ {u}
    /\ UNCHANGED <<default, again>>

\* What the call is answered is made the default if it was chosen in the GUI, and
\* is an assertion.
Answer(r, u) ==
    /\ demand' = [demand EXCEPT ![r].stage = "answered", ![r].user = u]
    /\ default' = IF demand[r].kind = "choice" THEN u ELSE default

\* A value that is no assertion is passed on; making it the default throws.
Told(r) ==
    /\ Go(r, IF demand[r].kind = "choice" THEN "stuck" ELSE "told")
    /\ UNCHANGED <<known, default, saved, removed, again>>

-----------------------------------------------------------------------------
\* getIdentityAssertion.  For an IdP that is asked for, the default is not
\* refreshed: _refreshIdAssertion is called without it, and fails.
GetIdentityAssertion(r, kind) ==
    LET found == IF default = None THEN "absent" ELSE known[default]
        stage == IF found = "valid" THEN "answered"
                 ELSE IF kind = "bundle" THEN "domain"
                 ELSE IF found = "expired" /\ default \in Refreshable THEN "refresh"
                 ELSE "gui"
    IN  /\ At(r, "idle")
        /\ kind # "token"
        /\ demand' = [demand EXCEPT ![r] = Demand(kind, stage, default)]
        /\ UNCHANGED <<known, default, saved, removed, again>>

\* _getValidToken, for a message of a hyperty of the user: an identity that is not
\* known counts as an empty assertion.
GetValidToken(r, owner) ==
    LET stage == CASE known[owner] = "absent"  -> "told"
                   [] known[owner] = "valid"   -> "answered"
                   [] known[owner] = "expired" -> IF owner \in Refreshable THEN "refresh"
                                                  ELSE "hint"
    IN  /\ At(r, "idle")
        /\ demand' = [demand EXCEPT ![r] = [Demand("token", stage, owner) EXCEPT !.owner = owner]]
        /\ again' = IF stage = "hint" THEN again \union {r} ELSE again
        /\ UNCHANGED <<known, default, saved, removed>>

\* The IdP's answer to sendRefreshMessage, and updateAssertion; a user that was
\* removed meanwhile is an error.
Refreshed(r) ==
    /\ At(r, "refresh")
    /\ IF known[demand[r].user] # "absent" THEN Remember(r, demand[r].user, "refreshed")
       ELSE /\ Go(r, IF demand[r].kind = "choice" THEN "gui" ELSE "rejected")
            /\ UNCHANGED <<known, default, saved, removed, again>>

\* A refusal throws in the callback.
RefreshRefused(r) ==
    /\ At(r, "refresh")
    /\ Go(r, "stuck")
    /\ UNCHANGED <<known, default, saved, removed, again>>

\* selectIdentityForHyperty: the IdP's answer to sendGenerateMessage.
DomainAnswers(r) ==
    /\ At(r, "domain")
    /\ \/ \E u \in Users : Remember(r, u, "answered")
       \/ /\ Go(r, "popup") \/ Go(r, "hint") \/ Fail(r)
          /\ UNCHANGED <<known, default, saved, removed, again>>

\* The popup was closed: callIdentityModuleFunc.
PopupCloses(r) ==
    /\ \/ At(r, "popup") /\ Go(r, "login")
       \/ At(r, "hint popup") /\ Go(r, "generate")
    /\ UNCHANGED <<known, default, saved, removed, again>>

\* loginSelectedIdentity tells that the login was successful.
LoggedIn(r) ==
    /\ At(r, "login")
    /\ \/ \E u \in Users : Remember(r, u, "told")
       \/ Fail(r) /\ UNCHANGED <<known, default, saved, removed, again>>

\* callGenerateMethods: generateAssertion without a hint gives an assertion, or the
\* result of a popup, either of which is the hint of a second one.
HintAnswers(r) ==
    /\ At(r, "hint")
    /\ \/ \E u \in Users : Remember(r, u, "generate")
       \/ /\ Go(r, "hint popup") \/ Fail(r)
          /\ UNCHANGED <<known, default, saved, removed, again>>

Generated(r) ==
    /\ At(r, "generate")
    /\ \/ \E u \in Users : Remember(r, u, "answered")
       \/ Told(r)
       \/ Fail(r) /\ UNCHANGED <<known, default, saved, removed, again>>

\* selectIdentityFromGUI: the user chooses an identity, whether it has expired or
\* not, or an IdP to log in to.  Without the list of IdPs nothing happens.
Chosen(r) ==
    /\ At(r, "gui")
    /\ \/ \E u \in Users :
             IF known[u] # "absent" THEN Answer(r, u) ELSE Fail(r) /\ UNCHANGED default
       \/ (Go(r, "hint") \/ Fail(r) \/ Go(r, "stuck")) /\ UNCHANGED default
    /\ UNCHANGED <<known, saved, removed, again>>

\* The identities were written; a user that was removed meanwhile is an error in
\* the callback of addAssertion.
Stored(r) ==
    LET u == demand[r].user
    IN  /\ At(r, "storing")
        /\ IF demand[r].next = "refreshed" THEN Go(r, "answered") /\ UNCHANGED default
           ELSE IF known[u] = "absent" THEN Go(r, "stuck") /\ UNCHANGED default
           ELSE IF demand[r].next = "answered" /\ demand[r].kind = "choice" THEN Answer(r, u)
           ELSE /\ Go(r, demand[r].next)
                /\ default' = IF default = None THEN u ELSE default
        /\ UNCHANGED <<known, saved, removed, again>>

\* removeIdentity: the stored identity stays, as does the default.
RemoveIdentity(u) ==
    /\ known[u] # "absent"
    /\ known' = [known EXCEPT ![u] = "absent"]
    /\ removed' = removed \union {u}
    /\ UNCHANGED <<default, saved, demand, again>>

Expire(u) ==
    /\ known[u] = "valid"
    /\ known' = [known EXCEPT ![u] = "expired"]
    /\ saved' = [saved EXCEPT ![u] = IF @ = "valid" THEN "expired" ELSE @]
    /\ UNCHANGED <<default, demand, removed, again>>

\* loadIdentities: the last of the stored ones is the default.
Restart ==
    /\ known' = saved
    /\ LET there == {u \in Users : saved[u] # "absent"}
       IN  default' \in IF there = {} THEN {None} ELSE there
    /\ demand' = [r \in Requests |-> Demand("choice", "idle", None)]
    /\ removed' = {}
    /\ again' = {}
    /\ UNCHANGED saved

Next ==
    \/ \E r \in Requests :
          \/ \E kind \in Kinds : GetIdentityAssertion(r, kind)
          \/ \E u \in Users : GetValidToken(r, u)
          \/ Refreshed(r) \/ RefreshRefused(r) \/ DomainAnswers(r) \/ PopupCloses(r)
          \/ LoggedIn(r) \/ HintAnswers(r) \/ Generated(r) \/ Chosen(r) \/ Stored(r)
    \/ \E u \in Users : RemoveIdentity(u) \/ Expire(u)
    \/ Restart

Spec == Init /\ [][Next]_vars

-----------------------------------------------------------------------------
\* Who is answered with an assertion gets one of a user that is known, and the
\* default is one, unless he was removed: calls that overlap, logins that fail
\* and restarts change nothing of that.
AnsweredAreKnown ==
    /\ \A r \in Requests : At(r, "answered") =>
          known[demand[r].user] # "absent" \/ demand[r].user \in removed
    /\ default # None => known[default] # "absent" \/ default \in removed

\* A message goes out with an assertion of its sender's owner, unless that could
\* not be refreshed, and whoever logged in then was taken for him.
TokensAreOwners ==
    \A r \in Requests :
        At(r, "answered") /\ demand[r].kind = "token" /\ r \notin again =>
            demand[r].user = demand[r].owner
===============================================================================
