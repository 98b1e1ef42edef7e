---------------------------- MODULE PolicyDecisions ----------------------------
(***************************************************************************)
(* The policy engine (policy/), which allows or blocks the messages of the *)
(* hyperties: the policies of the service provider, one for each hyperty,  *)
(* those of the user, one of which is active, the groups that their        *)
(* conditions use, and their storage.  The policies are loaded while the   *)
(* engine works already (policy/context/RuntimeCoreCtx.js).                *)
(*                                                                         *)
(* Conditions on the sender and his groups stand for all attributes, and   *)
(* conditions on subscriptions are left out; what is written to storage is *)
(* taken to get there.                                                     *)
(***************************************************************************)
EXTENDS Integers, Sequences, SequencesExt

CONSTANTS
    Policies,   \* the policies that are used
    Keys,       \* their names in userPolicies
    Groups,
    Users,      \* usernames
    Messages    \* [hyperty, owner, source]: of the local hyperty, and the sender

VARIABLES
    loading,      \* what loadConfigurations waits for
    active,       \* activeUserPolicy
    userPolicies, provider, groups,
    plain,        \* the hyperties whose provider policies are data without methods
    saved,        \* the storage: active, userPolicies, provider and groups
    source,       \* the context's source: the sender of a message judged earlier
    verdict,      \* of the last message
    asked,        \* history: the policies and groups that the user and the provider want
    excused       \* history: what they want was lost, in one of the ways named here

vars == <<loading, active, userPolicies, provider, groups, plain, saved, source, verdict,
          asked, excused>>

kept == <<active, userPolicies, provider, groups>>

-----------------------------------------------------------------------------
None == "none"
TargetHyperties == {m.hyperty : m \in Messages}
Loadings == <<"active", "groups", "provider", "user", "done">>
NA == "not applicable"
Loaded == loading = Len(Loadings)
NoPolicy == [rules |-> <<>>, actions |-> FALSE, algorithm |-> None]
NoGroup == <<None>>

Settings(a, u, p, g) == [active |-> a, user |-> u, provider |-> p, groups |-> g]

\* Of each group the set of its members.
Members(gs) == [g \in Groups |-> Range(gs[g])]

\* A policy that was saved combines its rules like this.
Defined == Policies \union {[p EXCEPT !.algorithm = "blockOverrides"] : p \in Policies}

AllSettings(Lists) ==
    [active : Keys \union {None}, user : [Keys -> Defined \union {NoPolicy}],
     provider : [TargetHyperties -> Defined \union {NoPolicy}], groups : [Groups -> Lists]]

\* Of a rule the decision, scope and target, and the condition: terms, joined.
Rules ==
    [decision : {"allow", "block"}, scope : {"global", "hyperty", "identity"}, target : STRING,
     join : {"and", "or"}, terms : Seq([of : STRING, group : BOOLEAN, not : BOOLEAN])]

AllPolicies ==
    [rules : Seq(Rules), actions : BOOLEAN,
     algorithm : {"blockOverrides", "allowOverrides", "firstApplicable"}]

TypeOK ==
    /\ loading \in 1 .. Len(Loadings)
    /\ Settings(active, userPolicies, provider, groups) \in AllSettings(Seq(Users) \union {NoGroup})
    /\ plain \subseteq TargetHyperties
    /\ saved \in AllSettings(Seq(Users) \union {NoGroup})
    /\ asked \in AllSettings((SUBSET Users) \union {Range(NoGroup)})
    /\ source \in Users \union {None}
    /\ verdict \in [result : {"allow", "block", "throws", None}, auth : BOOLEAN, acted : BOOLEAN,
                    provider : {"allow", "block", NA}, wanted : {"allow", "block", None}]
    /\ excused \in BOOLEAN

NoGroups == [g \in Groups |-> NoGroup]
NoPolicies == [k \in Keys |-> NoPolicy]
NoProvider == [h \in TargetHyperties |-> NoPolicy]
Empty == Settings(None, NoPolicies, NoProvider, NoGroups)
NothingAsked == [Empty EXCEPT !.groups = Members(NoGroups)]

NoVerdict ==
    [result |-> None, auth |-> TRUE, acted |-> FALSE, provider |-> NA, wanted |-> None]

Start ==
    /\ loading' = 1
    /\ active' = None /\ userPolicies' = NoPolicies
    /\ provider' = NoProvider /\ groups' = NoGroups
    /\ plain' = {} /\ source' = None /\ verdict' = NoVerdict

Init ==
    /\ loading = 1
    /\ active = None /\ userPolicies = NoPolicies
    /\ provider = NoProvider /\ groups = NoGroups
    /\ plain = {} /\ source = None /\ verdict = NoVerdict
    /\ saved = Empty /\ asked = NothingAsked
    /\ excused = FALSE

-----------------------------------------------------------------------------
(* Decisions.  gs are the groups' members, from the sender that is assumed. *)

InGroup(gs, g, from) == from # None /\ from \in gs[g]

\* Condition.isApplicable, with the operators equals and in, and not around it.
Term(t, gs, from) ==
    LET holds == IF t.group THEN InGroup(gs, t.of, from) ELSE t.of \in {"*", from}
    IN  holds # t.not

\* AdvancedCondition.isApplicable.
Condition(r, gs, from) ==
    LET holds == {i \in DOMAIN r.terms : Term(r.terms[i], gs, from)}
    IN  IF r.join = "and" THEN holds = DOMAIN r.terms ELSE holds # {}

Targets(r, m) ==
    \/ r.scope = "global"
    \/ r.scope = "hyperty" /\ r.target = m.hyperty
    \/ r.scope = "identity" /\ r.target = m.owner

EvaluateRule(r, gs, m, from) ==
    IF Targets(r, m) /\ Condition(r, gs, from) THEN r.decision ELSE NA

\* The rules decide in the order in which they were added, whatever their priority.
Combine(algorithm, decisions) ==
    LET some  == {i \in DOMAIN decisions : decisions[i] # NA}
        first == IF algorithm = "allowOverrides" THEN "allow" ELSE "block"
    IN  IF some = {} THEN NA
        ELSE IF algorithm # "firstApplicable" /\ \E i \in some : decisions[i] = first THEN first
        ELSE decisions[Min(some)]

EvaluatePolicy(p, gs, m, from) ==
    IF p = NoPolicy THEN NA
    ELSE Combine(p.algorithm, [i \in DOMAIN p.rules |-> EvaluateRule(p.rules[i], gs, m, from)])

ActivePolicy(s) == IF s.active = None THEN NoPolicy ELSE s.user[s.active]

\* Mutant: what the user's policy says goes first.
EvaluatePolicies_User(s, m, from) ==
    LET byProvider == EvaluatePolicy(s.provider[m.hyperty], s.groups, m, from)
        byUser     == EvaluatePolicy(ActivePolicy(s), s.groups, m, from)
    IN  IF byUser = NA THEN byProvider ELSE byUser

\* The user's policy is asked unless the provider's blocks.
EvaluatePolicies(s, m, from) ==
    LET byProvider == EvaluatePolicy(s.provider[m.hyperty], s.groups, m, from)
        byUser     == EvaluatePolicy(ActivePolicy(s), s.groups, m, from)
    IN  IF byProvider = "block" \/ byUser = NA THEN byProvider ELSE byUser

Judges(p, m) == p # NoPolicy /\ \E i \in DOMAIN p.rules : Targets(p.rules[i], m)

\* The context takes the sender from the message, if it has an identity, when a
\* condition asks for it; else he is the one of an earlier message.
Sender(m) == IF m.source = None THEN source ELSE m.source

\* enforcePolicies: the actions of the provider's policy, or else of the user's,
\* are done whatever is decided.
Acts(p, u) == IF p # NoPolicy THEN p.actions ELSE u # NoPolicy /\ u.actions

\* Allowed unless blocked: what nobody decides is marked as not authorised.
Authorise(m) ==
    LET now  == Settings(active, userPolicies, provider, Members(groups))
        p    == provider[m.hyperty]
        u    == ActivePolicy(now)
        d    == EvaluatePolicies(now, m, Sender(m))
        want == EvaluatePolicies(asked, m, m.source)
    IN  /\ verdict' =
             IF m.hyperty \in plain THEN [NoVerdict EXCEPT !.result = "throws"]
             ELSE [result |-> IF d = NA THEN "allow" ELSE d, auth |-> d # NA, acted |-> Acts(p, u),
                   provider |-> EvaluatePolicy(p, now.groups, m, Sender(m)),
                   wanted |-> IF m.source = None \/ ~Loaded THEN None
                              ELSE IF want = NA THEN "allow" ELSE want]
        /\ source' = IF m.hyperty \notin plain /\ (Judges(p, m) \/ Judges(u, m))
                     THEN Sender(m) ELSE source
        /\ UNCHANGED <<loading, kept, plain, saved, asked, excused>>

-----------------------------------------------------------------------------
(* What the user and the provider do, through the GUI.                     *)

\* What is wanted from now on, or what was wanted is lost.
Want(new, lost) ==
    /\ excused' = (excused \/ lost)
    /\ asked' = IF excused' THEN NothingAsked ELSE new

\* What is changed before it has been loaded is overwritten, or overwrites.
Change(new) ==
    /\ Want(new, ~Loaded)
    /\ UNCHANGED <<loading, source>>
    /\ verdict' = NoVerdict

\* _getPoliciesJSON: of a policy's algorithm nothing is left.
JSON(p) == IF p = NoPolicy THEN NoPolicy ELSE [p EXCEPT !.algorithm = "blockOverrides"]

\* Mutant: a policy is not saved.
AddUserPolicy_Unsaved(k, p) ==
    /\ userPolicies' = [userPolicies EXCEPT ![k] = p]
    /\ Change([asked EXCEPT !.user[k] = p])
    /\ UNCHANGED <<saved, active, provider, groups, plain>>

SaveUserPolicies == saved' = [saved EXCEPT !.user = [k \in Keys |-> JSON(userPolicies'[k])]]

AddUserPolicy(k, p) ==
    /\ userPolicies' = [userPolicies EXCEPT ![k] = p]
    /\ SaveUserPolicies
    /\ Change([asked EXCEPT !.user[k] = p])
    /\ UNCHANGED <<active, provider, groups, plain>>

AddProviderPolicy(h, p) ==
    /\ provider' = [provider EXCEPT ![h] = p]
    /\ plain' = plain \ {h}
    /\ saved' = [saved EXCEPT !.provider = [i \in TargetHyperties |-> JSON(provider'[i])]]
    /\ Change([asked EXCEPT !.provider[h] = p])
    /\ UNCHANGED <<active, userPolicies, groups>>

\* It counts until the runtime ends, unless it is saved.
Activate(k) ==
    /\ active' = k
    /\ Change([asked EXCEPT !.active = k])
    /\ UNCHANGED <<saved, userPolicies, provider, groups, plain>>

SaveActivePolicy ==
    /\ saved' = [saved EXCEPT !.active = active]
    /\ Change(asked)
    /\ UNCHANGED <<kept, plain>>

RemoveUserPolicy(k) ==
    /\ userPolicies' = [userPolicies EXCEPT ![k] = NoPolicy]
    /\ active' = IF active = k THEN None ELSE active
    /\ saved' = [saved EXCEPT !.user = [i \in Keys |-> JSON(userPolicies'[i])],
                              !.active = IF active = k THEN None ELSE @]
    /\ Change([asked EXCEPT !.user[k] = NoPolicy, !.active = IF @ = k THEN None ELSE @])
    /\ UNCHANGED <<provider, groups, plain>>

\* savePolicies is called without saying which, and throws.
RemoveProviderPolicy(h) ==
    /\ provider' = [provider EXCEPT ![h] = NoPolicy]
    /\ plain' = plain \ {h}
    /\ Change([asked EXCEPT !.provider[h] = NoPolicy])
    /\ UNCHANGED <<saved, active, userPolicies, groups>>

RemoveAllPolicies ==
    /\ active' = None /\ userPolicies' = NoPolicies
    /\ provider' = NoProvider /\ plain' = {}
    /\ saved' = [Empty EXCEPT !.groups = saved.groups]
    /\ Change([NothingAsked EXCEPT !.groups = asked.groups])
    /\ UNCHANGED groups

SetGroup(g, members) ==
    /\ groups' = [groups EXCEPT ![g] = members]
    /\ saved' = [saved EXCEPT !.groups = groups']
    /\ UNCHANGED <<active, userPolicies, provider, plain>>

AskGroup(g, members) == [asked EXCEPT !.groups[g] = members]

CreateGroup(g) == SetGroup(g, <<>>) /\ Change(AskGroup(g, {}))

DeleteGroup(g) == SetGroup(g, NoGroup) /\ Change(AskGroup(g, Range(NoGroup)))

\* Mutant: a member may be added again.
AddToGroup_Again(g, u) ==
    /\ groups[g] # NoGroup /\ Len(groups[g]) < 3
    /\ SetGroup(g, Append(groups[g], u))
    /\ Change(AskGroup(g, asked.groups[g] \union {u}))

AddToGroup(g, u) ==
    /\ groups[g] # NoGroup /\ ~Contains(groups[g], u)
    /\ SetGroup(g, Append(groups[g], u))
    /\ Change(AskGroup(g, asked.groups[g] \union {u}))

\* indexOf gives -1 for who is not a member: the last member is removed.
RemoveFromGroup(g, u) ==
    /\ groups[g] # NoGroup
    /\ LET at   == {i \in DOMAIN groups[g] : groups[g][i] = u}
           last == Len(groups[g])
           i    == IF at = {} THEN last ELSE Min(at)
       IN  /\ SetGroup(g, IF last = 0 THEN <<>> ELSE RemoveAt(groups[g], i))
           /\ Want(AskGroup(g, asked.groups[g] \ {u}), ~Loaded \/ (at = {} /\ last > 0))
    /\ UNCHANGED <<loading, source>>
    /\ verdict' = NoVerdict

-----------------------------------------------------------------------------
\* loadConfigurations, as the storage answers.
Load ==
    /\ loading < Len(Loadings)
    /\ loading' = loading + 1
    /\ active' = IF Loadings[loading] = "active" THEN saved.active ELSE active
    /\ groups' = IF Loadings[loading] = "groups" THEN saved.groups ELSE groups
    /\ provider' = IF Loadings[loading] = "provider" THEN saved.provider ELSE provider
    /\ plain' = IF Loadings[loading] = "provider"
                THEN {h \in TargetHyperties : saved.provider[h] # NoPolicy} ELSE plain
    /\ userPolicies' = IF Loadings[loading] = "user"
                       THEN [k \in Keys |-> IF saved.user[k] = NoPolicy THEN userPolicies[k]
                                            ELSE saved.user[k]]
                       ELSE userPolicies
    /\ IF Loadings[loading] = "user" THEN SaveUserPolicies ELSE UNCHANGED saved
    /\ UNCHANGED <<source, verdict, asked, excused>>

\* The runtime starts again.
Restart ==
    /\ Loaded
    /\ Start
    /\ Want(asked, \/ active # saved.active
                   \/ saved.provider # NoProvider
                   \/ \E k \in Keys : userPolicies[k] # JSON(userPolicies[k]))
    /\ UNCHANGED saved

Next ==
    \/ \E m \in Messages : Authorise(m)
    \/ \E k \in Keys :
          (\E p \in Policies : AddUserPolicy(k, p)) \/ Activate(k) \/ RemoveUserPolicy(k)
    \/ \E h \in TargetHyperties :
          (\E p \in Policies : AddProviderPolicy(h, p)) \/ RemoveProviderPolicy(h)
    \/ \E g \in Groups :
          \/ CreateGroup(g) \/ DeleteGroup(g)
          \/ \E u \in Users : AddToGroup(g, u) \/ RemoveFromGroup(g, u)
    \/ SaveActivePolicy \/ RemoveAllPolicies \/ Load \/ Restart

Spec == Init /\ [][Next]_vars

-----------------------------------------------------------------------------
\* A message that tells who sent it is judged by the policies and groups that the
\* user and the provider asked for, in this session and before, except for what
\* is lost: changes made while loading, algorithms and provider policies across
\* a restart, what was not saved, and groups from which a stranger was removed.
JudgedAsAsked ==
    ~excused /\ verdict.wanted # None => verdict.result \in {verdict.wanted, "throws"}

\* The user's policy never lets through what the provider's policy blocks.
ProviderPrevails == verdict.provider = "block" => verdict.result = "block"

\* Once all is loaded, a group's members are those that were added to it and not
\* removed, each of them once, in storage as in memory.
GroupsAreAsAsked ==
    (~excused /\ Loaded) =>
        /\ Members(groups) = asked.groups /\ saved.groups = groups
        /\ \A g \in Groups : IsInjective(groups[g])
===============================================================================
