----------------------------- MODULE AccessTokens -----------------------------
(***************************************************************************)
(* The access tokens that the identity module (identity/IdentityModule.js) *)
(* gets from the IdPs for messages to legacy domains, and that Identities  *)
(* (identity/Identities.js) keeps, one for each domain, in memory and in   *)
(* storage.  A domain without a usable token is logged in to; its entry is *)
(* "in-progress" meanwhile.                                                *)
(*                                                                         *)
(* A token is named by its number in the order of their issue.             *)
(***************************************************************************)
EXTENDS Naturals, Sequences

CONSTANTS
    Domains,    \* legacy domains
    Requests,   \* messages, or callers of the GUI, that need a token
    Resources,  \* what a token gives access to
    Needs,      \* the sets of resources that are asked for
    MaxTokens   \* bound on the tokens issued

VARIABLES
    token,      \* the entry of each domain in memory: status, number, resources
    kept,       \* that in storage
    writes,     \* what is on its way to storage, with the request that waits
    request,    \* each request's stage, domain, resources, and token given
    refreshing, \* the domains whose IdPs give tokens that can be refreshed
    issued,     \* the tokens: what each is good for
    expired,    \* those that expired
    failed,     \* history: domains whose login failed, or was cut off
    mixed       \* history: domains where a refresh met another token's entry

vars == <<token, kept, writes, request, refreshing, issued, expired, failed, mixed>>

-----------------------------------------------------------------------------
Tokens == 1 .. MaxTokens

Entries ==
    [status : {"absent", "none", "created", "in-progress"}, nr : Tokens \union {0},
     resources : SUBSET Resources]

Absent == [status |-> "absent", nr |-> 0, resources |-> {}]

Stages ==
    {"idle", "endpoint", "token", "refresh", "storing", "given", "nothing", "stuck"}

Settled == {"idle", "given", "nothing", "stuck"}

TypeOK ==
    /\ token \in [Domains -> Entries]
    /\ kept \in [Domains -> Entries]
    /\ writes \in Seq([by : Requests, entries : [Domains -> Entries]])
    /\ request \in [Requests -> [stage : Stages, domain : Domains, need : SUBSET Resources,
                                 nr : Tokens \union {0}]]
    /\ refreshing \in SUBSET Domains
    /\ issued \in Seq(SUBSET Resources) /\ Len(issued) <= MaxTokens
    /\ expired \in SUBSET Tokens
    /\ failed \in SUBSET Domains
    /\ mixed \in SUBSET Domains

\* A request that has nothing to do with a token, or not any more: what is
\* rejected reaches nobody, for _getAccessToken does not pass it on.
Without(stage) == [stage |-> stage, domain |-> CHOOSE d \in Domains : TRUE, need |-> {}, nr |-> 0]

\* The storage is empty, or has one token from an earlier session.
Init ==
    /\ \/ issued = <<>> /\ token = [d \in Domains |-> Absent]
       \/ \E owner \in Domains, need \in Needs :
             /\ issued = <<need>>
             /\ token = [d \in Domains |->
                           IF d = owner
                           THEN [status |-> "created", nr |-> 1, resources |-> need]
                           ELSE Absent]
    /\ refreshing \in SUBSET Domains
    /\ kept = token
    /\ writes = <<>>
    /\ request = [r \in Requests |-> Without("idle")]
    /\ expired = {}
    /\ failed = {}
    /\ mixed = {}

-----------------------------------------------------------------------------
\* _getNewAccessToken: the entry is in progress until a token is added.
Login(r, d) ==
    token' = [token EXCEPT ![d].status = "in-progress"]

\* Mutant: a token counts whatever it is good for.
Lookup_Any(d, need) ==
    IF token[d].status \in {"absent", "in-progress"} THEN token[d].status
    ELSE IF token[d].nr \in expired THEN "expired"
    ELSE "valid"

\* getAccessToken of Identities: an entry without resources throws, which leaves
\* the request without an answer, and one without those needed gives an error,
\* which is taken for a token that never expires.
Lookup(d, need) ==
    IF token[d].status = "absent" THEN "absent"
    ELSE IF token[d].nr = 0 /\ need # {} THEN "throws"
    ELSE IF ~(need \subseteq token[d].resources) THEN "error"
    ELSE IF token[d].status = "in-progress" THEN "in-progress"
    ELSE IF token[d].nr \in expired THEN "expired"
    ELSE "valid"

\* _getAccessTokenForDomain.  During a login one is answered at once, with nothing.
Ask(r, d, need) ==
    LET found   == Lookup(d, need)
        refresh == found = "expired" /\ d \in refreshing
        login   == found = "absent" \/ (found = "expired" /\ ~refresh)
        stage   == CASE login                           -> "endpoint"
                     [] refresh                         -> "refresh"
                     [] found = "throws"                -> "stuck"
                     [] found \in {"error", "in-progress"} -> "nothing"
                     [] found = "valid"                 -> "given"
    IN  /\ request[r].stage = "idle"
        /\ request' = [request EXCEPT ![r] =
                         IF stage \in {"stuck", "nothing"} THEN Without(stage)
                         ELSE [stage |-> stage, domain |-> d, need |-> need,
                               nr |-> IF login THEN 0 ELSE token[d].nr]]
        /\ IF login THEN Login(r, d) ELSE UNCHANGED token
        /\ UNCHANGED <<refreshing, kept, writes, issued, expired, failed, mixed>>

\* The IdP tells where to log in, and the user does so in a popup.
Popup(r) ==
    /\ request[r].stage = "endpoint"
    /\ request' = [request EXCEPT ![r].stage = "token"]
    /\ UNCHANGED <<refreshing, token, kept, writes, issued, expired, failed, mixed>>

\* The IdP refuses, or gives what is no token: nobody is told, and the entry
\* stays as it is.
Refused(r) ==
    /\ request[r].stage \in {"endpoint", "token", "refresh"}
    /\ request' = [request EXCEPT ![r] = Without("stuck")]
    /\ failed' = IF request[r].stage = "refresh" THEN failed
                 ELSE failed \union {request[r].domain}
    /\ UNCHANGED <<refreshing, token, kept, writes, issued, expired, mixed>>

\* Writes what is in memory now; the request is answered when it is written.
Store(r, new) ==
    /\ token' = new
    /\ writes' = Append(writes, [by |-> r, entries |-> new])

Issue(resources) ==
    /\ Len(issued) < MaxTokens
    /\ issued' = Append(issued, resources)

\* addAccessToken, from the IdP's answer to a login, or from the GUI.
Add(r, d, need, stage) ==
    LET nr == Len(issued) + 1
    IN  /\ request[r].stage = stage
        /\ Issue(need)
        /\ Store(r, [token EXCEPT ![d] = [status |-> "none", nr |-> nr, resources |-> need]])
        /\ request' = [request EXCEPT ![r] =
                         [stage |-> "storing", domain |-> d, need |-> need, nr |-> nr]]
        /\ UNCHANGED <<refreshing, kept, expired, failed, mixed>>

AddFromGUI(r, d, need) == Add(r, d, need, "idle")

\* updateAccessToken: the refreshed token takes the place of the one there is
\* now, whose resources stay.
Refreshed(r) ==
    LET d  == request[r].domain
        nr == Len(issued) + 1
    IN  /\ request[r].stage = "refresh"
        /\ Issue(issued[request[r].nr])
        /\ Store(r, [token EXCEPT ![d].nr = nr])
        /\ request' = [request EXCEPT ![r].stage = "storing", ![r].nr = nr]
        /\ mixed' = IF token[d].resources # issued[request[r].nr]
                    THEN mixed \union {d} ELSE mixed
        /\ UNCHANGED <<refreshing, kept, expired, failed>>

\* The storage wrote, or failed without telling: the entry that there is now is
\* "created", and the request gets its token.
Written ==
    /\ writes # <<>>
    /\ LET w == Head(writes)
           d == request[w.by].domain
       IN  /\ kept' \in {w.entries, kept}
           /\ token' = [token EXCEPT ![d].status = "created"]
           /\ request' = [request EXCEPT ![w.by].stage = "given"]
    /\ writes' = Tail(writes)
    /\ UNCHANGED <<refreshing, issued, expired, failed, mixed>>

Expire(nr) ==
    /\ nr \in 1 .. Len(issued) /\ nr \notin expired
    /\ expired' = expired \union {nr}
    /\ UNCHANGED <<refreshing, token, kept, writes, request, issued, failed, mixed>>

\* loadAccessTokens, at the start of the runtime: a login that was under way when
\* a token was written seems to be so still.
Restart ==
    /\ \E r \in Requests : request[r].stage \notin Settled
    /\ token' = kept
    /\ writes' = <<>>
    /\ request' = [r \in Requests |-> IF request[r].stage \in Settled THEN request[r]
                                      ELSE Without("stuck")]
    /\ failed' = failed \union {d \in Domains : kept[d].status = "in-progress"}
    /\ UNCHANGED <<refreshing, kept, issued, expired, mixed>>

Next ==
    \/ \E r \in Requests :
          \/ \E d \in Domains, need \in Needs : Ask(r, d, need) \/ AddFromGUI(r, d, need)
          \/ Popup(r) \/ Refused(r) \/ Refreshed(r)
          \/ Add(r, request[r].domain, request[r].need, "token")
    \/ Written
    \/ \E nr \in Tokens : Expire(nr)
    \/ Restart

Spec == Init /\ [][Next]_vars

-----------------------------------------------------------------------------
\* Who is given a token can use it for what he needs it for, although tokens are
\* replaced and refreshed meanwhile, unless a refresh met another token's entry.
GivenTokensFit ==
    \A r \in Requests :
        (request[r].stage = "given" /\ request[r].domain \notin mixed) =>
            request[r].need \subseteq issued[request[r].nr]

\* A domain is marked as being logged in to only while it is, unless a login
\* failed or was cut off by a restart: then nobody gets a token for it.
OnlyFailuresBlock ==
    \A d \in Domains :
        token[d].status = "in-progress" =>
            \/ d \in failed
            \/ \E r \in Requests :
                  request[r].domain = d /\ request[r].stage \in {"endpoint", "token"}
===============================================================================
