---------------------------- MODULE StubDeployment ----------------------------
(***************************************************************************)
(* How a runtime finds or deploys the stub of one domain: the registry's   *)
(* resolve (registry/Registry.js), the loader's loadStub and loadIdpProxy  *)
(* (runtime/Loader.js) and the status events of the stub.  Those who ask   *)
(* for the domain are told the address of its stub if it announced itself, *)
(* wait for it if it is being deployed, and have it deployed if the table  *)
(* has no entry for it.  The application may load the stub as well.        *)
(*                                                                         *)
(* The domain's name is in one of two tables, protostubsList or            *)
(* idpProxyList.  A stub is named by the deployment that made its address. *)
(***************************************************************************)
EXTENDS Naturals, Sequences, FiniteSets

CONSTANTS
    Callers,    \* messages whose address has to be resolved
    None,       \* no deployment, no caller
    MaxLoads,   \* bound on the deployments
    MaxEvents   \* bound on the status events after "created", of all stubs

\* Deployments of the stub, numbered in the order they start.
Loads == 1 .. MaxLoads

ASSUME NamesAssumption == None \notin Loads /\ None \notin Callers

ASSUME BoundAssumption == MaxLoads \in Nat /\ MaxEvents \in Nat

VARIABLES
    table,      \* which table the name is looked up in
    entry,      \* its entry: the status and the address of the stub
    caller,     \* how far each caller is
    answer,     \* the address it was given
    late,       \* history: callers that asked when "created" was over already
    load,       \* how far each deployment is
    asker,      \* the caller that is told of its failure
    hollow,     \* deployments that go on without anything to deploy
    stub,       \* what each deployed stub announced last
    sent,       \* how many such events were sent
    events      \* status events on the bus

callers == <<caller, answer, late>>
loads   == <<load, asker, hollow>>
stubs   == <<stub, sent, events>>
vars    == <<table, entry, callers, loads, stubs>>

-----------------------------------------------------------------------------
Tables == {"protostub", "idp-proxy"}

\* What a stub announces; it starts with "created".
Announced == {"created", "in-progress", "live", "disconnected"}

Statuses == Announced \union {"absent", "deploying", "deployment-failed"}

\* Mutant: a stub that is being deployed counts as deployed.
Ready_Deploying == {"created", "live", "disconnected", "deploying"}

\* The statuses of an entry whose address is handed out at once.
Ready == {"created", "live", "disconnected"}

Stages ==
    {"idle", "descriptor", "package", "creating", "deploying", "loaded", "failed"}

Events == [from : Loads, value : Announced]

TypeOK ==
    /\ table \in Tables
    /\ entry \in [status : Statuses, url : Loads \union {None}]
    /\ caller \in [Callers -> {"asking", "waiting", "resolved", "rejected"}]
    /\ answer \in [Callers -> Loads \union {None}]
    /\ late \in SUBSET Callers
    /\ load \in [Loads -> Stages]
    /\ asker \in [Loads -> Callers \union {None}]
    /\ hollow \in SUBSET Loads
    /\ stub \in [Loads -> Announced \union {"absent"}]
    /\ sent \in 0 .. MaxEvents
    /\ events \in Seq(Events)

Init ==
    /\ table \in Tables
    /\ entry = [status |-> "absent", url |-> None]
    /\ caller = [c \in Callers |-> "asking"]
    /\ answer = [c \in Callers |-> None]
    /\ late = {}
    /\ load = [l \in Loads |-> "idle"]
    /\ asker = [l \in Loads |-> None]
    /\ hollow = {}
    /\ stub = [l \in Loads |-> "absent"]
    /\ sent = 0
    /\ events = <<>>

-----------------------------------------------------------------------------
(* Asking for the stub.                                                    *)

\* The descriptor that tells whether the address belongs to a legacy domain
\* cannot be had: resolve tells nobody.
LegacyFails(c) ==
    /\ caller[c] = "asking"
    /\ caller' = [caller EXCEPT ![c] = "rejected"]
    /\ UNCHANGED <<table, entry, answer, late, loads, stubs>>

\* Mutant: a status that STATUS does not have.
Discover_Undefined(l, c) ==
    /\ \A m \in Loads : load[m] = "idle" <=> l <= m
    /\ entry' = [status |-> "undefined", url |-> None]
    /\ load' = [load EXCEPT ![l] = "descriptor"]
    /\ asker' = [asker EXCEPT ![l] = c]
    /\ UNCHANGED hollow

\* discoverProtostub and discoverIdpProxy put a new entry in place of one that
\* is not live, and the deployment starts with the stub's descriptor.
Discover(l, c) ==
    /\ \A m \in Loads : load[m] = "idle" <=> l <= m
    /\ entry' = [status |-> IF table = "protostub" THEN "deploying" ELSE "in-progress",
                 url |-> None]
    /\ load' = [load EXCEPT ![l] = "descriptor"]
    /\ asker' = [asker EXCEPT ![l] = c]
    /\ UNCHANGED hollow

\* The stub of the entry announced itself, and the watchers were called.
CreatedIsOver ==
    /\ entry.url \in Loads
    /\ stub[entry.url] \in Announced
    /\ \A i \in 1 .. Len(events) : events[i] # [from |-> entry.url, value |-> "created"]

Wait(c) ==
    /\ caller' = [caller EXCEPT ![c] = "waiting"]
    /\ late' = IF CreatedIsOver THEN late \union {c} ELSE late
    /\ UNCHANGED answer

\* Mutant: the stub is deployed whenever it is not ready.
ResolveNormalStub_Again(c) ==
    /\ caller[c] = "asking"
    /\ \/ /\ entry.status \in Ready
          /\ caller' = [caller EXCEPT ![c] = "resolved"]
          /\ answer' = [answer EXCEPT ![c] = entry.url]
          /\ UNCHANGED <<entry, late, loads>>
       \/ /\ entry.status \notin Ready
          /\ Wait(c)
          /\ \E l \in Loads : Discover(l, c)
    /\ UNCHANGED <<table, stubs>>

\* resolveNormalStub: the address, or a watcher of the entry and, if there is
\* none, the deployment.
ResolveNormalStub(c) ==
    /\ caller[c] = "asking"
    /\ \/ /\ entry.status \in Ready
          /\ caller' = [caller EXCEPT ![c] = "resolved"]
          /\ answer' = [answer EXCEPT ![c] = entry.url]
          /\ UNCHANGED <<entry, late, loads>>
       \/ /\ entry.status \notin Ready
          /\ Wait(c)
          /\ \/ /\ entry.status = "absent"
                /\ \E l \in Loads : Discover(l, c)
             \/ /\ entry.status # "absent"
                /\ UNCHANGED <<entry, loads>>
    /\ UNCHANGED <<table, stubs>>

\* The application loads the stub: unless it is live, it is deployed once more.
LoadDirectly(l) ==
    /\ entry.status # "live"
    /\ Discover(l, None)
    /\ UNCHANGED <<table, callers, stubs>>

-----------------------------------------------------------------------------
(* The steps of a deployment.                                              *)

Step(l, from, to) ==
    /\ load[l] = from
    /\ load' = [load EXCEPT ![l] = to]
    /\ UNCHANGED <<table, asker>>

\* The caller that started the deployment is rejected; for an IdP proxy its
\* entry, whoever made it, is marked as well.
TellAsker(l, e) ==
    /\ caller' = [c \in Callers |->
                    IF c = asker[l] /\ caller[c] = "waiting" THEN "rejected" ELSE caller[c]]
    /\ entry' = IF table = "idp-proxy" /\ asker[l] # None
                THEN [e EXCEPT !.status = "deployment-failed"] ELSE e
    /\ UNCHANGED <<answer, late>>

GotDescriptor(l) ==
    /\ Step(l, "descriptor", "package")
    /\ UNCHANGED <<hollow, entry, callers, stubs>>

\* No sandbox fits and one has to be made.  An IdP proxy's descriptor that has
\* capabilities is lost here.
GotPackage(l) ==
    /\ Step(l, "package", "creating")
    /\ \/ UNCHANGED hollow
       \/ table = "idp-proxy" /\ hollow' = hollow \union {l}
    /\ UNCHANGED <<entry, callers, stubs>>

\* Without its source package the deployment of a protocol stub is refused, but
\* goes on.
NoPackage(l) ==
    /\ table = "protostub"
    /\ Step(l, "package", "creating")
    /\ hollow' = hollow \union {l}
    /\ TellAsker(l, entry)
    /\ UNCHANGED stubs

\* The descriptor, an IdP proxy's package or a sandbox cannot be had.
GiveUp(l) ==
    /\ \/ Step(l, "descriptor", "failed")
       \/ Step(l, "package", "failed") /\ table = "idp-proxy"
       \/ Step(l, "creating", "failed")
    /\ TellAsker(l, entry)
    /\ UNCHANGED <<hollow, stubs>>

\* There is a sandbox, one that was made for the stub, or one that fits, which
\* no IdP proxy asks for properly; h tells that there is nothing to deploy.
HasSandbox(l, h) ==
    \/ load[l] = "package" /\ table = "protostub"
    \/ load[l] = "creating" /\ (h <=> l \in hollow)

\* registerStub and registerIdpProxy: the stub gets its address, and the
\* sandbox is told to deploy it.
Register(l, h) ==
    /\ HasSandbox(l, h)
    /\ Step(l, load[l], IF h THEN "failed" ELSE "deploying")
    /\ hollow' = IF h THEN hollow \union {l} ELSE hollow
    /\ LET registered == [status |-> "deploying", url |-> l]
       IN  IF h THEN TellAsker(l, registered)
           ELSE entry' = registered /\ UNCHANGED callers
    /\ UNCHANGED stubs

\* The sandbox answers that it deployed the stub, or did not, or not in time.
Deployed(l) ==
    /\ Step(l, "deploying", "loaded")
    /\ UNCHANGED <<hollow, entry, callers, stubs>>

NotDeployed(l) ==
    /\ Step(l, "deploying", "failed")
    /\ TellAsker(l, entry)
    /\ UNCHANGED <<hollow, stubs>>

-----------------------------------------------------------------------------
(* The stub.                                                               *)

Successors(v) ==
    CASE v = "absent"       -> {"created"}
      [] v = "created"      -> {"in-progress", "live"}
      [] v = "in-progress"  -> {"live", "disconnected"}
      [] v = "live"         -> {"disconnected"}
      [] v = "disconnected" -> {"in-progress", "live"}
      [] OTHER              -> {}

\* It announces itself as soon as the sandbox made it, before the sandbox's
\* answer or after it, and then whenever its connection changes.
Announce(l, v) ==
    /\ load[l] \in {"deploying", "loaded"} \/ stub[l] # "absent"
    /\ v \in Successors(stub[l])
    /\ \/ v = "created" /\ UNCHANGED sent
       \/ v # "created" /\ sent < MaxEvents /\ sent' = sent + 1
    /\ stub' = [stub EXCEPT ![l] = v]
    /\ events' = Append(events, [from |-> l, value |-> v])
    /\ UNCHANGED <<table, entry, callers, loads>>

\* Mutant: the status is kept, but the watchers of the entry are not called.
OnStatusEvent_Silent ==
    /\ events # <<>>
    /\ events' = Tail(events)
    /\ entry' = IF Head(events).from = entry.url
                THEN [entry EXCEPT !.status = Head(events).value] ELSE entry
    /\ UNCHANGED <<table, callers, loads, stub, sent>>

\* Mutant: those who wait are woken when the stub is live.
OnStatusEvent_Live ==
    /\ events # <<>>
    /\ LET e     == Head(events)
           known == entry.url = e.from
           woken == {c \in Callers : known /\ e.value = "live" /\ caller[c] = "waiting"}
       IN  /\ entry' = IF known THEN [entry EXCEPT !.status = e.value] ELSE entry
           /\ caller' = [c \in Callers |-> IF c \in woken THEN "resolved" ELSE caller[c]]
           /\ answer' = [c \in Callers |-> IF c \in woken THEN entry.url ELSE answer[c]]
    /\ events' = Tail(events)
    /\ UNCHANGED <<table, late, loads, stub, sent>>

\* _onProtostubStatusEvent and _onIdpProxyStatusEvent: the entry with the
\* address of the sender takes the status; "created" wakes all who wait.
OnStatusEvent ==
    /\ events # <<>>
    /\ LET e     == Head(events)
           known == entry.url = e.from
           woken == {c \in Callers : known /\ e.value = "created" /\ caller[c] = "waiting"}
       IN  /\ entry' = IF known THEN [entry EXCEPT !.status = e.value] ELSE entry
           /\ caller' = [c \in Callers |-> IF c \in woken THEN "resolved" ELSE caller[c]]
           /\ answer' = [c \in Callers |-> IF c \in woken THEN entry.url ELSE answer[c]]
    /\ events' = Tail(events)
    /\ UNCHANGED <<table, late, loads, stub, sent>>

-----------------------------------------------------------------------------
LoadStep(l) ==
    \/ GotDescriptor(l) \/ GotPackage(l) \/ NoPackage(l) \/ GiveUp(l)
    \/ \E h \in BOOLEAN : Register(l, h)
    \/ Deployed(l) \/ NotDeployed(l)

Next ==
    \/ \E c \in Callers : LegacyFails(c) \/ ResolveNormalStub(c)
    \/ \E l \in Loads : LoadDirectly(l) \/ LoadStep(l)
    \/ \E l \in Loads, v \in Announced : Announce(l, v)
    \/ OnStatusEvent

\* Promises are settled, a sandbox answers or its request times out, and a stub
\* that started announces itself; nobody has to ask, load or connect.
Fairness ==
    /\ \A l \in Loads : WF_vars(LoadStep(l)) /\ WF_vars(Announce(l, "created"))
    /\ WF_vars(OnStatusEvent)

Spec == Init /\ [][Next]_vars /\ Fairness

-----------------------------------------------------------------------------
\* Whoever is told an address is told that of a stub that was deployed and
\* announced itself, although entries are overwritten, marked as failed and
\* registered again while others read them.
ResolvedAreDeployed ==
    \A c \in Callers :
        caller[c] = "resolved" => answer[c] \in Loads /\ stub[answer[c]] \in Announced

\* However many ask at the same time, only one of them has the stub deployed.
CallersDeployOnce ==
    \A l, m \in Loads : asker[l] # None /\ asker[m] # None => l = m

\* Nobody waits for a stub that is there, unless he asked when "created" was
\* over, the stub connecting or marked as failed: nothing else wakes him.
NobodyWaitsForReady ==
    entry.status \in Ready => \A c \in Callers : caller[c] = "waiting" => c \in late

\* Every caller that waits is answered, unless he asked when "created" was over,
\* or a deployment failed.
WaitersAreAnswered ==
    \A c \in Callers :
        (caller[c] = "waiting" /\ c \notin late)
            ~> (caller[c] # "waiting" \/ \E l \in Loads : load[l] = "failed")
===============================================================================
