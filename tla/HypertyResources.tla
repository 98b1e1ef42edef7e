--------------------------- MODULE HypertyResources ---------------------------
(***************************************************************************)
(* The files, images and messages that hyperties exchange as resources of  *)
(* a data object: hyperty-resource/HypertyResource.js, whose objects save  *)
(* a content in the storage of their runtime and read it from there or     *)
(* from its owner's, and hyperty-resource/HypertyResourcesStorage.js, the  *)
(* storage.  A resource has the same last part of its URL in every         *)
(* runtime; each runtime has one object of each.  What the platform does   *)
(* (the database, the estimate of the space, the order in which a          *)
(* comparator that never says "smaller" sorts) is external.                *)
(***************************************************************************)
EXTENDS Naturals, FiniteSets

CONSTANTS
    Resources,    \* the resources
    Runtimes,     \* the runtimes
    Home,         \* the runtime a resource is sent from
    Size,         \* the size of its content
    Small,        \* the resources below arraybufferSizeLimit
    Quota,        \* the space each runtime has
    MaxCalls      \* bound on the calls under way in each runtime

VARIABLES
    held,         \* _content of the object of a runtime
    shared,       \* the resources with a contentURL
    memory,       \* of each runtime, _hypertyResources
    database,     \* of each runtime, what is in the database
    usage,        \* of each runtime, _usage; 0 when it is to be estimated
    save,         \* how far the saving of a resource is
    read,         \* how far its reading is
    deleted       \* history: of each runtime, whether something was deleted

vars == <<held, shared, memory, database, usage, save, read, deleted>>

-----------------------------------------------------------------------------
Places == Runtimes \X Resources

\* The units of space that resources take, and how many these are.
Units(rs) == UNION {{r} \X (1 .. Size[r]) : r \in rs}
Total(rs) == Cardinality(Units(rs))

TypeOK ==
    /\ held \subseteq Places
    /\ shared \subseteq Resources
    /\ memory \in [Runtimes -> SUBSET Resources]
    /\ database \in [Runtimes -> SUBSET Resources]
    /\ \A n \in Runtimes : usage[n] \in 0 .. Quota[n]
    /\ save \in [Places -> {"no", "checking", "evicting", "writing", "stuck", "unread"}]
    /\ read \in [Places -> {"no", "local", "localProgress", "remote", "remoteProgress"}]
    /\ deleted \in [Runtimes -> BOOLEAN]

Init ==
    /\ held = {<<Home[r], r>> : r \in Resources}
    /\ shared = {}
    /\ memory = [n \in Runtimes |-> {}]
    /\ database = memory
    /\ usage = [n \in Runtimes |-> 0]
    /\ save = [p \in Places |-> "no"]
    /\ read = save
    /\ deleted = [n \in Runtimes |-> FALSE]

-----------------------------------------------------------------------------
CallsUnderWay(n) ==
    Cardinality({r \in Resources : save[<<n, r>>] # "no"})
    + Cardinality({r \in Resources : read[<<n, r>>] # "no"})

\* Mutant: the resource is put in memory when it has been written.
OnCreate_Later(n, r) ==
    /\ memory' = memory
    /\ save' = [save EXCEPT ![<<n, r>>] = "checking"]

\* What _onCreate does before it answers: the resource is in memory.
OnCreate(n, r) ==
    /\ memory' = [memory EXCEPT ![n] = @ \union {r}]
    /\ save' = [save EXCEPT ![<<n, r>>] = "checking"]

\* HypertyResource.save
Save(n, r) ==
    /\ <<n, r>> \in held
    /\ save[<<n, r>>] = "no"
    /\ CallsUnderWay(n) < MaxCalls[n]
    /\ OnCreate(n, r)
    /\ UNCHANGED <<held, shared, database, usage, read, deleted>>

\* checkStorageQuota: the estimate is of the whole origin, of which the resources
\* are a part; one that is not zero is never made again.
Estimates(n) == IF usage[n] # 0 THEN {usage[n]} ELSE Total(database[n]) .. Quota[n]

\* The threshold is _storageLimit, 90 %.
Full(n, r, used) == 10 * used >= 9 * Quota[n] \/ used + Size[r] > Quota[n]

\* The answer is an error, and the saving is over.
Refuse(n, r) ==
    /\ save' = [save EXCEPT ![<<n, r>>] = "no"]
    /\ UNCHANGED <<held, shared, memory, database, usage, read, deleted>>

\* _toSave, up to the space.
Check(n, r) ==
    /\ save[<<n, r>>] = "checking"
    /\ \E used \in Estimates(n) :
          /\ usage' = [usage EXCEPT ![n] = used]
          /\ save' = [save EXCEPT ![<<n, r>>] = IF Size[r] > Quota[n] THEN "no"
                                                ELSE IF Full(n, r, used) THEN "evicting"
                                                ELSE "writing"]
    /\ UNCHANGED <<held, shared, memory, database, read, deleted>>

\* The estimate is refused.
NoEstimate(n, r) ==
    /\ save[<<n, r>>] = "checking" /\ usage[n] = 0
    /\ Refuse(n, r)

\* The resources taken before the last one are not more than what is needed.
Enough(rs, r) == Total(rs) > Size[r]

\* What _getOlderResources takes: the resources in some order until there is enough.
Older(n, r) ==
    {rs \in SUBSET database[n] :
        /\ Enough(rs, r) \/ rs = database[n]
        /\ rs # {} => \E last \in rs : ~Enough(rs \ {last}, r)}

\* _getOlderResources: all of them are deleted, or deleting some fails and with it
\* the saving.  The size of one that is not in memory cannot be read, nor anything
\* where the database fails, and then nobody is told.
Evict(n, r) ==
    /\ save[<<n, r>>] = "evicting"
    /\ \/ \E rs \in Older(n, r) :
             /\ rs \subseteq memory[n]
             /\ \/ /\ database' = [database EXCEPT ![n] = @ \ rs]
                   /\ save' = [save EXCEPT ![<<n, r>>] = "writing"]
                \/ \E gone \in SUBSET rs :
                      /\ gone # rs
                      /\ database' = [database EXCEPT ![n] = @ \ gone]
                      /\ save' = [save EXCEPT ![<<n, r>>] = "no"]
       \/ /\ ~ database[n] \subseteq memory[n]
          /\ save' = [save EXCEPT ![<<n, r>>] = "stuck"]
          /\ UNCHANGED database
       \/ /\ save' = [save EXCEPT ![<<n, r>>] = "unread"]
          /\ UNCHANGED database
    /\ UNCHANGED <<held, shared, memory, usage, read, deleted>>

\* StorageManager.set, which ends well whether the database has put the resource
\* or not, and the answer, with which save has the URL.
Write(n, r) ==
    /\ save[<<n, r>>] = "writing"
    /\ save' = [save EXCEPT ![<<n, r>>] = "no"]
    /\ \/ UNCHANGED database
       \/ /\ Total(database[n] \union {r}) <= Quota[n]
          /\ database' = [database EXCEPT ![n] = @ \union {r}]
    /\ shared' = shared \union {r}
    /\ UNCHANGED <<held, memory, usage, read, deleted>>

\* read, when the content is not there: first from the storage of the runtime.
Read(n, r) ==
    /\ <<n, r>> \notin held /\ r \in shared
    /\ read[<<n, r>>] = "no"
    /\ CallsUnderWay(n) < MaxCalls[n]
    /\ read' = [read EXCEPT ![<<n, r>>] = "local"]
    /\ UNCHANGED <<held, shared, memory, database, usage, save, deleted>>

Of(n, r) == IF read[<<n, r>>] \in {"local", "localProgress"} THEN n ELSE Home[r]

\* _getBestResource has the content; one that is small is saved.
Found(n, r) ==
    /\ read[<<n, r>>] # "no"
    /\ r \in database[Of(n, r)]
    /\ read' = [read EXCEPT ![<<n, r>>] = "no"]
    /\ held' = held \union {<<n, r>>}
    /\ IF r \in Small /\ save[<<n, r>>] = "no" THEN OnCreate(n, r) ELSE UNCHANGED <<memory, save>>
    /\ UNCHANGED <<shared, database, usage, deleted>>

\* _getBestResource fails; the second time the read does.
NextPlace(n, r) ==
    /\ read' = [read EXCEPT ![<<n, r>>] = IF @ \in {"local", "localProgress"} THEN "remote" ELSE "no"]
    /\ UNCHANGED <<held, shared, memory, database, usage, save, deleted>>

NotFound(n, r) ==
    /\ read[<<n, r>>] # "no"
    /\ r \notin database[Of(n, r)]
    /\ NextPlace(n, r)

\* After the first answer, a provisional one too, there is no timer.
Progress(n, r) ==
    /\ read[<<n, r>>] \in {"local", "remote"}
    /\ read' = [read EXCEPT ![<<n, r>>] = IF @ = "local" THEN "localProgress" ELSE "remoteProgress"]
    /\ UNCHANGED <<held, shared, memory, database, usage, save, deleted>>

TimedOut(n, r) ==
    /\ read[<<n, r>>] \in {"local", "remote"}
    /\ NextPlace(n, r)

\* _onDelete.  HypertyResource.delete sends a list, with which the database is
\* asked to delete what does not exist; a single resource is deleted.
Delete(n, r, list) ==
    /\ r \in memory[n] \union database[n]
    /\ list => r \in shared
    /\ memory' = [memory EXCEPT ![n] = @ \ {r}]
    /\ database' = [database EXCEPT ![n] = IF list THEN @ ELSE @ \ {r}]
    /\ deleted' = [deleted EXCEPT ![n] = TRUE]
    /\ UNCHANGED <<held, shared, usage, save, read>>

\* The runtime starts again with what the database has.
Restart(n) ==
    LET mine == {n} \X Resources
    IN  /\ memory' = [memory EXCEPT ![n] = database[n]]
        /\ usage' = [usage EXCEPT ![n] = 0]
        /\ held' = held \ mine
        /\ save' = [p \in Places |-> IF p \in mine THEN "no" ELSE save[p]]
        /\ read' = [p \in Places |-> IF p \in mine THEN "no" ELSE read[p]]
        /\ deleted' = [deleted EXCEPT ![n] = FALSE]
        /\ UNCHANGED <<shared, database>>

Next ==
    \/ \E n \in Runtimes, r \in Resources :
          \/ Save(n, r) \/ Check(n, r) \/ NoEstimate(n, r) \/ Evict(n, r) \/ Write(n, r)
          \/ Read(n, r) \/ Found(n, r) \/ NotFound(n, r) \/ Progress(n, r) \/ TimedOut(n, r)
          \/ \E list \in BOOLEAN : Delete(n, r, list)
    \/ \E n \in Runtimes : Restart(n)

Spec == Init /\ [][Next]_vars

-----------------------------------------------------------------------------
\* What is in the database is in memory, so that the size of what is to be evicted
\* can be read and no save stays unanswered for want of it, unless something was
\* deleted since the runtime started; a save is also left unanswered where the
\* database cannot be read (HypertyResourcesStorage._getOlderResources).
SavesEnd ==
    \A n \in Runtimes :
        deleted[n] \/ (database[n] \subseteq memory[n] /\ \A r \in Resources : save[<<n, r>>] # "stuck")
===============================================================================
