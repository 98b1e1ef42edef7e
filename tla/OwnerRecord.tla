------------------------------ MODULE OwnerRecord ------------------------------
(***************************************************************************)
(* The owner's record and private key in the graph connector               *)
(* (graphconnector/GraphConnectorBase.js), in memory and in storage.  He   *)
(* may use the guid of another mnemonic, whose record the global registry  *)
(* is asked for.                                                           *)
(*                                                                         *)
(* A guid stands for the key pair that it is derived from.                 *)
(***************************************************************************)
EXTENDS Naturals, Sequences, SequencesExt

CONSTANTS
    OwnGuids,    \* the guids that the owner has mnemonics of
    Uses,        \* uses of a guid under way at once
    MaxPuts      \* bound on the puts of the record, or of the key, on their way

VARIABLES
    record,      \* globalRegistryRecord: its guid, and the guids whose data it has
    key,         \* the private key
    use,         \* the guid that each use asks the registry for
    stored,      \* of each what is in storage, and then the puts on their way
    loading,     \* what a restart has not got from storage yet
    torn,        \* history: one of the two was put, written or made without the other
    carried      \* history: guids whose data were there when other keys were created

vars == <<record, key, use, stored, loading, torn, carried>>

-----------------------------------------------------------------------------
None == "none"
Parts == {"record", "key"}

\* Data added before there is a guid are those of none.
Records == [guid : OwnGuids \union {None}, data : SUBSET (OwnGuids \union {None})]
Nothing == [guid |-> None, data |-> {}]

TypeOK ==
    /\ record \in Records
    /\ key \in OwnGuids \union {None}
    /\ use \in [Uses -> OwnGuids \union {None}]
    /\ stored \in [record : Seq(Records), key : Seq(OwnGuids \union {None})]
    /\ \A part \in Parts : Len(stored[part]) \in 1 .. MaxPuts + 1
    /\ loading \subseteq Parts
    /\ torn \in BOOLEAN
    /\ carried \subseteq OwnGuids \union {None}

Init ==
    /\ record = Nothing
    /\ key = None
    /\ use = [c \in Uses |-> None]
    /\ stored = [record |-> <<Nothing>>, key |-> <<None>>]
    /\ loading = {} /\ torn = FALSE /\ carried = {}

-----------------------------------------------------------------------------
\* Nobody waits for a put.
Put(r) ==
    /\ Len(stored.record) <= MaxPuts
    /\ stored' = [stored EXCEPT !.record = Append(@, r)]

PutBoth(r, k) ==
    /\ Len(stored.record) <= MaxPuts /\ Len(stored.key) <= MaxPuts
    /\ stored' = [record |-> Append(stored.record, r), key |-> Append(stored.key, k)]

\* _createKeys: the identities and defaults of the record stay, whosever they are.
CreateKeys(g) ==
    /\ record' = [record EXCEPT !.guid = g]
    /\ key' = g
    /\ torn' = (torn \/ loading # {})
    /\ carried' = IF g = record.guid THEN carried ELSE carried \union record.data

\* Mutant: the key is stored only when the record is signed.
GenerateGUID_Keyless(g) ==
    /\ CreateKeys(g)
    /\ Put(record')
    /\ UNCHANGED <<use, loading>>

GenerateGUID(g) ==
    /\ CreateKeys(g)
    /\ PutBoth(record', g)
    /\ UNCHANGED <<use, loading>>

\* useGUID: the keys are those of the mnemonic, before the registry is asked.
UseGUID(c, g) ==
    /\ CreateKeys(g)
    /\ use[c] = None
    /\ use' = [use EXCEPT ![c] = g]
    /\ UNCHANGED <<stored, loading>>

\* Mutant: whose key the answer has does not matter.
Used_Any(c) ==
    /\ use[c] # None
    /\ use' = [use EXCEPT ![c] = None]
    /\ \/ UNCHANGED <<record, stored>>
       \/ /\ record' \in {[record EXCEPT !.data = {use[c]}],
                          [record EXCEPT !.data = @ \union {use[c]}]}
          /\ PutBoth(record', key)
    /\ UNCHANGED <<key, loading, torn, carried>>

\* Rejected, or not found, the keys stay as they are.  The registered data
\* replace what they have a value for.
Used(c) ==
    /\ use[c] # None
    /\ use' = [use EXCEPT ![c] = None]
    /\ \/ UNCHANGED <<record, stored>>
       \/ /\ use[c] = record.guid
          /\ record' \in {[record EXCEPT !.data = {use[c]}],
                          [record EXCEPT !.data = @ \union {use[c]}]}
          /\ PutBoth(record', key)
    /\ UNCHANGED <<key, loading, torn, carried>>

\* addUserID, removeUserID, addLegacyID, removeLegacyID, setDefaults: the
\* record is stored, and not its key.
ChangeRecord ==
    /\ record' = [record EXCEPT !.data = @ \union {record.guid}]
    /\ Put(record')
    /\ torn' = (torn \/ Last(stored.key) # record.guid)
    /\ UNCHANGED <<key, use, loading, carried>>

\* signGlobalRegistryRecord stores both.
SignRecord ==
    /\ key # None
    /\ PutBoth(record, key)
    /\ torn' = (torn \/ record.guid # key)
    /\ UNCHANGED <<record, key, use, loading, carried>>

\* A put is done.
Written(part) ==
    /\ Len(stored[part]) > 1
    /\ stored' = [stored EXCEPT ![part] = Tail(@)]
    /\ UNCHANGED <<record, key, use, loading, torn, carried>>

\* It fails, and nobody is told.
NotWritten(part) ==
    /\ Len(stored[part]) > 1
    /\ stored' = [stored EXCEPT ![part] = <<Head(@)>> \o Tail(Tail(@))]
    /\ torn' = TRUE
    /\ UNCHANGED <<record, key, use, loading, carried>>

\* The puts on their way are lost, and _loadGraphConnector asks for the two.
Restart ==
    /\ record' = Nothing
    /\ key' = None
    /\ use' = [c \in Uses |-> None]
    /\ stored' = [record |-> <<Head(stored.record)>>, key |-> <<Head(stored.key)>>]
    /\ loading' = Parts
    /\ torn' = (torn \/ \E part \in Parts : Len(stored[part]) > 1)
    /\ UNCHANGED carried

\* One of them comes, each in its time; what was never stored changes nothing.
Loaded(part) ==
    /\ part \in loading
    /\ loading' = loading \ {part}
    /\ record' = IF part = "record" /\ Head(stored.record) # Nothing THEN Head(stored.record)
                 ELSE record
    /\ key' = IF part = "key" /\ Head(stored.key) # None THEN Head(stored.key) ELSE key
    /\ UNCHANGED <<use, stored, torn, carried>>

Next ==
    \/ \E g \in OwnGuids : GenerateGUID(g) \/ \E c \in Uses : UseGUID(c, g)
    \/ \E c \in Uses : Used(c)
    \/ ChangeRecord \/ SignRecord \/ Restart
    \/ \E part \in Parts : Written(part) \/ NotWritten(part) \/ Loaded(part)

Spec == Init /\ [][Next]_vars

-----------------------------------------------------------------------------
\* The owner's record has its private key, unless one of the two was put, written
\* or made without the other, and no data that were registered for another guid
\* but those that were there when the keys of its guid were created, across uses
\* that cross and restarts.
RecordIsOwned ==
    /\ loading = {} => record.guid = key \/ torn
    /\ record.data \subseteq {record.guid} \union carried
===============================================================================
