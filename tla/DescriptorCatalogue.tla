-------------------------- MODULE DescriptorCatalogue --------------------------
(***************************************************************************)
(* The descriptors of hyperties, stubs, IdP proxies and data schemas, as   *)
(* runtime/Descriptors.js and runtime-catalogue/RuntimeCatalogue.js get    *)
(* them: from what is stored, when the text of its version does not sort   *)
(* before that of the catalogue's (versions are strings, and "0.10" sorts  *)
(* before "0.9"), and otherwise from the catalogue, where the source       *)
(* package may have to be got with another request.  The catalogues, which *)
(* publish new versions meanwhile, are external; the database handles what *)
(* it is asked for in turn.                                                *)
(***************************************************************************)
EXTENDS Naturals

CONSTANTS
    Calls,       \* calls of getDescriptor
    Objects,     \* the objects described, each in some catalogue
    Fallback,    \* the object that is asked for when a stub or a proxy is not had
    Whole,       \* the objects whose descriptors come with the source package
    MaxVersion,  \* bound on the versions that are published
    Text         \* of each object and version the place of its text among the others'

VARIABLES
    catalogue,   \* of each object the version its catalogue has
    stored,      \* of each object the descriptor in the database
    call,        \* how far each call is, and what it has
    older        \* history: the objects whose stored descriptor was replaced by an older one

vars == <<catalogue, stored, call, older>>

-----------------------------------------------------------------------------
Versions == 1 .. MaxVersion

\* A descriptor's version, and that of its source package; 0 is what is missing.
DescriptorEntries == [version : Versions \union {0}, source : Versions \union {0}]
NoDescriptor == [version |-> 0, source |-> 0]

Stages == {"idle", "asking", "looking", "reading", "fetching", "attaching", "given",
           "loaded", "refused"}

TypeOK ==
    /\ catalogue \in [Objects -> Versions]
    /\ stored \in [Objects -> DescriptorEntries]
    /\ call \in [Calls -> [stage : Stages, object : Objects, again : BOOLEAN, since : Versions,
                           version : Versions \union {0}, descriptor : DescriptorEntries]]
    /\ older \subseteq Objects

\* since is history: the version there was when the call was made.
NewCall(o, again) ==
    [stage |-> "asking", object |-> o, again |-> again, since |-> catalogue[o], version |-> 0,
     descriptor |-> NoDescriptor]

Init ==
    /\ catalogue = [o \in Objects |-> 1]
    /\ stored = [o \in Objects |-> NoDescriptor]
    /\ call = [c \in Calls |-> [NewCall(Fallback, FALSE) EXCEPT !.stage = "idle"]]
    /\ older = {}

-----------------------------------------------------------------------------
Over(c) == call[c].stage \in {"idle", "given", "loaded", "refused"}

\* Descriptors.getHypertyDescriptor, and RuntimeCatalogue.getDataSchemaDescriptor.
GetHypertyDescriptor(c, o) ==
    /\ Over(c)
    /\ call' = [call EXCEPT ![c] = NewCall(o, FALSE)]
    /\ UNCHANGED <<catalogue, stored, older>>

\* Descriptors.getStubDescriptor and getIdpProxyDescriptor.
GetStubDescriptor(c, o) ==
    /\ Over(c)
    /\ o # Fallback
    /\ call' = [call EXCEPT ![c] = NewCall(o, TRUE)]
    /\ UNCHANGED <<catalogue, stored, older>>

\* The version, and the identifier the descriptor is stored under, arrive.
Versioned(c) ==
    /\ call[c].stage = "asking"
    /\ call' = [call EXCEPT ![c].stage = "looking", ![c].version = catalogue[call[c].object]]
    /\ UNCHANGED <<catalogue, stored, older>>

\* StorageManager.getVersion, which is undefined when nothing is stored, is compared
\* as the string that it is.
NotBefore(o, v) == stored[o].version # 0 /\ Text[o][stored[o].version] >= Text[o][v]

\* Mutant: whatever is stored will do.
Look_Any(c) ==
    /\ call[c].stage = "looking"
    /\ call' = [call EXCEPT ![c].stage = IF stored[call[c].object] # NoDescriptor
                                         THEN "reading" ELSE "fetching"]
    /\ UNCHANGED <<catalogue, stored, older>>

\* getDescriptor compares the version stored with the one of the catalogue; where
\* the database fails there is none.
Look(c) ==
    /\ call[c].stage = "looking"
    /\ \E stage \in {"reading", "fetching"} :
          /\ stage = "reading" => NotBefore(call[c].object, call[c].version)
          /\ call' = [call EXCEPT ![c].stage = stage]
    /\ UNCHANGED <<catalogue, stored, older>>

\* A descriptor is stored with its source package, so that one that was read is given.
ReadStored(c) ==
    /\ call[c].stage = "reading"
    /\ call' = [call EXCEPT ![c].stage = "given", ![c].descriptor = stored[call[c].object]]
    /\ UNCHANGED <<catalogue, stored, older>>

\* StorageManager.set, of which nobody learns that it failed: the descriptor is given.
Give(c, d) ==
    LET o == call[c].object
    IN  /\ call' = [call EXCEPT ![c].stage = "given", ![c].descriptor = d]
        /\ \/ UNCHANGED <<stored, older>>
           \/ /\ stored' = [stored EXCEPT ![o] = d]
              /\ older' = IF d.version < stored[o].version THEN older \union {o} ELSE older
        /\ UNCHANGED catalogue

\* The descriptor arrives, with the source package or without.
Fetch(c) ==
    LET o == call[c].object
        v == catalogue[o]
    IN  /\ call[c].stage = "fetching"
        /\ \/ /\ o \in Whole
              /\ Give(c, [version |-> v, source |-> v])
           \/ /\ o \notin Whole
              /\ call' = [call EXCEPT ![c].stage = "attaching", ![c].descriptor.version = v]
              /\ UNCHANGED <<catalogue, stored, older>>

\* Mutant: a source package that is stored is not got again.
AttachRawSourcePackage_Stored(c) ==
    /\ call[c].stage = "attaching"
    /\ LET o == call[c].object
           s == IF stored[o] # NoDescriptor THEN stored[o].source ELSE catalogue[o]
       IN  Give(c, [call[c].descriptor EXCEPT !.source = s])

\* attachRawSourcePackage: the source package that the catalogue has by now.
AttachRawSourcePackage(c) ==
    /\ call[c].stage = "attaching"
    /\ Give(c, [call[c].descriptor EXCEPT !.source = catalogue[call[c].object]])

\* getSourcePackageFromURL: the loader gets the source package anew, though it has
\* one, unless it came with the descriptor.
GetSourcePackageFromURL(c) ==
    /\ call[c].stage = "given"
    /\ call[c].object \notin Whole
    /\ call' = [call EXCEPT ![c].stage = "loaded",
                            ![c].descriptor.source = catalogue[call[c].object]]
    /\ UNCHANGED <<catalogue, stored, older>>

\* A request, or reading the database, fails: the descriptor of a stub or a proxy is
\* then asked for in the catalogue of the runtime's own domain, under the name of
\* the stub's.
Fail(c) ==
    /\ call[c].stage \in {"asking", "reading", "fetching", "attaching"}
    /\ \/ /\ call[c].again
          /\ call' = [call EXCEPT ![c] = NewCall(Fallback, FALSE)]
       \/ /\ ~call[c].again
          /\ call' = [call EXCEPT ![c].stage = "refused"]
    /\ UNCHANGED <<catalogue, stored, older>>

\* A new version is published.
Publish(o) ==
    /\ catalogue[o] < MaxVersion
    /\ catalogue' = [catalogue EXCEPT ![o] = @ + 1]
    /\ UNCHANGED <<stored, call, older>>

\* Only what is stored outlives a restart.
Restart ==
    /\ call' = [c \in Calls |-> [NewCall(Fallback, FALSE) EXCEPT !.stage = "idle"]]
    /\ UNCHANGED <<catalogue, stored, older>>

Next ==
    \/ \E c \in Calls, o \in Objects : GetHypertyDescriptor(c, o) \/ GetStubDescriptor(c, o)
    \/ \E c \in Calls : Versioned(c) \/ Look(c) \/ ReadStored(c) \/ Fetch(c)
                           \/ AttachRawSourcePackage(c)
                           \/ GetSourcePackageFromURL(c) \/ Fail(c)
    \/ \E o \in Objects : Publish(o)
    \/ Restart

-----------------------------------------------------------------------------
Given == {c \in Calls : call[c].stage \in {"given", "loaded"}}

\* The descriptor given is of an earlier version than the catalogue's, and was taken
\* because the text of such a version does not sort before it.
Outranked(c) ==
    LET text == Text[call[c].object]
    IN  \E v \in 1 .. call[c].descriptor.version :
            v < call[c].version /\ text[v] >= text[call[c].version]

\* A descriptor that is given is not older than what the catalogue had when it
\* was asked for, unless the texts of the versions sort otherwise, or a slower call
\* stored an older one over a newer one (RuntimeCatalogue.getDescriptor).
GivenAreCurrent ==
    \A c \in Given :
        \/ call[c].descriptor.version >= call[c].since
        \/ Outranked(c)
        \/ call[c].object \in older

\* The source package that is given is of the descriptor's version, unless a new
\* one was published while the descriptor was got, be it by this call or another,
\* or as before (attachRawSourcePackage, getSourcePackageFromURL).
SourcesFit ==
    \A c \in Given :
        \/ call[c].descriptor.source = call[c].descriptor.version
        \/ call[c].descriptor.source > call[c].since
        \/ Outranked(c)
        \/ call[c].object \in older
===============================================================================
