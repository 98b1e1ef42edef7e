------------------------ MODULE ServicesPeople_proofs ------------------------
(***************************************************************************)
(* The inductive invariants of the services that keep people and their     *)
(* data apart: the owner's record, access tokens, identity assertions, the *)
(* contacts, the chats and the policies with their groups.  Each part has  *)
(* the invariant, that it holds at first, that a step of the service keeps *)
(* it, and that it implies the properties of the service.  They are put    *)
(* together in Services_proofs.                                            *)
(***************************************************************************)
EXTENDS Services, SequenceTheorems, FiniteSetTheorems, WellFoundedInduction, TLAPS

-----------------------------------------------------------------------------
(* The owner's record.                                                     *)

\* The guids of a record or a key.
RecordGuids == OwnGuids \union {"none"}

\* While storage is read, all that is there or on its way there is of one guid.
RecordComes ==
    LET g == stored.key[1]
    IN  /\ \A i \in 1 .. Len(stored.record) : stored.record[i].guid = g
        /\ \A i \in 1 .. Len(stored.key) : stored.key[i] = g
        /\ record.guid = IF "record" \in loading THEN "none" ELSE g
        /\ key = IF "key" \in loading THEN "none" ELSE g
        /\ \A c \in Uses : use[c] = "none"

\* The last puts are of one guid, and what is loaded is too.
RecordHasKey ==
    /\ stored.record[Len(stored.record)].guid = stored.key[Len(stored.key)]
    /\ loading = {} => record.guid = key
    /\ loading # {} => RecordComes

\* In storage as in memory, the record has its key, or was put without it, and the
\* data of its guid, or those carried over.
RecordInv ==
    /\ Record!TypeOK
    /\ torn \/ RecordHasKey
    /\ record.data \subseteq {record.guid} \union carried
    /\ \A i \in 1 .. Len(stored.record) :
          stored.record[i].data \subseteq {stored.record[i].guid} \union carried

\* At first there is no key, and a record of nobody.
LEMMA RecordInit == Record!Init => RecordInv
<1> SUFFICES ASSUME Record!Init PROVE RecordInv
  OBVIOUS
<1> DEFINE nothing == [guid |-> "none", data |-> {}]
<1>1. /\ record = nothing /\ key = "none" /\ torn = FALSE /\ loading = {} /\ carried = {}
      /\ use = [c \in Uses |-> "none"] /\ stored = [record |-> <<nothing>>, key |-> <<"none">>]
  BY DEF Record!Init, Record!None, Record!Nothing
<1>2. nothing \in Record!Records /\ nothing.guid = "none" /\ nothing.data = {}
  BY DEF Record!Records, Record!None
<1> HIDE DEF nothing
<1>3. /\ stored.record = <<nothing>> /\ stored.key = <<"none">>
      /\ <<nothing>> \in Seq(Record!Records) /\ <<"none">> \in Seq(RecordGuids)
      /\ Len(stored.record) = 1 /\ stored.record[1] = nothing
      /\ Len(stored.key) = 1 /\ stored.key[1] = "none"
  BY <1>1, <1>2 DEF RecordGuids
<1>4. Record!TypeOK
  <2>1. \A part \in Record!Parts : Len(stored[part]) \in 1 .. MaxPuts + 1
    <3>1. stored["record"] = stored.record /\ stored["key"] = stored.key
      BY <1>1
    <3>2. 1 \in 1 .. MaxPuts + 1
      BY PutNumbers
    <3> QED BY <1>3, <3>1, <3>2 DEF Record!Parts
  <2>2. stored \in [record : Seq(Record!Records), key : Seq(RecordGuids)]
    BY <1>1, <1>3
  <2> QED BY <1>1, <1>2, <2>1, <2>2 DEF Record!TypeOK, RecordGuids, Record!None, Record!Parts
<1> QED BY <1>1, <1>2, <1>3, <1>4 DEF RecordInv, RecordHasKey

\* What the step of a record makes of the invariant is seen from the two queues.
LEMMA RecordStays ==
    ASSUME RecordInv, NEW sr \in Seq(Record!Records), NEW sk \in Seq(RecordGuids),
           stored' = [record |-> sr, key |-> sk],
           Len(sr) \in 1 .. MaxPuts + 1, Len(sk) \in 1 .. MaxPuts + 1,
           record' \in Record!Records, key' \in RecordGuids, use' \in [Uses -> RecordGuids],
           loading' \subseteq {"record", "key"}, torn' \in BOOLEAN,
           carried' \subseteq RecordGuids, carried \subseteq carried',
           record'.data \subseteq {record'.guid} \union carried',
           \A i \in 1 .. Len(sr) : sr[i].data \subseteq {sr[i].guid} \union carried',
           torn' \/ RecordHasKey'
    PROVE  RecordInv'
<1>1. stored'.record = sr /\ stored'.key = sk
  OBVIOUS
<1>2. Record!TypeOK'
  <2>1. \A part \in Record!Parts : Len(stored'[part]) \in 1 .. MaxPuts + 1
    BY <1>1 DEF Record!Parts
  <2>2. stored' \in [record : Seq(Record!Records), key : Seq(RecordGuids)]
    OBVIOUS
  <2> QED BY <2>1, <2>2 DEF Record!TypeOK, RecordGuids, Record!None, Record!Parts
<1> QED BY <1>1, <1>2 DEF RecordInv

\* Of a sequence with one more at its end.
LEMMA AppendedAtEnd ==
    ASSUME NEW S, NEW s \in Seq(S), NEW e \in S
    PROVE  /\ Append(s, e) \in Seq(S) /\ Len(Append(s, e)) = Len(s) + 1
           /\ Append(s, e)[Len(s) + 1] = e
           /\ \A i \in 1 .. Len(s) : Append(s, e)[i] = s[i]
OBVIOUS

\* Of two sequences, one after the other.
LEMMA JoinedAtEnd ==
    ASSUME NEW S, NEW s \in Seq(S), NEW t \in Seq(S)
    PROVE  /\ s \o t \in Seq(S) /\ Len(s \o t) = Len(s) + Len(t)
           /\ \A i \in 1 .. Len(s) + Len(t) :
                 (s \o t)[i] = IF i <= Len(s) THEN s[i] ELSE t[i - Len(s)]
OBVIOUS

\* Of a sequence without its second.
LEMMA SecondTaken ==
    ASSUME NEW S, NEW s \in Seq(S), Len(s) > 1
    PROVE  /\ <<Head(s)>> \o Tail(Tail(s)) \in Seq(S)
           /\ Len(<<Head(s)>> \o Tail(Tail(s))) = Len(s) - 1
           /\ \A i \in 1 .. Len(s) - 1 :
                 (<<Head(s)>> \o Tail(Tail(s)))[i] = IF i = 1 THEN s[1] ELSE s[i + 1]
<1>1. /\ Head(s) \in S /\ Head(s) = s[1] /\ <<Head(s)>> \in Seq(S) /\ Len(<<Head(s)>>) = 1
  OBVIOUS
<1>2. /\ Tail(s) \in Seq(S) /\ Len(Tail(s)) = Len(s) - 1
      /\ \A i \in 1 .. Len(s) - 1 : Tail(s)[i] = s[i + 1]
  OBVIOUS
<1> DEFINE t == Tail(s)
<1>3. t \in Seq(S) /\ Len(t) = Len(s) - 1 /\ Len(t) > 0
  BY <1>2
<1> HIDE DEF t
<1>4. /\ Tail(t) \in Seq(S) /\ Len(Tail(t)) = Len(t) - 1
      /\ \A i \in 1 .. Len(t) - 1 : Tail(t)[i] = t[i + 1]
  BY <1>3
<1> DEFINE h == <<Head(s)>>
           u == Tail(t)
<1>5. h \in Seq(S) /\ Len(h) = 1 /\ h[1] = s[1]
  BY <1>1
<1>6. u \in Seq(S) /\ Len(u) = Len(s) - 2
  BY <1>3, <1>4
<1>7. \A i \in 1 .. Len(s) - 2 : u[i] = s[i + 2]
  <2> SUFFICES ASSUME NEW i \in 1 .. Len(s) - 2 PROVE u[i] = s[i + 2]
    OBVIOUS
  <2>1. i \in 1 .. Len(t) - 1 /\ i + 1 \in 1 .. Len(s) - 1
    BY <1>3
  <2>2. u[i] = t[i + 1] /\ t[i + 1] = s[(i + 1) + 1] /\ (i + 1) + 1 = i + 2
    BY <2>1, <1>4, <1>2 DEF t
  <2> QED BY <2>2
<1> HIDE DEF h, u
<1>8. /\ h \o u \in Seq(S) /\ Len(h \o u) = Len(h) + Len(u)
      /\ \A i \in 1 .. Len(h) + Len(u) : (h \o u)[i] = IF i <= Len(h) THEN h[i] ELSE u[i - Len(h)]
  BY <1>5, <1>6, JoinedAtEnd
<1>9. Len(h \o u) = Len(s) - 1
  BY <1>5, <1>6, <1>8
<1>10. \A i \in 1 .. Len(s) - 1 : (h \o u)[i] = IF i = 1 THEN s[1] ELSE s[i + 1]
  <2> SUFFICES ASSUME NEW i \in 1 .. Len(s) - 1
               PROVE  (h \o u)[i] = IF i = 1 THEN s[1] ELSE s[i + 1]
    OBVIOUS
  <2>1. i \in 1 .. Len(h) + Len(u) /\ (i # 1 => i - 1 \in 1 .. Len(s) - 2 /\ (i - 1) + 2 = i + 1)
    BY <1>5, <1>6
  <2>2. (h \o u)[i] = IF i <= 1 THEN h[i] ELSE u[i - 1]
    BY <2>1, <1>8, <1>5
  <2>3. CASE i = 1
    BY <2>2, <2>3, <1>5
  <2>4. CASE i # 1
    BY <2>1, <2>2, <2>4, <1>7
  <2> QED BY <2>3, <2>4
<1> QED BY <1>8, <1>9, <1>10 DEF h, u, t

\* No use of a mnemonic, put, loading or restart mixes the record.
LEMMA RecordNext == RecordInv /\ [Record!Next]_(Record!vars) => RecordInv'
<1> SUFFICES ASSUME RecordInv, [Record!Next]_(Record!vars)
             PROVE  RecordInv'
  OBVIOUS
<1> DEFINE sr == stored.record
           sk == stored.key
<1>t. /\ record \in Record!Records /\ key \in RecordGuids /\ use \in [Uses -> RecordGuids]
      /\ sr \in Seq(Record!Records) /\ sk \in Seq(RecordGuids)
      /\ stored = [record |-> sr, key |-> sk]
      /\ Len(sr) \in 1 .. MaxPuts + 1 /\ Len(sk) \in 1 .. MaxPuts + 1
      /\ loading \subseteq {"record", "key"} /\ torn \in BOOLEAN /\ carried \subseteq RecordGuids
  BY DEF RecordInv, Record!TypeOK, RecordGuids, Record!None, Record!Parts
<1>r. /\ record.guid \in RecordGuids /\ record.data \subseteq RecordGuids
      /\ record = [guid |-> record.guid, data |-> record.data]
  BY <1>t DEF Record!Records, RecordGuids, Record!None
<1>n. MaxPuts \in Nat /\ Len(sr) \in Nat /\ Len(sk) \in Nat
  BY <1>t, PutNumbers
<1>i. /\ torn \/ RecordHasKey
      /\ record.data \subseteq {record.guid} \union carried
      /\ \A i \in 1 .. Len(sr) : sr[i].data \subseteq {sr[i].guid} \union carried
  BY DEF RecordInv
<1>u. ASSUME NEW g \in RecordGuids, NEW d \in SUBSET RecordGuids
      PROVE  /\ [guid |-> g, data |-> d] \in Record!Records
             /\ [record EXCEPT !.guid = g] = [guid |-> g, data |-> record.data]
             /\ [record EXCEPT !.data = d] = [guid |-> record.guid, data |-> d]
  <2>1. [guid |-> g, data |-> d] \in Record!Records
    BY DEF Record!Records, RecordGuids, Record!None
  <2> QED BY <1>r, <2>1
\* Another record at the end of what is put.
<1>p. ASSUME NEW r \in Record!Records, Len(sr) <= MaxPuts
      PROVE  /\ Append(sr, r) \in Seq(Record!Records) /\ Len(Append(sr, r)) \in 1 .. MaxPuts + 1
             /\ Len(Append(sr, r)) = Len(sr) + 1 /\ Append(sr, r)[Len(sr) + 1] = r
             /\ \A i \in 1 .. Len(sr) : Append(sr, r)[i] = sr[i]
  <2> HIDE DEF sr
  <2>1. Len(sr) + 1 \in 1 .. MaxPuts + 1
    BY <1>p, <1>n
  <2> QED BY <2>1, <1>t, AppendedAtEnd
<1>q. ASSUME NEW k \in RecordGuids, Len(sk) <= MaxPuts
      PROVE  /\ Append(sk, k) \in Seq(RecordGuids) /\ Len(Append(sk, k)) \in 1 .. MaxPuts + 1
             /\ Len(Append(sk, k)) = Len(sk) + 1 /\ Append(sk, k)[Len(sk) + 1] = k
             /\ \A i \in 1 .. Len(sk) : Append(sk, k)[i] = sk[i]
  <2> HIDE DEF sk
  <2>1. Len(sk) + 1 \in 1 .. MaxPuts + 1
    BY <1>q, <1>n
  <2> QED BY <2>1, <1>t, AppendedAtEnd
\* The new keys, and what they leave of the record.
<1>k. ASSUME NEW g \in OwnGuids, Record!CreateKeys(g)
      PROVE  /\ record' = [guid |-> g, data |-> record.data] /\ key' = g
             /\ record' \in Record!Records /\ key' \in RecordGuids
             /\ record'.guid = g /\ record'.data = record.data
             /\ torn' \in BOOLEAN /\ (torn' \/ (loading = {} /\ ~torn))
             /\ carried' \subseteq RecordGuids /\ carried \subseteq carried'
             /\ record'.data \subseteq {record'.guid} \union carried'
  <2>1. /\ record' = [record EXCEPT !.guid = g] /\ key' = g
        /\ torn' = (torn \/ loading # {})
        /\ carried' = IF g = record.guid THEN carried ELSE carried \union record.data
    BY <1>k DEF Record!CreateKeys
  <2>2. g \in RecordGuids
    BY DEF RecordGuids
  <2>3. record' = [guid |-> g, data |-> record.data] /\ record' \in Record!Records
    BY <2>1, <2>2, <1>u, <1>r
  <2> QED BY <2>1, <2>2, <2>3, <1>t, <1>r, <1>i
<1> HIDE DEF sr, sk
<1>1. ASSUME NEW g \in OwnGuids, Record!GenerateGUID(g)
      PROVE  RecordInv'
  <2> DEFINE nr == Append(sr, record')
             nk == Append(sk, g)
  <2>1. /\ Len(sr) <= MaxPuts /\ Len(sk) <= MaxPuts
        /\ stored' = [record |-> nr, key |-> nk] /\ UNCHANGED <<use, loading>>
    BY <1>1 DEF Record!GenerateGUID, Record!PutBoth, sr, sk
  <2>2. Record!CreateKeys(g) /\ g \in RecordGuids
    BY <1>1 DEF Record!GenerateGUID, RecordGuids
  <2>3. /\ nr \in Seq(Record!Records) /\ Len(nr) \in 1 .. MaxPuts + 1
        /\ Len(nr) = Len(sr) + 1 /\ nr[Len(sr) + 1] = record'
        /\ \A i \in 1 .. Len(sr) : nr[i] = sr[i]
    BY <2>1, <2>2, <1>k, <1>p
  <2>4. /\ nk \in Seq(RecordGuids) /\ Len(nk) \in 1 .. MaxPuts + 1
        /\ Len(nk) = Len(sk) + 1 /\ nk[Len(sk) + 1] = g
    BY <2>1, <2>2, <1>q
  <2> HIDE DEF nr, nk
  <2>5. \A i \in 1 .. Len(nr) : nr[i].data \subseteq {nr[i].guid} \union carried'
    <3> SUFFICES ASSUME NEW i \in 1 .. Len(nr)
                 PROVE  nr[i].data \subseteq {nr[i].guid} \union carried'
      OBVIOUS
    <3>1. CASE i = Len(sr) + 1
      BY <3>1, <2>2, <2>3, <1>k
    <3>2. CASE i # Len(sr) + 1
      <4>1. i \in 1 .. Len(sr) /\ nr[i] = sr[i]
        BY <3>2, <2>3, <1>n
      <4> QED BY <4>1, <2>2, <1>k, <1>i
    <3> QED BY <3>1, <3>2
  <2>6. torn' \/ RecordHasKey'
    BY <2>1, <2>2, <2>3, <2>4, <1>k DEF RecordHasKey
  <2> QED BY <2>1, <2>2, <2>3, <2>4, <2>5, <2>6, <1>k, <1>t, RecordStays
<1>2. ASSUME NEW g \in OwnGuids, NEW c \in Uses, Record!UseGUID(c, g)
      PROVE  RecordInv'
  <2>1. /\ stored' = [record |-> sr, key |-> sk] /\ stored' = stored /\ loading' = loading
        /\ use' \in [Uses -> RecordGuids] /\ Record!CreateKeys(g)
    BY <1>2, <1>t DEF Record!UseGUID, RecordGuids
  <2>2. \A i \in 1 .. Len(sr) : sr[i].data \subseteq {sr[i].guid} \union carried'
    BY <2>1, <1>k, <1>i
  <2>3. torn' \/ RecordHasKey'
    BY <2>1, <1>k, <1>i DEF RecordHasKey
  <2> QED BY <2>1, <2>2, <2>3, <1>k, <1>t, RecordStays
<1>3. ASSUME NEW c \in Uses, Record!Used(c)
      PROVE  RecordInv'
  <2>1. /\ use[c] # "none" /\ use' = [use EXCEPT ![c] = "none"]
        /\ UNCHANGED <<key, loading, torn, carried>>
    BY <1>3 DEF Record!Used, Record!None
  <2>2. use' \in [Uses -> RecordGuids] /\ use[c] \in RecordGuids
    BY <2>1, <1>t DEF RecordGuids
  <2>3. torn \/ (RecordHasKey /\ loading = {})
    BY <2>1, <1>i DEF RecordHasKey, RecordComes
  <2>4. CASE UNCHANGED <<record, stored>>
    <3>1. torn' \/ RecordHasKey'
      BY <2>1, <2>3, <2>4 DEF RecordHasKey
    <3>2. stored' = [record |-> sr, key |-> sk]
      BY <2>4, <1>t
    <3> QED BY <2>1, <2>2, <2>4, <3>1, <3>2, <1>t, <1>i, RecordStays
  <2>5. CASE ~ UNCHANGED <<record, stored>>
    <3> DEFINE nr == Append(sr, record')
               nk == Append(sk, key)
    <3>1. /\ use[c] = record.guid
          /\ record' \in {[record EXCEPT !.data = {use[c]}],
                          [record EXCEPT !.data = record.data \union {use[c]}]}
          /\ Len(sr) <= MaxPuts /\ Len(sk) <= MaxPuts
          /\ stored' = [record |-> nr, key |-> nk]
      BY <1>3, <2>5 DEF Record!Used, Record!PutBoth, sr, sk
    <3>2. /\ record' \in Record!Records /\ record'.guid = record.guid
          /\ record'.data \subseteq {record'.guid} \union carried'
      <4>1. /\ {use[c]} \subseteq RecordGuids /\ record.data \union {use[c]} \subseteq RecordGuids
        BY <2>2, <1>r
      <4>2. \E d \in SUBSET RecordGuids :
               /\ record' = [guid |-> record.guid, data |-> d]
               /\ d \subseteq record.data \union {use[c]}
        BY <3>1, <4>1, <1>u, <1>r
      <4> QED BY <4>2, <3>1, <2>1, <1>i, <1>r, <1>u
    <3>3. /\ nr \in Seq(Record!Records) /\ Len(nr) \in 1 .. MaxPuts + 1
          /\ Len(nr) = Len(sr) + 1 /\ nr[Len(sr) + 1] = record'
          /\ \A i \in 1 .. Len(sr) : nr[i] = sr[i]
      BY <3>1, <3>2, <1>p
    <3>4. /\ nk \in Seq(RecordGuids) /\ Len(nk) \in 1 .. MaxPuts + 1
          /\ Len(nk) = Len(sk) + 1 /\ nk[Len(sk) + 1] = key
      BY <3>1, <1>t, <1>q
    <3> HIDE DEF nr, nk
    <3>5. \A i \in 1 .. Len(nr) : nr[i].data \subseteq {nr[i].guid} \union carried'
      <4> SUFFICES ASSUME NEW i \in 1 .. Len(nr)
                   PROVE  nr[i].data \subseteq {nr[i].guid} \union carried'
        OBVIOUS
      <4>1. CASE i = Len(sr) + 1
        BY <4>1, <3>2, <3>3
      <4>2. CASE i # Len(sr) + 1
        <5>1. i \in 1 .. Len(sr) /\ nr[i] = sr[i]
          BY <4>2, <3>3, <1>n
        <5> QED BY <5>1, <2>1, <1>i
      <4> QED BY <4>1, <4>2
    <3>6. torn' \/ RecordHasKey'
      <4>1. stored'.record = nr /\ stored'.key = nk
        BY <3>1
      <4> QED BY <4>1, <2>1, <2>3, <3>2, <3>3, <3>4 DEF RecordHasKey
    <3> QED BY <2>1, <2>2, <3>1, <3>2, <3>3, <3>4, <3>5, <3>6, <1>t, RecordStays
  <2> QED BY <2>4, <2>5
<1>4. CASE Record!ChangeRecord
  <2> DEFINE nr == Append(sr, record')
  <2>1. /\ record' = [record EXCEPT !.data = record.data \union {record.guid}]
        /\ Len(sr) <= MaxPuts /\ stored' = [record |-> nr, key |-> sk]
        /\ torn' = (torn \/ sk[Len(sk)] # record.guid)
        /\ UNCHANGED <<key, use, loading, carried>>
    BY <1>4, <1>t DEF Record!ChangeRecord, Record!Put, Record!Last, sr, sk
  <2>2. /\ record' \in Record!Records /\ record'.guid = record.guid
        /\ record'.data \subseteq {record'.guid} \union carried'
    <3>1. /\ record.data \union {record.guid} \in SUBSET RecordGuids
          /\ record.data \union {record.guid} \subseteq {record.guid} \union carried
      BY <1>r, <1>i
    <3>2. record' = [guid |-> record.guid, data |-> record.data \union {record.guid}]
      BY <2>1, <3>1, <1>u, <1>r
    <3> QED BY <3>1, <3>2, <2>1, <1>r, <1>u
  <2>3. /\ nr \in Seq(Record!Records) /\ Len(nr) \in 1 .. MaxPuts + 1
        /\ Len(nr) = Len(sr) + 1 /\ nr[Len(sr) + 1] = record'
        /\ \A i \in 1 .. Len(sr) : nr[i] = sr[i]
    BY <2>1, <2>2, <1>p
  <2> HIDE DEF nr
  <2>5. \A i \in 1 .. Len(nr) : nr[i].data \subseteq {nr[i].guid} \union carried'
    <3> SUFFICES ASSUME NEW i \in 1 .. Len(nr)
                 PROVE  nr[i].data \subseteq {nr[i].guid} \union carried'
      OBVIOUS
    <3>1. CASE i = Len(sr) + 1
      BY <3>1, <2>2, <2>3
    <3>2. CASE i # Len(sr) + 1
      <4>1. i \in 1 .. Len(sr) /\ nr[i] = sr[i]
        BY <3>2, <2>3, <1>n
      <4> QED BY <4>1, <2>1, <1>i
    <3> QED BY <3>1, <3>2
  <2>6. ASSUME ~torn' PROVE RecordHasKey'
    <3>1. ~torn /\ RecordHasKey /\ sk[Len(sk)] = record.guid
      BY <2>6, <2>1, <1>i, <1>t
    <3>2. stored'.record = nr /\ stored'.key = sk
      BY <2>1
    <3>3. ASSUME loading # {} PROVE RecordComes'
      <4>1. RecordComes
        BY <3>1, <3>3 DEF RecordHasKey
      <4>2. sk[Len(sk)] = sk[1] /\ Len(sk) \in 1 .. Len(sk)
        BY <4>1, <1>t, <1>n DEF RecordComes, sk
      <4>3. \A i \in 1 .. Len(nr) : nr[i].guid = sk[1]
        <5> SUFFICES ASSUME NEW i \in 1 .. Len(nr) PROVE nr[i].guid = sk[1]
          OBVIOUS
        <5>1. CASE i = Len(sr) + 1
          BY <5>1, <2>2, <2>3, <3>1, <4>2
        <5>2. CASE i # Len(sr) + 1
          <6>1. i \in 1 .. Len(sr) /\ nr[i] = sr[i]
            BY <5>2, <2>3, <1>n
          <6> QED BY <6>1, <4>1 DEF RecordComes, sr, sk
        <5> QED BY <5>1, <5>2
      <4> QED BY <2>1, <2>2, <3>2, <4>1, <4>3 DEF RecordComes, sk
    <3> QED BY <2>1, <2>2, <2>3, <3>1, <3>2, <3>3 DEF RecordHasKey
  <2> QED BY <2>1, <2>2, <2>3, <2>5, <2>6, <1>t, RecordStays
<1>5. CASE Record!SignRecord
  <2> DEFINE nr == Append(sr, record)
             nk == Append(sk, key)
  <2>1. /\ key # "none" /\ Len(sr) <= MaxPuts /\ Len(sk) <= MaxPuts
        /\ stored' = [record |-> nr, key |-> nk]
        /\ torn' = (torn \/ record.guid # key)
        /\ UNCHANGED <<record, key, use, loading, carried>>
    BY <1>5 DEF Record!SignRecord, Record!PutBoth, Record!None, sr, sk
  <2>3. /\ nr \in Seq(Record!Records) /\ Len(nr) \in 1 .. MaxPuts + 1
        /\ Len(nr) = Len(sr) + 1 /\ nr[Len(sr) + 1] = record
        /\ \A i \in 1 .. Len(sr) : nr[i] = sr[i]
    BY <2>1, <1>t, <1>p
  <2>4. /\ nk \in Seq(RecordGuids) /\ Len(nk) \in 1 .. MaxPuts + 1
        /\ Len(nk) = Len(sk) + 1 /\ nk[Len(sk) + 1] = key
        /\ \A i \in 1 .. Len(sk) : nk[i] = sk[i]
    BY <2>1, <1>t, <1>q
  <2> HIDE DEF nr, nk
  <2>5. \A i \in 1 .. Len(nr) : nr[i].data \subseteq {nr[i].guid} \union carried'
    <3> SUFFICES ASSUME NEW i \in 1 .. Len(nr)
                 PROVE  nr[i].data \subseteq {nr[i].guid} \union carried'
      OBVIOUS
    <3>1. CASE i = Len(sr) + 1
      BY <3>1, <2>1, <2>3, <1>i
    <3>2. CASE i # Len(sr) + 1
      <4>1. i \in 1 .. Len(sr) /\ nr[i] = sr[i]
        BY <3>2, <2>3, <1>n
      <4> QED BY <4>1, <2>1, <1>i
    <3> QED BY <3>1, <3>2
  <2>6. ASSUME ~torn' PROVE RecordHasKey'
    <3>1. ~torn /\ RecordHasKey /\ record.guid = key
      BY <2>6, <2>1, <1>i, <1>t
    <3>2. stored'.record = nr /\ stored'.key = nk
      BY <2>1
    <3>3. ASSUME loading # {} PROVE RecordComes'
      <4>1. RecordComes
        BY <3>1, <3>3 DEF RecordHasKey
      <4>0. 1 \in 1 .. Len(sk)
        BY <1>t, <1>n
      <4>2. key = sk[1] /\ nk[1] = sk[1]
        <5>1. key = sk[1]
          BY <4>1, <2>1 DEF RecordComes, sk
        <5> QED BY <5>1, <4>0, <2>4
      <4>3. \A i \in 1 .. Len(nr) : nr[i].guid = sk[1]
        <5> SUFFICES ASSUME NEW i \in 1 .. Len(nr) PROVE nr[i].guid = sk[1]
          OBVIOUS
        <5>1. CASE i = Len(sr) + 1
          BY <5>1, <2>3, <3>1, <4>2
        <5>2. CASE i # Len(sr) + 1
          <6>1. i \in 1 .. Len(sr) /\ nr[i] = sr[i]
            BY <5>2, <2>3, <1>n
          <6> QED BY <6>1, <4>1 DEF RecordComes, sr, sk
        <5> QED BY <5>1, <5>2
      <4>4. \A i \in 1 .. Len(nk) : nk[i] = sk[1]
        <5> SUFFICES ASSUME NEW i \in 1 .. Len(nk) PROVE nk[i] = sk[1]
          OBVIOUS
        <5>1. CASE i = Len(sk) + 1
          BY <5>1, <2>4, <4>2
        <5>2. CASE i # Len(sk) + 1
          <6>1. i \in 1 .. Len(sk) /\ nk[i] = sk[i]
            BY <5>2, <2>4, <1>n
          <6> QED BY <6>1, <4>1 DEF RecordComes, sk
        <5> QED BY <5>1, <5>2
      <4> QED BY <2>1, <3>2, <4>1, <4>2, <4>3, <4>4 DEF RecordComes, sk
    <3> QED BY <2>1, <2>3, <2>4, <3>1, <3>2, <3>3 DEF RecordHasKey
  <2> QED BY <2>1, <2>3, <2>4, <2>5, <2>6, <1>t, <1>i, RecordStays
<1>6. CASE Record!Restart
  <2> DEFINE nr == <<sr[1]>>
             nk == <<sk[1]>>
  <2>1. /\ record' = [guid |-> "none", data |-> {}] /\ key' = "none"
        /\ use' = [c \in Uses |-> "none"] /\ loading' = {"record", "key"}
        /\ stored' = [record |-> nr, key |-> nk] /\ carried' = carried
        /\ torn' = (torn \/ \E part \in {"record", "key"} : Len(stored[part]) > 1)
    BY <1>6 DEF Record!Restart, Record!None, Record!Nothing, Record!Parts, sr, sk
  <2>2. /\ sr[1] \in Record!Records /\ sk[1] \in RecordGuids
        /\ nr \in Seq(Record!Records) /\ nk \in Seq(RecordGuids)
        /\ Len(nr) = 1 /\ nr[1] = sr[1] /\ Len(nk) = 1 /\ nk[1] = sk[1] /\ 1 \in 1 .. Len(sr)
    BY <1>t, <1>n
  <2> HIDE DEF nr, nk
  <2>3. /\ record' \in Record!Records /\ key' \in RecordGuids /\ use' \in [Uses -> RecordGuids]
        /\ record'.data = {} /\ record'.guid = "none"
    <3>1. "none" \in RecordGuids /\ {} \in SUBSET RecordGuids
      BY DEF RecordGuids
    <3> QED BY <2>1, <3>1, <1>u
  <2>4. ASSUME ~torn' PROVE RecordHasKey'
    <3>1. ~torn /\ Len(sr) = 1 /\ Len(sk) = 1
      <4>1. ~torn /\ ~ (Len(stored["record"]) > 1) /\ ~ (Len(stored["key"]) > 1)
        BY <2>1, <2>4, <1>t
      <4>2. stored["record"] = sr /\ stored["key"] = sk
        BY DEF sr, sk
      <4>3. ~ (Len(sr) > 1) /\ ~ (Len(sk) > 1)
        BY <4>1, <4>2
      <4>4. Len(sr) >= 1 /\ Len(sk) >= 1
        BY <1>t, <1>n
      <4>5. Len(sr) \in Nat /\ Len(sk) \in Nat
        BY <1>n
      <4> HIDE DEF sr, sk
      <4>6. \A n \in Nat : ~ (n > 1) /\ n >= 1 => n = 1
        OBVIOUS
      <4>7. Len(sr) = 1
        BY <4>3, <4>4, <4>5, <4>6
      <4>8. Len(sk) = 1
        BY <4>3, <4>4, <4>5, <4>6
      <4> QED BY <4>1, <4>7, <4>8
    <3>2. sr[1].guid = sk[1]
      BY <3>1, <1>i DEF RecordHasKey, sr, sk
    <3>3. stored'.record = nr /\ stored'.key = nk
      BY <2>1
    <3>4. RecordComes'
      <4>1. /\ \A i \in 1 .. Len(nr) : nr[i].guid = sk[1]
            /\ \A i \in 1 .. Len(nk) : nk[i] = sk[1]
        BY <2>2, <3>2
      <4>2. \A c \in Uses : use'[c] = "none"
        BY <2>1
      <4> QED BY <2>1, <2>2, <2>3, <3>3, <4>1, <4>2 DEF RecordComes
    <3> QED BY <2>1, <2>2, <3>2, <3>3, <3>4 DEF RecordHasKey
  <2>5. \A i \in 1 .. Len(nr) : nr[i].data \subseteq {nr[i].guid} \union carried'
    BY <2>1, <2>2, <1>i
  <2>6. Len(nr) \in 1 .. MaxPuts + 1 /\ Len(nk) \in 1 .. MaxPuts + 1 /\ torn' \in BOOLEAN
    BY <2>1, <2>2, <1>n, <1>t
  <2>7. torn' \/ RecordHasKey'
    BY <2>4
  <2> QED BY <2>1, <2>2, <2>3, <2>5, <2>6, <2>7, <1>t, RecordStays
<1>7. ASSUME NEW part \in Record!Parts, Record!Written(part)
      PROVE  RecordInv'
  <2>1. part \in {"record", "key"} /\ UNCHANGED <<record, key, use, loading, torn, carried>>
    BY <1>7 DEF Record!Written, Record!Parts
  <2>2. CASE part = "record"
    <3> DEFINE nr == Tail(sr)
    <3>1. Len(sr) > 1 /\ stored' = [record |-> nr, key |-> sk]
      BY <1>7, <2>2, <1>t DEF Record!Written
    <3>2. /\ nr \in Seq(Record!Records) /\ Len(nr) = Len(sr) - 1 /\ Len(nr) \in 1 .. MaxPuts + 1
          /\ \A i \in 1 .. Len(nr) : nr[i] = sr[i + 1] /\ i + 1 \in 1 .. Len(sr)
      BY <3>1, <1>t, <1>n
    <3> HIDE DEF nr
    <3>3. nr[Len(nr)] = sr[Len(sr)]
      BY <3>2, <1>n
    <3>4. \A i \in 1 .. Len(nr) : nr[i].data \subseteq {nr[i].guid} \union carried'
      BY <3>2, <2>1, <1>i
    <3>5. stored'.record = nr /\ stored'.key = sk
      BY <3>1
    <3>6. RecordHasKey => RecordHasKey'
      BY <2>1, <3>2, <3>3, <3>5 DEF RecordHasKey, RecordComes, sr, sk
    <3>7. torn' \/ RecordHasKey'
      BY <3>6, <2>1, <1>i
    <3> QED BY <2>1, <3>1, <3>2, <3>4, <3>7, <1>t, <1>i, RecordStays
  <2>3. CASE part = "key"
    <3> DEFINE nk == Tail(sk)
    <3>1. Len(sk) > 1 /\ stored' = [record |-> sr, key |-> nk]
      BY <1>7, <2>3, <1>t DEF Record!Written
    <3>2. /\ nk \in Seq(RecordGuids) /\ Len(nk) = Len(sk) - 1 /\ Len(nk) \in 1 .. MaxPuts + 1
          /\ \A i \in 1 .. Len(nk) : nk[i] = sk[i + 1] /\ i + 1 \in 1 .. Len(sk)
      BY <3>1, <1>t, <1>n
    <3> HIDE DEF nk
    <3>3. nk[Len(nk)] = sk[Len(sk)] /\ nk[1] = sk[2] /\ 2 \in 1 .. Len(sk)
      BY <3>2, <1>n
    <3>5. stored'.record = sr /\ stored'.key = nk
      BY <3>1
    <3>6. RecordHasKey => RecordHasKey'
      BY <2>1, <3>2, <3>3, <3>5 DEF RecordHasKey, RecordComes, sr, sk
    <3>7. torn' \/ RecordHasKey'
      BY <3>6, <2>1, <1>i
    <3>8. \A i \in 1 .. Len(sr) : sr[i].data \subseteq {sr[i].guid} \union carried'
      BY <2>1, <1>i
    <3> QED BY <2>1, <3>1, <3>2, <3>7, <3>8, <1>t, <1>i, RecordStays
  <2> QED BY <2>1, <2>2, <2>3
<1>8. ASSUME NEW part \in Record!Parts, Record!NotWritten(part)
      PROVE  RecordInv'
  <2>1. /\ part \in {"record", "key"} /\ torn' = TRUE
        /\ UNCHANGED <<record, key, use, loading, carried>>
    BY <1>8 DEF Record!NotWritten, Record!Parts
  <2>2. CASE part = "record"
    <3> DEFINE nr == <<Head(sr)>> \o Tail(Tail(sr))
    <3>1. Len(sr) > 1 /\ stored' = [record |-> nr, key |-> sk]
      BY <1>8, <2>2, <1>t DEF Record!NotWritten
    <3>2. /\ nr \in Seq(Record!Records) /\ Len(nr) = Len(sr) - 1
          /\ \A i \in 1 .. Len(nr) : nr[i] = IF i = 1 THEN sr[1] ELSE sr[i + 1]
      BY <3>1, <1>t, SecondTaken
    <3> HIDE DEF nr
    <3>3. Len(nr) \in 1 .. MaxPuts + 1
      BY <3>1, <3>2, <1>t, <1>n
    <3>4. \A i \in 1 .. Len(nr) : nr[i].data \subseteq {nr[i].guid} \union carried'
      <4> SUFFICES ASSUME NEW i \in 1 .. Len(nr)
                   PROVE  nr[i].data \subseteq {nr[i].guid} \union carried'
        OBVIOUS
      <4>1. \E j \in 1 .. Len(sr) : nr[i] = sr[j]
        <5>1. 1 \in 1 .. Len(sr) /\ i + 1 \in 1 .. Len(sr)
          BY <3>1, <3>2, <1>n
        <5> QED BY <3>2, <5>1
      <4> QED BY <4>1, <2>1, <1>i
    <3> QED BY <2>1, <3>1, <3>2, <3>3, <3>4, <1>t, <1>i, RecordStays
  <2>3. CASE part = "key"
    <3> DEFINE nk == <<Head(sk)>> \o Tail(Tail(sk))
    <3>1. Len(sk) > 1 /\ stored' = [record |-> sr, key |-> nk]
      BY <1>8, <2>3, <1>t DEF Record!NotWritten
    <3>2. nk \in Seq(RecordGuids) /\ Len(nk) = Len(sk) - 1
      BY <3>1, <1>t, SecondTaken
    <3> HIDE DEF nk
    <3>3. Len(nk) \in 1 .. MaxPuts + 1
      BY <3>1, <3>2, <1>t, <1>n
    <3>8. \A i \in 1 .. Len(sr) : sr[i].data \subseteq {sr[i].guid} \union carried'
      BY <2>1, <1>i
    <3> QED BY <2>1, <3>1, <3>2, <3>3, <3>8, <1>t, <1>i, RecordStays
  <2> QED BY <2>1, <2>2, <2>3
<1>9. ASSUME NEW part \in Record!Parts, Record!Loaded(part)
      PROVE  RecordInv'
  <2>1. /\ part \in {"record", "key"} /\ part \in loading /\ loading' = loading \ {part}
        /\ stored' = [record |-> sr, key |-> sk]
        /\ UNCHANGED <<use, stored, torn, carried>>
    BY <1>9, <1>t DEF Record!Loaded, Record!Parts
  <2>2. /\ sr[1] \in Record!Records /\ sk[1] \in RecordGuids /\ 1 \in 1 .. Len(sr)
        /\ sr[1].guid \in RecordGuids
    <3>1. sr[1] \in Record!Records /\ sk[1] \in RecordGuids /\ 1 \in 1 .. Len(sr)
      BY <1>t, <1>n
    <3> QED BY <3>1 DEF Record!Records, RecordGuids, Record!None
  <2>4. CASE part = "record"
    <3>1. /\ key' = key
          /\ record' = IF sr[1] # [guid |-> "none", data |-> {}] THEN sr[1] ELSE record
      BY <1>9, <2>4, <1>t, <1>n DEF Record!Loaded, Record!Nothing, Record!None, sr
    <3>2. record' \in Record!Records /\ record'.data \subseteq {record'.guid} \union carried'
      BY <3>1, <2>1, <2>2, <1>t, <1>i
    <3>3. ASSUME ~torn PROVE RecordHasKey'
      <4>1. RecordHasKey /\ RecordComes
        BY <3>3, <2>1, <1>i DEF RecordHasKey
      <4>2. record.guid = "none" /\ sr[1].guid = sk[1]
        BY <4>1, <2>1, <2>2, <2>4 DEF RecordComes, sr, sk
      <4>3. record'.guid = sk[1]
        BY <3>1, <4>2
      <4>4. "record" \notin loading' /\ ("key" \in loading' <=> "key" \in loading)
        BY <2>1, <2>4
      <4>5. loading' = {} => "key" \notin loading
        BY <4>4
      <4> QED BY <2>1, <3>1, <4>1, <4>3, <4>4, <4>5 DEF RecordHasKey, RecordComes, sk
    <3> QED BY <2>1, <2>4, <3>1, <3>2, <3>3, <1>t, <1>i, RecordStays
  <2>5. CASE part = "key"
    <3>1. /\ record' = record
          /\ key' = IF sk[1] # "none" THEN sk[1] ELSE key
      BY <1>9, <2>5, <1>t, <1>n DEF Record!Loaded, Record!None, sk
    <3>2. key' \in RecordGuids
      BY <3>1, <2>2, <1>t
    <3>3. ASSUME ~torn PROVE RecordHasKey'
      <4>1. RecordHasKey /\ RecordComes
        BY <3>3, <2>1, <1>i DEF RecordHasKey
      <4>2. key = "none" /\ key' = sk[1]
        BY <3>1, <4>1, <2>1, <2>5 DEF RecordComes, sk
      <4>4. "key" \notin loading' /\ ("record" \in loading' <=> "record" \in loading)
        BY <2>1, <2>5
      <4>5. loading' = {} => "record" \notin loading
        BY <4>4
      <4> QED BY <2>1, <3>1, <4>1, <4>2, <4>4, <4>5 DEF RecordHasKey, RecordComes, sk
    <3> QED BY <2>1, <2>5, <3>1, <3>2, <3>3, <1>t, <1>i, RecordStays
  <2> QED BY <2>1, <2>4, <2>5
<1>10. CASE UNCHANGED Record!vars
  <2>1. UNCHANGED <<record, key, use, stored, loading, torn, carried>>
    BY <1>10 DEF Record!vars
  <2>2. stored' = [record |-> sr, key |-> sk]
    BY <2>1, <1>t
  <2>3. torn' \/ RecordHasKey'
    BY <2>1, <1>i DEF RecordHasKey, RecordComes
  <2> QED BY <2>1, <2>2, <2>3, <1>t, <1>i, RecordStays
<1> QED BY <1>1, <1>2, <1>3, <1>4, <1>5, <1>6, <1>7, <1>8, <1>9, <1>10 DEF Record!Next

-----------------------------------------------------------------------------
(* Access tokens.                                                          *)

\* The entries of tokens.
Entry ==
    [status : {"absent", "none", "created", "in-progress"}, nr : (1 .. MaxTokens) \union {0},
     resources : SUBSET Resources]

\* The requests for tokens.
RequestRecords ==
    [stage : Token!Stages, domain : Domains, need : SUBSET Resources,
     nr : (1 .. MaxTokens) \union {0}]

\* The writes of tokens.
WriteRecords == [by : Requests, entries : [Domains -> Entry]]

\* An entry of a domain is that of a token that was issued for its resources,
\* unless a refresh mixed it up.
EntryFits(d, e, tokens, mixedUp) ==
    /\ e.nr = 0 => e.resources = {} /\ e.status \notin {"none", "created"}
    /\ e.nr # 0 => /\ e.nr \in 1 .. Len(tokens)
                   /\ d \notin mixedUp => e.resources = tokens[e.nr]

\* Each domain's token has the resources it was issued for.
EntriesFit(es, tokens, mixedUp) == \A d \in Domains : EntryFits(d, es[d], tokens, mixedUp)

\* What has a token, has one that fits.
RequestFits(q, tokens, mixedUp) ==
    q.stage \in {"given", "refresh", "storing"} =>
        /\ q.nr \in 1 .. Len(tokens)
        /\ q.domain \notin mixedUp => q.need \subseteq tokens[q.nr]

\* What is on its way to storage has a request of its own that waits for it.
WritesAreAwaited ==
    \A i \in 1 .. Len(writes) :
        /\ EntriesFit(writes[i].entries, issued, mixed)
        /\ request[writes[i].by].stage = "storing"
        /\ token[request[writes[i].by].domain].nr # 0
        /\ \A j \in 1 .. Len(writes) : writes[i].by = writes[j].by => i = j

\* Tokens in memory, in storage and with requests have what they were issued for.
TokenInv ==
    /\ Token!TypeOK
    /\ expired \subseteq 1 .. Len(issued)
    /\ EntriesFit(token, issued, mixed)
    /\ EntriesFit(kept, issued, mixed)
    /\ WritesAreAwaited
    /\ \A r \in Requests : RequestFits(request[r], issued, mixed)
    /\ Token!OnlyFailuresBlock

\* The types of the parts of the state, for the lemmas that follow.
LEMMA TokenTypes ==
    ASSUME TokenInv
    PROVE  /\ token \in [Domains -> Entry] /\ kept \in [Domains -> Entry]
           /\ writes \in Seq(WriteRecords) /\ request \in [Requests -> RequestRecords]
           /\ issued \in Seq(SUBSET Resources) /\ Len(issued) \in Nat /\ Len(issued) <= MaxTokens
           /\ Len(writes) \in Nat
BY DEF TokenInv, Token!TypeOK, Entry, RequestRecords, WriteRecords, Token!Entries, Token!Tokens

\* Tokens that are issued, and mixed up, later change nothing of that.
LEMMA FitsStay ==
    ASSUME NEW tokens \in Seq(SUBSET Resources), NEW more \in SUBSET Resources,
           NEW mixedUp, NEW mixedMore, mixedUp \subseteq mixedMore,
           NEW later, later = tokens \/ later = Append(tokens, more)
    PROVE  /\ \A d, e : EntryFits(d, e, tokens, mixedUp) => EntryFits(d, e, later, mixedMore)
           /\ \A es : EntriesFit(es, tokens, mixedUp) => EntriesFit(es, later, mixedMore)
           /\ \A q : RequestFits(q, tokens, mixedUp) => RequestFits(q, later, mixedMore)
<1>1. /\ Len(tokens) \in Nat /\ Len(later) \in Nat /\ Len(later) >= Len(tokens)
      /\ \A i \in 1 .. Len(tokens) : later[i] = tokens[i] /\ i \in 1 .. Len(later)
  <2>1. CASE later = tokens
    BY <2>1
  <2>2. CASE later = Append(tokens, more)
    BY <2>2
  <2> QED BY <2>1, <2>2
<1>2. ASSUME NEW d, NEW e, EntryFits(d, e, tokens, mixedUp)
      PROVE  EntryFits(d, e, later, mixedMore)
  BY <1>1, <1>2 DEF EntryFits
<1>3. ASSUME NEW q, RequestFits(q, tokens, mixedUp)
      PROVE  RequestFits(q, later, mixedMore)
  BY <1>1, <1>3 DEF RequestFits
<1> QED BY <1>2, <1>3 DEF EntriesFit

\* A request that has no token of its own is typed.
LEMMA WithoutTyped ==
    ASSUME NEW stage \in Token!Stages
    PROVE  Token!Without(stage) \in RequestRecords /\ Token!Without(stage).stage = stage
BY SomeDomain DEF Token!Without, RequestRecords

\* No tokens, requests or writes: the invariant holds at first.
LEMMA TokenInit == Token!Init => TokenInv
<1> SUFFICES ASSUME Token!Init PROVE TokenInv
  OBVIOUS
<1>1. /\ kept = token /\ writes = <<>> /\ expired = {} /\ failed = {} /\ mixed = {}
      /\ request = [r \in Requests |-> Token!Without("idle")] /\ refreshing \in SUBSET Domains
  BY DEF Token!Init
<1>2. request \in [Requests -> RequestRecords] /\ \A r \in Requests : request[r].stage = "idle"
  BY <1>1, WithoutTyped DEF Token!Stages
<1>3. /\ token \in [Domains -> Entry] /\ issued \in Seq(SUBSET Resources)
      /\ Len(issued) <= MaxTokens /\ EntriesFit(token, issued, {})
      /\ \A d \in Domains : token[d].status \in {"absent", "created"}
  <2>1. CASE issued = <<>> /\ token = [d \in Domains |-> Token!Absent]
    BY <2>1, TokenNumbers DEF Entry, EntriesFit, EntryFits, Token!Absent
  <2>2. ASSUME NEW owner \in Domains, NEW need \in Needs, issued = <<need>>,
               token = [d \in Domains |->
                           IF d = owner
                           THEN [status |-> "created", nr |-> 1, resources |-> need]
                           ELSE Token!Absent]
        PROVE  /\ token \in [Domains -> Entry] /\ issued \in Seq(SUBSET Resources)
               /\ Len(issued) <= MaxTokens /\ EntriesFit(token, issued, {})
               /\ \A d \in Domains : token[d].status \in {"absent", "created"}
    <3>1. need \in SUBSET Resources
      BY NeedsAreResources
    <3>2. issued \in Seq(SUBSET Resources) /\ Len(issued) = 1 /\ issued[1] = need
      BY <2>2, <3>1
    <3>3. 1 \in 1 .. MaxTokens /\ 1 <= MaxTokens
      BY TokenNumbers
    <3>4. ASSUME NEW d \in Domains
          PROVE  /\ token[d] \in Entry /\ EntryFits(d, token[d], issued, {})
                 /\ token[d].status \in {"absent", "created"}
      <4>1. CASE d = owner
        BY <2>2, <3>1, <3>2, <3>3, <4>1 DEF Entry, EntryFits
      <4>2. CASE d # owner
        BY <2>2, <4>2 DEF Entry, EntryFits, Token!Absent
      <4> QED BY <4>1, <4>2
    <3>5. token \in [Domains -> Entry]
      BY <2>2, <3>4
    <3> QED BY <3>2, <3>3, <3>4, <3>5 DEF EntriesFit
  <2> QED BY <2>1, <2>2 DEF Token!Init
<1>4. Token!TypeOK
  BY <1>1, <1>2, <1>3 DEF Token!TypeOK, Entry, RequestRecords, Token!Entries, Token!Tokens
<1>5. WritesAreAwaited
  BY <1>1 DEF WritesAreAwaited
<1>6. Token!OnlyFailuresBlock
  BY <1>3 DEF Token!OnlyFailuresBlock
<1>7. \A r \in Requests : RequestFits(request[r], issued, mixed)
  BY <1>2 DEF RequestFits
<1> QED BY <1>1, <1>3, <1>4, <1>5, <1>6, <1>7 DEF TokenInv

\* A request is replaced, and the others stay as they are.
LEMMA RequestUpdate ==
    ASSUME request \in [Requests -> RequestRecords], NEW r \in Requests,
           NEW new \in RequestRecords, request' = [request EXCEPT ![r] = new]
    PROVE  /\ request' \in [Requests -> RequestRecords]
           /\ request'[r] = new
           /\ \A s \in Requests : s # r => request'[s] = request[s]
  OBVIOUS

\* A request goes to another stage, and keeps what it asks for.
LEMMA RequestStage ==
    ASSUME request \in [Requests -> RequestRecords], NEW r \in Requests,
           NEW stage \in Token!Stages, request' = [request EXCEPT ![r].stage = stage]
    PROVE  /\ request' \in [Requests -> RequestRecords]
           /\ request'[r].stage = stage /\ request'[r].domain = request[r].domain
           /\ request'[r].need = request[r].need /\ request'[r].nr = request[r].nr
           /\ \A s \in Requests : s # r => request'[s] = request[s]
<1> DEFINE new == [request[r] EXCEPT !.stage = stage]
<1>1. new \in RequestRecords /\ new.stage = stage /\ new.domain = request[r].domain
      /\ new.need = request[r].need /\ new.nr = request[r].nr
  BY DEF RequestRecords
<1>2. request' = [request EXCEPT ![r] = new]
  OBVIOUS
<1> HIDE DEF new
<1> QED BY <1>1, <1>2, RequestUpdate

\* A request that waits for no write leaves those on their way alone.
LEMMA WritesStay ==
    ASSUME TokenInv, NEW r \in Requests, request[r].stage # "storing",
           \A s \in Requests : s # r => request'[s] = request[s],
           UNCHANGED <<writes, issued, mixed>>,
           \A d \in Domains : token[d].nr # 0 => token'[d].nr # 0
    PROVE  WritesAreAwaited'
<1> SUFFICES ASSUME NEW i \in 1 .. Len(writes)
             PROVE  /\ EntriesFit(writes[i].entries, issued, mixed)
                    /\ request'[writes[i].by].stage = "storing"
                    /\ token'[request'[writes[i].by].domain].nr # 0
                    /\ \A j \in 1 .. Len(writes) : writes[i].by = writes[j].by => i = j
  BY DEF WritesAreAwaited
<1>1. /\ EntriesFit(writes[i].entries, issued, mixed)
      /\ request[writes[i].by].stage = "storing"
      /\ token[request[writes[i].by].domain].nr # 0
      /\ \A j \in 1 .. Len(writes) : writes[i].by = writes[j].by => i = j
  BY DEF TokenInv, WritesAreAwaited
<1>2. writes[i].by \in Requests
  <2>1. writes \in Seq(WriteRecords)
    BY TokenTypes
  <2>2. writes[i] \in WriteRecords
    BY <2>1, ElementOfSeq
  <2> QED BY <2>2 DEF WriteRecords
<1>3. request[writes[i].by].domain \in Domains
  BY <1>2, TokenTypes DEF RequestRecords
<1> QED BY <1>1, <1>2, <1>3

\* One more write, of a request that had none.
LEMMA WriteAdded ==
    ASSUME TokenInv, NEW r \in Requests, request[r].stage # "storing",
           \A s \in Requests : s # r => request'[s] = request[s],
           request'[r].stage = "storing", token'[request'[r].domain].nr # 0,
           token' \in [Domains -> Entry], EntriesFit(token', issued', mixed'),
           writes' = Append(writes, [by |-> r, entries |-> token']),
           \A es : EntriesFit(es, issued, mixed) => EntriesFit(es, issued', mixed'),
           \A d \in Domains : token[d].nr # 0 => token'[d].nr # 0
    PROVE  WritesAreAwaited' /\ writes' \in Seq(WriteRecords)
<1> DEFINE w == [by |-> r, entries |-> token']
<1>1. w \in WriteRecords /\ w.by = r /\ w.entries = token'
  BY DEF WriteRecords
<1> HIDE DEF w
<1>2. /\ writes' = Append(writes, w) /\ writes \in Seq(WriteRecords) /\ Len(writes) \in Nat
  BY TokenTypes DEF w
<1>3. /\ writes' \in Seq(WriteRecords) /\ Len(writes') = Len(writes) + 1
      /\ writes'[Len(writes) + 1] = w /\ \A i \in 1 .. Len(writes) : writes'[i] = writes[i]
  BY <1>1, <1>2
<1>4. ASSUME NEW i \in 1 .. Len(writes)
      PROVE  /\ writes[i].by \in Requests /\ writes[i].by # r
             /\ EntriesFit(writes[i].entries, issued', mixed')
             /\ request'[writes[i].by].stage = "storing"
             /\ token'[request'[writes[i].by].domain].nr # 0
  <2>0. writes[i] \in WriteRecords
    BY <1>2, ElementOfSeq
  <2>1. writes[i].by \in Requests
    BY <2>0 DEF WriteRecords
  <2>2. request[writes[i].by].domain \in Domains
    BY <2>1, TokenTypes DEF RequestRecords
  <2>3. /\ EntriesFit(writes[i].entries, issued, mixed)
        /\ request[writes[i].by].stage = "storing"
        /\ token[request[writes[i].by].domain].nr # 0
    BY DEF TokenInv, WritesAreAwaited
  <2> QED BY <2>1, <2>2, <2>3
<1>5. \A i, j \in 1 .. Len(writes) : writes[i].by = writes[j].by => i = j
  BY DEF TokenInv, WritesAreAwaited
<1>6. ASSUME NEW i \in 1 .. Len(writes')
      PROVE  /\ EntriesFit(writes'[i].entries, issued', mixed')
             /\ request'[writes'[i].by].stage = "storing"
             /\ token'[request'[writes'[i].by].domain].nr # 0
             /\ \A j \in 1 .. Len(writes') : writes'[i].by = writes'[j].by => i = j
  <2>1. CASE i = Len(writes) + 1
    BY <1>1, <1>2, <1>3, <1>4, <2>1
  <2>2. CASE i \in 1 .. Len(writes)
    <3>1. writes'[i] = writes[i]
      BY <1>3, <2>2
    <3>2. ASSUME NEW j \in 1 .. Len(writes'), writes'[i].by = writes'[j].by
          PROVE  i = j
      <4>1. CASE j = Len(writes) + 1
        BY <1>1, <1>3, <1>4, <2>2, <3>1, <3>2, <4>1
      <4>2. CASE j \in 1 .. Len(writes)
        BY <1>3, <1>5, <2>2, <3>1, <3>2, <4>2
      <4> QED BY <1>2, <1>3, <4>1, <4>2
    <3> QED BY <1>4, <2>2, <3>1, <3>2
  <2> QED BY <1>2, <1>3, <2>1, <2>2
<1> QED BY <1>3, <1>6 DEF WritesAreAwaited

\* Asking for a token, which is looked up in memory, keeps the invariant.
LEMMA TokenAsk ==
    ASSUME TokenInv, NEW r \in Requests, NEW d \in Domains, NEW need \in SUBSET Resources,
           Token!Ask(r, d, need)
    PROVE  TokenInv'
<1> DEFINE result   == Token!Lookup(d, need)
           refresh == result = "expired" /\ d \in refreshing
           login   == result = "absent" \/ (result = "expired" /\ ~refresh)
           stage   == CASE login                           -> "endpoint"
                        [] refresh                         -> "refresh"
                        [] result = "throws"                -> "stuck"
                        [] result \in {"error", "in-progress"} -> "nothing"
                        [] result = "valid"                 -> "given"
           new == IF stage \in {"stuck", "nothing"} THEN Token!Without(stage)
                  ELSE [stage |-> stage, domain |-> d, need |-> need,
                        nr |-> IF login THEN 0 ELSE token[d].nr]
<1>1. /\ request[r].stage = "idle" /\ request' = [request EXCEPT ![r] = new]
      /\ IF login THEN token' = [token EXCEPT ![d].status = "in-progress"] ELSE token' = token
      /\ UNCHANGED <<refreshing, kept, writes, issued, expired, failed, mixed>>
  BY DEF Token!Ask, Token!Login
<1>2. /\ token \in [Domains -> Entry] /\ request \in [Requests -> RequestRecords]
      /\ EntryFits(d, token[d], issued, mixed) /\ expired \subseteq 1 .. Len(issued)
  BY TokenTypes DEF TokenInv, EntriesFit
<1>3. result \in {"absent", "throws", "error", "in-progress", "expired", "valid"}
  BY DEF Token!Lookup
<1>4. result \in {"expired", "valid"} => /\ need \subseteq token[d].resources
                                        /\ token[d].status \in {"none", "created"}
  BY <1>2 DEF Token!Lookup, Entry
<1>5. result \in {"expired", "valid"} =>
         /\ token[d].nr \in 1 .. Len(issued)
         /\ d \notin mixed => need \subseteq issued[token[d].nr]
  BY <1>2, <1>4 DEF EntryFits
<1> HIDE DEF result
<1>6. /\ stage \in {"endpoint", "refresh", "stuck", "nothing", "given"}
      /\ stage = "endpoint" <=> login
      /\ stage \in {"refresh", "given"} => result \in {"expired", "valid"}
  BY <1>3
<1> HIDE DEF stage
<1>7. stage \in Token!Stages
  BY <1>6 DEF Token!Stages
<1>8. /\ new \in RequestRecords /\ new.stage = stage
      /\ stage \in {"endpoint", "refresh", "given"} => new.domain = d /\ new.need = need
      /\ stage \in {"refresh", "given"} => new.nr = token[d].nr
  <2>1. CASE stage \in {"stuck", "nothing"}
    BY <1>7, <2>1, WithoutTyped
  <2>2. CASE stage \notin {"stuck", "nothing"}
    <3>1. token[d].nr \in (1 .. MaxTokens) \union {0}
      BY <1>2 DEF Entry
    <3>2. PICK nr \in (1 .. MaxTokens) \union {0} : nr = IF login THEN 0 ELSE token[d].nr
      BY <3>1
    <3>3. new = [stage |-> stage, domain |-> d, need |-> need, nr |-> nr]
      BY <2>2, <3>2
    <3>4. stage \in {"refresh", "given"} => ~login
      BY <1>6
    <3> QED BY <1>7, <2>2, <3>2, <3>3, <3>4 DEF RequestRecords
  <2> QED BY <2>1, <2>2
<1>9. RequestFits(new, issued, mixed)
  BY <1>5, <1>6, <1>8 DEF RequestFits
<1>10. login => new.stage = "endpoint" /\ new.domain = d
  BY <1>6, <1>8
<1> HIDE DEF new
<1>11. /\ request' \in [Requests -> RequestRecords] /\ request'[r] = new
       /\ \A s \in Requests : s # r => request'[s] = request[s]
  BY <1>1, <1>2, <1>8, RequestUpdate
<1>12. /\ token' \in [Domains -> Entry] /\ EntriesFit(token', issued, mixed)
       /\ \A e \in Domains : token[e].nr # 0 => token'[e].nr # 0
       /\ \A e \in Domains : token'[e].status = "in-progress" =>
             token[e].status = "in-progress" \/ (login /\ e = d)
  <2>1. CASE login
    <3>1. token' = [token EXCEPT ![d].status = "in-progress"]
      BY <1>1, <2>1
    <3>2. /\ token' \in [Domains -> Entry] /\ token'[d].nr = token[d].nr
          /\ token'[d].resources = token[d].resources /\ token'[d].status = "in-progress"
          /\ \A e \in Domains : e # d => token'[e] = token[e]
      BY <1>2, <3>1 DEF Entry
    <3>3. EntryFits(d, token'[d], issued, mixed)
      BY <1>2, <3>2 DEF EntryFits
    <3> QED BY <2>1, <3>2, <3>3 DEF TokenInv, EntriesFit
  <2>2. CASE ~login
    BY <1>1, <1>2, <2>2 DEF TokenInv
  <2> QED BY <2>1, <2>2
<1> HIDE DEF login
<1>13. WritesAreAwaited'
  BY <1>1, <1>11, <1>12, WritesStay
<1>14. \A s \in Requests : RequestFits(request'[s], issued, mixed)
  BY <1>9, <1>11 DEF TokenInv
<1>15. Token!OnlyFailuresBlock'
  <2> SUFFICES ASSUME NEW e \in Domains, token'[e].status = "in-progress"
               PROVE  \/ e \in failed'
                      \/ \E s \in Requests : request'[s].domain = e
                                             /\ request'[s].stage \in {"endpoint", "token"}
    BY DEF Token!OnlyFailuresBlock
  <2>1. CASE login /\ e = d
    BY <1>10, <1>11, <2>1
  <2>2. CASE token[e].status = "in-progress"
    BY <1>1, <1>11, <2>2 DEF TokenInv, Token!OnlyFailuresBlock
  <2> QED BY <1>12, <2>1, <2>2
<1>16. Token!TypeOK'
  BY <1>1, <1>11, <1>12 DEF TokenInv, Token!TypeOK, Entry, RequestRecords, Token!Entries,
                            Token!Tokens
<1> QED BY <1>1, <1>12, <1>13, <1>14, <1>15, <1>16 DEF TokenInv

\* A token is issued for a request, and its domain's entry written.
LEMMA TokenIssued ==
    ASSUME TokenInv, NEW r \in Requests, NEW d \in Domains, NEW good \in SUBSET Resources,
           request[r].stage # "storing", Token!Issue(good),
           NEW entryNew \in Entry, entryNew.nr = Len(issued) + 1, entryNew.status # "in-progress"
               \/ entryNew.status = token[d].status,
           d \notin mixed' => entryNew.resources = good,
           Token!Store(r, [token EXCEPT ![d] = entryNew]),
           NEW new \in RequestRecords, new.stage = "storing", new.domain = d,
           new.nr = Len(issued) + 1, d \notin mixed' => new.need \subseteq good,
           request' = [request EXCEPT ![r] = new],
           request[r].stage \in {"endpoint", "token"} =>
               request[r].domain = d /\ entryNew.status # "in-progress",
           mixed \subseteq mixed', mixed' \subseteq Domains,
           UNCHANGED <<refreshing, kept, expired, failed>>
    PROVE  TokenInv'
<1> DEFINE nr == Len(issued) + 1
<1>1. /\ token \in [Domains -> Entry] /\ request \in [Requests -> RequestRecords]
      /\ issued \in Seq(SUBSET Resources) /\ Len(issued) \in Nat
  BY TokenTypes
<1>2. /\ issued' = Append(issued, good) /\ Len(issued) < MaxTokens
      /\ token' = [token EXCEPT ![d] = entryNew]
      /\ writes' = Append(writes, [by |-> r, entries |-> token'])
  BY DEF Token!Issue, Token!Store
<1>3. /\ issued' \in Seq(SUBSET Resources) /\ Len(issued') = nr /\ issued'[nr] = good
      /\ nr \in 1 .. Len(issued') /\ nr # 0 /\ Len(issued') <= MaxTokens
  BY <1>1, <1>2, TokenNumbers
<1>4. /\ \A e, f : EntryFits(e, f, issued, mixed) => EntryFits(e, f, issued', mixed')
      /\ \A es : EntriesFit(es, issued, mixed) => EntriesFit(es, issued', mixed')
      /\ \A q : RequestFits(q, issued, mixed) => RequestFits(q, issued', mixed')
  BY <1>1, <1>2, FitsStay
<1>5. /\ token' \in [Domains -> Entry] /\ token'[d] = entryNew
      /\ \A e \in Domains : e # d => token'[e] = token[e]
  BY <1>1, <1>2
<1>6. EntryFits(d, entryNew, issued', mixed')
  BY <1>3 DEF EntryFits
<1>7. EntriesFit(token', issued', mixed')
  BY <1>4, <1>5, <1>6 DEF TokenInv, EntriesFit
<1>8. /\ request' \in [Requests -> RequestRecords] /\ request'[r] = new
      /\ \A s \in Requests : s # r => request'[s] = request[s]
  BY <1>1, RequestUpdate
<1>9. RequestFits(new, issued', mixed')
  BY <1>3 DEF RequestFits
<1>10. \A s \in Requests : RequestFits(request'[s], issued', mixed')
  BY <1>4, <1>8, <1>9 DEF TokenInv
<1>11. WritesAreAwaited' /\ writes' \in Seq(WriteRecords)
  <2>1. token'[request'[r].domain].nr # 0
    BY <1>3, <1>5, <1>8
  <2>2. \A e \in Domains : token[e].nr # 0 => token'[e].nr # 0
    BY <1>3, <1>5
  <2> QED BY <1>2, <1>4, <1>5, <1>7, <1>8, <2>1, <2>2, WriteAdded
<1>12. Token!OnlyFailuresBlock'
  <2> SUFFICES ASSUME NEW e \in Domains, token'[e].status = "in-progress"
               PROVE  \/ e \in failed'
                      \/ \E s \in Requests : request'[s].domain = e
                                             /\ request'[s].stage \in {"endpoint", "token"}
    BY DEF Token!OnlyFailuresBlock
  <2>1. token[e].status = "in-progress"
    BY <1>5
  <2>2. CASE e \in failed
    BY <2>2
  <2>3. ASSUME NEW s \in Requests, request[s].domain = e, request[s].stage \in {"endpoint", "token"}
        PROVE  \E q \in Requests : request'[q].domain = e
                                   /\ request'[q].stage \in {"endpoint", "token"}
    <3>1. s # r
      BY <1>5, <2>3
    <3> QED BY <1>8, <2>3, <3>1
  <2> QED BY <2>1, <2>2, <2>3 DEF TokenInv, Token!OnlyFailuresBlock
<1>13. expired' \subseteq 1 .. Len(issued')
  BY <1>1, <1>3 DEF TokenInv
<1>14. EntriesFit(kept', issued', mixed')
  BY <1>4 DEF TokenInv
<1>15. Token!TypeOK'
  BY <1>3, <1>5, <1>8, <1>11 DEF TokenInv, Token!TypeOK, Entry, RequestRecords, WriteRecords,
                                 Token!Entries, Token!Tokens
<1> QED BY <1>7, <1>10, <1>11, <1>12, <1>13, <1>14, <1>15 DEF TokenInv

\* Adding a token, of a login or of the GUI, keeps the invariant.
LEMMA TokenAdd ==
    ASSUME TokenInv, NEW r \in Requests, NEW d \in Domains, NEW need \in SUBSET Resources,
           NEW stage \in {"idle", "token"}, stage = "token" => d = request[r].domain,
           Token!Add(r, d, need, stage)
    PROVE  TokenInv'
<1> DEFINE nr == Len(issued) + 1
           entryNew == [status |-> "none", nr |-> nr, resources |-> need]
           new == [stage |-> "storing", domain |-> d, need |-> need, nr |-> nr]
<1>1. /\ request[r].stage = stage /\ Token!Issue(need)
      /\ Token!Store(r, [token EXCEPT ![d] = entryNew])
      /\ request' = [request EXCEPT ![r] = new]
      /\ UNCHANGED <<refreshing, kept, expired, failed, mixed>>
  BY DEF Token!Add
<1>2. nr \in 1 .. MaxTokens
  BY <1>1, TokenTypes, TokenNumbers DEF Token!Issue
<1>3. /\ entryNew \in Entry /\ entryNew.nr = nr /\ entryNew.status = "none"
      /\ entryNew.resources = need
  BY <1>2 DEF Entry
<1>4. /\ new \in RequestRecords /\ new.stage = "storing" /\ new.domain = d /\ new.nr = nr
      /\ new.need = need
  BY <1>2 DEF RequestRecords, Token!Stages
<1>5. mixed \subseteq Domains
  BY DEF TokenInv, Token!TypeOK
<1> HIDE DEF entryNew, new
<1> QED BY <1>1, <1>3, <1>4, <1>5, TokenIssued

\* So does the answer to a refresh, which may come after other logins.
LEMMA TokenRefreshed ==
    ASSUME TokenInv, NEW r \in Requests, Token!Refreshed(r)
    PROVE  TokenInv'
<1> DEFINE d == request[r].domain
           nr == Len(issued) + 1
           good == issued[request[r].nr]
           entryNew == [token[d] EXCEPT !.nr = nr]
           new == [request[r] EXCEPT !.stage = "storing", !.nr = nr]
<1>1. /\ request[r].stage = "refresh" /\ Token!Issue(good)
      /\ Token!Store(r, [token EXCEPT ![d].nr = nr])
      /\ request' = [request EXCEPT ![r].stage = "storing", ![r].nr = nr]
      /\ mixed' = IF token[d].resources # good THEN mixed \union {d} ELSE mixed
      /\ UNCHANGED <<refreshing, kept, expired, failed>>
  BY DEF Token!Refreshed
<1>2. /\ token \in [Domains -> Entry] /\ request \in [Requests -> RequestRecords]
      /\ issued \in Seq(SUBSET Resources) /\ Len(issued) \in Nat
  BY TokenTypes
<1>3. nr \in 1 .. MaxTokens
  BY <1>1, <1>2, TokenNumbers DEF Token!Issue
<1>4. /\ request[r].nr \in 1 .. Len(issued)
      /\ request[r].domain \notin mixed => request[r].need \subseteq good
  BY <1>1 DEF TokenInv, RequestFits
<1>5. good \in SUBSET Resources
  BY <1>2, <1>4, ElementOfSeq
<1>6. d \in Domains /\ token[d] \in Entry
  BY <1>2 DEF RequestRecords
<1>7. /\ entryNew \in Entry /\ entryNew.nr = nr /\ entryNew.status = token[d].status
      /\ entryNew.resources = token[d].resources
  BY <1>3, <1>6 DEF Entry
<1>8. /\ new \in RequestRecords /\ new.stage = "storing" /\ new.domain = d /\ new.nr = nr
      /\ new.need = request[r].need
  BY <1>2, <1>3 DEF RequestRecords, Token!Stages
<1>9. request' = [request EXCEPT ![r] = new]
  BY <1>1, <1>2
<1>10. Token!Store(r, [token EXCEPT ![d] = entryNew])
  BY <1>1, <1>2, <1>6 DEF Token!Store
<1>11. /\ mixed \subseteq mixed' /\ mixed' \subseteq Domains
       /\ d \notin mixed' => token[d].resources = good /\ d \notin mixed
  BY <1>1, <1>6 DEF TokenInv, Token!TypeOK
<1> HIDE DEF entryNew, new, d, good
<1>12. d \notin mixed' => entryNew.resources = good /\ new.need \subseteq good
  BY <1>4, <1>7, <1>8, <1>11 DEF d
<1> QED BY <1>1, <1>5, <1>6, <1>7, <1>8, <1>9, <1>10, <1>11, <1>12, TokenIssued

\* A request that goes on, and neither has nor gets a token.
LEMMA TokenGoes ==
    ASSUME TokenInv, NEW r \in Requests, request[r].stage # "storing",
           request' \in [Requests -> RequestRecords],
           \A s \in Requests : s # r => request'[s] = request[s],
           request'[r].stage \notin {"given", "refresh", "storing"},
           request[r].stage \in {"endpoint", "token"} =>
              \/ request[r].domain \in failed'
              \/ request'[r].domain = request[r].domain /\ request'[r].stage \in {"endpoint", "token"},
           failed \subseteq failed', failed' \subseteq Domains,
           UNCHANGED <<refreshing, token, kept, writes, issued, expired, mixed>>
    PROVE  TokenInv'
<1>1. WritesAreAwaited'
  BY WritesStay
<1>2. \A s \in Requests : RequestFits(request'[s], issued, mixed)
  BY DEF TokenInv, RequestFits
<1>3. Token!OnlyFailuresBlock'
  <2> SUFFICES ASSUME NEW e \in Domains, token[e].status = "in-progress"
               PROVE  \/ e \in failed'
                      \/ \E s \in Requests : request'[s].domain = e
                                             /\ request'[s].stage \in {"endpoint", "token"}
    BY DEF Token!OnlyFailuresBlock
  <2>1. CASE e \in failed
    BY <2>1
  <2>2. ASSUME NEW s \in Requests, request[s].domain = e, request[s].stage \in {"endpoint", "token"}
        PROVE  \/ e \in failed'
               \/ \E q \in Requests : request'[q].domain = e
                                      /\ request'[q].stage \in {"endpoint", "token"}
    BY <2>2
  <2> QED BY <2>1, <2>2 DEF TokenInv, Token!OnlyFailuresBlock
<1>4. Token!TypeOK'
  BY DEF TokenInv, Token!TypeOK, RequestRecords, Token!Tokens
<1> QED BY <1>1, <1>2, <1>3, <1>4 DEF TokenInv

\* So does the end of the oldest write.
LEMMA TokenWritten ==
    ASSUME TokenInv, Token!Written
    PROVE  TokenInv'
<1> DEFINE w == Head(writes)
           r == w.by
           d == request[r].domain
           entryNew == [token[d] EXCEPT !.status = "created"]
<1>1. /\ writes # <<>> /\ kept' \in {w.entries, kept}
      /\ token' = [token EXCEPT ![d].status = "created"]
      /\ request' = [request EXCEPT ![r].stage = "given"]
      /\ writes' = Tail(writes)
      /\ UNCHANGED <<refreshing, issued, expired, failed, mixed>>
  BY DEF Token!Written
<1>2. /\ token \in [Domains -> Entry] /\ kept \in [Domains -> Entry]
      /\ writes \in Seq(WriteRecords) /\ request \in [Requests -> RequestRecords]
      /\ Len(writes) \in Nat
  BY TokenTypes
<1>3. /\ Len(writes) >= 1 /\ w = writes[1] /\ w \in WriteRecords
      /\ writes' \in Seq(WriteRecords) /\ Len(writes') = Len(writes) - 1
      /\ \A i \in 1 .. Len(writes') : writes'[i] = writes[i + 1]
  BY <1>1, <1>2
<1>4. r \in Requests /\ w.entries \in [Domains -> Entry]
  BY <1>3 DEF WriteRecords
<1>5. d \in Domains /\ token[d] \in Entry
  BY <1>2, <1>4 DEF RequestRecords
<1>6. /\ EntriesFit(w.entries, issued, mixed) /\ request[r].stage = "storing"
      /\ token[d].nr # 0
      /\ \A i \in 1 .. Len(writes) : writes[i].by = r => i = 1
  BY <1>3 DEF TokenInv, WritesAreAwaited
<1>7. /\ request' \in [Requests -> RequestRecords]
      /\ request'[r].stage = "given" /\ request'[r].domain = d
      /\ request'[r].need = request[r].need /\ request'[r].nr = request[r].nr
      /\ \A s \in Requests : s # r => request'[s] = request[s]
  <2>1. "given" \in Token!Stages
    BY DEF Token!Stages
  <2> QED BY <1>1, <1>2, <1>4, <2>1, RequestStage
<1>8. /\ entryNew \in Entry /\ entryNew.nr = token[d].nr /\ entryNew.status = "created"
      /\ entryNew.resources = token[d].resources
  BY <1>5 DEF Entry
<1>9. token' = [token EXCEPT ![d] = entryNew]
  BY <1>1, <1>2
<1> HIDE DEF entryNew, d
<1>10. /\ token' \in [Domains -> Entry] /\ token'[d] = entryNew
       /\ \A e \in Domains : e # d => token'[e] = token[e]
  BY <1>2, <1>5, <1>8, <1>9
<1>11. EntryFits(d, entryNew, issued, mixed)
  BY <1>5, <1>6, <1>8 DEF TokenInv, EntriesFit, EntryFits
<1>12. EntriesFit(token', issued, mixed)
  BY <1>10, <1>11 DEF TokenInv, EntriesFit
<1>13. EntriesFit(kept', issued, mixed) /\ kept' \in [Domains -> Entry]
  BY <1>1, <1>2, <1>4, <1>6 DEF TokenInv
<1>14. \A s \in Requests : RequestFits(request'[s], issued, mixed)
  BY <1>4, <1>6, <1>7 DEF TokenInv, RequestFits, d
<1>15. WritesAreAwaited'
  <2> SUFFICES ASSUME NEW i \in 1 .. Len(writes')
               PROVE  /\ EntriesFit(writes'[i].entries, issued, mixed)
                      /\ request'[writes'[i].by].stage = "storing"
                      /\ token'[request'[writes'[i].by].domain].nr # 0
                      /\ \A j \in 1 .. Len(writes') : writes'[i].by = writes'[j].by => i = j
    BY <1>1 DEF WritesAreAwaited
  <2>1. /\ writes'[i] = writes[i + 1] /\ i + 1 \in 1 .. Len(writes) /\ i + 1 # 1
    BY <1>2, <1>3
  <2> DEFINE k == i + 1
  <2>2. writes[k] \in WriteRecords
    BY <1>2, <2>1, ElementOfSeq
  <2>3. writes[k].by \in Requests
    BY <2>2 DEF WriteRecords
  <2>4. /\ EntriesFit(writes[k].entries, issued, mixed)
        /\ request[writes[k].by].stage = "storing"
        /\ token[request[writes[k].by].domain].nr # 0
    BY <2>1 DEF TokenInv, WritesAreAwaited
  <2>5. writes[k].by # r
    BY <1>6, <2>1
  <2>6. request[writes[k].by].domain \in Domains
    BY <1>2, <2>3 DEF RequestRecords
  <2>7. token'[request'[writes[k].by].domain].nr # 0
    BY <1>7, <1>8, <1>10, <2>3, <2>4, <2>5, <2>6
  <2>8. ASSUME NEW j \in 1 .. Len(writes'), writes'[i].by = writes'[j].by
        PROVE  i = j
    <3>1. writes'[j] = writes[j + 1] /\ j + 1 \in 1 .. Len(writes)
      BY <1>2, <1>3
    <3>2. i + 1 = j + 1
      BY <2>1, <2>8, <3>1 DEF TokenInv, WritesAreAwaited
    <3> QED BY <1>2, <1>3, <3>2
  <2> HIDE DEF r
  <2> QED BY <1>7, <2>1, <2>3, <2>4, <2>5, <2>7, <2>8
<1>16. Token!OnlyFailuresBlock'
  <2> SUFFICES ASSUME NEW e \in Domains, token'[e].status = "in-progress"
               PROVE  \/ e \in failed
                      \/ \E s \in Requests : request'[s].domain = e
                                             /\ request'[s].stage \in {"endpoint", "token"}
    BY <1>1 DEF Token!OnlyFailuresBlock
  <2>1. token[e].status = "in-progress"
    BY <1>8, <1>10
  <2>2. ASSUME NEW s \in Requests, request[s].domain = e, request[s].stage \in {"endpoint", "token"}
        PROVE  request'[s].domain = e /\ request'[s].stage \in {"endpoint", "token"}
    <3>1. s # r
      BY <1>6, <2>2
    <3> QED BY <1>7, <2>2, <3>1
  <2> QED BY <2>1, <2>2 DEF TokenInv, Token!OnlyFailuresBlock
<1>17. Token!TypeOK'
  BY <1>1, <1>3, <1>7, <1>10, <1>13 DEF TokenInv, Token!TypeOK, Entry, RequestRecords,
                                WriteRecords, Token!Entries, Token!Tokens
<1> QED BY <1>1, <1>12, <1>13, <1>14, <1>15, <1>16, <1>17 DEF TokenInv

\* So does a restart, which takes the tokens that were written.
LEMMA TokenRestart ==
    ASSUME TokenInv, Token!Restart
    PROVE  TokenInv'
<1>1. /\ token' = kept /\ writes' = <<>>
      /\ request' = [r \in Requests |-> IF request[r].stage \in Token!Settled THEN request[r]
                                        ELSE Token!Without("stuck")]
      /\ failed' = failed \union {d \in Domains : kept[d].status = "in-progress"}
      /\ UNCHANGED <<refreshing, kept, issued, expired, mixed>>
  BY DEF Token!Restart
<1>2. /\ kept \in [Domains -> Entry] /\ request \in [Requests -> RequestRecords]
  BY TokenTypes
<1>3. Token!Without("stuck") \in RequestRecords /\ Token!Without("stuck").stage = "stuck"
  BY WithoutTyped DEF Token!Stages
<1>4. request' \in [Requests -> RequestRecords]
  BY <1>1, <1>2, <1>3
<1>5. \A r \in Requests : RequestFits(request'[r], issued, mixed)
  BY <1>1, <1>3 DEF TokenInv, RequestFits
<1>6. WritesAreAwaited'
  BY <1>1 DEF WritesAreAwaited
<1>7. Token!OnlyFailuresBlock'
  BY <1>1 DEF Token!OnlyFailuresBlock
<1>8. Token!TypeOK'
  BY <1>1, <1>2, <1>4 DEF TokenInv, Token!TypeOK, Entry, RequestRecords, Token!Entries, Token!Tokens
<1> QED BY <1>1, <1>5, <1>6, <1>7, <1>8 DEF TokenInv

\* Every step keeps it.
LEMMA TokenNext == TokenInv /\ [Token!Next]_(Token!vars) => TokenInv'
<1> SUFFICES ASSUME TokenInv, [Token!Next]_(Token!vars)
             PROVE  TokenInv'
  OBVIOUS
<1>a. /\ request \in [Requests -> RequestRecords] /\ failed \subseteq Domains
      /\ \A need \in Needs : need \in SUBSET Resources
  BY TokenTypes, NeedsAreResources DEF TokenInv, Token!TypeOK
<1>1. ASSUME NEW r \in Requests, NEW d \in Domains, NEW need \in Needs, Token!Ask(r, d, need)
      PROVE  TokenInv'
  BY <1>1, <1>a, TokenAsk
<1>2. ASSUME NEW r \in Requests, NEW d \in Domains, NEW need \in Needs, Token!AddFromGUI(r, d, need)
      PROVE  TokenInv'
  BY <1>2, <1>a, TokenAdd DEF Token!AddFromGUI
<1>3. ASSUME NEW r \in Requests, Token!Popup(r)
      PROVE  TokenInv'
  <2>1. /\ request[r].stage = "endpoint" /\ request' = [request EXCEPT ![r].stage = "token"]
        /\ UNCHANGED <<refreshing, token, kept, writes, issued, expired, failed, mixed>>
    BY <1>3 DEF Token!Popup
  <2>2. "token" \in Token!Stages
    BY DEF Token!Stages
  <2>3. /\ request' \in [Requests -> RequestRecords]
        /\ request'[r].stage = "token" /\ request'[r].domain = request[r].domain
        /\ \A s \in Requests : s # r => request'[s] = request[s]
    BY <1>a, <2>1, <2>2, RequestStage
  <2> QED BY <1>a, <2>1, <2>3, TokenGoes
<1>4. ASSUME NEW r \in Requests, Token!Refused(r)
      PROVE  TokenInv'
  <2>1. /\ request[r].stage \in {"endpoint", "token", "refresh"}
        /\ request' = [request EXCEPT ![r] = Token!Without("stuck")]
        /\ failed' = IF request[r].stage = "refresh" THEN failed
                     ELSE failed \union {request[r].domain}
        /\ UNCHANGED <<refreshing, token, kept, writes, issued, expired, mixed>>
    BY <1>4 DEF Token!Refused
  <2>2. Token!Without("stuck") \in RequestRecords /\ Token!Without("stuck").stage = "stuck"
    BY WithoutTyped DEF Token!Stages
  <2>3. /\ request' \in [Requests -> RequestRecords] /\ request'[r].stage = "stuck"
        /\ \A s \in Requests : s # r => request'[s] = request[s]
    BY <1>a, <2>1, <2>2, RequestUpdate
  <2>4. request[r].domain \in Domains
    BY <1>a DEF RequestRecords
  <2> QED BY <1>a, <2>1, <2>3, <2>4, TokenGoes
<1>5. ASSUME NEW r \in Requests, Token!Refreshed(r)
      PROVE  TokenInv'
  BY <1>5, TokenRefreshed
<1>6. ASSUME NEW r \in Requests, Token!Add(r, request[r].domain, request[r].need, "token")
      PROVE  TokenInv'
  <2>1. request[r].domain \in Domains /\ request[r].need \in SUBSET Resources
    BY <1>a DEF RequestRecords
  <2> QED BY <1>6, <2>1, TokenAdd
<1>7. CASE Token!Written
  BY <1>7, TokenWritten
<1>8. ASSUME NEW nr \in Token!Tokens, Token!Expire(nr)
      PROVE  TokenInv'
  <2>1. /\ nr \in 1 .. Len(issued) /\ expired' = expired \union {nr}
        /\ UNCHANGED <<refreshing, token, kept, writes, request, issued, failed, mixed>>
    BY <1>8 DEF Token!Expire
  <2> QED BY <2>1 DEF TokenInv, Token!TypeOK, WritesAreAwaited, Token!OnlyFailuresBlock
<1>9. CASE Token!Restart
  BY <1>9, TokenRestart
<1>10. CASE UNCHANGED Token!vars
  BY <1>10 DEF Token!vars, TokenInv, Token!TypeOK, WritesAreAwaited, Token!OnlyFailuresBlock
<1> QED BY <1>1, <1>2, <1>3, <1>4, <1>5, <1>6, <1>7, <1>8, <1>9, <1>10 DEF Token!Next

\* Its requests are given tokens that have what they need.
LEMMA TokensGivenFit ==
    ASSUME TokenInv
    PROVE  Token!TypeOK /\ Token!GivenTokensFit /\ Token!OnlyFailuresBlock
BY DEF TokenInv, RequestFits, Token!GivenTokensFit

-----------------------------------------------------------------------------
(* Identity assertions.                                                    *)

\* The demands for assertions.
Demands ==
    [kind : Assertion!Kinds, stage : Assertion!Stages, user : Users \union {"none"},
     next : Assertion!Stages \union {"refreshed"}, owner : Users \union {"none"},
     fallback : BOOLEAN]

\* Who was known once is known, or was removed.
IsKnown(u) == known[u] # "absent" \/ u \in removed

\* Who is being stored, or was answered, is known, or was removed.
UsersAreKnown ==
    \A r \in Requests : demand[r].stage \in {"storing", "answered"} =>
        demand[r].user \in Users /\ IsKnown(demand[r].user)

\* What goes out with a message is the owner's assertion, as it was or refreshed.
OwnersAreKept ==
    \A r \in Requests \ again : demand[r].kind = "token" =>
        /\ demand[r].user = demand[r].owner
        /\ demand[r].stage \in {"answered", "told", "refresh", "storing", "rejected", "stuck"}
        /\ demand[r].stage = "storing" => demand[r].next = "refreshed"

\* What follows storage is one of the stages that the code goes on with.
NextIsKnown ==
    \A r \in Requests : demand[r].stage = "storing" =>
        demand[r].next \in {"answered", "told", "generate", "refreshed"}

\* The default identity and the demands are of known users.
AssertionInv ==
    /\ Assertion!TypeOK
    /\ default # "none" => IsKnown(default)
    /\ UsersAreKnown
    /\ OwnersAreKept
    /\ NextIsKnown
    /\ \A r \in Requests : demand[r].stage = "refresh" => demand[r].user \in Users

\* Nothing is known and nobody asks: the invariant holds at first.
LEMMA AssertionInit == Assertion!Init => AssertionInv
BY DEF Assertion!Init, AssertionInv, Assertion!TypeOK, UsersAreKnown, OwnersAreKept,
       NextIsKnown, Assertion!Demand, Assertion!None, Assertion!Kinds, Assertion!Stages

\* A new demand has what it is made of.
LEMMA DemandMade ==
    ASSUME NEW kind \in Assertion!Kinds, NEW stage \in Assertion!Stages,
           NEW u \in Users \union {"none"}
    PROVE  /\ Assertion!Demand(kind, stage, u) \in Demands
           /\ Assertion!Demand(kind, stage, u).stage = stage
           /\ Assertion!Demand(kind, stage, u).user = u
           /\ Assertion!Demand(kind, stage, u).kind = kind
<1>1. "answered" \in Assertion!Stages
  BY DEF Assertion!Stages
<1> QED BY <1>1 DEF Demands, Assertion!Demand, Assertion!None

\* What an update of a call leaves.
LEMMA DemandUpdate ==
    ASSUME demand \in [Requests -> Demands], NEW r \in Requests, NEW new \in Demands,
           demand' = [demand EXCEPT ![r] = new]
    PROVE  /\ demand' \in [Requests -> Demands]
           /\ demand'[r] = new
           /\ \A s \in Requests : s # r => demand'[s] = demand[s]
  OBVIOUS

\* A demand goes to another stage, and keeps the rest.
LEMMA DemandGoes ==
    ASSUME demand \in [Requests -> Demands], NEW r \in Requests,
           NEW stage \in Assertion!Stages, Assertion!Go(r, stage)
    PROVE  /\ demand' \in [Requests -> Demands]
           /\ demand'[r].stage = stage /\ demand'[r].user = demand[r].user
           /\ demand'[r].kind = demand[r].kind /\ demand'[r].owner = demand[r].owner
           /\ demand'[r].next = demand[r].next
           /\ \A s \in Requests : s # r => demand'[s] = demand[s]
<1> DEFINE new == [demand[r] EXCEPT !.stage = stage,
                                    !.fallback = demand[r].fallback /\ stage # "gui"]
<1>1. demand[r] \in Demands
  OBVIOUS
<1>2. /\ new.stage = stage
      /\ new.user = demand[r].user
      /\ new.kind = demand[r].kind
      /\ new.owner = demand[r].owner
      /\ new.next = demand[r].next
  BY <1>1 DEF Demands
<1>3. new \in Demands
  <2>1. (demand[r].fallback /\ stage # "gui") \in BOOLEAN
    BY Zenon
  <2>2. \A b \in BOOLEAN : [demand[r] EXCEPT !.stage = stage, !.fallback = b] \in Demands
    BY <1>1 DEF Demands
  <2> QED BY <2>1, <2>2
<1>4. demand' = [demand EXCEPT ![r] = new]
  BY DEF Assertion!Go
<1> HIDE DEF new
<1>5. /\ demand' \in [Requests -> Demands]
      /\ demand'[r] = new
      /\ \A s \in Requests : s # r => demand'[s] = demand[s]
  BY <1>3, <1>4, DemandUpdate
<1> QED BY <1>2, <1>5

\* A demand waits for storage, and remembers for whom and what comes next.
LEMMA DemandRemembers ==
    ASSUME demand \in [Requests -> Demands], NEW r \in Requests, NEW u \in Users,
           NEW next \in Assertion!Stages \union {"refreshed"},
           demand' = [demand EXCEPT ![r].stage = "storing", ![r].user = u, ![r].next = next]
    PROVE  /\ demand' \in [Requests -> Demands]
           /\ demand'[r].stage = "storing" /\ demand'[r].user = u
           /\ demand'[r].kind = demand[r].kind /\ demand'[r].owner = demand[r].owner
           /\ demand'[r].next = next
           /\ \A s \in Requests : s # r => demand'[s] = demand[s]
<1> DEFINE new == [demand[r] EXCEPT !.stage = "storing", !.user = u, !.next = next]
<1>1. demand[r] \in Demands
  OBVIOUS
<1>2. /\ new.stage = "storing"
      /\ new.user = u
      /\ new.next = next
      /\ new.kind = demand[r].kind
      /\ new.owner = demand[r].owner
  BY <1>1 DEF Demands
<1>3. new \in Demands
  BY <1>1 DEF Demands, Assertion!Stages
<1>4. demand' = [demand EXCEPT ![r] = new]
  OBVIOUS
<1> HIDE DEF new
<1>5. /\ demand' \in [Requests -> Demands]
      /\ demand'[r] = new
      /\ \A s \in Requests : s # r => demand'[s] = demand[s]
  BY <1>3, <1>4, DemandUpdate
<1> QED BY <1>2, <1>5

\* A demand is answered for a user.
LEMMA DemandAnswered ==
    ASSUME demand \in [Requests -> Demands], NEW r \in Requests, NEW u \in Users,
           demand' = [demand EXCEPT ![r].stage = "answered", ![r].user = u]
    PROVE  /\ demand' \in [Requests -> Demands]
           /\ demand'[r].stage = "answered" /\ demand'[r].user = u
           /\ demand'[r].kind = demand[r].kind /\ demand'[r].owner = demand[r].owner
           /\ \A s \in Requests : s # r => demand'[s] = demand[s]
<1> DEFINE new == [demand[r] EXCEPT !.stage = "answered", !.user = u]
<1>1. demand[r] \in Demands
  OBVIOUS
<1>2. /\ new.stage = "answered"
      /\ new.user = u
      /\ new.kind = demand[r].kind
      /\ new.owner = demand[r].owner
  BY <1>1 DEF Demands
<1>3. new \in Demands
  BY <1>1 DEF Demands, Assertion!Stages
<1>4. demand' = [demand EXCEPT ![r] = new]
  OBVIOUS
<1> HIDE DEF new
<1>5. /\ demand' \in [Requests -> Demands]
      /\ demand'[r] = new
      /\ \A s \in Requests : s # r => demand'[s] = demand[s]
  BY <1>3, <1>4, DemandUpdate
<1> QED BY <1>2, <1>5

\* What an identity that is remembered leaves.
LEMMA AssertionRemembers ==
    ASSUME AssertionInv, NEW r \in Requests, NEW u \in Users,
           NEW next \in {"answered", "told", "generate", "refreshed"},
           Assertion!Remember(r, u, next),
           demand[r].kind = "token" /\ r \notin again =>
               next = "refreshed" /\ demand[r].user = u
    PROVE  AssertionInv'
<1>1. /\ demand \in [Requests -> Demands]
      /\ known \in [Users -> {"absent", "valid", "expired"}]
      /\ saved \in [Users -> {"absent", "valid", "expired"}]
  BY DEF AssertionInv, Assertion!TypeOK, Demands, Assertion!None
<1>2. /\ known' = [known EXCEPT ![u] = "valid"]
      /\ saved' \in {saved, [v \in Users |-> IF known'[v] = "absent" THEN saved[v] ELSE known'[v]]}
      /\ removed' = removed \ {u}
      /\ UNCHANGED <<default, again>>
  BY DEF Assertion!Remember, Assertion!Store
<1>3. known' \in [Users -> {"absent", "valid", "expired"}]
  BY <1>1, <1>2
<1>4. saved' \in [Users -> {"absent", "valid", "expired"}]
  BY <1>1, <1>2, <1>3
<1>5. \A v \in Users : IsKnown(v) => IsKnown(v)'
  BY <1>1, <1>2 DEF IsKnown
<1>6. IsKnown(u)'
  BY <1>1, <1>2 DEF IsKnown
<1>7. /\ demand' \in [Requests -> Demands]
      /\ demand'[r].stage = "storing" /\ demand'[r].user = u
      /\ demand'[r].kind = demand[r].kind /\ demand'[r].owner = demand[r].owner
      /\ demand'[r].next = next
      /\ \A s \in Requests : s # r => demand'[s] = demand[s]
  <2>1. demand' = [demand EXCEPT ![r].stage = "storing", ![r].user = u, ![r].next = next]
    BY DEF Assertion!Remember
  <2>2. next \in Assertion!Stages \union {"refreshed"}
    BY DEF Assertion!Stages
  <2> QED BY <1>1, <2>1, <2>2, DemandRemembers
<1>8. Assertion!TypeOK'
  BY <1>2, <1>3, <1>4, <1>7 DEF AssertionInv, Assertion!TypeOK, Demands, Assertion!None
<1>9. default' # "none" => IsKnown(default)'
  BY <1>2, <1>5 DEF AssertionInv, Assertion!TypeOK, Assertion!None, IsKnown
<1>10. UsersAreKnown'
  BY <1>5, <1>6, <1>7 DEF AssertionInv, UsersAreKnown
<1>11. OwnersAreKept'
  BY <1>2, <1>7 DEF AssertionInv, OwnersAreKept
<1>12. \A s \in Requests : demand'[s].stage = "refresh" => demand'[s].user \in Users
  BY <1>7 DEF AssertionInv
<1>13. NextIsKnown'
  BY <1>7 DEF AssertionInv, NextIsKnown
<1> QED BY <1>8, <1>9, <1>10, <1>11, <1>12, <1>13 DEF AssertionInv

\* A call that goes on.
LEMMA AssertionGoes ==
    ASSUME AssertionInv, NEW r \in Requests,
           NEW stage \in Assertion!Stages \ {"storing", "refresh"},
           Assertion!Go(r, stage), UNCHANGED <<known, saved, removed, again>>,
           default' = default \/ (default' \in Users /\ IsKnown(default')),
           stage = "answered" => demand[r].user \in Users /\ IsKnown(demand[r].user),
           demand[r].kind = "token" /\ r \notin again =>
               stage \in {"told", "rejected", "stuck", "answered"}
    PROVE  AssertionInv'
<1>1. demand \in [Requests -> Demands]
  BY DEF AssertionInv, Assertion!TypeOK, Demands, Assertion!None
<1>2. /\ demand' \in [Requests -> Demands]
      /\ demand'[r].stage = stage /\ demand'[r].user = demand[r].user
      /\ demand'[r].kind = demand[r].kind /\ demand'[r].owner = demand[r].owner
      /\ demand'[r].next = demand[r].next
      /\ \A s \in Requests : s # r => demand'[s] = demand[s]
  BY <1>1, DemandGoes
<1>3. Assertion!TypeOK'
  BY <1>2 DEF AssertionInv, Assertion!TypeOK, Demands, Assertion!None
<1>4. default' # "none" => IsKnown(default)'
  BY DEF AssertionInv, IsKnown
<1>5. UsersAreKnown'
  BY <1>2 DEF AssertionInv, UsersAreKnown, IsKnown
<1>6. OwnersAreKept'
  BY <1>2 DEF AssertionInv, OwnersAreKept
<1>7. \A s \in Requests : demand'[s].stage = "refresh" => demand'[s].user \in Users
  BY <1>2 DEF AssertionInv
<1>8. NextIsKnown'
  BY <1>2 DEF AssertionInv, NextIsKnown
<1> QED BY <1>3, <1>4, <1>5, <1>6, <1>7, <1>8 DEF AssertionInv

\* A demand is replaced, and nothing else changes.
LEMMA AssertionDemanded ==
    ASSUME AssertionInv, NEW r \in Requests, Assertion!At(r, "idle"),
           NEW new \in Demands, demand' = [demand EXCEPT ![r] = new],
           UNCHANGED <<known, default, saved, removed>>,
           again' = again \/ again' = again \union {r},
           new.stage # "storing",
           new.stage = "answered" => new.user \in Users /\ IsKnown(new.user),
           new.stage = "refresh" => new.user \in Users,
           r \notin again' /\ new.kind = "token" =>
               /\ new.user = new.owner
               /\ new.stage \in {"answered", "told", "refresh"}
    PROVE  AssertionInv'
<1>1. demand \in [Requests -> Demands]
  BY DEF AssertionInv, Assertion!TypeOK, Demands, Assertion!None
<1>2. /\ demand' \in [Requests -> Demands]
      /\ demand'[r] = new
      /\ \A s \in Requests : s # r => demand'[s] = demand[s]
  BY <1>1, DemandUpdate
<1>3. Assertion!TypeOK'
  BY <1>2 DEF AssertionInv, Assertion!TypeOK, Demands, Assertion!None
<1>4. default' # "none" => IsKnown(default)'
  BY DEF AssertionInv, IsKnown
<1>5. UsersAreKnown'
  BY <1>2 DEF AssertionInv, UsersAreKnown, IsKnown
<1>6. OwnersAreKept'
  BY <1>2 DEF AssertionInv, OwnersAreKept
<1>7. \A s \in Requests : demand'[s].stage = "refresh" => demand'[s].user \in Users
  BY <1>2 DEF AssertionInv
<1>8. NextIsKnown'
  BY <1>2 DEF AssertionInv, NextIsKnown
<1> QED BY <1>3, <1>4, <1>5, <1>6, <1>7, <1>8 DEF AssertionInv

\* Every step keeps the invariant: one step per stage of a demand.
LEMMA AssertionNext == AssertionInv /\ [Assertion!Next]_(Assertion!vars) => AssertionInv'
<1> SUFFICES ASSUME AssertionInv, [Assertion!Next]_(Assertion!vars)
             PROVE  AssertionInv'
  OBVIOUS
<1>a. /\ demand \in [Requests -> Demands]
      /\ known \in [Users -> {"absent", "valid", "expired"}]
      /\ saved \in [Users -> {"absent", "valid", "expired"}]
      /\ default \in Users \union {"none"}
  BY DEF AssertionInv, Assertion!TypeOK, Demands, Assertion!None
<1>1. ASSUME NEW r \in Requests, NEW kind \in Assertion!Kinds,
             Assertion!GetIdentityAssertion(r, kind)
      PROVE  AssertionInv'
  <2> DEFINE result == IF default = "none" THEN "absent" ELSE known[default]
             stage == IF result = "valid" THEN "answered"
                      ELSE IF kind = "bundle" THEN "domain"
                      ELSE IF result = "expired" /\ default \in Refreshable THEN "refresh"
                      ELSE "gui"
             new == Assertion!Demand(kind, stage, default)
  <2>1. /\ Assertion!At(r, "idle") /\ kind # "token" /\ demand' = [demand EXCEPT ![r] = new]
        /\ UNCHANGED <<known, default, saved, removed, again>>
    BY <1>1 DEF Assertion!GetIdentityAssertion, Assertion!None
  <2>2. stage \in {"answered", "domain", "refresh", "gui"}
    OBVIOUS
  <2>3. stage = "answered" => default \in Users /\ known[default] = "valid"
    BY <1>a
  <2>4. stage = "refresh" => default \in Users
    BY <1>a
  <2> HIDE DEF stage
  <2>5. /\ new \in Demands /\ new.stage = stage /\ new.user = default /\ new.kind = kind
    <3>1. stage \in Assertion!Stages
      BY <2>2 DEF Assertion!Stages
    <3> QED BY <1>a, <3>1, DemandMade
  <2> HIDE DEF new
  <2> QED BY <2>1, <2>2, <2>3, <2>4, <2>5, AssertionDemanded DEF IsKnown
<1>2. ASSUME NEW r \in Requests, NEW owner \in Users, Assertion!GetValidToken(r, owner)
      PROVE  AssertionInv'
  <2> DEFINE stage == CASE known[owner] = "absent"  -> "told"
                        [] known[owner] = "valid"   -> "answered"
                        [] known[owner] = "expired" -> IF owner \in Refreshable THEN "refresh"
                                                       ELSE "hint"
             new == [Assertion!Demand("token", stage, owner) EXCEPT !.owner = owner]
  <2>1. /\ Assertion!At(r, "idle") /\ demand' = [demand EXCEPT ![r] = new]
        /\ again' = IF stage = "hint" THEN again \union {r} ELSE again
        /\ UNCHANGED <<known, default, saved, removed>>
    BY <1>2 DEF Assertion!GetValidToken
  <2>2. stage \in {"told", "answered", "refresh", "hint"}
    BY <1>a
  <2>3. stage = "answered" => known[owner] = "valid"
    BY <1>a
  <2> HIDE DEF stage
  <2>4. stage \in Assertion!Stages /\ "token" \in Assertion!Kinds
    BY <2>2 DEF Assertion!Stages, Assertion!Kinds
  <2>5. Assertion!Demand("token", stage, owner) \in Demands
    BY <2>4, DemandMade
  <2>6. /\ new \in Demands /\ new.stage = stage /\ new.user = owner /\ new.owner = owner
        /\ new.kind = "token"
    <3>1. /\ Assertion!Demand("token", stage, owner).stage = stage
          /\ Assertion!Demand("token", stage, owner).user = owner
          /\ Assertion!Demand("token", stage, owner).kind = "token"
      BY <2>4, DemandMade
    <3> QED BY <2>5, <3>1 DEF Demands
  <2>7. again' = again \/ again' = again \union {r}
    BY <2>1
  <2>8. r \notin again' => stage # "hint"
    BY <2>1
  <2> HIDE DEF new
  <2> QED BY <2>1, <2>2, <2>3, <2>6, <2>7, <2>8, AssertionDemanded DEF IsKnown
<1>3. ASSUME NEW r \in Requests, Assertion!Refreshed(r)
      PROVE  AssertionInv'
  <2>1. demand[r].stage = "refresh" /\ demand[r].user \in Users
    BY <1>3 DEF Assertion!Refreshed, Assertion!At, AssertionInv
  <2>2. CASE known[demand[r].user] # "absent"
    <3>1. Assertion!Remember(r, demand[r].user, "refreshed")
      BY <1>3, <2>2 DEF Assertion!Refreshed
    <3> QED BY <2>1, <3>1, AssertionRemembers
  <2>3. CASE known[demand[r].user] = "absent"
    <3>1. /\ Assertion!Go(r, IF demand[r].kind = "choice" THEN "gui" ELSE "rejected")
          /\ UNCHANGED <<known, default, saved, removed, again>>
      BY <1>3, <2>3 DEF Assertion!Refreshed
    <3>2. CASE demand[r].kind = "choice"
      BY <3>1, <3>2, AssertionGoes DEF Assertion!Stages
    <3>3. CASE demand[r].kind # "choice"
      BY <3>1, <3>3, AssertionGoes DEF Assertion!Stages
    <3> QED BY <3>2, <3>3
  <2> QED BY <2>2, <2>3
<1>4. ASSUME NEW r \in Requests, Assertion!RefreshRefused(r)
      PROVE  AssertionInv'
  BY <1>4, AssertionGoes DEF Assertion!RefreshRefused, Assertion!Stages
<1>c. ASSUME NEW r \in Requests, demand[r].kind # "token" \/ r \in again,
             Assertion!Fail(r), UNCHANGED <<known, default, saved, removed, again>>
      PROVE  AssertionInv'
  <2>1. CASE demand[r].fallback
    BY <1>c, <2>1, AssertionGoes DEF Assertion!Fail, Assertion!Stages
  <2>2. CASE ~demand[r].fallback
    BY <1>c, <2>2, AssertionGoes DEF Assertion!Fail, Assertion!Stages
  <2> QED BY <2>1, <2>2
<1>d. \A r \in Requests :
        demand[r].stage \in {"domain", "popup", "hint popup", "login", "hint", "generate", "gui"} =>
            demand[r].kind # "token" \/ r \in again
  BY DEF AssertionInv, OwnersAreKept
<1>5. ASSUME NEW r \in Requests, Assertion!DomainAnswers(r)
      PROVE  AssertionInv'
  <2>1. demand[r].kind # "token" \/ r \in again
    BY <1>5, <1>d DEF Assertion!DomainAnswers, Assertion!At
  <2>2. CASE \E u \in Users : Assertion!Remember(r, u, "answered")
    BY <2>1, <2>2, AssertionRemembers DEF Assertion!Stages
  <2>3. CASE /\ Assertion!Go(r, "popup") \/ Assertion!Go(r, "hint") \/ Assertion!Fail(r)
             /\ UNCHANGED <<known, default, saved, removed, again>>
    BY <1>c, <2>1, <2>3, AssertionGoes DEF Assertion!Stages
  <2> QED BY <1>5, <2>2, <2>3 DEF Assertion!DomainAnswers
<1>6. ASSUME NEW r \in Requests, Assertion!PopupCloses(r)
      PROVE  AssertionInv'
  <2>1. demand[r].kind # "token" \/ r \in again
    BY <1>6, <1>d DEF Assertion!PopupCloses, Assertion!At
  <2> QED BY <1>6, <2>1, AssertionGoes DEF Assertion!PopupCloses, Assertion!Stages
<1>7. ASSUME NEW r \in Requests, Assertion!LoggedIn(r)
      PROVE  AssertionInv'
  <2>1. demand[r].kind # "token" \/ r \in again
    BY <1>7, <1>d DEF Assertion!LoggedIn, Assertion!At
  <2>2. CASE \E u \in Users : Assertion!Remember(r, u, "told")
    BY <2>1, <2>2, AssertionRemembers DEF Assertion!Stages
  <2> QED BY <1>7, <1>c, <2>1, <2>2 DEF Assertion!LoggedIn
<1>8. ASSUME NEW r \in Requests, Assertion!HintAnswers(r)
      PROVE  AssertionInv'
  <2>1. demand[r].kind # "token" \/ r \in again
    BY <1>8, <1>d DEF Assertion!HintAnswers, Assertion!At
  <2>2. CASE \E u \in Users : Assertion!Remember(r, u, "generate")
    BY <2>1, <2>2, AssertionRemembers DEF Assertion!Stages
  <2>3. CASE /\ Assertion!Go(r, "hint popup") \/ Assertion!Fail(r)
             /\ UNCHANGED <<known, default, saved, removed, again>>
    BY <1>c, <2>1, <2>3, AssertionGoes DEF Assertion!Stages
  <2> QED BY <1>8, <2>2, <2>3 DEF Assertion!HintAnswers
<1>9. ASSUME NEW r \in Requests, Assertion!Generated(r)
      PROVE  AssertionInv'
  <2>1. demand[r].kind # "token" \/ r \in again
    BY <1>9, <1>d DEF Assertion!Generated, Assertion!At
  <2>2. CASE \E u \in Users : Assertion!Remember(r, u, "answered")
    BY <2>1, <2>2, AssertionRemembers DEF Assertion!Stages
  <2>3. CASE Assertion!Told(r)
    <3>1. /\ Assertion!Go(r, IF demand[r].kind = "choice" THEN "stuck" ELSE "told")
          /\ UNCHANGED <<known, default, saved, removed, again>>
      BY <2>3 DEF Assertion!Told
    <3>2. CASE demand[r].kind = "choice"
      BY <3>1, <3>2, AssertionGoes DEF Assertion!Stages
    <3>3. CASE demand[r].kind # "choice"
      BY <3>1, <3>3, AssertionGoes DEF Assertion!Stages
    <3> QED BY <3>2, <3>3
  <2> QED BY <1>9, <1>c, <2>1, <2>2, <2>3 DEF Assertion!Generated
<1>e. ASSUME NEW r \in Requests, NEW u \in Users, IsKnown(u), Assertion!Answer(r, u),
             demand[r].kind # "token" \/ r \in again,
             UNCHANGED <<known, saved, removed, again>>
      PROVE  AssertionInv'
  <2>1. demand' = [demand EXCEPT ![r].stage = "answered", ![r].user = u]
    BY <1>e DEF Assertion!Answer
  <2>2. /\ demand' \in [Requests -> Demands]
        /\ demand'[r].stage = "answered" /\ demand'[r].user = u
        /\ demand'[r].kind = demand[r].kind /\ demand'[r].owner = demand[r].owner
        /\ \A s \in Requests : s # r => demand'[s] = demand[s]
    BY <1>a, <2>1, DemandAnswered
  <2>3. default' \in {u, default}
    BY <1>e DEF Assertion!Answer
  <2>4. Assertion!TypeOK'
    BY <1>e, <2>2, <2>3 DEF AssertionInv, Assertion!TypeOK, Demands, Assertion!None
  <2>5. default' # "none" => IsKnown(default)'
    BY <1>e, <2>3 DEF AssertionInv, IsKnown
  <2>6. UsersAreKnown'
    BY <1>e, <2>2 DEF AssertionInv, UsersAreKnown, IsKnown
  <2>7. OwnersAreKept'
    BY <1>e, <2>2 DEF AssertionInv, OwnersAreKept
  <2>8. \A s \in Requests : demand'[s].stage = "refresh" => demand'[s].user \in Users
    BY <2>2 DEF AssertionInv
  <2>9. NextIsKnown'
    BY <2>2 DEF AssertionInv, NextIsKnown
  <2> QED BY <2>4, <2>5, <2>6, <2>7, <2>8, <2>9 DEF AssertionInv
<1>10. ASSUME NEW r \in Requests, Assertion!Chosen(r)
       PROVE  AssertionInv'
  <2>1. demand[r].kind # "token" \/ r \in again
    BY <1>10, <1>d DEF Assertion!Chosen, Assertion!At
  <2>2. UNCHANGED <<known, saved, removed, again>>
    BY <1>10 DEF Assertion!Chosen
  <2>3. ASSUME NEW u \in Users, known[u] # "absent", Assertion!Answer(r, u)
        PROVE  AssertionInv'
    BY <1>e, <2>1, <2>2, <2>3 DEF IsKnown
  <2>4. CASE Assertion!Fail(r) /\ UNCHANGED default
    BY <1>c, <2>1, <2>2, <2>4
  <2>5. CASE (Assertion!Go(r, "hint") \/ Assertion!Fail(r) \/ Assertion!Go(r, "stuck")) /\ UNCHANGED default
    BY <1>c, <2>1, <2>2, <2>5, AssertionGoes DEF Assertion!Stages
  <2> QED BY <1>10, <2>3, <2>4, <2>5 DEF Assertion!Chosen
<1>11. ASSUME NEW r \in Requests, Assertion!Stored(r)
       PROVE  AssertionInv'
  <2> DEFINE u == demand[r].user
             next == demand[r].next
  <2>1. /\ demand[r].stage = "storing" /\ UNCHANGED <<known, saved, removed, again>>
    BY <1>11 DEF Assertion!Stored, Assertion!At
  <2>2. u \in Users /\ IsKnown(u)
    BY <2>1 DEF AssertionInv, UsersAreKnown
  <2>3. CASE known[u] = "absent" /\ next # "refreshed"
    <3>1. Assertion!Go(r, "stuck") /\ UNCHANGED default
      BY <1>11, <2>3 DEF Assertion!Stored
    <3> QED BY <2>1, <3>1, AssertionGoes DEF Assertion!Stages
  <2>4. CASE next = "refreshed"
    <3>1. Assertion!Go(r, "answered") /\ UNCHANGED default
      BY <1>11, <2>4 DEF Assertion!Stored
    <3> QED BY <2>1, <2>2, <3>1, AssertionGoes DEF Assertion!Stages
  <2>5. CASE known[u] # "absent" /\ next = "answered" /\ demand[r].kind = "choice"
    <3>1. Assertion!Answer(r, u)
      BY <1>11, <2>5 DEF Assertion!Stored
    <3> QED BY <1>e, <2>1, <2>2, <2>5, <3>1
  <2>6. CASE known[u] # "absent" /\ next # "refreshed"
             /\ ~(next = "answered" /\ demand[r].kind = "choice")
    <3>1. /\ Assertion!Go(r, next)
          /\ default' = IF default = "none" THEN u ELSE default
      BY <1>11, <2>6 DEF Assertion!Stored, Assertion!None
    <3>2. next \in {"answered", "told", "generate"}
      BY <2>1, <2>6 DEF AssertionInv, NextIsKnown
    <3>3. demand[r].kind # "token" \/ r \in again
      BY <2>1, <2>6 DEF AssertionInv, OwnersAreKept
    <3>4. next \in Assertion!Stages \ {"storing", "refresh"}
      BY <3>2 DEF Assertion!Stages
    <3>5. default' = default \/ (default' \in Users /\ IsKnown(default'))
      BY <2>2, <3>1
    <3> HIDE DEF next
    <3> QED BY <2>1, <2>2, <3>1, <3>3, <3>4, <3>5, AssertionGoes
  <2> QED BY <2>3, <2>4, <2>5, <2>6
<1>12. ASSUME NEW u \in Users, Assertion!RemoveIdentity(u)
       PROVE  AssertionInv'
  <2>1. /\ known' = [known EXCEPT ![u] = "absent"] /\ removed' = removed \union {u}
        /\ UNCHANGED <<default, saved, demand, again>>
    BY <1>12 DEF Assertion!RemoveIdentity
  <2>2. \A v \in Users : IsKnown(v) => IsKnown(v)'
    BY <1>a, <2>1 DEF IsKnown
  <2> QED BY <1>a, <2>1, <2>2 DEF AssertionInv, Assertion!TypeOK, Assertion!None, IsKnown,
                                   UsersAreKnown, OwnersAreKept, NextIsKnown
<1>13. ASSUME NEW u \in Users, Assertion!Expire(u)
       PROVE  AssertionInv'
  <2>1. /\ known' = [known EXCEPT ![u] = "expired"]
        /\ saved' = [saved EXCEPT ![u] = IF @ = "valid" THEN "expired" ELSE @]
        /\ UNCHANGED <<default, demand, removed, again>>
    BY <1>13 DEF Assertion!Expire
  <2>2. \A v \in Users : IsKnown(v) => IsKnown(v)'
    BY <1>a, <2>1 DEF IsKnown
  <2>3. saved' \in [Users -> {"absent", "valid", "expired"}]
    BY <1>a, <2>1
  <2> QED BY <1>a, <2>1, <2>2, <2>3 DEF AssertionInv, Assertion!TypeOK, Assertion!None,
                                   IsKnown, UsersAreKnown, OwnersAreKept, NextIsKnown
<1>14. CASE Assertion!Restart
  <2>1. /\ known' = saved /\ UNCHANGED saved /\ removed' = {} /\ again' = {}
        /\ demand' = [r \in Requests |-> Assertion!Demand("choice", "idle", "none")]
    BY <1>14 DEF Assertion!Restart, Assertion!None
  <2>2. default' # "none" => default' \in Users /\ saved[default'] # "absent"
    BY <1>14 DEF Assertion!Restart, Assertion!None
  <2>3. "choice" \in Assertion!Kinds /\ "idle" \in Assertion!Stages
    BY DEF Assertion!Kinds, Assertion!Stages
  <2>4. /\ demand' \in [Requests -> Demands]
        /\ \A r \in Requests : demand'[r].stage = "idle" /\ demand'[r].kind = "choice"
    BY <2>1, <2>3, DemandMade
  <2> QED BY <1>a, <2>1, <2>2, <2>4 DEF AssertionInv, Assertion!TypeOK, Assertion!None,
                    Demands, IsKnown, UsersAreKnown, OwnersAreKept, NextIsKnown
<1>15. CASE UNCHANGED Assertion!vars
  BY <1>15 DEF Assertion!vars, AssertionInv, Assertion!TypeOK, IsKnown,
               UsersAreKnown, OwnersAreKept, NextIsKnown
<1> QED BY <1>1, <1>2, <1>3, <1>4, <1>5, <1>6, <1>7, <1>8, <1>9, <1>10, <1>11, <1>12, <1>13,
           <1>14, <1>15 DEF Assertion!Next

\* Demands are answered with users that are known, and tokens for the owner.
LEMMA AssertionAnswers ==
    ASSUME AssertionInv
    PROVE  /\ Assertion!TypeOK
           /\ Assertion!AnsweredAreKnown
           /\ Assertion!TokensAreOwners
BY DEF AssertionInv, UsersAreKnown, OwnersAreKept, IsKnown, Assertion!AnsweredAreKnown,
       Assertion!TokensAreOwners, Assertion!At, Assertion!None

-----------------------------------------------------------------------------
(* Repeated steps.                                                         *)

\* A set of natural numbers has a least element.
LEMMA LeastNat ==
    ASSUME NEW T \in SUBSET Nat, T # {}
    PROVE  \E i \in T : \A j \in T : i <= j
<1> DEFINE R == OpToRel(<, Nat)
<1>1. IsWellFoundedOn(R, Nat)
  BY NatLessThanWellFounded
<1>2. \A i, j \in Nat : <<j, i>> \in R <=> j < i
  BY DEF OpToRel
<1> HIDE DEF R
<1>3. PICK i \in T : \A j \in T : <<j, i>> \notin R
  BY <1>1, WFMin, Zenon
<1>4. \A j \in T : ~(j < i)
  BY <1>2, <1>3
<1> QED BY <1>3, <1>4

\* What holds of 0, and of an index whenever it holds of the one before, holds
\* of all.
LEMMA IndexInduction ==
    ASSUME NEW n \in Nat, NEW G, 0 \in G, \A i \in 1 .. n : i - 1 \in G => i \in G
    PROVE  \A i \in 0 .. n : i \in G
<1> DEFINE T == {i \in 0 .. n : i \notin G}
<1>1. ASSUME T # {} PROVE FALSE
  <2>1. T \in SUBSET Nat
    OBVIOUS
  <2> HIDE DEF T
  <2>2. PICK i \in T : \A j \in T : i <= j
    BY <1>1, <2>1, LeastNat, Zenon
  <2>3. i \in 1 .. n /\ i \notin G
    BY <2>2 DEF T
  <2>4. i - 1 \in 0 .. n /\ ~(i <= i - 1)
    BY <2>3
  <2>5. i - 1 \in G
    BY <2>2, <2>4 DEF T
  <2> QED BY <2>3, <2>5
<1> QED BY <1>1

\* The states after each of n steps.
Repeats(f, n, S, first, step) ==
    f \in [0 .. n -> S] /\ f[0] = first /\ \A i \in 1 .. n : f[i] = step[i][f[i - 1]]

\* There are n repetitions of the step.
Repeatable(n, S, first, step) == \E f : Repeats(f, n, S, first, step)

\* Steps can be repeated: that there is such a function of the indices is what
\* gives a recursive function its values.
LEMMA StepsExist ==
    ASSUME NEW n \in Nat, NEW S, NEW first \in S, NEW step \in [1 .. n -> [S -> S]]
    PROVE  Repeatable(n, S, first, step)
<1> DEFINE Runs(f, k) == /\ f \in [0 .. k -> S] /\ f[0] = first
                         /\ \A i \in 1 .. k : f[i] = step[i][f[i - 1]]
           G == {k \in 0 .. n : \E f : Runs(f, k)}
<1>1. 0 \in G
  <2>1. Runs([i \in 0 .. 0 |-> first], 0)
    OBVIOUS
  <2> HIDE DEF Runs
  <2>2. 0 \in 0 .. n
    OBVIOUS
  <2> QED BY <2>1, <2>2
<1>2. ASSUME NEW k \in 1 .. n, k - 1 \in G
      PROVE  k \in G
  <2>1. PICK f : Runs(f, k - 1)
    BY <1>2
  <2> DEFINE g == [i \in 0 .. k |-> IF i < k THEN f[i] ELSE step[k][f[k - 1]]]
  <2>2. f[k - 1] \in S /\ step[k][f[k - 1]] \in S
    BY <2>1
  <2>3. g \in [0 .. k -> S] /\ g[0] = first
    BY <2>1, <2>2
  <2>4. \A i \in 1 .. k : g[i] = step[i][g[i - 1]]
    BY <2>1
  <2> HIDE DEF g
  <2>5. Runs(g, k)
    BY <2>3, <2>4
  <2> HIDE DEF Runs
  <2> QED BY <2>5
<1> HIDE DEF G
<1>3. n \in G
  <2>1. \A i \in 0 .. n : i \in G
    BY <1>1, <1>2, IndexInduction
  <2> QED BY <2>1
<1>4. PICK f : Runs(f, n)
  BY <1>3 DEF G
<1>5. Repeats(f, n, S, first, step)
  BY <1>4 DEF Repeats
<1> QED BY <1>5 DEF Repeatable

-----------------------------------------------------------------------------
(* The contacts.                                                           *)

\* Two contacts of a guid came by two calls.
Once(cs, twice) ==
    \A i, j \in 1 .. Len(cs) : i # j /\ cs[i].guid = cs[j].guid => cs[i].guid \in twice

\* A private contact is not in the filter, unless it is a plain object or came twice.
Hidden(cs, shown, twice) ==
    \A i \in 1 .. Len(cs) :
        cs[i].private /\ cs[i].guid \in shown => cs[i].plain \/ cs[i].guid \in twice

\* What two calls are bringing in, or a call that is here already, is noted.
AddsAreNoted ==
    /\ \A c, d \in Calls, g \in Guids :
          c # d /\ call[c] = [op |-> "add", guid |-> g] /\ call[d] = [op |-> "add", guid |-> g] =>
              g \in overlapped
    /\ \A c \in Calls, i \in 1 .. Len(contacts) :
          call[c] = [op |-> "add", guid |-> contacts[i].guid] => contacts[i].guid \in overlapped

\* Contacts are once, and private ones hidden, unless calls overlapped.
ContactInv ==
    /\ Contact!TypeOK
    /\ saved = contacts
    /\ Once(contacts, overlapped)
    /\ Hidden(contacts, filter, overlapped)
    /\ AddsAreNoted

\* The states of a removal's loop.
Removals == [rest : Seq(Contact!Contacts), skip : BOOLEAN]

\* Of the first n contacts, rest has some, each in one place.
IsPart(rest, cs, n) ==
    \E m \in [1 .. Len(rest) -> 1 .. n] :
        /\ \A k \in 1 .. Len(rest) : rest[k] = cs[m[k]]
        /\ \A k, l \in 1 .. Len(rest) : k # l => m[k] # m[l]

\* A part of n - 1 contacts is a part of n, with the next one or without.
LEMMA PartGrows ==
    ASSUME NEW cs \in Seq(Contact!Contacts), NEW n \in 1 .. Len(cs),
           NEW rest \in Seq(Contact!Contacts), IsPart(rest, cs, n - 1)
    PROVE  IsPart(rest, cs, n) /\ IsPart(Append(rest, cs[n]), cs, n)
<1>1. PICK m \in [1 .. Len(rest) -> 1 .. n - 1] :
        /\ \A k \in 1 .. Len(rest) : rest[k] = cs[m[k]]
        /\ \A k, l \in 1 .. Len(rest) : k # l => m[k] # m[l]
  BY DEF IsPart
<1>2. Len(rest) \in Nat /\ n \in Nat
  OBVIOUS
<1>3. m \in [1 .. Len(rest) -> 1 .. n]
  BY <1>1
<1>4. IsPart(rest, cs, n)
  BY <1>1, <1>3 DEF IsPart
<1> DEFINE more == Append(rest, cs[n])
           p == [k \in 1 .. Len(more) |-> IF k = Len(more) THEN n ELSE m[k]]
<1>5. cs[n] \in Contact!Contacts
  BY ElementOfSeq
<1>6. /\ Len(more) = Len(rest) + 1 /\ more[Len(rest) + 1] = cs[n]
      /\ \A k \in 1 .. Len(rest) : more[k] = rest[k]
  BY <1>5
<1> HIDE DEF more
<1>7. ASSUME NEW k \in 1 .. Len(more)
      PROVE  p[k] \in 1 .. n /\ more[k] = cs[p[k]]
  <2>1. CASE k = Len(more)
    BY <1>2, <1>6, <2>1
  <2>2. CASE k # Len(more)
    <3>1. k \in 1 .. Len(rest)
      BY <1>2, <1>6, <2>2
    <3>2. m[k] \in 1 .. n - 1
      BY <3>1
    <3>3. p[k] = m[k]
      BY <2>2
    <3> QED BY <1>1, <1>2, <1>6, <3>1, <3>2, <3>3
  <2> QED BY <2>1, <2>2
<1>8. ASSUME NEW k \in 1 .. Len(more), NEW l \in 1 .. Len(more), k # l
      PROVE  p[k] # p[l]
  <2>1. \A j \in 1 .. Len(more) : j # Len(more) =>
           j \in 1 .. Len(rest) /\ p[j] = m[j] /\ m[j] \in 1 .. n - 1
    BY <1>1, <1>2, <1>6
  <2>2. CASE k = Len(more)
    BY <1>2, <1>8, <2>1, <2>2
  <2>3. CASE l = Len(more)
    BY <1>2, <1>8, <2>1, <2>3
  <2>4. CASE k # Len(more) /\ l # Len(more)
    BY <1>1, <1>8, <2>1, <2>4
  <2> QED BY <2>2, <2>3, <2>4
<1>9. p \in [1 .. Len(more) -> 1 .. n]
  BY <1>7
<1> HIDE DEF p
<1>10. IsPart(more, cs, n)
  BY <1>7, <1>8, <1>9 DEF IsPart
<1> QED BY <1>4, <1>10 DEF more

\* What the removal's loop leaves is a part of the contacts.
LEMMA WithoutIsPart ==
    ASSUME NEW cs \in Seq(Contact!Contacts), NEW g
    PROVE  /\ Contact!Without(cs, g) \in Seq(Contact!Contacts)
           /\ IsPart(Contact!Without(cs, g), cs, Len(cs))
<1> DEFINE n == Len(cs)
           first == [rest |-> <<>>, skip |-> FALSE]
           step == [i \in 1 .. n |-> [s \in Removals |->
                       IF cs[i].guid = g /\ ~s.skip
                       THEN [rest |-> s.rest, skip |-> TRUE]
                       ELSE [rest |-> Append(s.rest, cs[i]), skip |-> FALSE]]]
           Body(f, i) == IF i = 0 THEN [rest |-> <<>>, skip |-> FALSE]
                         ELSE IF cs[i].guid = g /\ ~f[i - 1].skip
                         THEN [rest |-> f[i - 1].rest, skip |-> TRUE]
                         ELSE [rest |-> Append(f[i - 1].rest, cs[i]), skip |-> FALSE]
           Runs(f) == f = [i \in 0 .. n |-> Body(f, i)]
<1>1. Contact!Without(cs, g) = (CHOOSE f : Runs(f))[n].rest
  BY DEF Contact!Without
<1>2. n \in Nat /\ first \in Removals /\ \A i \in 1 .. n : cs[i] \in Contact!Contacts
  BY ElementOfSeq DEF Removals
<1>3. step \in [1 .. n -> [Removals -> Removals]]
  <2> SUFFICES ASSUME NEW i \in 1 .. n, NEW s \in Removals
               PROVE  step[i][s] \in Removals
    OBVIOUS
  <2>1. s.rest \in Seq(Contact!Contacts) /\ Append(s.rest, cs[i]) \in Seq(Contact!Contacts)
    BY <1>2 DEF Removals
  <2>2. step[i][s] = IF cs[i].guid = g /\ ~s.skip
                     THEN [rest |-> s.rest, skip |-> TRUE]
                     ELSE [rest |-> Append(s.rest, cs[i]), skip |-> FALSE]
    OBVIOUS
  <2> QED BY <2>1, <2>2 DEF Removals
<1>4. \A i \in 1 .. n, s \in Removals :
         step[i][s] = IF cs[i].guid = g /\ ~s.skip
                      THEN [rest |-> s.rest, skip |-> TRUE]
                      ELSE [rest |-> Append(s.rest, cs[i]), skip |-> FALSE]
  OBVIOUS
<1> HIDE DEF step, first
<1>5. PICK f \in [0 .. n -> Removals] :
         f[0] = first /\ \A i \in 1 .. n : f[i] = step[i][f[i - 1]]
  <2>1. n \in Nat /\ first \in Removals
    BY <1>2
  <2> HIDE DEF n
  <2>2. Repeatable(n, Removals, first, step)
    BY <2>1, <1>3, StepsExist
  <2> QED BY <2>2 DEF Repeatable, Repeats
<1>6. Runs(f)
  <2>1. ASSUME NEW i \in 0 .. n
        PROVE  f[i] = Body(f, i)
    <3>1. CASE i = 0
      BY <1>5, <3>1 DEF first
    <3>2. CASE i # 0
      <4>1. i \in 1 .. n /\ i - 1 \in 0 .. n
        BY <1>2, <3>2
      <4>2. f[i - 1] \in Removals
        BY <1>5, <4>1
      <4> QED BY <1>4, <1>5, <3>2, <4>1, <4>2
    <3> QED BY <3>1, <3>2
  <2> HIDE DEF Body
  <2>2. f = [i \in 0 .. n |-> f[i]]
    BY <1>5
  <2>3. [i \in 0 .. n |-> f[i]] = [i \in 0 .. n |-> Body(f, i)]
    BY <2>1
  <2> QED BY <2>2, <2>3
<1>7. PICK h : Runs(h) /\ h = CHOOSE e : Runs(e)
  <2> HIDE DEF Runs
  <2> QED BY <1>6
<1> DEFINE G == {i \in 0 .. n : h[i] \in Removals /\ IsPart(h[i].rest, cs, i)}
<1>8. 0 \in G
  <2>1. h[0] = [rest |-> <<>>, skip |-> FALSE] /\ 0 \in 0 .. n
    BY <1>2, <1>7
  <2>2. <<>> \in Seq(Contact!Contacts) /\ Len(<<>>) = 0
    OBVIOUS
  <2>3. IsPart(<<>>, cs, 0)
    <3>1. [k \in 1 .. Len(<<>>) |-> 1] \in [1 .. Len(<<>>) -> 1 .. 0]
      BY <2>2
    <3> QED BY <2>2, <3>1 DEF IsPart
  <2>4. h[0] \in Removals /\ h[0].rest = <<>>
    BY <2>1, <2>2 DEF Removals
  <2> QED BY <2>1, <2>3, <2>4
<1>9. ASSUME NEW i \in 1 .. n, i - 1 \in G
      PROVE  i \in G
  <2>1. h[i - 1] \in Removals /\ IsPart(h[i - 1].rest, cs, i - 1)
    BY <1>9
  <2>2. h[i - 1].rest \in Seq(Contact!Contacts) /\ cs[i] \in Contact!Contacts
    BY <1>2, <2>1 DEF Removals
  <2>3. IsPart(h[i - 1].rest, cs, i) /\ IsPart(Append(h[i - 1].rest, cs[i]), cs, i)
    BY <2>1, <2>2, PartGrows
  <2>4. h[i] = Body(h, i) /\ i \in 0 .. n /\ i # 0
    <3>1. i \in 0 .. n /\ i # 0
      BY <1>2
    <3>2. h = [k \in 0 .. n |-> Body(h, k)]
      BY <1>7
    <3> HIDE DEF Body
    <3> QED BY <3>1, <3>2
  <2>5. \/ h[i] = [rest |-> h[i - 1].rest, skip |-> TRUE]
        \/ h[i] = [rest |-> Append(h[i - 1].rest, cs[i]), skip |-> FALSE]
    BY <2>4
  <2> HIDE DEF Body, Runs
  <2>6. Append(h[i - 1].rest, cs[i]) \in Seq(Contact!Contacts)
    BY <2>2
  <2>7. ASSUME NEW q \in Seq(Contact!Contacts), IsPart(q, cs, i), NEW b \in BOOLEAN,
               h[i] = [rest |-> q, skip |-> b]
        PROVE  h[i] \in Removals /\ IsPart(h[i].rest, cs, i)
    BY <2>7 DEF Removals
  <2>8. h[i] \in Removals /\ IsPart(h[i].rest, cs, i)
    BY <2>2, <2>3, <2>5, <2>6, <2>7
  <2> QED BY <2>4, <2>8
<1> HIDE DEF G
<1>10. n \in G
  <2>1. \A i \in 0 .. n : i \in G
    BY <1>2, <1>8, <1>9, IndexInduction
  <2> QED BY <1>2, <2>1
<1>11. h[n].rest \in Seq(Contact!Contacts) /\ IsPart(h[n].rest, cs, n)
  BY <1>10 DEF G, Removals
<1> HIDE DEF Runs
<1> QED BY <1>1, <1>7, <1>11

\* What a part of the contacts keeps.
LEMMA PartKeeps ==
    ASSUME NEW cs \in Seq(Contact!Contacts), NEW rest \in Seq(Contact!Contacts), NEW twice,
           IsPart(rest, cs, Len(cs)), Once(cs, twice)
    PROVE  /\ Once(rest, twice)
           /\ \A k \in 1 .. Len(rest) : \E i \in 1 .. Len(cs) : rest[k] = cs[i]
<1>1. PICK m \in [1 .. Len(rest) -> 1 .. Len(cs)] :
        /\ \A k \in 1 .. Len(rest) : rest[k] = cs[m[k]]
        /\ \A k, l \in 1 .. Len(rest) : k # l => m[k] # m[l]
  BY DEF IsPart
<1>2. \A k \in 1 .. Len(rest) : m[k] \in 1 .. Len(cs)
  BY <1>1
<1>3. ASSUME NEW k \in 1 .. Len(rest), NEW l \in 1 .. Len(rest), k # l,
             rest[k].guid = rest[l].guid
      PROVE  rest[k].guid \in twice
  <2>1. m[k] # m[l] /\ rest[k] = cs[m[k]] /\ rest[l] = cs[m[l]]
    BY <1>1, <1>3
  <2>2. cs[m[k]].guid = cs[m[l]].guid
    BY <1>3, <2>1
  <2>3. cs[m[k]].guid \in twice
    BY <1>2, <2>1, <2>2 DEF Once
  <2> QED BY <2>1, <2>3
<1> QED BY <1>1, <1>2, <1>3 DEF Once

\* A filter made of the contacts has no private one that is there once.
LEMMA FilterHides ==
    ASSUME NEW cs \in Seq(Contact!Contacts), NEW twice, Once(cs, twice)
    PROVE  Hidden(cs, Contact!Filter(cs), twice)
<1> SUFFICES ASSUME NEW i \in 1 .. Len(cs), cs[i].private, cs[i].guid \in Contact!Filter(cs)
             PROVE  cs[i].plain \/ cs[i].guid \in twice
  BY DEF Hidden
<1>1. DOMAIN cs = 1 .. Len(cs)
  OBVIOUS
<1>2. PICK j \in 1 .. Len(cs) : cs[j].guid = cs[i].guid /\ ~Contact!PrivateContact(cs[j])
  BY <1>1 DEF Contact!Filter
<1>3. CASE i = j
  BY <1>2, <1>3 DEF Contact!PrivateContact
<1>4. CASE i # j
  BY <1>2, <1>4 DEF Once
<1> QED BY <1>3, <1>4

\* The Bloom filter holds GUIDs.
LEMMA FilterOfGuids ==
    ASSUME NEW cs \in Seq(Contact!Contacts)
    PROVE  Contact!Filter(cs) \in SUBSET Guids
<1>1. \A i \in DOMAIN cs : cs[i].guid \in Guids
  <2> SUFFICES ASSUME NEW i \in DOMAIN cs PROVE cs[i].guid \in Guids
    OBVIOUS
  <2>1. cs[i] \in Contact!Contacts
    BY ElementOfSeq
  <2> QED BY <2>1 DEF Contact!Contacts
<1> QED BY <1>1 DEF Contact!Filter

\* The first contact of a guid is one of it.
LEMMA FirstIsOf ==
    ASSUME NEW g, contacts \in Seq(Contact!Contacts),
           \E i \in DOMAIN contacts : contacts[i].guid = g
    PROVE  Contact!FirstOf(g) \in DOMAIN contacts /\ contacts[Contact!FirstOf(g)].guid = g
<1>1. DOMAIN contacts = 1 .. Len(contacts) /\ Len(contacts) \in Nat
  OBVIOUS
<1> DEFINE T == {i \in DOMAIN contacts : contacts[i].guid = g}
<1>2. T # {} /\ T \in SUBSET Nat
  BY <1>1
<1>3. PICK i \in T : \A j \in T : i <= j
  <2> HIDE DEF T
  <2> QED BY <1>2, LeastNat
<1>4. \A j \in 1 .. i - 1 : contacts[j].guid # g
  <2> SUFFICES ASSUME NEW j \in 1 .. i - 1, contacts[j].guid = g PROVE FALSE
    OBVIOUS
  <2>1. i \in 1 .. Len(contacts)
    BY <1>1, <1>3
  <2>2. j \in 1 .. Len(contacts) /\ ~(i <= j)
    BY <1>1, <2>1
  <2>3. j \in T
    BY <1>1, <2>2
  <2> QED BY <1>3, <2>2, <2>3
<1>5. i \in DOMAIN contacts /\ contacts[i].guid = g
  BY <1>3
<1>6. \E k \in DOMAIN contacts :
         contacts[k].guid = g /\ \A j \in 1 .. k - 1 : contacts[j].guid # g
  BY <1>4, <1>5
<1> QED BY <1>6, Zenon DEF Contact!FirstOf

\* What an edit makes of the contacts.
LEMMA EditedIs ==
    ASSUME NEW old \in Guids, NEW new \in Guids, NEW private \in BOOLEAN,
           contacts \in Seq(Contact!Contacts),
           \E i \in DOMAIN contacts : contacts[i].guid = old,
           NEW e, e = Contact!Edited(old, new, private)
    PROVE  /\ e \in Seq(Contact!Contacts) /\ Len(e) = Len(contacts)
           /\ \A i \in 1 .. Len(contacts) :
                 \/ e[i] = contacts[i]
                 \/ /\ contacts[i].guid = old /\ e[i].guid = new
                    /\ e[i].private = private /\ e[i].plain = contacts[i].plain
           /\ \A i, j \in 1 .. Len(contacts) :
                 i # j /\ e[i].guid = e[j].guid =>
                     contacts[i].guid = contacts[j].guid /\ contacts[i].guid = e[i].guid
<1>1. DOMAIN contacts = 1 .. Len(contacts) /\ Len(contacts) \in Nat
  OBVIOUS
<1>2. \A i \in 1 .. Len(contacts) : contacts[i] \in Contact!Contacts
  BY <1>1, ElementOfSeq
<1>3. CASE old = new
  <2> DEFINE c(i) == IF contacts[i].guid = old THEN [contacts[i] EXCEPT !.private = private]
                     ELSE contacts[i]
  <2>1. e = [i \in 1 .. Len(contacts) |-> c(i)]
    BY <1>1, <1>3 DEF Contact!Edited
  <2>2. ASSUME NEW i \in 1 .. Len(contacts)
        PROVE  /\ c(i) \in Contact!Contacts
               /\ \/ c(i) = contacts[i]
                  \/ /\ contacts[i].guid = old /\ c(i).guid = old
                     /\ c(i).private = private /\ c(i).plain = contacts[i].plain
    BY <1>2 DEF Contact!Contacts
  <2> HIDE DEF c
  <2>3. e \in [1 .. Len(contacts) -> Contact!Contacts]
    BY <2>1, <2>2
  <2>4. e \in Seq(Contact!Contacts) /\ Len(e) = Len(contacts)
    BY <1>1, <2>3
  <2> QED BY <1>3, <2>1, <2>2, <2>4
<1>4. CASE old # new /\ Contact!GuidExist(contacts, new)
  <2>1. e = contacts
    BY <1>4 DEF Contact!Edited
  <2> QED BY <2>1
<1>5. CASE old # new /\ ~Contact!GuidExist(contacts, new)
  <2> DEFINE k == Contact!FirstOf(old)
             c == [contacts[k] EXCEPT !.guid = new, !.private = private]
  <2>1. k \in 1 .. Len(contacts) /\ contacts[k].guid = old
    BY <1>1, FirstIsOf
  <2>2. e = [contacts EXCEPT ![k] = c]
    BY <1>5 DEF Contact!Edited
  <2> HIDE DEF k
  <2>3. /\ c \in Contact!Contacts /\ c.guid = new /\ c.private = private
        /\ c.plain = contacts[k].plain
    BY <1>2, <2>1 DEF Contact!Contacts
  <2> HIDE DEF c
  <2>4. \A i \in 1 .. Len(contacts) : contacts[i].guid # new
    BY <1>1, <1>5 DEF Contact!GuidExist
  <2>5. e \in Seq(Contact!Contacts) /\ Len(e) = Len(contacts)
    BY <1>1, <2>1, <2>2, <2>3
  <2>6. e[k] = c /\ \A i \in 1 .. Len(contacts) : i # k => e[i] = contacts[i]
    BY <1>1, <2>1, <2>2
  <2> QED BY <2>1, <2>3, <2>4, <2>5, <2>6
<1> QED BY <1>3, <1>4, <1>5

\* No contacts: the invariant holds at first.
LEMMA ContactInit ==
    ASSUME Contact!Init
    PROVE  ContactInv
<1>1. contacts = <<>> /\ saved = <<>> /\ Len(contacts) = 0
  BY DEF Contact!Init
<1>2. <<>> \in Seq(Contact!Contacts)
  OBVIOUS
<1>3. call \in [Calls -> {Contact!Idle}]
  BY DEF Contact!Init
<1>4. \A c \in Calls, g \in Guids : call[c] # [op |-> "add", guid |-> g]
  BY <1>3 DEF Contact!Idle
<1>5. Contact!TypeOK
  BY <1>1, <1>2, <1>3 DEF Contact!TypeOK, Contact!Init
<1>6. Once(contacts, overlapped) /\ Hidden(contacts, filter, overlapped) /\ AddsAreNoted
  BY <1>1, <1>4 DEF Once, Hidden, AddsAreNoted
<1> QED BY <1>1, <1>5, <1>6 DEF ContactInv

\* What holds of the calls in any state but that of a new read.
LEMMA CallsEnd ==
    ASSUME ContactInv, NEW d \in Calls, call' = [call EXCEPT ![d] = Contact!Idle]
    PROVE  /\ call' \in [Calls -> [op : Contact!Ops, guid : Guids] \union {Contact!Idle}]
           /\ \A c \in Calls, g \in Guids :
                 call'[c] = [op |-> "add", guid |-> g] =>
                     c # d /\ call[c] = [op |-> "add", guid |-> g]
<1>1. call \in [Calls -> [op : Contact!Ops, guid : Guids] \union {Contact!Idle}]
  BY DEF ContactInv, Contact!TypeOK
<1>2. \A g \in Guids : Contact!Idle # [op |-> "add", guid |-> g]
  BY DEF Contact!Idle
<1> QED BY <1>1, <1>2

\* Two calls of a guid are noted, while the contacts and what is noted stay.
LEMMA CallsNoted ==
    ASSUME ContactInv, UNCHANGED <<contacts, overlapped>>,
           \A c \in Calls, g \in Guids :
               call'[c] = [op |-> "add", guid |-> g] => call[c] = [op |-> "add", guid |-> g]
    PROVE  AddsAreNoted'
<1>1. AddsAreNoted /\ contacts' = contacts /\ overlapped' = overlapped
  BY DEF ContactInv
<1>2. \A i \in 1 .. Len(contacts) : contacts[i].guid \in Guids
  <2> SUFFICES ASSUME NEW i \in 1 .. Len(contacts) PROVE contacts[i].guid \in Guids
    OBVIOUS
  <2>1. contacts[i] \in Contact!Contacts
    BY ElementOfSeq DEF ContactInv, Contact!TypeOK
  <2> QED BY <2>1 DEF Contact!Contacts
<1>3. ASSUME NEW c \in Calls, NEW d \in Calls, NEW g \in Guids, c # d,
             call'[c] = [op |-> "add", guid |-> g], call'[d] = [op |-> "add", guid |-> g]
      PROVE  g \in overlapped
  BY <1>1, <1>3 DEF AddsAreNoted
<1>4. ASSUME NEW c \in Calls, NEW i \in 1 .. Len(contacts),
             call'[c] = [op |-> "add", guid |-> contacts[i].guid]
      PROVE  contacts[i].guid \in overlapped
  BY <1>1, <1>2, <1>4 DEF AddsAreNoted
<1> QED BY <1>1, <1>3, <1>4 DEF AddsAreNoted

\* A step that leaves the contacts.
LEMMA ContactsStay ==
    ASSUME ContactInv, UNCHANGED <<contacts, saved, filter>>,
           overlapped' \in SUBSET Guids, overlapped \subseteq overlapped',
           call' \in [Calls -> [op : Contact!Ops, guid : Guids] \union {Contact!Idle}],
           AddsAreNoted'
    PROVE  ContactInv'
<1>1. Contact!TypeOK'
  BY DEF ContactInv, Contact!TypeOK
<1>2. Once(contacts, overlapped)' /\ Hidden(contacts, filter, overlapped)'
  BY DEF ContactInv, Once, Hidden
<1>3. (saved = contacts)'
  BY DEF ContactInv
<1> QED BY <1>1, <1>2, <1>3 DEF ContactInv

\* Asking for a contact that is not here, while others may ask too, is noted.
LEMMA AddContactNext ==
    ASSUME ContactInv, NEW c \in Calls, NEW g \in Guids, Contact!AddContact(c, g)
    PROVE  ContactInv'
<1>1. call \in [Calls -> [op : Contact!Ops, guid : Guids] \union {Contact!Idle}]
  BY DEF ContactInv, Contact!TypeOK
<1>2. /\ call' = [call EXCEPT ![c] = [op |-> "add", guid |-> g]]
      /\ overlapped' = IF Contact!Reading("add", g) THEN overlapped \union {g} ELSE overlapped
      /\ UNCHANGED <<contacts, filter, saved>> /\ ~Contact!GuidExist(contacts, g)
  BY DEF Contact!AddContact, Contact!Ask
<1>3. [op |-> "add", guid |-> g] \in [op : Contact!Ops, guid : Guids]
  BY DEF Contact!Ops
<1>4. call' \in [Calls -> [op : Contact!Ops, guid : Guids] \union {Contact!Idle}]
  BY <1>1, <1>2, <1>3
<1>5. overlapped' \in SUBSET Guids /\ overlapped \subseteq overlapped'
  BY <1>2 DEF ContactInv, Contact!TypeOK
<1>6. contacts \in Seq(Contact!Contacts) /\ AddsAreNoted
  BY DEF ContactInv, Contact!TypeOK
<1>7. \A i \in 1 .. Len(contacts) : contacts[i].guid \in Guids /\ contacts[i].guid # g
  <2> SUFFICES ASSUME NEW i \in 1 .. Len(contacts)
               PROVE  contacts[i].guid \in Guids /\ contacts[i].guid # g
    OBVIOUS
  <2>1. contacts[i] \in Contact!Contacts
    BY <1>6, ElementOfSeq
  <2>2. contacts[i].guid \in Guids
    BY <2>1 DEF Contact!Contacts
  <2>3. i \in DOMAIN contacts
    BY <1>6
  <2> QED BY <1>2, <2>2, <2>3 DEF Contact!GuidExist
<1>8. \A a \in Guids : [op |-> "add", guid |-> a] = [op |-> "add", guid |-> g] => a = g
  OBVIOUS
<1>9. \A d \in Calls, a \in Guids :
         call'[d] = [op |-> "add", guid |-> a] =>
             \/ d = c /\ a = g
             \/ d # c /\ call[d] = [op |-> "add", guid |-> a]
  BY <1>1, <1>2, <1>8
<1>10. \A d \in Calls : call[d] = [op |-> "add", guid |-> g] => g \in overlapped'
  BY <1>2 DEF Contact!Reading
<1>11. ASSUME NEW d \in Calls, NEW e \in Calls, NEW a \in Guids, d # e,
              call'[d] = [op |-> "add", guid |-> a], call'[e] = [op |-> "add", guid |-> a]
       PROVE  a \in overlapped'
  <2>1. CASE d = c
    BY <1>9, <1>10, <1>11, <2>1
  <2>2. CASE e = c
    BY <1>9, <1>10, <1>11, <2>2
  <2>3. CASE d # c /\ e # c
    <3>1. call[d] = [op |-> "add", guid |-> a] /\ call[e] = [op |-> "add", guid |-> a]
      BY <1>9, <1>11, <2>3
    <3>2. a \in overlapped
      BY <1>6, <1>11, <3>1 DEF AddsAreNoted
    <3> QED BY <1>5, <3>2
  <2> QED BY <2>1, <2>2, <2>3
<1>12. ASSUME NEW d \in Calls, NEW i \in 1 .. Len(contacts),
              call'[d] = [op |-> "add", guid |-> contacts[i].guid]
       PROVE  contacts[i].guid \in overlapped'
  <2>1. call[d] = [op |-> "add", guid |-> contacts[i].guid]
    BY <1>7, <1>9, <1>12
  <2>2. contacts[i].guid \in overlapped
    BY <1>6, <2>1 DEF AddsAreNoted
  <2> QED BY <1>5, <2>2
<1>13. AddsAreNoted'
  BY <1>2, <1>11, <1>12 DEF AddsAreNoted
<1> QED BY <1>2, <1>4, <1>5, <1>13, ContactsStay

\* The registry's answer brings in a contact, again if it is one already.
LEMMA AddedNext ==
    ASSUME ContactInv, NEW c \in Calls, Contact!Added(c)
    PROVE  ContactInv'
<1>1. /\ call' = [call EXCEPT ![c] = Contact!Idle] /\ call[c].op = "add"
      /\ UNCHANGED <<filter, overlapped>>
  BY DEF Contact!Added, Contact!Answer
<1>2. /\ call' \in [Calls -> [op : Contact!Ops, guid : Guids] \union {Contact!Idle}]
      /\ \A d \in Calls, g \in Guids :
            call'[d] = [op |-> "add", guid |-> g] =>
                d # c /\ call[d] = [op |-> "add", guid |-> g]
  BY <1>1, CallsEnd
<1>3. CASE UNCHANGED <<contacts, saved>>
  <2>1. AddsAreNoted'
    BY <1>1, <1>2, <1>3, CallsNoted
  <2>2. overlapped' \in SUBSET Guids /\ overlapped \subseteq overlapped'
    BY <1>1 DEF ContactInv, Contact!TypeOK
  <2> QED BY <1>1, <1>2, <1>3, <2>1, <2>2, ContactsStay
<1>4. CASE Contact!StoreContacts(Append(contacts, Contact!NewContact(call[c].guid)))
  <2> DEFINE g == call[c].guid
  <2>1. g \in Guids /\ call[c] = [op |-> "add", guid |-> g]
    <3>1. call[c] \in [op : Contact!Ops, guid : Guids] \union {Contact!Idle}
      BY DEF ContactInv, Contact!TypeOK
    <3>2. call[c] # Contact!Idle
      BY <1>1 DEF Contact!Idle
    <3> QED BY <1>1, <3>1, <3>2
  <2> DEFINE more == Append(contacts, Contact!NewContact(g))
  <2>2. contacts' = more /\ saved' = more
    BY <1>4 DEF Contact!StoreContacts
  <2>3. contacts \in Seq(Contact!Contacts) /\ Len(contacts) \in Nat
    BY DEF ContactInv, Contact!TypeOK
  <2>4. /\ Contact!NewContact(g) \in Contact!Contacts
        /\ Contact!NewContact(g).guid = g /\ Contact!NewContact(g).private = FALSE
    BY <2>1 DEF Contact!NewContact, Contact!Contacts
  <2>5. /\ more \in Seq(Contact!Contacts) /\ Len(more) = Len(contacts) + 1
        /\ more[Len(contacts) + 1] = Contact!NewContact(g)
        /\ \A i \in 1 .. Len(contacts) : more[i] = contacts[i]
    BY <2>3, <2>4
  <2> HIDE DEF more, g
  <2>6. \A i \in 1 .. Len(more) : i \in 1 .. Len(contacts) \/ i = Len(contacts) + 1
    BY <2>3, <2>5
  <2>7. /\ Once(contacts, overlapped) /\ Hidden(contacts, filter, overlapped)
        /\ AddsAreNoted /\ overlapped' = overlapped /\ filter' = filter
    BY <1>1 DEF ContactInv
  <2>8. \A i \in 1 .. Len(contacts) : contacts[i].guid = g => g \in overlapped
    BY <2>1, <2>7 DEF AddsAreNoted
  <2>9. Once(more, overlapped)
    <3> SUFFICES ASSUME NEW i \in 1 .. Len(more), NEW j \in 1 .. Len(more), i # j,
                        more[i].guid = more[j].guid
                 PROVE  more[i].guid \in overlapped
      BY DEF Once
    <3>1. CASE i \in 1 .. Len(contacts) /\ j \in 1 .. Len(contacts)
      BY <2>5, <2>7, <3>1 DEF Once
    <3>2. CASE i = Len(contacts) + 1 /\ j \in 1 .. Len(contacts)
      BY <2>4, <2>5, <2>8, <3>2
    <3>3. CASE j = Len(contacts) + 1 /\ i \in 1 .. Len(contacts)
      BY <2>4, <2>5, <2>8, <3>3
    <3> QED BY <2>6, <3>1, <3>2, <3>3
  <2>10. Hidden(more, filter, overlapped)
    <3> SUFFICES ASSUME NEW i \in 1 .. Len(more), more[i].private, more[i].guid \in filter
                 PROVE  more[i].plain \/ more[i].guid \in overlapped
      BY DEF Hidden
    <3>1. CASE i \in 1 .. Len(contacts)
      BY <2>5, <2>7, <3>1 DEF Hidden
    <3>2. CASE i = Len(contacts) + 1
      BY <2>4, <2>5, <3>2
    <3> QED BY <2>6, <3>1, <3>2
  <2>11. ASSUME NEW d \in Calls, NEW e \in Calls, NEW a \in Guids, d # e,
                call'[d] = [op |-> "add", guid |-> a], call'[e] = [op |-> "add", guid |-> a]
         PROVE  a \in overlapped
    BY <1>2, <2>7, <2>11 DEF AddsAreNoted
  <2>12. ASSUME NEW d \in Calls, NEW i \in 1 .. Len(more),
                call'[d] = [op |-> "add", guid |-> more[i].guid]
         PROVE  more[i].guid \in overlapped
    <3>1. more[i] \in Contact!Contacts
      BY <2>5, ElementOfSeq
    <3>2. more[i].guid \in Guids
      BY <3>1 DEF Contact!Contacts
    <3>3. d # c /\ call[d] = [op |-> "add", guid |-> more[i].guid]
      BY <1>2, <2>12, <3>2
    <3>4. CASE i \in 1 .. Len(contacts)
      BY <2>5, <2>7, <3>3, <3>4 DEF AddsAreNoted
    <3>5. CASE i = Len(contacts) + 1
      <4>1. more[i].guid = g
        BY <2>4, <2>5, <3>5
      <4> QED BY <2>1, <2>7, <3>3, <4>1 DEF AddsAreNoted
    <3> QED BY <2>6, <3>4, <3>5
  <2>13. AddsAreNoted'
    BY <2>2, <2>7, <2>11, <2>12 DEF AddsAreNoted
  <2>14. Contact!TypeOK'
    BY <1>2, <2>2, <2>5, <2>7 DEF ContactInv, Contact!TypeOK
  <2> QED BY <2>2, <2>7, <2>9, <2>10, <2>13, <2>14 DEF ContactInv
<1> QED BY <1>3, <1>4 DEF Contact!Added

\* An edited contact keeps its place, under another GUID too.
LEMMA EditNext ==
    ASSUME ContactInv, NEW old \in Guids, NEW new \in Guids, NEW private \in BOOLEAN,
           Contact!EditContact(old, new, private)
    PROVE  ContactInv'
<1> DEFINE e == Contact!Edited(old, new, private)
<1>1. /\ \E i \in DOMAIN contacts : contacts[i].guid = old
      /\ contacts' = e /\ saved' = e /\ call' = call
      /\ filter' = IF \E i \in DOMAIN contacts : contacts[i].guid = old /\ e[i].private
                   THEN Contact!Filter(e) ELSE filter
      /\ overlapped' = IF Contact!Reading("add", new) THEN overlapped \union {new} ELSE overlapped
  BY DEF Contact!EditContact, Contact!StoreContacts
<1>2. /\ contacts \in Seq(Contact!Contacts) /\ Once(contacts, overlapped)
      /\ Hidden(contacts, filter, overlapped) /\ AddsAreNoted
      /\ DOMAIN contacts = 1 .. Len(contacts)
  BY DEF ContactInv, Contact!TypeOK
<1>3. /\ e \in Seq(Contact!Contacts) /\ Len(e) = Len(contacts)
      /\ \A i \in 1 .. Len(contacts) :
            \/ e[i] = contacts[i]
            \/ /\ contacts[i].guid = old /\ e[i].guid = new
               /\ e[i].private = private /\ e[i].plain = contacts[i].plain
      /\ \A i, j \in 1 .. Len(contacts) :
            i # j /\ e[i].guid = e[j].guid =>
                contacts[i].guid = contacts[j].guid /\ contacts[i].guid = e[i].guid
  BY <1>1, <1>2, EditedIs
<1> HIDE DEF e
<1>4. overlapped' \in SUBSET Guids /\ overlapped \subseteq overlapped'
  BY <1>1 DEF ContactInv, Contact!TypeOK
<1>5. Once(e, overlapped')
  BY <1>2, <1>3, <1>4 DEF Once
<1>6. Hidden(e, filter', overlapped')
  <2>1. CASE \E i \in DOMAIN contacts : contacts[i].guid = old /\ e[i].private
    BY <1>1, <1>3, <1>5, <2>1, FilterHides
  <2>2. CASE ~\E i \in DOMAIN contacts : contacts[i].guid = old /\ e[i].private
    <3>1. filter' = filter
      BY <1>1, <2>2
    <3> SUFFICES ASSUME NEW i \in 1 .. Len(e), e[i].private, e[i].guid \in filter
                 PROVE  e[i].plain \/ e[i].guid \in overlapped'
      BY <3>1 DEF Hidden
    <3>2. e[i] = contacts[i]
      BY <1>2, <1>3, <2>2
    <3> QED BY <1>2, <1>3, <1>4, <3>2 DEF Hidden
  <2> QED BY <2>1, <2>2
<1>7. filter' \in SUBSET Guids
  <2>1. Contact!Filter(e) \in SUBSET Guids
    BY <1>3, FilterOfGuids
  <2> QED BY <1>1, <2>1 DEF ContactInv, Contact!TypeOK
<1>8. ASSUME NEW c \in Calls, NEW i \in 1 .. Len(e), call[c] = [op |-> "add", guid |-> e[i].guid]
      PROVE  e[i].guid \in overlapped'
  <2>1. CASE e[i] = contacts[i]
    <3>1. contacts[i].guid \in overlapped
      BY <1>2, <1>3, <1>8, <2>1 DEF AddsAreNoted
    <3> QED BY <1>4, <2>1, <3>1
  <2>2. CASE e[i].guid = new
    BY <1>1, <1>8, <2>2 DEF Contact!Reading
  <2> QED BY <1>3, <2>1, <2>2
<1>9. AddsAreNoted'
  <2>1. \A c, d \in Calls, g \in Guids :
          c # d /\ call[c] = [op |-> "add", guid |-> g] /\ call[d] = [op |-> "add", guid |-> g] =>
              g \in overlapped'
    BY <1>2, <1>4 DEF AddsAreNoted
  <2> QED BY <1>1, <1>8, <2>1 DEF AddsAreNoted
<1>10. Contact!TypeOK'
  BY <1>1, <1>3, <1>4, <1>7 DEF ContactInv, Contact!TypeOK
<1> QED BY <1>1, <1>5, <1>6, <1>9, <1>10 DEF ContactInv

\* A removal leaves a part of the contacts.
LEMMA RemoveNext ==
    ASSUME ContactInv, NEW g \in Guids, Contact!RemoveContact(g)
    PROVE  ContactInv'
<1> DEFINE rest == Contact!Without(contacts, g)
<1>1. /\ contacts' = rest /\ saved' = rest /\ UNCHANGED <<call, overlapped>>
      /\ filter' = Contact!Filter(rest)
  BY DEF Contact!RemoveContact, Contact!StoreContacts
<1>2. contacts \in Seq(Contact!Contacts) /\ Once(contacts, overlapped) /\ AddsAreNoted
  BY DEF ContactInv, Contact!TypeOK
<1>3. rest \in Seq(Contact!Contacts) /\ IsPart(rest, contacts, Len(contacts))
  BY <1>2, WithoutIsPart
<1> HIDE DEF rest
<1>4. /\ Once(rest, overlapped)
      /\ \A k \in 1 .. Len(rest) : \E i \in 1 .. Len(contacts) : rest[k] = contacts[i]
  BY <1>2, <1>3, PartKeeps
<1>5. Hidden(rest, filter', overlapped)
  BY <1>1, <1>3, <1>4, FilterHides
<1>6. filter' \in SUBSET Guids
  BY <1>1, <1>3, FilterOfGuids
<1>7. \A c \in Calls, k \in 1 .. Len(rest) :
         call[c] = [op |-> "add", guid |-> rest[k].guid] => rest[k].guid \in overlapped
  <2> SUFFICES ASSUME NEW c \in Calls, NEW k \in 1 .. Len(rest),
                      call[c] = [op |-> "add", guid |-> rest[k].guid]
               PROVE  rest[k].guid \in overlapped
    OBVIOUS
  <2>1. PICK i \in 1 .. Len(contacts) : rest[k] = contacts[i]
    BY <1>4
  <2> QED BY <1>2, <2>1 DEF AddsAreNoted
<1>8. AddsAreNoted'
  BY <1>1, <1>2, <1>7 DEF AddsAreNoted
<1>9. Contact!TypeOK'
  BY <1>1, <1>3, <1>6 DEF ContactInv, Contact!TypeOK
<1> QED BY <1>1, <1>4, <1>5, <1>8, <1>9 DEF ContactInv

\* A restart leaves plain objects, and an empty filter.
LEMMA ContactsRestart ==
    ASSUME ContactInv, Contact!Restart
    PROVE  ContactInv'
<1>1. /\ contacts' = [i \in DOMAIN contacts |-> [contacts[i] EXCEPT !.plain = TRUE]]
      /\ saved' = contacts' /\ filter' = {} /\ overlapped' = overlapped
      /\ call' = [c \in Calls |-> Contact!Idle]
  BY DEF Contact!Restart, ContactInv
<1>2. /\ contacts \in Seq(Contact!Contacts) /\ Once(contacts, overlapped)
      /\ DOMAIN contacts = 1 .. Len(contacts) /\ Len(contacts) \in Nat
  BY DEF ContactInv, Contact!TypeOK
<1> DEFINE p(i) == [contacts[i] EXCEPT !.plain = TRUE]
<1>3. ASSUME NEW i \in 1 .. Len(contacts)
      PROVE  p(i) \in Contact!Contacts /\ p(i).guid = contacts[i].guid
  <2>1. contacts[i] \in Contact!Contacts
    BY <1>2, ElementOfSeq
  <2> QED BY <2>1 DEF Contact!Contacts
<1>4. contacts' = [i \in 1 .. Len(contacts) |-> p(i)]
  BY <1>1, <1>2
<1> HIDE DEF p
<1>5. contacts' \in [1 .. Len(contacts) -> Contact!Contacts]
  BY <1>3, <1>4
<1>6. contacts' \in Seq(Contact!Contacts) /\ Len(contacts') = Len(contacts)
  BY <1>2, <1>5
<1>7. \A i \in 1 .. Len(contacts) : contacts'[i].guid = contacts[i].guid
  BY <1>3, <1>4
<1>8. Once(contacts', overlapped)
  BY <1>2, <1>6, <1>7 DEF Once
<1>9. \A c \in Calls : \A g : call'[c] # [op |-> "add", guid |-> g]
  BY <1>1 DEF Contact!Idle
<1>10. AddsAreNoted'
  BY <1>9 DEF AddsAreNoted
<1>11. Contact!TypeOK'
  BY <1>1, <1>6 DEF ContactInv, Contact!TypeOK
<1>12. Hidden(contacts', filter', overlapped')
  BY <1>1 DEF Hidden
<1> QED BY <1>1, <1>8, <1>10, <1>11, <1>12 DEF ContactInv

\* A read of another kind begins.
LEMMA AskedNext ==
    ASSUME ContactInv, NEW c \in Calls, NEW g \in Guids, NEW op \in {"update", "query"},
           Contact!Ask(c, op, g), UNCHANGED <<contacts, filter, saved, overlapped>>
    PROVE  ContactInv'
<1>1. call \in [Calls -> [op : Contact!Ops, guid : Guids] \union {Contact!Idle}]
  BY DEF ContactInv, Contact!TypeOK
<1>2. call' = [call EXCEPT ![c] = [op |-> op, guid |-> g]]
  BY DEF Contact!Ask
<1>3. [op |-> op, guid |-> g] \in [op : Contact!Ops, guid : Guids]
  BY DEF Contact!Ops
<1>4. call' \in [Calls -> [op : Contact!Ops, guid : Guids] \union {Contact!Idle}]
  BY <1>1, <1>2, <1>3
<1>5. \A a \in Guids : [op |-> op, guid |-> g] # [op |-> "add", guid |-> a]
  OBVIOUS
<1>6. \A d \in Calls, a \in Guids :
         call'[d] = [op |-> "add", guid |-> a] => call[d] = [op |-> "add", guid |-> a]
  BY <1>1, <1>2, <1>5
<1>7. AddsAreNoted'
  BY <1>6, CallsNoted
<1>8. overlapped' \in SUBSET Guids /\ overlapped \subseteq overlapped'
  BY DEF ContactInv, Contact!TypeOK
<1> QED BY <1>4, <1>7, <1>8, ContactsStay

\* A read of another kind is answered: the contacts are as before.
LEMMA AnsweredNext ==
    ASSUME ContactInv, NEW c \in Calls, NEW op, Contact!Answer(c, op),
           UNCHANGED <<contacts, filter, saved, overlapped>>
    PROVE  ContactInv'
<1>1. call' = [call EXCEPT ![c] = Contact!Idle]
  BY DEF Contact!Answer
<1>2. /\ call' \in [Calls -> [op : Contact!Ops, guid : Guids] \union {Contact!Idle}]
      /\ \A d \in Calls, g \in Guids :
            call'[d] = [op |-> "add", guid |-> g] =>
                d # c /\ call[d] = [op |-> "add", guid |-> g]
  BY <1>1, CallsEnd
<1>3. AddsAreNoted'
  BY <1>2, CallsNoted
<1>4. overlapped' \in SUBSET Guids /\ overlapped \subseteq overlapped'
  BY DEF ContactInv, Contact!TypeOK
<1> QED BY <1>2, <1>3, <1>4, ContactsStay

\* Every step keeps the invariant.
LEMMA ContactNext ==
    ASSUME ContactInv, Contact!Next
    PROVE  ContactInv'
<1>1. saved = contacts
  BY DEF ContactInv
<1>2. CASE \E g \in Guids : Contact!RemoveContact(g)
  BY <1>2, RemoveNext
<1>3. CASE \E g \in Guids, c \in Calls : Contact!AddContact(c, g)
  BY <1>3, AddContactNext
<1>4. CASE \E g \in Guids, c \in Calls : Contact!UpdateContactInfo(c, g)
  <2>1. PICK g \in Guids, c \in Calls : Contact!UpdateContactInfo(c, g)
    BY <1>4
  <2> QED BY <2>1, AskedNext DEF Contact!UpdateContactInfo
<1>5. CASE \E g \in Guids, c \in Calls : Contact!QueryGlobalRegistry(c, g)
  <2>1. PICK g \in Guids, c \in Calls : Contact!QueryGlobalRegistry(c, g)
    BY <1>5
  <2> QED BY <2>1, AskedNext DEF Contact!QueryGlobalRegistry
<1>6. CASE \E g \in Guids, new \in Guids, private \in BOOLEAN : Contact!EditContact(g, new, private)
  BY <1>6, EditNext
<1>7. CASE \E c \in Calls : Contact!Added(c)
  BY <1>7, AddedNext
<1>8. CASE \E c \in Calls : Contact!Updated(c)
  <2>1. PICK c \in Calls : Contact!Updated(c)
    BY <1>8
  <2>2. UNCHANGED <<contacts, filter, saved, overlapped>> /\ Contact!Answer(c, "update")
    BY <1>1, <2>1 DEF Contact!Updated, Contact!StoreContacts
  <2> QED BY <2>2, AnsweredNext
<1>9. CASE \E c \in Calls : Contact!Queried(c)
  <2>1. PICK c \in Calls : Contact!Queried(c)
    BY <1>9
  <2> QED BY <2>1, AnsweredNext DEF Contact!Queried
<1>10. CASE Contact!Annotate
  <2>1. UNCHANGED <<contacts, saved, filter, call, overlapped>>
    BY <1>1, <1>10 DEF Contact!Annotate, Contact!StoreContacts
  <2> QED BY <2>1 DEF ContactInv, AddsAreNoted, Contact!TypeOK
<1>11. CASE Contact!Restart
  BY <1>11, ContactsRestart
<1> QED BY <1>2, <1>3, <1>4, <1>5, <1>6, <1>7, <1>8, <1>9, <1>10, <1>11 DEF Contact!Next

\* The invariant implies the properties of the contacts.
LEMMA ContactsKept ==
    ASSUME ContactInv
    PROVE  Contact!TypeOK /\ Contact!ContactsAreOnce /\ Contact!PrivateStaysPrivate
<1>1. /\ Contact!TypeOK /\ Once(contacts, overlapped)
      /\ Hidden(contacts, filter, overlapped)
  BY DEF ContactInv
<1>2. DOMAIN contacts = 1 .. Len(contacts)
  BY <1>1 DEF Contact!TypeOK
<1> QED BY <1>1, <1>2 DEF Contact!ContactsAreOnce, Contact!PrivateStaysPrivate, Once, Hidden

\* A step that changes nothing keeps the invariant.
LEMMA ContactStutters ==
    ASSUME ContactInv, UNCHANGED Contact!vars
    PROVE  ContactInv'
BY DEF ContactInv, Contact!vars, Contact!TypeOK, Once, Hidden, AddsAreNoted

-----------------------------------------------------------------------------
(* The chats.                                                              *)

\* An invitation that was sent.
Sent(h) == [to |-> h, state |-> "sent", known |-> FALSE]

\* In a chat that is open, who refused an invitation waits, was given up, or was
\* invited again.
Chances(invites, wait, gone) ==
    \A i \in 1 .. Len(invites) :
        invites[i].state = "refused" =>
            \/ invites[i].to \in wait \union gone
            \/ \E j \in 1 .. Len(invites) : j > i /\ invites[j].to = invites[i].to

\* Who refused has another chance while the chat is open, and nobody is invited before.
RoomInv ==
    /\ Room!TypeOK
    /\ room \in {"none", "creating"} => invitations = <<>> /\ waiting = {}
    /\ room = "none" => found = <<>>
    /\ room = "open" => Chances(invitations, waiting, dropped)
    /\ Room!ClosedInviteNobody
    /\ Room!ObserversParticipate

\* A finite set is the range of its sequence.
LEMMA SetToSeqIs ==
    ASSUME NEW S, IsFiniteSet(S)
    PROVE  /\ Room!SetToSeq(S) \in [1 .. Cardinality(S) -> S] /\ Cardinality(S) \in Nat
           /\ Room!SetToSeq(S) \in Seq(S) /\ Len(Room!SetToSeq(S)) = Cardinality(S)
<1>1. Cardinality(S) \in Nat /\ ExistsBijection(1 .. Cardinality(S), S)
  BY FS_CardinalityType
<1>2. PICK b : b \in Bijection(1 .. Cardinality(S), S)
  BY <1>1 DEF ExistsBijection
<1>3. b \in [1 .. Cardinality(S) -> S] /\ \A i, j \in DOMAIN b : b[i] = b[j] => i = j
  BY <1>2 DEF Bijection, Injection, IsInjective
<1>4. Room!IsInjective(b)
  BY <1>3 DEF Room!IsInjective
<1>5. Room!SetToSeq(S) \in [1 .. Cardinality(S) -> S]
  <2>1. Room!SetToSeq(S) = CHOOSE f \in [1 .. Cardinality(S) -> S] : Room!IsInjective(f)
    <3>1. Room!Cardinality(S) = Cardinality(S)
      BY DEF Room!Cardinality, Cardinality
    <3> QED BY <3>1 DEF Room!SetToSeq
  <2> QED BY <1>3, <1>4, <2>1, Zenon
<1> DEFINE s == Room!SetToSeq(S)
<1> HIDE DEF s
<1>6. s \in Seq(S) /\ Len(s) = Cardinality(S)
  BY <1>1, <1>5 DEF s
<1> QED BY <1>1, <1>5, <1>6 DEF s

\* What is sent to hyperties.
LEMMA InviteIs ==
    ASSUME NEW hs \in SUBSET Hyperties
    PROVE  /\ Room!Invite(hs) \in Seq(Room!Invitations)
           /\ \A i \in 1 .. Len(Room!Invite(hs)) : Room!Invite(hs)[i].state = "sent"
           /\ \A h : hs = {h} => Len(Room!Invite(hs)) = 1 /\ Room!Invite(hs)[1].to = h
<1> DEFINE S == {Sent(h) : h \in hs}
           s == Room!Invite(hs)
<1>1. s = Room!SetToSeq(S)
  BY DEF Room!Invite, Sent
<1>2. IsFiniteSet(hs)
  BY FewHyperties, FS_Subset
<1>3. IsFiniteSet(S)
  <2> DEFINE f == [h \in hs |-> Sent(h)]
  <2>1. f \in [hs -> S] /\ \A x \in S : \E h \in hs : f[h] = x
    OBVIOUS
  <2> HIDE DEF f, S
  <2>2. f \in Surjection(hs, S)
    BY <2>1 DEF Surjection
  <2> QED BY <1>2, <2>2, FS_Surjection
<1>4. S \subseteq Room!Invitations /\ \A x \in S : x.state = "sent"
  <2>1. \A h \in hs : Sent(h) \in Room!Invitations /\ Sent(h).state = "sent"
    BY DEF Room!Invitations, Sent
  <2> QED BY <2>1
<1> HIDE DEF S
<1>5. /\ Room!SetToSeq(S) \in Seq(S) /\ Len(Room!SetToSeq(S)) = Cardinality(S)
  BY <1>3, SetToSeqIs
<1> HIDE DEF s
<1>6. s \in Seq(S) /\ Len(s) = Cardinality(S)
  BY <1>1, <1>5
<1>7. s \in Seq(Room!Invitations)
  BY <1>4, <1>6
<1>8. \A i \in 1 .. Len(s) : s[i] \in S
  BY <1>6, ElementOfSeq
<1>9. ASSUME NEW h, hs = {h}
      PROVE  Len(s) = 1 /\ s[1].to = h
  <2>1. S = {Sent(h)}
    BY <1>9 DEF S
  <2>2. Cardinality(S) = 1
    BY <2>1, FS_Singleton
  <2>3. s[1] \in S
    BY <1>6, <1>8, <2>2
  <2>4. s[1] = Sent(h)
    BY <2>1, <2>3
  <2>5. Sent(h).to = h
    BY DEF Sent
  <2> QED BY <1>6, <2>2, <2>4, <2>5
<1>10. \A i \in 1 .. Len(s) : s[i].state = "sent"
  BY <1>4, <1>8
<1> QED BY <1>7, <1>9, <1>10 DEF s

\* Being looked at changes neither who is invited nor what he answered.
LEMMA ProcessedIs ==
    ASSUME NEW all \in Seq(Room!Invitations), NEW people
    PROVE  /\ Room!Processed(all, people) \in Seq(Room!Invitations)
           /\ Len(Room!Processed(all, people)) = Len(all)
           /\ \A i \in 1 .. Len(all) :
                 /\ Room!Processed(all, people)[i].to = all[i].to
                 /\ Room!Processed(all, people)[i].state = all[i].state
<1> DEFINE p(i) == [all[i] EXCEPT !.known = @ \/ all[i].to \in people]
           q == Room!Processed(all, people)
<1>1. Len(all) \in Nat /\ DOMAIN all = 1 .. Len(all)
  OBVIOUS
<1>2. q = [i \in 1 .. Len(all) |-> p(i)]
  BY <1>1 DEF Room!Processed
<1>3. ASSUME NEW i \in 1 .. Len(all)
      PROVE  p(i) \in Room!Invitations /\ p(i).to = all[i].to /\ p(i).state = all[i].state
  <2>1. all[i] \in Room!Invitations
    BY ElementOfSeq
  <2> QED BY <2>1 DEF Room!Invitations
<1> HIDE DEF p, q
<1>4. q \in [1 .. Len(all) -> Room!Invitations]
  BY <1>2, <1>3
<1>5. q \in Seq(Room!Invitations) /\ Len(q) = Len(all)
  BY <1>1, <1>4
<1> QED BY <1>2, <1>3, <1>5 DEF q

\* Invitations that follow are not answered yet, and take no chance.
LEMMA ChancesMore ==
    ASSUME NEW a \in Seq(Room!Invitations), NEW b \in Seq(Room!Invitations),
           NEW wait, NEW more, NEW gone, NEW people, wait \subseteq more,
           Chances(a, wait, gone), \A i \in 1 .. Len(b) : b[i].state = "sent"
    PROVE  /\ a \o b \in Seq(Room!Invitations)
           /\ Room!Processed(a \o b, people) \in Seq(Room!Invitations)
           /\ Chances(a \o b, more, gone)
           /\ Chances(Room!Processed(a \o b, people), more, gone)
<1> DEFINE c == a \o b
           p == Room!Processed(c, people)
<1>1. /\ c \in Seq(Room!Invitations) /\ Len(c) = Len(a) + Len(b)
      /\ Len(a) \in Nat /\ Len(b) \in Nat
      /\ \A i \in 1 .. Len(a) : c[i] = a[i]
      /\ \A i \in 1 .. Len(c) : i \notin 1 .. Len(a) =>
            i - Len(a) \in 1 .. Len(b) /\ c[i] = b[i - Len(a)]
  OBVIOUS
<1> HIDE DEF c
<1>2. /\ p \in Seq(Room!Invitations) /\ Len(p) = Len(c)
      /\ \A i \in 1 .. Len(c) : p[i].to = c[i].to /\ p[i].state = c[i].state
  BY <1>1, ProcessedIs
<1> HIDE DEF p
<1>3. Chances(c, more, gone)
  <2> SUFFICES ASSUME NEW i \in 1 .. Len(c), c[i].state = "refused"
               PROVE  \/ c[i].to \in more \union gone
                      \/ \E j \in 1 .. Len(c) : j > i /\ c[j].to = c[i].to
    BY DEF Chances
  <2>1. i \in 1 .. Len(a)
    BY <1>1
  <2>2. CASE c[i].to \in wait \union gone
    BY <2>2
  <2>3. CASE \E j \in 1 .. Len(a) : j > i /\ a[j].to = a[i].to
    <3>1. PICK j \in 1 .. Len(a) : j > i /\ a[j].to = a[i].to
      BY <2>3
    <3>2. j \in 1 .. Len(c) /\ c[j] = a[j] /\ c[i] = a[i]
      BY <1>1, <2>1
    <3> QED BY <3>1, <3>2
  <2>4. c[i] = a[i]
    BY <1>1, <2>1
  <2> QED BY <2>1, <2>2, <2>3, <2>4 DEF Chances
<1>4. Chances(p, more, gone)
  <2> SUFFICES ASSUME NEW i \in 1 .. Len(p), p[i].state = "refused"
               PROVE  \/ p[i].to \in more \union gone
                      \/ \E j \in 1 .. Len(p) : j > i /\ p[j].to = p[i].to
    BY DEF Chances
  <2>1. i \in 1 .. Len(c) /\ c[i].state = "refused" /\ p[i].to = c[i].to
    BY <1>2
  <2>2. \/ c[i].to \in more \union gone
        \/ \E j \in 1 .. Len(c) : j > i /\ c[j].to = c[i].to
    BY <1>3, <2>1 DEF Chances
  <2> QED BY <1>2, <2>1, <2>2
<1> QED BY <1>1, <1>2, <1>3, <1>4 DEF c, p

\* There is no chat yet: the invariant holds at first.
LEMMA RoomInit ==
    ASSUME Room!Init
    PROVE  RoomInv
<1>1. invitations = <<>> /\ Len(invitations) = 0 /\ <<>> \in Seq(Room!Invitations)
  BY DEF Room!Init
<1>2. Room!TypeOK
  BY <1>1 DEF Room!Init, Room!TypeOK
<1> QED BY <1>1, <1>2 DEF Room!Init, RoomInv, Chances, Room!ClosedInviteNobody,
                Room!ObserversParticipate

\* The end of the discovery, where the chat is created or invitations are looked at.
LEMMA DiscoveryEndsNext ==
    ASSUME RoomInv, Room!DiscoveryEnds
    PROVE  RoomInv'
<1> DEFINE sent == Room!Invite(found.live)
           now == found.disconnected \union
                      {invitations[i].to : i \in {j \in DOMAIN invitations :
                          invitations[j].state = "refused" /\ invitations[j].to \in found.live}}
<1>1. /\ room' = IF room = "creating" THEN "open" ELSE room
      /\ invitations' = Room!Processed(invitations \o sent, found.live)
      /\ waiting' = waiting \union now
      /\ late' = IF room = "closed" THEN late \union now ELSE late
      /\ found' = <<>>
      /\ UNCHANGED <<live, observers, participants, joined, dropped>>
  BY DEF Room!DiscoveryEnds, Room!InviteDisconnected
<1>2. /\ invitations \in Seq(Room!Invitations) /\ Room!TypeOK
      /\ room \in {"creating", "open"} => Chances(invitations, waiting, dropped)
      /\ DOMAIN invitations = 1 .. Len(invitations)
  <2>1. invitations = <<>> => Chances(invitations, waiting, dropped)
    BY DEF Chances
  <2> QED BY <2>1 DEF RoomInv, Room!TypeOK
<1>3. found.live \in SUBSET Hyperties /\ found.disconnected \in SUBSET Hyperties
  <2>1. found \in Room!Founds /\ found # <<>>
    BY <1>2 DEF Room!DiscoveryEnds, Room!TypeOK
  <2> QED BY <2>1 DEF Room!Founds
<1>4. sent \in Seq(Room!Invitations) /\ \A i \in 1 .. Len(sent) : sent[i].state = "sent"
  BY <1>3, InviteIs
<1> HIDE DEF sent
<1>5. now \in SUBSET Hyperties
  <2> SUFFICES ASSUME NEW i \in DOMAIN invitations PROVE invitations[i].to \in Hyperties
    BY <1>3
  <2>1. invitations[i] \in Room!Invitations
    BY <1>2, ElementOfSeq
  <2> QED BY <2>1 DEF Room!Invitations
<1> HIDE DEF now
<1>6. /\ invitations' \in Seq(Room!Invitations)
      /\ room' = "open" => Chances(invitations', waiting', dropped)
  <2>1. invitations \o sent \in Seq(Room!Invitations)
    BY <1>2, <1>4
  <2>2. invitations' \in Seq(Room!Invitations)
    BY <1>1, <2>1, ProcessedIs
  <2>3. ASSUME room' = "open" PROVE Chances(invitations', waiting', dropped)
    <3>1. Chances(invitations, waiting, dropped) /\ waiting \subseteq waiting'
      BY <1>1, <1>2, <2>3
    <3> QED BY <1>1, <1>2, <1>4, <3>1, ChancesMore
  <2> QED BY <2>2, <2>3
<1>7. Room!TypeOK'
  BY <1>1, <1>2, <1>5, <1>6 DEF Room!TypeOK
<1>8. room' \notin {"none", "creating"}
  <2>1. room # "none"
    BY DEF Room!DiscoveryEnds, RoomInv
  <2> QED BY <1>1, <2>1
<1>9. Room!ClosedInviteNobody'
  BY <1>1, <1>2 DEF RoomInv, Room!ClosedInviteNobody
<1>10. Room!ObserversParticipate'
  BY <1>1 DEF RoomInv, Room!ObserversParticipate
<1> QED BY <1>1, <1>6, <1>7, <1>8, <1>9, <1>10 DEF RoomInv

\* Somebody who accepts or refuses has another chance, if he refused.
LEMMA AnsweredRoom ==
    ASSUME RoomInv, NEW i \in DOMAIN invitations, NEW state \in {"accepted", "refused"},
           Room!Answered(i, state)
    PROVE  RoomInv'
<1> DEFINE h == invitations[i].to
           new == [invitations[i] EXCEPT !.state = state]
<1>1. /\ Room!TypeOK /\ invitations \in Seq(Room!Invitations)
      /\ room = "open" => Chances(invitations, waiting, dropped)
      /\ DOMAIN invitations = 1 .. Len(invitations)
  BY DEF RoomInv, Room!TypeOK
<1>2. /\ invitations[i].state = "sent"
      /\ invitations' = [invitations EXCEPT ![i] = new]
      /\ \/ state = "refused" /\ Room!InviteDisconnected({h})
         \/ UNCHANGED <<waiting, late>>
      /\ state = "refused" => h \in waiting' \union dropped'
      /\ dropped' \in {dropped, dropped \union {h}}
      /\ UNCHANGED <<room, live, found, observers, participants, joined>>
  BY DEF Room!Answered, Room!InviteDisconnected
<1>3. invitations[i] \in Room!Invitations
  BY <1>1, ElementOfSeq
<1>4. new \in Room!Invitations /\ new.state = state /\ new.to = h /\ h \in Hyperties
  BY <1>3 DEF Room!Invitations
<1> HIDE DEF new, h
<1>5. /\ invitations' \in Seq(Room!Invitations) /\ Len(invitations') = Len(invitations)
      /\ invitations'[i] = new
      /\ \A j \in 1 .. Len(invitations) : j # i => invitations'[j] = invitations[j]
  BY <1>1, <1>2, <1>4
<1>6. \A j \in 1 .. Len(invitations) : invitations'[j].to = invitations[j].to
  BY <1>4, <1>5 DEF h
<1>7. waiting \subseteq waiting' /\ dropped \subseteq dropped'
  BY <1>2 DEF Room!InviteDisconnected
<1>8. room = "open" => Chances(invitations', waiting', dropped')
  <2> SUFFICES ASSUME room = "open",
                      NEW k \in 1 .. Len(invitations'), invitations'[k].state = "refused"
               PROVE  \/ invitations'[k].to \in waiting' \union dropped'
                      \/ \E j \in 1 .. Len(invitations') :
                            j > k /\ invitations'[j].to = invitations'[k].to
    BY DEF Chances
  <2>1. CASE k = i
    BY <1>2, <1>4, <1>5, <2>1
  <2>2. CASE k # i
    <3>1. invitations'[k] = invitations[k] /\ k \in 1 .. Len(invitations)
      BY <1>5, <2>2
    <3>2. \/ invitations[k].to \in waiting \union dropped
          \/ \E j \in 1 .. Len(invitations) : j > k /\ invitations[j].to = invitations[k].to
      BY <1>1, <3>1 DEF Chances
    <3> QED BY <1>5, <1>6, <1>7, <3>1, <3>2
  <2> QED BY <2>1, <2>2
<1>9. Room!TypeOK'
  BY <1>1, <1>2, <1>4, <1>5 DEF Room!TypeOK, Room!InviteDisconnected
<1>10. invitations # <<>> /\ room \notin {"none", "creating"}
  <2>1. Len(invitations) # 0
    BY <1>1
  <2> QED BY <2>1 DEF RoomInv
<1>11. Room!ClosedInviteNobody'
  BY <1>2 DEF RoomInv, Room!ClosedInviteNobody, Room!InviteDisconnected
<1>12. Room!ObserversParticipate'
  BY <1>2 DEF RoomInv, Room!ObserversParticipate
<1> QED BY <1>2, <1>8, <1>9, <1>10, <1>11, <1>12 DEF RoomInv

\* Who goes live is invited again, if he waits.
LEMMA GoesLiveNext ==
    ASSUME RoomInv, NEW h \in Hyperties, Room!GoesLive(h)
    PROVE  RoomInv'
<1> DEFINE sent == Room!Invite({h})
           more == invitations \o sent
<1>1. /\ Room!TypeOK /\ invitations \in Seq(Room!Invitations)
      /\ room = "open" => Chances(invitations, waiting, dropped)
  BY DEF RoomInv, Room!TypeOK
<1>2. /\ live' = live \union {h} /\ waiting' = waiting \ {h}
      /\ invitations' = IF h \in waiting THEN more ELSE invitations
      /\ UNCHANGED <<room, found, observers, participants, joined, dropped, late>>
  BY DEF Room!GoesLive
<1>3. /\ sent \in Seq(Room!Invitations) /\ Len(sent) = 1 /\ sent[1].to = h
      /\ \A i \in 1 .. Len(sent) : sent[i].state = "sent"
  BY InviteIs
<1> HIDE DEF sent
<1>4. more \in Seq(Room!Invitations) /\ (room = "open" => Chances(more, waiting, dropped))
  <2>1. more \in Seq(Room!Invitations)
    BY <1>1, <1>3
  <2>2. ASSUME room = "open" PROVE Chances(more, waiting, dropped)
    BY <1>1, <1>3, <2>2, ChancesMore
  <2> QED BY <2>1, <2>2
<1>5. /\ Len(invitations) \in Nat /\ Len(more) = Len(invitations) + 1
      /\ more[Len(invitations) + 1] = sent[1]
  <2>1. Len(invitations) \in Nat /\ sent \in Seq(Room!Invitations)
    BY <1>1, <1>3
  <2>2. Len(more) = Len(invitations) + Len(sent)
    BY <1>1, <2>1
  <2>3. Len(more) = Len(invitations) + 1
    BY <1>3, <2>2
  <2>4. \A i \in Len(invitations) + 1 .. Len(invitations) + Len(sent) :
           more[i] = sent[i - Len(invitations)]
    BY <1>1, <2>1
  <2> HIDE DEF more
  <2>5. /\ Len(invitations) + 1 \in Len(invitations) + 1 .. Len(invitations) + Len(sent)
        /\ Len(invitations) + 1 - Len(invitations) = 1
    BY <1>3, <2>1
  <2>6. more[Len(invitations) + 1] = sent[Len(invitations) + 1 - Len(invitations)]
    BY <2>4, <2>5
  <2> QED BY <2>1, <2>3, <2>5, <2>6
<1> HIDE DEF more
<1>6. \A i \in 1 .. Len(more) : more[i].state = "refused" => i # Len(more)
  BY <1>3, <1>5
<1>7. ASSUME room = "open" PROVE Chances(invitations', waiting', dropped')
  <2>1. CASE h \in waiting
    <3> SUFFICES ASSUME NEW i \in 1 .. Len(more), more[i].state = "refused"
                 PROVE  \/ more[i].to \in waiting' \union dropped'
                        \/ \E j \in 1 .. Len(more) : j > i /\ more[j].to = more[i].to
      BY <1>2, <2>1 DEF Chances
    <3>1. CASE more[i].to = h
      BY <1>3, <1>5, <1>6, <3>1
    <3>2. CASE more[i].to # h
      BY <1>2, <1>4, <1>7, <3>2 DEF Chances
    <3> QED BY <3>1, <3>2
  <2>2. CASE h \notin waiting
    <3>1. waiting' = waiting /\ invitations' = invitations /\ dropped' = dropped
      BY <1>2, <2>2
    <3> QED BY <1>1, <1>7, <3>1 DEF Chances
  <2> QED BY <2>1, <2>2
<1>8. Room!TypeOK'
  BY <1>1, <1>2, <1>4 DEF Room!TypeOK
<1>9. Room!ClosedInviteNobody'
  BY <1>2 DEF RoomInv, Room!ClosedInviteNobody
<1>10. Room!ObserversParticipate'
  BY <1>2 DEF RoomInv, Room!ObserversParticipate
<1>11. room' \in {"none", "creating"} => invitations' = <<>> /\ waiting' = {}
  BY <1>2 DEF RoomInv
<1>12. room' = "none" => found' = <<>>
  BY <1>2 DEF RoomInv
<1> QED BY <1>2, <1>7, <1>8, <1>9, <1>10, <1>11, <1>12 DEF RoomInv

\* The other steps of a chat leave the invitations; who waits stays, or the chat
\* is closed.
LEMMA RoomSteps ==
    ASSUME RoomInv,
           \/ \E hs \in SUBSET Hyperties : Room!Create(hs) \/ Room!AddUser(hs)
           \/ \E h \in Hyperties :
                 Room!Disconnects(h) \/ Room!OnSubscribe(h) \/ Room!OnUnsubscribe(h)
           \/ \E c \in Others : Room!Join(c)
    PROVE  RoomInv'
<1>1. Room!TypeOK
  BY DEF RoomInv
<1>2. CASE \E hs \in SUBSET Hyperties : Room!Create(hs) \/ Room!AddUser(hs)
  <2>1. PICK hs \in SUBSET Hyperties, next \in {"creating", "open"} :
          /\ Room!Discover(hs, next)
          /\ (room = "none" /\ next = "creating") \/ (room = "open" /\ next = "open")
    BY <1>2 DEF Room!Create, Room!AddUser
  <2>2. /\ \E disconnected \in SUBSET (hs \ live) :
              found' = [live |-> hs \intersect live, disconnected |-> disconnected]
        /\ room' = next
        /\ UNCHANGED <<live, invitations, waiting, observers, participants, joined, dropped, late>>
    BY <2>1 DEF Room!Discover
  <2>3. found' \in Room!Founds
    BY <2>2 DEF Room!Founds
  <2>4. Room!TypeOK'
    BY <1>1, <2>2, <2>3 DEF Room!TypeOK
  <2>5. room' \in {"none", "creating"} => room = "none"
    BY <2>1, <2>2
  <2> QED BY <2>1, <2>2, <2>4, <2>5
          DEF RoomInv, Chances, Room!ClosedInviteNobody, Room!ObserversParticipate
<1>3. CASE \E h \in Hyperties : Room!Disconnects(h)
  <2>1. /\ live' \in SUBSET Hyperties
        /\ UNCHANGED <<room, found, invitations, waiting, observers, participants, joined,
                       dropped, late>>
    BY <1>1, <1>3 DEF Room!Disconnects, Room!TypeOK
  <2>2. Room!TypeOK'
    BY <1>1, <2>1 DEF Room!TypeOK
  <2> QED BY <2>1, <2>2
          DEF RoomInv, Chances, Room!ClosedInviteNobody, Room!ObserversParticipate
<1>4. CASE \E h \in Hyperties : Room!OnSubscribe(h)
  <2>1. PICK h \in Hyperties : Room!OnSubscribe(h)
    BY <1>4
  <2>2. Room!TypeOK'
    BY <1>1, <2>1 DEF Room!TypeOK, Room!OnSubscribe
  <2>3. Room!ObserversParticipate'
    BY <2>1 DEF RoomInv, Room!OnSubscribe, Room!ObserversParticipate
  <2> QED BY <2>1, <2>2, <2>3
          DEF RoomInv, Chances, Room!ClosedInviteNobody, Room!OnSubscribe
<1>5. CASE \E h \in Hyperties : Room!OnUnsubscribe(h)
  <2>1. PICK h \in Hyperties : Room!OnUnsubscribe(h)
    BY <1>5
  <2>2. Room!TypeOK'
    BY <1>1, <2>1 DEF Room!TypeOK, Room!OnUnsubscribe, Room!Left
  <2>3. Room!ObserversParticipate'
    BY <2>1 DEF RoomInv, Room!OnUnsubscribe, Room!ObserversParticipate, Room!Left
  <2> QED BY <2>1, <2>2, <2>3
          DEF RoomInv, Chances, Room!ClosedInviteNobody, Room!OnUnsubscribe
<1>6. CASE \E c \in Others : Room!Join(c)
  <2>1. PICK c \in Others : Room!Join(c)
    BY <1>6
  <2>2. Room!TypeOK'
    BY <1>1, <2>1 DEF Room!TypeOK, Room!Join
  <2> QED BY <2>1, <2>2
          DEF RoomInv, Chances, Room!ClosedInviteNobody, Room!ObserversParticipate, Room!Join
<1> QED BY <1>2, <1>3, <1>4, <1>5, <1>6

\* When the chat is closed nobody waits, and nobody observes it.
LEMMA ClosedRoom ==
    ASSUME RoomInv, Room!Close, joined' \in SUBSET Others,
           UNCHANGED <<live, found, invitations, participants, dropped, late>>
    PROVE  RoomInv'
<1>1. room' = "closed" /\ waiting' = {} /\ observers' = {}
  BY DEF Room!Close
<1>2. Room!TypeOK'
  BY <1>1 DEF RoomInv, Room!TypeOK
<1> QED BY <1>1, <1>2 DEF RoomInv, Room!ClosedInviteNobody, Room!ObserversParticipate

\* Who left is not a participant.
LEMMA DeletedRoom ==
    ASSUME RoomInv, NEW c \in Others, Room!ProcessDelete(c)
    PROVE  RoomInv'
<1>1. joined' = {} /\ UNCHANGED <<live, found, invitations, participants, dropped, late>>
  BY DEF Room!ProcessDelete
<1>2. CASE Room!Close
  BY <1>1, <1>2, ClosedRoom
<1>3. CASE UNCHANGED <<room, waiting, observers>>
  <2>1. Room!TypeOK'
    BY <1>1, <1>3 DEF RoomInv, Room!TypeOK
  <2> QED BY <1>1, <1>3, <2>1
          DEF RoomInv, Chances, Room!ClosedInviteNobody, Room!ObserversParticipate
<1> QED BY <1>2, <1>3 DEF Room!ProcessDelete

\* A restart resumes the chat, and invites who waited and is live.
LEMMA RoomRestarts ==
    ASSUME RoomInv, Room!Restart
    PROVE  RoomInv'
<1> DEFINE now == waiting \intersect live
           sent == Room!Invite(now)
<1>1. /\ room = "open" /\ invitations' = Room!Processed(sent, now)
      /\ waiting' = waiting \ now /\ found' = <<>> /\ joined' = {}
      /\ dropped' = dropped \union {invitations[i].to : i \in {j \in DOMAIN invitations :
                                        invitations[j].state = "sent"}}
      /\ UNCHANGED <<room, live, observers, participants, late>>
  BY DEF Room!Restart
<1>2. Room!TypeOK /\ invitations \in Seq(Room!Invitations)
  BY DEF RoomInv, Room!TypeOK
<1>3. now \in SUBSET Hyperties
  BY <1>2 DEF Room!TypeOK
<1> HIDE DEF now
<1>4. sent \in Seq(Room!Invitations) /\ \A i \in 1 .. Len(sent) : sent[i].state = "sent"
  BY <1>3, InviteIs
<1> HIDE DEF sent
<1>5. /\ invitations' \in Seq(Room!Invitations)
      /\ \A i \in 1 .. Len(invitations') : invitations'[i].state = "sent"
  BY <1>1, <1>4, ProcessedIs
<1>6. dropped' \in SUBSET Hyperties
  <2>1. \A i \in DOMAIN invitations : invitations[i].to \in Hyperties
    <3> SUFFICES ASSUME NEW i \in DOMAIN invitations PROVE invitations[i].to \in Hyperties
      OBVIOUS
    <3>1. invitations[i] \in Room!Invitations
      BY <1>2, ElementOfSeq
    <3> QED BY <3>1 DEF Room!Invitations
  <2> QED BY <1>1, <1>2, <2>1 DEF Room!TypeOK
<1>7. Room!TypeOK'
  BY <1>1, <1>2, <1>3, <1>5, <1>6 DEF Room!TypeOK
<1>8. Chances(invitations', waiting', dropped')
  BY <1>5 DEF Chances
<1> QED BY <1>1, <1>7, <1>8
        DEF RoomInv, Room!ClosedInviteNobody, Room!ObserversParticipate

\* Every step keeps the invariant.
LEMMA RoomNext ==
    ASSUME RoomInv, Room!Next
    PROVE  RoomInv'
<1>1. CASE \E h \in Hyperties : Room!GoesLive(h)
  BY <1>1, GoesLiveNext
<1>2. CASE \E i \in DOMAIN invitations, state \in {"accepted", "refused"} : Room!Answered(i, state)
  BY <1>2, AnsweredRoom
<1>3. CASE \E c \in Others : Room!ProcessDelete(c)
  BY <1>3, DeletedRoom
<1>4. CASE Room!DiscoveryEnds
  BY <1>4, DiscoveryEndsNext
<1>5. CASE Room!CloseRoom
  <2>1. joined' \in SUBSET Others
    BY <1>5 DEF Room!CloseRoom, RoomInv, Room!TypeOK
  <2> QED BY <1>5, <2>1, ClosedRoom DEF Room!CloseRoom
<1>6. CASE Room!Restart
  BY <1>6, RoomRestarts
<1> QED BY <1>1, <1>2, <1>3, <1>4, <1>5, <1>6, RoomSteps DEF Room!Next

\* The invariant implies the properties of the chat.
LEMMA RoomKept ==
    ASSUME RoomInv
    PROVE  /\ Room!TypeOK /\ Room!RefusedGetAnotherChance
           /\ Room!ClosedInviteNobody /\ Room!ObserversParticipate
<1>1. invitations \in Seq(Room!Invitations)
  BY DEF RoomInv, Room!TypeOK
<1>2. DOMAIN invitations = 1 .. Len(invitations)
  BY <1>1
<1> QED BY <1>2 DEF RoomInv, Chances, Room!RefusedGetAnotherChance

\* A step that changes nothing keeps the invariant.
LEMMA RoomStutters ==
    ASSUME RoomInv, UNCHANGED Room!vars
    PROVE  RoomInv'
BY DEF RoomInv, Room!vars, Room!TypeOK, Chances, Room!ClosedInviteNobody,
       Room!ObserversParticipate

-----------------------------------------------------------------------------
(* Policies.                                                               *)

\* A policy, or none.
Forms == Policy!Defined \union {Policy!NoPolicy}
\* The lists of members of groups.
Lists == Seq(Usernames) \union {Policy!NoGroup}
\* The sets of members of groups.
Bands == (SUBSET Usernames) \union {Policy!Range(Policy!NoGroup)}

\* The verdicts on a message.
Verdicts ==
    [result : {"allow", "block", "throws", Policy!None}, auth : BOOLEAN, acted : BOOLEAN,
     provider : {"allow", "block", Policy!NA}, wanted : {"allow", "block", Policy!None}]

\* The settings, in memory and as saved.
SettingsTyped ==
    /\ loading \in 1 .. 5
    /\ active \in Keys \union {Policy!None} /\ userPolicies \in [Keys -> Forms]
    /\ provider \in [Policy!TargetHyperties -> Forms] /\ groups \in [Groups -> Lists]
    /\ plain \subseteq Policy!TargetHyperties
    /\ saved \in Policy!AllSettings(Lists)

\* The settings in memory, with sets of members.
Current == Policy!Settings(active, userPolicies, provider, Policy!Members(groups))

\* Once all is loaded, what is asked for is in memory; it is saved as far as a
\* restart may need it.
InMemory ==
    /\ asked = Current
    /\ saved.groups = groups
    /\ saved.user = [k \in Keys |-> Policy!JSON(userPolicies[k])]
    /\ \A h \in Policy!TargetHyperties :
          provider[h] # Policy!NoPolicy => saved.provider[h] # Policy!NoPolicy
    /\ \A g \in Groups : Policy!IsInjective(groups[g])

\* Before, it is in storage, and as much of it in memory as was loaded.
InStorage ==
    /\ asked = Policy!Settings(saved.active, saved.user, saved.provider,
                               Policy!Members(saved.groups))
    /\ saved.provider = Policy!NoProvider /\ provider = Policy!NoProvider
    /\ \A k \in Keys : Policy!JSON(saved.user[k]) = saved.user[k]
    /\ userPolicies = Policy!NoPolicies
    /\ loading > 1 => active = saved.active
    /\ loading > 2 => groups = saved.groups
    /\ \A g \in Groups : Policy!IsInjective(saved.groups[g])

\* What was asked for is in memory when everything is loaded, and in storage before.
PolicyInv ==
    /\ SettingsTyped
    /\ source \in Usernames \union {Policy!None} /\ verdict \in Verdicts
    /\ Policy!JudgedAsAsked /\ Policy!ProviderPrevails
    /\ excused \in BOOLEAN
    /\ excused => asked = Policy!NothingAsked
    /\ ~excused => IF loading = 5 THEN InMemory ELSE InStorage

-----------------------------------------------------------------------------
\* The settings are loaded in four reads.
LEMMA LoadingsAre ==
    /\ Len(Policy!Loadings) = 5
    /\ Policy!Loadings[1] = "active" /\ Policy!Loadings[2] = "groups"
    /\ Policy!Loadings[3] = "provider" /\ Policy!Loadings[4] = "user"
    /\ Policy!Loaded <=> loading = 5
BY DEF Policy!Loadings, Policy!Loaded

\* What is left of a policy that is saved is saved again as it is.
LEMMA SavedForms ==
    /\ Policy!NoPolicy \in Forms
    /\ Policies \subseteq Forms
    /\ \A p \in Forms : Policy!JSON(p) \in Forms
    /\ \A p \in Forms : Policy!JSON(p) = Policy!NoPolicy => p = Policy!NoPolicy
    /\ Policy!JSON(Policy!NoPolicy) = Policy!NoPolicy
    /\ \A p \in Forms : Policy!JSON(Policy!JSON(p)) = Policy!JSON(p)
    /\ \A p \in Forms : p = Policy!NoPolicy \/ p \in Policy!AllPolicies
<1>1. \A p \in Policies : p \in Policy!AllPolicies
  BY PoliciesFit
<1>2. \A p \in Policy!Defined : p \in Policy!AllPolicies
  BY <1>1 DEF Policy!Defined, Policy!AllPolicies
<1>3. Policy!NoPolicy.algorithm = "none"
  BY DEF Policy!NoPolicy, Policy!None
<1>4. \A p \in Policy!AllPolicies : p # Policy!NoPolicy
  BY <1>3 DEF Policy!AllPolicies
<1>5. ASSUME NEW p \in Policy!Defined
      PROVE  /\ [p EXCEPT !.algorithm = "blockOverrides"] \in Policy!Defined
             /\ [[p EXCEPT !.algorithm = "blockOverrides"] EXCEPT !.algorithm = "blockOverrides"]
                    = [p EXCEPT !.algorithm = "blockOverrides"]
  <2>1. p \in Policy!AllPolicies
    BY <1>2
  <2>2. [[p EXCEPT !.algorithm = "blockOverrides"] EXCEPT !.algorithm = "blockOverrides"]
            = [p EXCEPT !.algorithm = "blockOverrides"]
    BY <2>1 DEF Policy!AllPolicies
  <2>3. CASE p \in Policies
    BY <2>2, <2>3 DEF Policy!Defined
  <2>4. ASSUME NEW q \in Policies, p = [q EXCEPT !.algorithm = "blockOverrides"]
        PROVE  [p EXCEPT !.algorithm = "blockOverrides"] = p
    <3>1. q \in Policy!AllPolicies
      BY <1>1
    <3> QED BY <2>4, <3>1 DEF Policy!AllPolicies
  <2> QED BY <2>2, <2>3, <2>4 DEF Policy!Defined
<1>6. \A p \in Policy!Defined : Policy!JSON(p) = [p EXCEPT !.algorithm = "blockOverrides"]
  BY <1>2, <1>4 DEF Policy!JSON
<1>7. Policy!JSON(Policy!NoPolicy) = Policy!NoPolicy
  BY DEF Policy!JSON
<1>8. \A p \in Policy!Defined : Policy!JSON(p) \in Policy!Defined
  BY <1>5, <1>6
<1>9. \A p \in Policy!Defined : Policy!JSON(Policy!JSON(p)) = Policy!JSON(p)
  BY <1>5, <1>6, <1>8
<1>10. Policies \subseteq Policy!Defined
  BY DEF Policy!Defined
<1> QED BY <1>2, <1>4, <1>7, <1>8, <1>9, <1>10 DEF Forms

\* Settings consist of their four parts.
LEMMA SettingsAre ==
    \A a, u, p, g :
       LET s == Policy!Settings(a, u, p, g)
       IN  /\ s.active = a /\ s.user = u /\ s.provider = p /\ s.groups = g
           /\ \A S : s \in Policy!AllSettings(S) <=>
                         /\ a \in Keys \union {Policy!None} /\ u \in [Keys -> Forms]
                         /\ p \in [Policy!TargetHyperties -> Forms] /\ g \in [Groups -> S]
BY DEF Policy!Settings, Policy!AllSettings, Forms

\* Each part of saved settings has its type.
LEMMA SavedParts ==
    ASSUME NEW S, NEW s \in Policy!AllSettings(S)
    PROVE  /\ s.active \in Keys \union {Policy!None} /\ s.user \in [Keys -> Forms]
           /\ s.provider \in [Policy!TargetHyperties -> Forms] /\ s.groups \in [Groups -> S]
           /\ s = Policy!Settings(s.active, s.user, s.provider, s.groups)
BY DEF Policy!Settings, Policy!AllSettings, Forms

\* Groups have as members what their lists hold.
LEMMA MembersAre ==
    ASSUME NEW gs \in [Groups -> Lists]
    PROVE  /\ Policy!Members(gs) \in [Groups -> Bands]
           /\ \A g \in Groups : Policy!Members(gs)[g] = Policy!Range(gs[g])
<1>1. ASSUME NEW s \in Lists
      PROVE  Policy!Range(s) \in Bands
  <2>1. CASE s \in Seq(Usernames)
    <3>1. \A i \in DOMAIN s : s[i] \in Usernames
      BY <2>1, ElementOfSeq
    <3> QED BY <3>1 DEF Policy!Range, Bands
  <2>2. CASE s = Policy!NoGroup
    <3>1. Policy!Range(s) = Policy!Range(Policy!NoGroup)
      BY <2>2
    <3>2. Policy!Range(Policy!NoGroup) \in Bands
      BY DEF Bands
    <3> QED BY <3>1, <3>2
  <2> QED BY <2>1, <2>2 DEF Lists
<1>2. \A g \in Groups : gs[g] \in Lists
  OBVIOUS
<1> QED BY <1>1, <1>2 DEF Policy!Members

\* Settings that were never made.
LEMMA NothingIs ==
    /\ Policy!Empty \in Policy!AllSettings(Lists)
    /\ Policy!Empty = Policy!Settings(Policy!None, Policy!NoPolicies, Policy!NoProvider,
                                      Policy!NoGroups)
    /\ Policy!NothingAsked = Policy!Settings(Policy!None, Policy!NoPolicies, Policy!NoProvider,
                                             Policy!Members(Policy!NoGroups))
    /\ Policy!NothingAsked \in Policy!AllSettings(Bands)
    /\ Policy!NoPolicies \in [Keys -> Forms] /\ Policy!NoProvider \in [Policy!TargetHyperties -> Forms]
    /\ Policy!NoGroups \in [Groups -> Lists]
    /\ \A g \in Groups : Policy!IsInjective(Policy!NoGroups[g])
<1>1. Policy!NoPolicies \in [Keys -> Forms] /\ Policy!NoProvider \in [Policy!TargetHyperties -> Forms]
  BY SavedForms DEF Policy!NoPolicies, Policy!NoProvider
<1>2. Policy!NoGroups \in [Groups -> Lists]
  BY DEF Policy!NoGroups, Lists
<1>3. Policy!Empty = Policy!Settings(Policy!None, Policy!NoPolicies, Policy!NoProvider,
                                     Policy!NoGroups)
  BY DEF Policy!Empty
<1>4. Policy!NothingAsked = Policy!Settings(Policy!None, Policy!NoPolicies, Policy!NoProvider,
                                            Policy!Members(Policy!NoGroups))
  BY <1>3 DEF Policy!NothingAsked, Policy!Settings
<1>5. \A g \in Groups : Policy!IsInjective(Policy!NoGroups[g])
  BY DEF Policy!NoGroups, Policy!NoGroup, Policy!IsInjective
<1> QED BY <1>1, <1>2, <1>3, <1>4, <1>5, SettingsAre, MembersAre

\* No verdict is none of the provider's.
LEMMA NoVerdictIs ==
    /\ Policy!NoVerdict \in Verdicts /\ Policy!NoVerdict.wanted = Policy!None
    /\ Policy!NoVerdict.provider = Policy!NA /\ Policy!NA # "block"
BY DEF Policy!NoVerdict, Verdicts, Policy!NA, Policy!None

-----------------------------------------------------------------------------
\* Of several decisions one is made, unless none applies.
LEMMA CombineIs ==
    ASSUME NEW ds, NEW n \in Nat, ds \in [1 .. n -> {"allow", "block", Policy!NA}], NEW algorithm
    PROVE  Policy!Combine(algorithm, ds) \in {"allow", "block", Policy!NA}
<1> DEFINE some == {i \in DOMAIN ds : ds[i] # Policy!NA}
           first == IF algorithm = "allowOverrides" THEN "allow" ELSE "block"
<1>1. CASE some = {}
  BY <1>1 DEF Policy!Combine
<1>2. CASE some # {}
  <2>1. some \in SUBSET Nat /\ some \subseteq DOMAIN ds
    OBVIOUS
  <2>2. \E i \in some : \A j \in some : i <= j
    <3> HIDE DEF some
    <3> QED BY <1>2, <2>1, LeastNat
  <2>3. Policy!Min(some) \in some
    <3> HIDE DEF some
    <3> QED BY <2>2 DEF Policy!Min
  <2>4. ds[Policy!Min(some)] \in {"allow", "block", Policy!NA}
    BY <2>1, <2>3
  <2>5. \/ Policy!Combine(algorithm, ds) = first
        \/ Policy!Combine(algorithm, ds) = ds[Policy!Min(some)]
    BY <1>2 DEF Policy!Combine
  <2> HIDE DEF some
  <2> QED BY <2>4, <2>5
<1> QED BY <1>1, <1>2

\* A policy allows, blocks or does not apply.
LEMMA EvaluatePolicyIs ==
    ASSUME NEW p \in Forms, NEW gs, NEW m, NEW from
    PROVE  Policy!EvaluatePolicy(p, gs, m, from) \in {"allow", "block", Policy!NA}
<1>1. CASE p = Policy!NoPolicy
  BY <1>1 DEF Policy!EvaluatePolicy
<1>2. CASE p # Policy!NoPolicy
  <2>1. p.rules \in Seq(Policy!Rules)
    BY <1>2, SavedForms DEF Policy!AllPolicies
  <2>2. Len(p.rules) \in Nat /\ DOMAIN p.rules = 1 .. Len(p.rules)
    BY <2>1
  <2>3. \A i \in 1 .. Len(p.rules) : p.rules[i] \in Policy!Rules
    BY <2>1, ElementOfSeq
  <2> DEFINE ds == [i \in DOMAIN p.rules |-> Policy!EvaluateRule(p.rules[i], gs, m, from)]
  <2>4. \A r \in Policy!Rules : Policy!EvaluateRule(r, gs, m, from) \in {"allow", "block", Policy!NA}
    BY DEF Policy!EvaluateRule, Policy!Rules
  <2>5. ds \in [1 .. Len(p.rules) -> {"allow", "block", Policy!NA}]
    BY <2>2, <2>3, <2>4
  <2>6. Policy!EvaluatePolicy(p, gs, m, from) = Policy!Combine(p.algorithm, ds)
    BY <1>2 DEF Policy!EvaluatePolicy
  <2> HIDE DEF ds
  <2> QED BY <2>2, <2>5, <2>6, CombineIs
<1> QED BY <1>1, <1>2

\* Where the provider's policy blocks, the policies together do.
LEMMA EvaluatePoliciesIs ==
    ASSUME NEW S, NEW s \in Policy!AllSettings(S), NEW m \in Messages, NEW from
    PROVE  /\ Policy!EvaluatePolicies(s, m, from) \in {"allow", "block", Policy!NA}
           /\ s.provider[m.hyperty] \in Forms /\ Policy!ActivePolicy(s) \in Forms
           /\ Policy!EvaluatePolicy(s.provider[m.hyperty], s.groups, m, from) = "block" =>
                 Policy!EvaluatePolicies(s, m, from) = "block"
<1>1. s.provider[m.hyperty] \in Forms
  BY SavedParts DEF Policy!TargetHyperties
<1>2. Policy!ActivePolicy(s) \in Forms
  BY SavedParts, SavedForms DEF Policy!ActivePolicy
<1> DEFINE byProvider == Policy!EvaluatePolicy(s.provider[m.hyperty], s.groups, m, from)
           byUser     == Policy!EvaluatePolicy(Policy!ActivePolicy(s), s.groups, m, from)
<1>3. /\ byProvider \in {"allow", "block", Policy!NA}
      /\ byUser \in {"allow", "block", Policy!NA}
  BY <1>1, <1>2, EvaluatePolicyIs
<1>4. Policy!EvaluatePolicies(s, m, from) =
        IF byProvider = "block" \/ byUser = Policy!NA THEN byProvider ELSE byUser
  BY DEF Policy!EvaluatePolicies
<1> HIDE DEF byProvider, byUser
<1>5. /\ Policy!EvaluatePolicies(s, m, from) \in {"allow", "block", Policy!NA}
      /\ byProvider = "block" => Policy!EvaluatePolicies(s, m, from) = "block"
  BY <1>3, <1>4
<1> QED BY <1>1, <1>2, <1>5 DEF byProvider

-----------------------------------------------------------------------------
\* What was asked for is settings with sets of members.
LEMMA AskedTyped ==
    ASSUME PolicyInv
    PROVE  asked \in Policy!AllSettings(Bands)
<1>1. CASE excused
  BY <1>1, NothingIs DEF PolicyInv
<1>2. CASE ~excused
  <2>1. SettingsTyped /\ (InMemory \/ InStorage)
    BY <1>2 DEF PolicyInv
  <2>2. Policy!Members(groups) \in [Groups -> Bands]
        /\ saved.user \in [Keys -> Forms] /\ saved.provider \in [Policy!TargetHyperties -> Forms]
        /\ saved.active \in Keys \union {Policy!None}
        /\ Policy!Members(saved.groups) \in [Groups -> Bands]
    BY <2>1, SavedParts, MembersAre DEF SettingsTyped
  <2> QED BY <2>1, <2>2, SettingsAre DEF SettingsTyped, InMemory, InStorage, Current
<1> QED BY <1>1, <1>2 DEF PolicyInv

\* The invariant implies the type.
LEMMA PolicyTyped == PolicyInv => Policy!TypeOK
<1> SUFFICES ASSUME PolicyInv PROVE Policy!TypeOK
  OBVIOUS
<1>1. Policy!Settings(active, userPolicies, provider, groups) \in Policy!AllSettings(Lists)
  BY SettingsAre DEF PolicyInv, SettingsTyped
<1>2. asked \in Policy!AllSettings(Bands)
  BY AskedTyped
<1> QED BY <1>1, <1>2, LoadingsAre
        DEF PolicyInv, SettingsTyped, Policy!TypeOK, Lists, Bands, Verdicts

\* Nothing is loaded and nothing asked for: the invariant holds at first.
LEMMA PolicyInit == Policy!Init => PolicyInv
<1> SUFFICES ASSUME Policy!Init PROVE PolicyInv
  OBVIOUS
<1>1. /\ loading = 1 /\ active = Policy!None /\ userPolicies = Policy!NoPolicies
      /\ provider = Policy!NoProvider /\ groups = Policy!NoGroups
      /\ plain = {} /\ source = Policy!None /\ verdict = Policy!NoVerdict
      /\ saved = Policy!Empty /\ asked = Policy!NothingAsked /\ excused = FALSE
  BY DEF Policy!Init
<1>2. SettingsTyped
  BY <1>1, NothingIs DEF SettingsTyped
<1>3. /\ saved.active = Policy!None /\ saved.user = Policy!NoPolicies
      /\ saved.provider = Policy!NoProvider /\ saved.groups = Policy!NoGroups
  BY <1>1, NothingIs, SettingsAre
<1>4. \A k \in Keys : Policy!JSON(saved.user[k]) = saved.user[k]
  BY <1>3, SavedForms DEF Policy!NoPolicies
<1>5. InStorage
  BY <1>1, <1>3, <1>4, NothingIs DEF InStorage
<1>6. Policy!JudgedAsAsked /\ Policy!ProviderPrevails /\ verdict \in Verdicts
  BY <1>1, NoVerdictIs DEF Policy!JudgedAsAsked, Policy!ProviderPrevails
<1>7. excused \in BOOLEAN /\ ~excused
  BY <1>1, Zenon
<1>8. source \in Usernames \union {Policy!None}
  BY <1>1
<1>9. loading # 5
  BY <1>1
<1> QED BY <1>2, <1>5, <1>6, <1>7, <1>8, <1>9 DEF PolicyInv

\* A message is judged.
LEMMA AuthoriseFits ==
    ASSUME PolicyInv, NEW m \in Messages, Policy!Authorise(m)
    PROVE  PolicyInv'
<1> DEFINE now == Current
           p == provider[m.hyperty]
           u == Policy!ActivePolicy(now)
           from == Policy!Sender(m)
           d == Policy!EvaluatePolicies(now, m, from)
           want == Policy!EvaluatePolicies(asked, m, m.source)
           by == Policy!EvaluatePolicy(p, now.groups, m, from)
           wanted == IF m.source = Policy!None \/ ~Policy!Loaded THEN Policy!None
                     ELSE IF want = Policy!NA THEN "allow" ELSE want
           result == IF d = Policy!NA THEN "allow" ELSE d
           full == [result |-> result, auth |-> d # Policy!NA, acted |-> Policy!Acts(p, u),
                    provider |-> by, wanted |-> wanted]
           throws == [Policy!NoVerdict EXCEPT !.result = "throws"]
<1>1. /\ verdict' = IF m.hyperty \in plain THEN throws ELSE full
      /\ source' = IF m.hyperty \notin plain /\ (Policy!Judges(p, m) \/ Policy!Judges(u, m))
                   THEN from ELSE source
      /\ UNCHANGED <<loading, active, userPolicies, provider, groups, plain, saved, asked, excused>>
  BY DEF Policy!Authorise, Policy!kept, Current
<1>2. SettingsTyped /\ source \in Usernames \union {Policy!None}
  BY DEF PolicyInv
<1>3. now \in Policy!AllSettings(Bands) /\ asked \in Policy!AllSettings(Bands)
      /\ now.provider = provider
  BY <1>2, AskedTyped, MembersAre, SettingsAre DEF Current, SettingsTyped
<1>4. from \in Usernames \union {Policy!None} /\ (m.source # Policy!None => from = m.source)
  BY <1>2, PoliciesFit DEF Policy!Sender, Policy!None
<1> HIDE DEF now, from
<1>5. d \in {"allow", "block", Policy!NA} /\ want \in {"allow", "block", Policy!NA}
      /\ p \in Forms /\ u \in Forms /\ (by = "block" => d = "block")
  BY <1>3, EvaluatePoliciesIs
<1>6. by \in {"allow", "block", Policy!NA}
  BY <1>5, EvaluatePolicyIs
<1>7. ASSUME ~excused, wanted # Policy!None
      PROVE  result = wanted
  <2>1. m.source # Policy!None /\ loading = 5
    BY <1>7, LoadingsAre
  <2>2. asked = now
    BY <1>7, <2>1 DEF PolicyInv, InMemory, now
  <2> QED BY <1>4, <1>7, <2>1, <2>2
<1>8. Policy!Acts(p, u) \in BOOLEAN
  BY <1>5, SavedForms DEF Policy!Acts, Policy!AllPolicies
<1> HIDE DEF d, want, by, p, u
<1>9. wanted \in {"allow", "block", Policy!None} /\ result \in {"allow", "block"}
  BY <1>5
<1> HIDE DEF wanted
<1>10. full \in Verdicts /\ full.wanted = wanted /\ full.provider = by /\ full.result = result
  BY <1>6, <1>8, <1>9 DEF Verdicts
<1>11. by = "block" => result = "block"
  BY <1>5 DEF Policy!NA
<1> HIDE DEF result, full
<1>12. throws \in Verdicts /\ throws.wanted = Policy!None /\ throws.provider = Policy!NA
  BY DEF Verdicts, Policy!NoVerdict
<1> HIDE DEF throws
<1>13. verdict' \in Verdicts /\ Policy!ProviderPrevails'
  BY <1>1, <1>10, <1>11, <1>12, NoVerdictIs DEF Policy!ProviderPrevails
<1>14. Policy!JudgedAsAsked'
  BY <1>1, <1>7, <1>10, <1>12 DEF Policy!JudgedAsAsked
<1>15. source' \in Usernames \union {Policy!None}
  BY <1>1, <1>2, <1>4
<1>16. (SettingsTyped /\ (InMemory <=> InMemory') /\ (InStorage <=> InStorage'))
       /\ SettingsTyped'
  BY <1>1, <1>2 DEF SettingsTyped, InMemory, InStorage, Current
<1> QED BY <1>1, <1>13, <1>14, <1>15, <1>16 DEF PolicyInv

\* What the user or the provider asks for is in memory and saved, unless something is lost.
LEMMA ChangeFits ==
    ASSUME PolicyInv, verdict' = Policy!NoVerdict, UNCHANGED <<loading, source>>,
           SettingsTyped', excused' \in BOOLEAN, excused => excused',
           ~Policy!Loaded => excused',
           excused' => asked' = Policy!NothingAsked,
           ~excused' => InMemory'
    PROVE  PolicyInv'
<1>1. verdict' \in Verdicts /\ Policy!JudgedAsAsked' /\ Policy!ProviderPrevails'
  BY NoVerdictIs DEF Policy!JudgedAsAsked, Policy!ProviderPrevails
<1> QED BY <1>1, LoadingsAre DEF PolicyInv

\* A change is asked for, or is excused.
LEMMA WantIs ==
    ASSUME PolicyInv, NEW new, NEW gone \in BOOLEAN, Policy!Want(new, gone)
    PROVE  /\ excused' \in BOOLEAN /\ (excused => excused') /\ (gone => excused')
           /\ (excused' => asked' = Policy!NothingAsked)
           /\ (~excused' => ~excused /\ ~gone /\ asked' = new)
<1>1. excused' = (excused \/ gone)
  BY DEF Policy!Want
<1>2. excused' \in BOOLEAN
  BY <1>1, Zenon
<1>3. asked' = IF excused' THEN Policy!NothingAsked ELSE new
  BY DEF Policy!Want
<1> QED BY <1>1, <1>2, <1>3

\* A change is excused before the settings are loaded.
LEMMA ChangeIs ==
    ASSUME PolicyInv, NEW new, Policy!Change(new)
    PROVE  /\ excused' \in BOOLEAN /\ (excused => excused') /\ (~Policy!Loaded => excused')
           /\ (excused' => asked' = Policy!NothingAsked)
           /\ (~excused' => InMemory /\ asked' = new)
           /\ verdict' = Policy!NoVerdict /\ UNCHANGED <<loading, source>>
<1>1. Policy!Want(new, ~Policy!Loaded) /\ verdict' = Policy!NoVerdict /\ UNCHANGED <<loading, source>>
  BY DEF Policy!Change
<1>2. /\ excused' \in BOOLEAN /\ (excused => excused') /\ (~Policy!Loaded => excused')
      /\ (excused' => asked' = Policy!NothingAsked)
      /\ (~excused' => ~excused /\ Policy!Loaded /\ asked' = new)
  BY <1>1, WantIs
<1> QED BY <1>1, <1>2, LoadingsAre DEF PolicyInv

\* What is saved, a part at a time.
LEMMA SavedChanges ==
    ASSUME NEW s \in Policy!AllSettings(Lists)
    PROVE  /\ \A x \in [Keys -> Forms] :
                 LET t == [s EXCEPT !.user = x]
                 IN  /\ t \in Policy!AllSettings(Lists) /\ t.user = x
                     /\ t.active = s.active /\ t.provider = s.provider /\ t.groups = s.groups
           /\ \A x \in [Policy!TargetHyperties -> Forms] :
                 LET t == [s EXCEPT !.provider = x]
                 IN  /\ t \in Policy!AllSettings(Lists) /\ t.provider = x
                     /\ t.active = s.active /\ t.user = s.user /\ t.groups = s.groups
           /\ \A x \in [Groups -> Lists] :
                 LET t == [s EXCEPT !.groups = x]
                 IN  /\ t \in Policy!AllSettings(Lists) /\ t.groups = x
                     /\ t.active = s.active /\ t.user = s.user /\ t.provider = s.provider
           /\ \A x \in Keys \union {Policy!None} :
                 LET t == [s EXCEPT !.active = x]
                 IN  /\ t \in Policy!AllSettings(Lists) /\ t.active = x
                     /\ t.groups = s.groups /\ t.user = s.user /\ t.provider = s.provider
<1> DEFINE U == [Keys -> Forms]
           P == [Policy!TargetHyperties -> Forms]
           G == [Groups -> Lists]
           A == Keys \union {Policy!None}
<1>1. Policy!AllSettings(Lists) = [active : A, user : U, provider : P, groups : G]
  BY DEF Policy!AllSettings, Forms
<1> HIDE DEF U, P, G, A
<1>2. s \in [active : A, user : U, provider : P, groups : G]
  BY <1>1
<1>3. /\ \A x \in U : LET t == [s EXCEPT !.user = x]
                      IN  /\ t \in [active : A, user : U, provider : P, groups : G] /\ t.user = x
                          /\ t.active = s.active /\ t.provider = s.provider /\ t.groups = s.groups
      /\ \A x \in P : LET t == [s EXCEPT !.provider = x]
                      IN  /\ t \in [active : A, user : U, provider : P, groups : G]
                          /\ t.provider = x
                          /\ t.active = s.active /\ t.user = s.user /\ t.groups = s.groups
  BY <1>2
<1>4. \A x \in G : LET t == [s EXCEPT !.groups = x]
                   IN  /\ t \in [active : A, user : U, provider : P, groups : G]
                       /\ t.groups = x
                       /\ t.active = s.active /\ t.user = s.user /\ t.provider = s.provider
  BY <1>2
<1>5. \A x \in A : LET t == [s EXCEPT !.active = x]
                   IN  /\ t \in [active : A, user : U, provider : P, groups : G]
                       /\ t.active = x
                       /\ t.groups = s.groups /\ t.user = s.user /\ t.provider = s.provider
  BY <1>2
<1> QED BY <1>1, <1>3, <1>4, <1>5 DEF U, P, G, A

\* All user policies are saved, as far as they can be.
LEMMA SaveUser ==
    ASSUME SettingsTyped, userPolicies' \in [Keys -> Forms], Policy!SaveUserPolicies
    PROVE  /\ saved' \in Policy!AllSettings(Lists)
           /\ saved'.user = [k \in Keys |-> Policy!JSON(userPolicies'[k])]
           /\ saved'.active = saved.active /\ saved'.provider = saved.provider
           /\ saved'.groups = saved.groups
<1> DEFINE x == [k \in Keys |-> Policy!JSON(userPolicies'[k])]
<1>1. x \in [Keys -> Forms]
  BY SavedForms
<1>2. saved' = [saved EXCEPT !.user = x]
  BY DEF Policy!SaveUserPolicies
<1> HIDE DEF x
<1>3. saved' \in Policy!AllSettings(Lists) /\ saved'.user = x
      /\ saved'.active = saved.active /\ saved'.provider = saved.provider
      /\ saved'.groups = saved.groups
  BY <1>1, <1>2, SavedChanges DEF SettingsTyped
<1> QED BY <1>3 DEF x

-----------------------------------------------------------------------------
\* A user's policy is in memory and in storage as it was asked for.
LEMMA AddUserPolicyFits ==
    ASSUME PolicyInv, NEW k \in Keys, NEW p \in Policies, Policy!AddUserPolicy(k, p)
    PROVE  PolicyInv'
<1>1. /\ userPolicies' = [userPolicies EXCEPT ![k] = p] /\ Policy!SaveUserPolicies
      /\ Policy!Change([asked EXCEPT !.user[k] = p])
      /\ UNCHANGED <<active, provider, groups, plain>>
  BY DEF Policy!AddUserPolicy
<1>2. SettingsTyped
  BY DEF PolicyInv
<1>3. /\ excused' \in BOOLEAN /\ (excused => excused') /\ (~Policy!Loaded => excused')
      /\ (excused' => asked' = Policy!NothingAsked)
      /\ (~excused' => InMemory /\ asked' = [asked EXCEPT !.user[k] = p])
      /\ verdict' = Policy!NoVerdict /\ UNCHANGED <<loading, source>>
  BY <1>1, ChangeIs
<1>4. userPolicies' \in [Keys -> Forms]
  BY <1>1, <1>2, SavedForms DEF SettingsTyped
<1>5. /\ saved' \in Policy!AllSettings(Lists)
      /\ saved'.user = [i \in Keys |-> Policy!JSON(userPolicies'[i])]
      /\ saved'.provider = saved.provider /\ saved'.groups = saved.groups
  BY <1>1, <1>2, <1>4, SaveUser
<1>6. SettingsTyped'
  BY <1>1, <1>2, <1>3, <1>4, <1>5 DEF SettingsTyped
<1>7. ASSUME ~excused'
      PROVE  InMemory'
  <2>1. asked' = Current'
    BY <1>1, <1>3, <1>7 DEF InMemory, Current, Policy!Settings
  <2> QED BY <1>1, <1>3, <1>5, <1>7, <2>1 DEF InMemory
<1> QED BY <1>3, <1>6, <1>7, ChangeFits

\* So is a provider's policy.
LEMMA AddProviderPolicyFits ==
    ASSUME PolicyInv, NEW h \in Policy!TargetHyperties, NEW p \in Policies, Policy!AddProviderPolicy(h, p)
    PROVE  PolicyInv'
<1> DEFINE x == [i \in Policy!TargetHyperties |-> Policy!JSON(provider'[i])]
<1>1. /\ provider' = [provider EXCEPT ![h] = p] /\ plain' = plain \ {h}
      /\ saved' = [saved EXCEPT !.provider = x]
      /\ Policy!Change([asked EXCEPT !.provider[h] = p])
      /\ UNCHANGED <<active, userPolicies, groups>>
  BY DEF Policy!AddProviderPolicy
<1>2. SettingsTyped
  BY DEF PolicyInv
<1>3. /\ excused' \in BOOLEAN /\ (excused => excused') /\ (~Policy!Loaded => excused')
      /\ (excused' => asked' = Policy!NothingAsked)
      /\ (~excused' => InMemory /\ asked' = [asked EXCEPT !.provider[h] = p])
      /\ verdict' = Policy!NoVerdict /\ UNCHANGED <<loading, source>>
  BY <1>1, ChangeIs
<1>4. provider' \in [Policy!TargetHyperties -> Forms]
  BY <1>1, <1>2, SavedForms DEF SettingsTyped
<1>5. x \in [Policy!TargetHyperties -> Forms]
      /\ \A i \in Policy!TargetHyperties : provider'[i] # Policy!NoPolicy => x[i] # Policy!NoPolicy
  BY <1>4, SavedForms
<1> HIDE DEF x
<1>6. /\ saved' \in Policy!AllSettings(Lists) /\ saved'.provider = x
      /\ saved'.user = saved.user /\ saved'.groups = saved.groups
  BY <1>1, <1>2, <1>5, SavedChanges DEF SettingsTyped
<1>7. SettingsTyped'
  BY <1>1, <1>2, <1>3, <1>4, <1>6 DEF SettingsTyped
<1>8. ASSUME ~excused'
      PROVE  InMemory'
  <2>1. asked' = Current'
    BY <1>1, <1>3, <1>8 DEF InMemory, Current, Policy!Settings
  <2> QED BY <1>1, <1>3, <1>5, <1>6, <1>8, <2>1 DEF InMemory
<1> QED BY <1>3, <1>7, <1>8, ChangeFits

\* The active policy is activated in memory, and saved later.
LEMMA ActivateFits ==
    ASSUME PolicyInv, NEW k \in Keys, Policy!Activate(k)
    PROVE  PolicyInv'
<1>1. /\ active' = k /\ Policy!Change([asked EXCEPT !.active = k])
      /\ UNCHANGED <<saved, userPolicies, provider, groups, plain>>
  BY DEF Policy!Activate
<1>2. /\ excused' \in BOOLEAN /\ (excused => excused') /\ (~Policy!Loaded => excused')
      /\ (excused' => asked' = Policy!NothingAsked)
      /\ (~excused' => InMemory /\ asked' = [asked EXCEPT !.active = k])
      /\ verdict' = Policy!NoVerdict /\ UNCHANGED <<loading, source>>
  BY <1>1, ChangeIs
<1>3. SettingsTyped'
  BY <1>1, <1>2 DEF PolicyInv, SettingsTyped
<1>4. ASSUME ~excused'
      PROVE  InMemory'
  <2>1. asked' = Current'
    BY <1>1, <1>2, <1>4 DEF InMemory, Current, Policy!Settings
  <2> QED BY <1>1, <1>2, <1>4, <2>1 DEF InMemory
<1> QED BY <1>2, <1>3, <1>4, ChangeFits

\* Saving the active policy keeps the invariant.
LEMMA SaveActivePolicyFits ==
    ASSUME PolicyInv, Policy!SaveActivePolicy
    PROVE  PolicyInv'
<1>1. /\ saved' = [saved EXCEPT !.active = active] /\ Policy!Change(asked)
      /\ UNCHANGED <<active, userPolicies, provider, groups, plain>>
  BY DEF Policy!SaveActivePolicy, Policy!kept
<1>2. SettingsTyped
  BY DEF PolicyInv
<1>3. /\ excused' \in BOOLEAN /\ (excused => excused') /\ (~Policy!Loaded => excused')
      /\ (excused' => asked' = Policy!NothingAsked)
      /\ (~excused' => InMemory /\ asked' = asked)
      /\ verdict' = Policy!NoVerdict /\ UNCHANGED <<loading, source>>
  BY <1>1, ChangeIs
<1>4. /\ saved' \in Policy!AllSettings(Lists) /\ saved'.provider = saved.provider
      /\ saved'.user = saved.user /\ saved'.groups = saved.groups
  BY <1>1, <1>2, SavedChanges DEF SettingsTyped
<1>5. SettingsTyped'
  BY <1>1, <1>2, <1>3, <1>4 DEF SettingsTyped
<1>6. ASSUME ~excused'
      PROVE  InMemory'
  BY <1>1, <1>3, <1>4, <1>6 DEF InMemory, Current
<1> QED BY <1>3, <1>5, <1>6, ChangeFits

\* So does removing a user's policy, which may be the active one.
LEMMA RemoveUserPolicyFits ==
    ASSUME PolicyInv, NEW k \in Keys, Policy!RemoveUserPolicy(k)
    PROVE  PolicyInv'
<1> DEFINE x == [i \in Keys |-> Policy!JSON(userPolicies'[i])]
           a == IF active = k THEN Policy!None ELSE saved.active
           b == IF asked.active = k THEN Policy!None ELSE asked.active
           new == [asked EXCEPT !.user[k] = Policy!NoPolicy,
                                !.active = IF @ = k THEN Policy!None ELSE @]
<1>1. /\ userPolicies' = [userPolicies EXCEPT ![k] = Policy!NoPolicy]
      /\ active' = IF active = k THEN Policy!None ELSE active
      /\ saved' = [saved EXCEPT !.user = x, !.active = IF active = k THEN Policy!None ELSE @]
      /\ Policy!Change(new)
      /\ UNCHANGED <<provider, groups, plain>>
  BY DEF Policy!RemoveUserPolicy
<1>2. SettingsTyped
  BY DEF PolicyInv
<1>3. /\ excused' \in BOOLEAN /\ (excused => excused') /\ (~Policy!Loaded => excused')
      /\ (excused' => asked' = Policy!NothingAsked)
      /\ (~excused' => InMemory /\ asked' = new)
      /\ verdict' = Policy!NoVerdict /\ UNCHANGED <<loading, source>>
  <2> HIDE DEF new
  <2> QED BY <1>1, ChangeIs
<1>4. userPolicies' \in [Keys -> Forms]
  BY <1>1, <1>2, SavedForms DEF SettingsTyped
<1>5. x \in [Keys -> Forms] /\ a \in Keys \union {Policy!None}
  BY <1>2, <1>4, SavedForms, SavedParts DEF SettingsTyped
<1>6. saved' = [[saved EXCEPT !.user = x] EXCEPT !.active = a]
  BY <1>1, <1>2 DEF SettingsTyped, Policy!AllSettings
<1> HIDE DEF a
<1>7. /\ saved' \in Policy!AllSettings(Lists) /\ saved'.provider = saved.provider
      /\ saved'.user = x /\ saved'.groups = saved.groups
  <2> HIDE DEF x
  <2> DEFINE t == [saved EXCEPT !.user = x]
  <2>1. /\ t \in Policy!AllSettings(Lists) /\ t.user = x /\ t.provider = saved.provider
        /\ t.groups = saved.groups
    BY <1>2, <1>5, SavedChanges DEF SettingsTyped
  <2> HIDE DEF t
  <2>2. saved' = [t EXCEPT !.active = a]
    BY <1>6 DEF t
  <2> QED BY <1>5, <2>1, <2>2, SavedChanges
<1>8. SettingsTyped'
  BY <1>1, <1>2, <1>3, <1>4, <1>7 DEF SettingsTyped
<1>9. ASSUME ~excused'
      PROVE  InMemory'
  <2>1. asked = Current /\ asked.active = active /\ asked' = new
    BY <1>3, <1>9, SettingsAre DEF InMemory, Current
  <2>2. asked' = Policy!Settings(active', userPolicies', provider, Policy!Members(groups))
    BY <1>1, <2>1 DEF Current, Policy!Settings
  <2>3. asked' = Current'
    BY <1>1, <2>2 DEF Current
  <2>4. \A h \in Policy!TargetHyperties :
            provider'[h] # Policy!NoPolicy => saved'.provider[h] # Policy!NoPolicy
    BY <1>1, <1>3, <1>7, <1>9 DEF InMemory
  <2> QED BY <1>1, <1>3, <1>7, <1>9, <2>3, <2>4 DEF InMemory
<1> QED BY <1>3, <1>8, <1>9, ChangeFits

\* So does removing a provider's policy.
LEMMA RemoveProviderPolicyFits ==
    ASSUME PolicyInv, NEW h \in Policy!TargetHyperties, Policy!RemoveProviderPolicy(h)
    PROVE  PolicyInv'
<1>1. /\ provider' = [provider EXCEPT ![h] = Policy!NoPolicy] /\ plain' = plain \ {h}
      /\ Policy!Change([asked EXCEPT !.provider[h] = Policy!NoPolicy])
      /\ UNCHANGED <<saved, active, userPolicies, groups>>
  BY DEF Policy!RemoveProviderPolicy
<1>2. SettingsTyped
  BY DEF PolicyInv
<1>3. /\ excused' \in BOOLEAN /\ (excused => excused') /\ (~Policy!Loaded => excused')
      /\ (excused' => asked' = Policy!NothingAsked)
      /\ (~excused' => InMemory /\ asked' = [asked EXCEPT !.provider[h] = Policy!NoPolicy])
      /\ verdict' = Policy!NoVerdict /\ UNCHANGED <<loading, source>>
  BY <1>1, ChangeIs
<1>4. provider' \in [Policy!TargetHyperties -> Forms]
  BY <1>1, <1>2, SavedForms DEF SettingsTyped
<1>5. SettingsTyped'
  BY <1>1, <1>2, <1>3, <1>4 DEF SettingsTyped
<1>6. ASSUME ~excused'
      PROVE  InMemory'
  <2>1. asked' = Current'
    BY <1>1, <1>3, <1>6 DEF InMemory, Current, Policy!Settings
  <2>2. \A i \in Policy!TargetHyperties : provider'[i] # Policy!NoPolicy => provider[i] # Policy!NoPolicy
    BY <1>1, <1>2 DEF SettingsTyped
  <2> QED BY <1>1, <1>3, <1>6, <2>1, <2>2 DEF InMemory
<1> QED BY <1>3, <1>5, <1>6, ChangeFits

\* So does removing them all.
LEMMA RemoveAllPoliciesFits ==
    ASSUME PolicyInv, Policy!RemoveAllPolicies
    PROVE  PolicyInv'
<1>1. /\ active' = Policy!None /\ userPolicies' = Policy!NoPolicies
      /\ provider' = Policy!NoProvider /\ plain' = {}
      /\ saved' = [Policy!Empty EXCEPT !.groups = saved.groups]
      /\ Policy!Change([Policy!NothingAsked EXCEPT !.groups = asked.groups])
      /\ UNCHANGED groups
  BY DEF Policy!RemoveAllPolicies
<1>2. SettingsTyped
  BY DEF PolicyInv
<1>3. /\ excused' \in BOOLEAN /\ (excused => excused') /\ (~Policy!Loaded => excused')
      /\ (excused' => asked' = Policy!NothingAsked)
      /\ (~excused' => InMemory /\ asked' = [Policy!NothingAsked EXCEPT !.groups = asked.groups])
      /\ verdict' = Policy!NoVerdict /\ UNCHANGED <<loading, source>>
  BY <1>1, ChangeIs
<1>4. saved.groups \in [Groups -> Lists]
  BY <1>2, SavedParts DEF SettingsTyped
<1>5. saved' = Policy!Settings(Policy!None, Policy!NoPolicies, Policy!NoProvider, saved.groups)
  BY <1>1, NothingIs DEF Policy!Settings
<1>6. /\ saved' \in Policy!AllSettings(Lists) /\ saved'.user = Policy!NoPolicies
      /\ saved'.groups = saved.groups
  BY <1>4, <1>5, NothingIs, SettingsAre
<1>7. SettingsTyped'
  BY <1>1, <1>2, <1>3, <1>6, NothingIs DEF SettingsTyped
<1>8. ASSUME ~excused'
      PROVE  InMemory'
  <2>1. asked.groups = Policy!Members(groups) /\ saved.groups = groups
    BY <1>3, <1>8, SettingsAre DEF InMemory, Current
  <2>2. asked' = Policy!Settings(Policy!None, Policy!NoPolicies, Policy!NoProvider,
                                 Policy!Members(groups))
    BY <1>3, <1>8, <2>1, NothingIs DEF Policy!Settings
  <2>3. asked' = Current'
    BY <1>1, <2>2 DEF Current
  <2>4. Policy!NoPolicies = [k \in Keys |-> Policy!JSON(Policy!NoPolicies[k])]
    BY SavedForms DEF Policy!NoPolicies
  <2>5. \A h \in Policy!TargetHyperties : Policy!NoProvider[h] = Policy!NoPolicy
    BY DEF Policy!NoProvider
  <2> QED BY <1>1, <1>3, <1>6, <1>8, <2>1, <2>3, <2>4, <2>5 DEF InMemory
<1> QED BY <1>3, <1>7, <1>8, ChangeFits

-----------------------------------------------------------------------------
(* Groups.                                                                 *)

\* Without one of its elements, a sequence that has each once has all others, once.
LEMMA MemberRemoved ==
    ASSUME NEW S, NEW s \in Seq(S), NEW i \in 1 .. Len(s)
    PROVE  /\ Policy!RemoveAt(s, i) \in Seq(S)
           /\ Policy!IsInjective(s) =>
                 /\ Policy!IsInjective(Policy!RemoveAt(s, i))
                 /\ Policy!Range(Policy!RemoveAt(s, i)) = Policy!Range(s) \ {s[i]}
<1> DEFINE a == SubSeq(s, 1, i - 1)
           b == SubSeq(s, i + 1, Len(s))
           t == Policy!RemoveAt(s, i)
<1>1. t = a \o b
  BY DEF Policy!RemoveAt
<1>2. Len(s) \in Nat /\ i \in Nat /\ i >= 1 /\ i <= Len(s) /\ DOMAIN s = 1 .. Len(s)
  OBVIOUS
<1>3. \A j \in 1 .. Len(s) : s[j] \in S
  BY ElementOfSeq
<1>4. /\ a \in Seq(S) /\ Len(a) = i - 1 /\ \A j \in 1 .. i - 1 : a[j] = s[j]
  <2>1. 1 \in Int /\ i - 1 \in Int /\ \A j \in 1 .. i - 1 : s[j] \in S
    BY <1>2, <1>3
  <2>2. /\ SubSeq(s, 1, i - 1) \in Seq(S)
        /\ Len(SubSeq(s, 1, i - 1)) = IF 1 <= i - 1 THEN i - 1 - 1 + 1 ELSE 0
        /\ \A j \in 1 .. i - 1 - 1 + 1 : SubSeq(s, 1, i - 1)[j] = s[1 + j - 1]
    BY <2>1, SubSeqProperties
  <2> HIDE DEF a
  <2> QED BY <1>2, <2>2 DEF a
<1>5. /\ b \in Seq(S) /\ Len(b) = Len(s) - i
      /\ \A j \in 1 .. Len(s) - i : b[j] = s[i + j]
  <2>1. i + 1 \in Int /\ Len(s) \in Int /\ \A j \in i + 1 .. Len(s) : s[j] \in S
    BY <1>2, <1>3
  <2>2. /\ SubSeq(s, i + 1, Len(s)) \in Seq(S)
        /\ Len(SubSeq(s, i + 1, Len(s))) = IF i + 1 <= Len(s) THEN Len(s) - (i + 1) + 1 ELSE 0
        /\ \A j \in 1 .. Len(s) - (i + 1) + 1 : SubSeq(s, i + 1, Len(s))[j] = s[i + 1 + j - 1]
    BY <2>1, SubSeqProperties
  <2>3. b = SubSeq(s, i + 1, Len(s))
    BY DEF b
  <2> HIDE DEF b
  <2>4. Len(b) = Len(s) - i
    <3>1. CASE i + 1 <= Len(s)
      <4>1. Len(b) = Len(s) - (i + 1) + 1
        BY <2>2, <2>3, <3>1
      <4> QED BY <1>2, <4>1
    <3>2. CASE ~(i + 1 <= Len(s))
      <4>1. Len(b) = 0
        BY <2>2, <2>3, <3>2
      <4> DEFINE n == Len(s)
      <4>2. n \in Nat /\ i \in Nat /\ i <= n /\ ~(i + 1 <= n)
        BY <1>2, <3>2
      <4> HIDE DEF n
      <4>3. 0 = n - i
        BY <4>2
      <4> QED BY <4>1, <4>3 DEF n
    <3> QED BY <3>1, <3>2
  <2>5. ASSUME NEW j \in 1 .. Len(s) - i
        PROVE  b[j] = s[i + j]
    <3>1. j \in 1 .. Len(s) - (i + 1) + 1 /\ i + 1 + j - 1 = i + j
      BY <1>2
    <3> QED BY <2>2, <2>3, <3>1
  <2> QED BY <2>2, <2>3, <2>4, <2>5
<1> HIDE DEF a, b, t
<1>6. /\ t \in Seq(S) /\ Len(t) = Len(a) + Len(b)
      /\ \A j \in 1 .. Len(a) + Len(b) : t[j] = IF j <= Len(a) THEN a[j] ELSE b[j - Len(a)]
  BY <1>1, <1>4, <1>5, ConcatProperties
<1>7. Len(t) = Len(s) - 1 /\ DOMAIN t = 1 .. Len(s) - 1
  BY <1>2, <1>4, <1>5, <1>6
<1>8. \A j \in 1 .. Len(s) - 1 : t[j] = IF j < i THEN s[j] ELSE s[j + 1]
  <2> SUFFICES ASSUME NEW j \in 1 .. Len(s) - 1
               PROVE  t[j] = IF j < i THEN s[j] ELSE s[j + 1]
    OBVIOUS
  <2>1. t[j] = IF j <= Len(a) THEN a[j] ELSE b[j - Len(a)]
    BY <1>2, <1>4, <1>5, <1>6
  <2>2. CASE j < i
    <3>1. j <= Len(a) /\ j \in 1 .. i - 1
      BY <1>2, <1>4, <2>2
    <3> QED BY <1>4, <2>1, <2>2, <3>1
  <2>3. CASE ~(j < i)
    <3>1. ~(j <= Len(a)) /\ j - Len(a) \in 1 .. Len(s) - i /\ i + (j - Len(a)) = j + 1
      BY <1>2, <1>4, <2>3
    <3> QED BY <1>5, <2>1, <2>3, <3>1
  <2> QED BY <2>2, <2>3
<1>9. ASSUME Policy!IsInjective(s)
      PROVE  Policy!IsInjective(t) /\ Policy!Range(t) = Policy!Range(s) \ {s[i]}
  <2>1. \A x, y \in 1 .. Len(s) : s[x] = s[y] => x = y
    BY <1>2, <1>9 DEF Policy!IsInjective
  <2>2. ASSUME NEW x \in 1 .. Len(s) - 1, NEW y \in 1 .. Len(s) - 1, t[x] = t[y]
        PROVE  x = y
    <3> DEFINE at(j) == IF j < i THEN j ELSE j + 1
    <3>1. at(x) \in 1 .. Len(s) /\ at(y) \in 1 .. Len(s)
      BY <1>2
    <3>2. t[x] = s[at(x)] /\ t[y] = s[at(y)]
      BY <1>8
    <3> HIDE DEF at
    <3>3. at(x) = at(y)
      BY <2>1, <2>2, <3>1, <3>2
    <3> QED BY <1>2, <3>3 DEF at
  <2>3. Policy!IsInjective(t)
    BY <1>7, <2>2 DEF Policy!IsInjective
  <2>4. ASSUME NEW x \in 1 .. Len(s) - 1
        PROVE  \E j \in 1 .. Len(s) : t[x] = s[j] /\ s[j] # s[i]
    <3>1. CASE x < i
      <4>1. t[x] = s[x] /\ x \in 1 .. Len(s) /\ x # i
        BY <1>2, <1>8, <3>1
      <4> QED BY <2>1, <4>1
    <3>2. CASE ~(x < i)
      <4>1. t[x] = s[x + 1] /\ x + 1 \in 1 .. Len(s) /\ x + 1 # i
        BY <1>2, <1>8, <3>2
      <4> QED BY <2>1, <4>1
    <3> QED BY <3>1, <3>2
  <2>5. ASSUME NEW j \in 1 .. Len(s), s[j] # s[i]
        PROVE  \E x \in 1 .. Len(s) - 1 : t[x] = s[j]
    <3>1. CASE j < i
      <4>1. j \in 1 .. Len(s) - 1 /\ t[j] = s[j]
        BY <1>2, <1>8, <3>1
      <4> QED BY <4>1
    <3>2. CASE j > i
      <4>1. j - 1 \in 1 .. Len(s) - 1 /\ t[j - 1] = s[j]
        BY <1>2, <1>8, <3>2
      <4> QED BY <4>1
    <3>3. j < i \/ j > i
      BY <1>2, <2>5
    <3> QED BY <3>1, <3>2, <3>3
  <2>6. Policy!Range(t) = {t[x] : x \in 1 .. Len(s) - 1}
        /\ Policy!Range(s) = {s[j] : j \in 1 .. Len(s)}
    BY <1>2, <1>7 DEF Policy!Range
  <2>7. ASSUME NEW v
        PROVE  v \in Policy!Range(t) <=> v \in Policy!Range(s) \ {s[i]}
    <3>1. v \in Policy!Range(t) => v \in Policy!Range(s) \ {s[i]}
      BY <2>4, <2>6
    <3>2. v \in Policy!Range(s) \ {s[i]} => v \in Policy!Range(t)
      BY <2>5, <2>6
    <3> QED BY <3>1, <3>2
  <2>8. Policy!Range(t) = Policy!Range(s) \ {s[i]}
    BY <2>7
  <2> QED BY <2>3, <2>8
<1> QED BY <1>6, <1>9 DEF t

\* A new member is the only one of that name.
LEMMA MemberAdded ==
    ASSUME NEW S, NEW s \in Seq(S), NEW u \in S
    PROVE  /\ Append(s, u) \in Seq(S)
           /\ Policy!Range(Append(s, u)) = Policy!Range(s) \union {u}
           /\ (Policy!IsInjective(s) /\ ~Policy!Contains(s, u)) => Policy!IsInjective(Append(s, u))
<1> DEFINE t == Append(s, u)
<1>1. /\ t \in Seq(S) /\ Len(t) = Len(s) + 1 /\ t[Len(s) + 1] = u
      /\ \A i \in 1 .. Len(s) : t[i] = s[i]
  BY AppendProperties
<1>2. Len(s) \in Nat /\ DOMAIN s = 1 .. Len(s) /\ DOMAIN t = 1 .. Len(s) + 1
  BY <1>1
<1> HIDE DEF t
<1>3. Policy!Range(t) = {t[x] : x \in 1 .. Len(s) + 1} /\ Policy!Range(s) = {s[x] : x \in 1 .. Len(s)}
  BY <1>2 DEF Policy!Range
<1>4. \A x \in 1 .. Len(s) + 1 : x \in 1 .. Len(s) \/ x = Len(s) + 1
  BY <1>2
<1>5. \A x \in 1 .. Len(s) : x \in 1 .. Len(s) + 1
  BY <1>2
<1>6. Policy!Range(t) = Policy!Range(s) \union {u}
  <2>1. Len(s) + 1 \in 1 .. Len(s) + 1
    BY <1>2
  <2> QED BY <1>1, <1>3, <1>4, <1>5, <2>1
<1>7. ASSUME Policy!IsInjective(s), ~Policy!Contains(s, u)
      PROVE  Policy!IsInjective(t)
  <2>1. \A x \in 1 .. Len(s) : s[x] # u
    BY <1>7 DEF Policy!Contains
  <2>2. \A x, y \in 1 .. Len(s) : s[x] = s[y] => x = y
    BY <1>2, <1>7 DEF Policy!IsInjective
  <2>3. \A x, y \in 1 .. Len(s) + 1 : t[x] = t[y] => x = y
    BY <1>1, <1>4, <2>1, <2>2
  <2> QED BY <1>2, <2>3 DEF Policy!IsInjective
<1> QED BY <1>1, <1>6, <1>7 DEF t

\* A group gets other members.
LEMMA GroupFits ==
    ASSUME PolicyInv, NEW g \in Groups, NEW members \in Lists, Policy!SetGroup(g, members),
           verdict' = Policy!NoVerdict, UNCHANGED <<loading, source>>,
           excused' \in BOOLEAN, excused => excused', ~Policy!Loaded => excused',
           excused' => asked' = Policy!NothingAsked,
           ~excused' => /\ InMemory /\ Policy!IsInjective(members)
                        /\ asked' = [asked EXCEPT !.groups[g] = Policy!Range(members)]
    PROVE  PolicyInv'
<1>1. /\ groups' = [groups EXCEPT ![g] = members] /\ saved' = [saved EXCEPT !.groups = groups']
      /\ UNCHANGED <<active, userPolicies, provider, plain>>
  BY DEF Policy!SetGroup
<1>2. SettingsTyped
  BY DEF PolicyInv
<1>3. groups' \in [Groups -> Lists]
      /\ \A h \in Groups : groups'[h] = IF h = g THEN members ELSE groups[h]
  BY <1>1, <1>2 DEF SettingsTyped
<1>4. /\ saved' \in Policy!AllSettings(Lists) /\ saved'.groups = groups'
      /\ saved'.user = saved.user /\ saved'.provider = saved.provider
  BY <1>1, <1>2, <1>3, SavedChanges DEF SettingsTyped
<1>5. SettingsTyped'
  BY <1>1, <1>2, <1>3, <1>4 DEF SettingsTyped
<1>6. Policy!Members(groups') = [Policy!Members(groups) EXCEPT ![g] = Policy!Range(members)]
  BY <1>3 DEF Policy!Members
<1>7. ASSUME ~excused'
      PROVE  InMemory'
  <2>1. asked' = Policy!Settings(active, userPolicies, provider, Policy!Members(groups'))
    BY <1>6, <1>7 DEF InMemory, Current, Policy!Settings
  <2>2. asked' = Current'
    BY <1>1, <2>1 DEF Current
  <2>3. \A h \in Groups : Policy!IsInjective(groups'[h])
    BY <1>3, <1>7 DEF InMemory
  <2> QED BY <1>1, <1>4, <1>7, <2>2, <2>3 DEF InMemory
<1> QED BY <1>5, <1>7, ChangeFits

\* A group is created empty, and deleted.
LEMMA CreateGroupFits ==
    ASSUME PolicyInv, NEW g \in Groups, Policy!CreateGroup(g) \/ Policy!DeleteGroup(g)
    PROVE  PolicyInv'
<1>1. PICK members \in {<<>>, Policy!NoGroup} :
          Policy!SetGroup(g, members) /\ Policy!Change(Policy!AskGroup(g, Policy!Range(members)))
  <2>1. Policy!Range(<<>>) = {}
    BY DEF Policy!Range
  <2>2. CASE Policy!CreateGroup(g)
    BY <2>1, <2>2, Zenon DEF Policy!CreateGroup
  <2>3. CASE Policy!DeleteGroup(g)
    BY <2>1, <2>3, Zenon DEF Policy!DeleteGroup
  <2> QED BY <2>2, <2>3
<1>2. members \in Lists /\ Policy!IsInjective(members)
  <2>1. CASE members = <<>>
    <3>1. <<>> \in Seq(Usernames) /\ DOMAIN <<>> = {}
      OBVIOUS
    <3> QED BY <2>1, <3>1 DEF Lists, Policy!IsInjective
  <2>2. CASE members = Policy!NoGroup
    <3>1. DOMAIN Policy!NoGroup = {1}
      BY DEF Policy!NoGroup
    <3>2. \A x, y \in DOMAIN Policy!NoGroup : x = y
      BY <3>1
    <3> QED BY <2>2, <3>2, Zenon DEF Lists, Policy!IsInjective
  <2> QED BY <2>1, <2>2
<1>3. Policy!AskGroup(g, Policy!Range(members)) = [asked EXCEPT !.groups[g] = Policy!Range(members)]
  BY DEF Policy!AskGroup
<1> DEFINE new == Policy!AskGroup(g, Policy!Range(members))
<1> HIDE DEF new
<1>4. /\ excused' \in BOOLEAN /\ (excused => excused') /\ (~Policy!Loaded => excused')
      /\ (excused' => asked' = Policy!NothingAsked)
      /\ (~excused' => InMemory /\ asked' = new)
      /\ verdict' = Policy!NoVerdict /\ UNCHANGED <<loading, source>>
  BY <1>1, ChangeIs DEF new
<1> QED BY <1>1, <1>2, <1>3, <1>4, GroupFits DEF new

\* A group gets a member that it did not have.
LEMMA AddToGroupFits ==
    ASSUME PolicyInv, NEW g \in Groups, NEW u \in Usernames, Policy!AddToGroup(g, u)
    PROVE  PolicyInv'
<1> DEFINE members == Append(groups[g], u)
           new == Policy!AskGroup(g, asked.groups[g] \union {u})
<1>1. /\ groups[g] # Policy!NoGroup /\ ~Policy!Contains(groups[g], u)
      /\ Policy!SetGroup(g, members) /\ Policy!Change(new)
  BY DEF Policy!AddToGroup
<1>2. groups \in [Groups -> Lists] /\ groups[g] \in Seq(Usernames)
  BY <1>1 DEF PolicyInv, SettingsTyped, Lists
<1>3. /\ members \in Seq(Usernames) /\ Policy!Range(members) = Policy!Range(groups[g]) \union {u}
      /\ Policy!IsInjective(groups[g]) => Policy!IsInjective(members)
  BY <1>1, <1>2, MemberAdded
<1> HIDE DEF members
<1>4. new = [asked EXCEPT !.groups[g] = asked.groups[g] \union {u}]
  BY DEF Policy!AskGroup
<1> HIDE DEF new
<1>5. /\ excused' \in BOOLEAN /\ (excused => excused') /\ (~Policy!Loaded => excused')
      /\ (excused' => asked' = Policy!NothingAsked)
      /\ (~excused' => InMemory /\ asked' = new)
      /\ verdict' = Policy!NoVerdict /\ UNCHANGED <<loading, source>>
  BY <1>1, ChangeIs
<1>6. ASSUME ~excused'
      PROVE  /\ Policy!IsInjective(members)
             /\ asked' = [asked EXCEPT !.groups[g] = Policy!Range(members)]
  <2>1. asked.groups = Policy!Members(groups) /\ Policy!IsInjective(groups[g])
    BY <1>5, <1>6, SettingsAre DEF InMemory, Current
  <2>2. asked.groups[g] = Policy!Range(groups[g])
    BY <1>2, <2>1, MembersAre
  <2> QED BY <1>3, <1>4, <1>5, <1>6, <2>1, <2>2
<1>7. members \in Lists
  BY <1>3 DEF Lists
<1> QED BY <1>1, <1>5, <1>6, <1>7, GroupFits

\* A group loses the member that was asked for, or what is lost is excused.
LEMMA RemoveFromGroupFits ==
    ASSUME PolicyInv, NEW g \in Groups, NEW u \in Usernames, Policy!RemoveFromGroup(g, u)
    PROVE  PolicyInv'
<1> DEFINE s == groups[g]
           at == {i \in DOMAIN s : s[i] = u}
           last == Len(s)
           i == IF at = {} THEN last ELSE Policy!Min(at)
           members == IF last = 0 THEN <<>> ELSE Policy!RemoveAt(s, i)
           new == Policy!AskGroup(g, asked.groups[g] \ {u})
           gone == ~Policy!Loaded \/ (at = {} /\ last > 0)
<1>1. /\ s # Policy!NoGroup /\ Policy!SetGroup(g, members) /\ Policy!Want(new, gone)
      /\ UNCHANGED <<loading, source>> /\ verdict' = Policy!NoVerdict
  BY DEF Policy!RemoveFromGroup
<1>2. groups \in [Groups -> Lists] /\ s \in Seq(Usernames)
  BY <1>1 DEF PolicyInv, SettingsTyped, Lists
<1>3. gone \in BOOLEAN
  BY Zenon
<1> HIDE DEF s
<1>4. last \in Nat /\ DOMAIN s = 1 .. last
  BY <1>2
<1>5. at # {} => Policy!Min(at) \in at
  <2>1. at \in SUBSET Nat
    BY <1>4
  <2> HIDE DEF at
  <2>2. ASSUME at # {}
        PROVE  Policy!Min(at) \in at
    <3>1. \E j \in at : \A k \in at : j <= k
      BY <2>1, <2>2, LeastNat
    <3> QED BY <3>1 DEF Policy!Min
  <2> QED BY <2>2
<1>6. last # 0 => i \in 1 .. Len(s)
  <2>1. at \subseteq 1 .. last
    BY <1>4
  <2>2. CASE at = {}
    BY <1>4, <2>2
  <2>3. CASE at # {}
    <3>1. i = Policy!Min(at)
      BY <2>3 DEF i
    <3>2. i \in at
      BY <1>5, <2>3, <3>1
    <3> HIDE DEF at, i
    <3> QED BY <1>4, <2>1, <3>2
  <2> QED BY <2>2, <2>3
<1>7. /\ members \in Seq(Usernames)
      /\ (last # 0 /\ Policy!IsInjective(s)) =>
            Policy!IsInjective(members) /\ Policy!Range(members) = Policy!Range(s) \ {s[i]}
  <2> HIDE DEF i
  <2> QED BY <1>2, <1>4, <1>6, MemberRemoved
<1>8. last = 0 => /\ Policy!IsInjective(members)
                  /\ Policy!Range(members) = {} /\ Policy!Range(s) = {}
  BY <1>4 DEF Policy!IsInjective, Policy!Range
<1>9. at # {} => s[i] = u /\ last # 0
  BY <1>4, <1>5
<1> HIDE DEF i, at
<1>10. new = [asked EXCEPT !.groups[g] = asked.groups[g] \ {u}]
  BY DEF Policy!AskGroup
<1> HIDE DEF new, members
<1>11. /\ excused' \in BOOLEAN /\ (excused => excused') /\ (gone => excused')
       /\ (excused' => asked' = Policy!NothingAsked)
       /\ (~excused' => ~excused /\ ~gone /\ asked' = new)
  <2> HIDE DEF gone
  <2> QED BY <1>1, <1>3, WantIs
<1>12. ASSUME ~excused'
       PROVE  /\ InMemory /\ Policy!IsInjective(members)
              /\ asked' = [asked EXCEPT !.groups[g] = Policy!Range(members)]
  <2>1. InMemory
    BY <1>11, <1>12, LoadingsAre DEF PolicyInv
  <2>2. asked.groups = Policy!Members(groups) /\ Policy!IsInjective(s)
    BY <2>1, SettingsAre DEF InMemory, Current, s
  <2>3. asked.groups[g] = Policy!Range(s)
    BY <1>2, <2>2, MembersAre DEF s
  <2>4. Policy!IsInjective(members) /\ Policy!Range(members) = Policy!Range(s) \ {u}
    BY <1>4, <1>7, <1>8, <1>9, <1>11, <1>12, <2>2
  <2> QED BY <1>10, <1>11, <1>12, <2>1, <2>3, <2>4
<1>13. members \in Lists
  BY <1>7 DEF Lists
<1> QED BY <1>1, <1>11, <1>12, <1>13, GroupFits

-----------------------------------------------------------------------------
\* A read brings in the part of the settings that is in storage.
LEMMA LoadFits ==
    ASSUME PolicyInv, Policy!Load
    PROVE  PolicyInv'
<1>1. SettingsTyped /\ saved.active \in Keys \union {Policy!None} /\ saved.user \in [Keys -> Forms]
      /\ saved.provider \in [Policy!TargetHyperties -> Forms] /\ saved.groups \in [Groups -> Lists]
  BY SavedParts DEF PolicyInv, SettingsTyped
<1>2. loading \in 1 .. 4 /\ loading' = loading + 1
      /\ UNCHANGED <<source, verdict, asked, excused>>
  BY <1>1, LoadingsAre DEF Policy!Load, SettingsTyped
<1>3. Policy!Loadings[loading] = "active" <=> loading = 1
  BY <1>2, LoadingsAre
<1>4. Policy!Loadings[loading] = "groups" <=> loading = 2
  BY <1>2, LoadingsAre
<1>5. Policy!Loadings[loading] = "provider" <=> loading = 3
  BY <1>2, LoadingsAre
<1>6. Policy!Loadings[loading] = "user" <=> loading = 4
  BY <1>2, LoadingsAre
<1> DEFINE x == [k \in Keys |-> IF saved.user[k] = Policy!NoPolicy THEN userPolicies[k]
                                ELSE saved.user[k]]
<1>7. /\ active' = IF loading = 1 THEN saved.active ELSE active
      /\ groups' = IF loading = 2 THEN saved.groups ELSE groups
      /\ provider' = IF loading = 3 THEN saved.provider ELSE provider
      /\ plain' \subseteq Policy!TargetHyperties
      /\ userPolicies' = IF loading = 4 THEN x ELSE userPolicies
      /\ IF loading = 4 THEN Policy!SaveUserPolicies ELSE UNCHANGED saved
  BY <1>1, <1>3, <1>4, <1>5, <1>6 DEF Policy!Load, SettingsTyped
<1>8. x \in [Keys -> Forms]
  BY <1>1 DEF SettingsTyped
<1>9. userPolicies' \in [Keys -> Forms]
  BY <1>1, <1>7, <1>8 DEF SettingsTyped
<1>10. loading = 4 => /\ saved' \in Policy!AllSettings(Lists)
                      /\ saved'.user = [k \in Keys |-> Policy!JSON(userPolicies'[k])]
                      /\ saved'.active = saved.active /\ saved'.provider = saved.provider
                      /\ saved'.groups = saved.groups
  BY <1>1, <1>7, <1>9, SaveUser
<1>11. SettingsTyped'
  BY <1>1, <1>2, <1>7, <1>9, <1>10 DEF SettingsTyped
<1>12. ASSUME ~excused
       PROVE  InStorage
  BY <1>2, <1>12 DEF PolicyInv
<1>13. ASSUME ~excused, loading # 4
       PROVE  InStorage'
  <2>1. InStorage /\ saved' = saved /\ userPolicies' = userPolicies
    BY <1>7, <1>12, <1>13
  <2>2. provider' = Policy!NoProvider
    BY <1>7, <2>1 DEF InStorage
  <2>3. loading' > 1 => active' = saved'.active
    BY <1>2, <1>7, <2>1 DEF InStorage
  <2>4. loading' > 2 => groups' = saved'.groups
    BY <1>2, <1>7, <2>1 DEF InStorage
  <2> QED BY <1>2, <2>1, <2>2, <2>3, <2>4 DEF InStorage
<1>14. ASSUME ~excused, loading = 4
       PROVE  InMemory'
  <2>1. /\ InStorage /\ active' = saved.active /\ groups' = saved.groups
        /\ provider' = saved.provider /\ userPolicies' = x
    BY <1>7, <1>12, <1>14 DEF InStorage
  <2>2. x = saved.user
    <3>1. \A k \in Keys : userPolicies[k] = Policy!NoPolicy
      BY <2>1 DEF InStorage, Policy!NoPolicies
    <3>2. x = [k \in Keys |-> saved.user[k]]
      BY <3>1
    <3> QED BY <1>1, <3>2
  <2> HIDE DEF x
  <2>3. asked' = Current'
    BY <1>2, <2>1, <2>2 DEF InStorage, Current
  <2>4. \A h \in Policy!TargetHyperties : provider'[h] = Policy!NoPolicy
    BY <2>1 DEF InStorage, Policy!NoProvider
  <2>5. \A g \in Groups : Policy!IsInjective(groups'[g])
    BY <2>1 DEF InStorage
  <2> QED BY <1>10, <1>14, <2>1, <2>3, <2>4, <2>5 DEF InMemory
<1>15. Policy!JudgedAsAsked' /\ Policy!ProviderPrevails'
  BY <1>2 DEF PolicyInv, Policy!JudgedAsAsked, Policy!ProviderPrevails
<1>16. ~excused' => IF loading' = 5 THEN InMemory' ELSE InStorage'
  BY <1>2, <1>13, <1>14
<1> QED BY <1>2, <1>11, <1>15, <1>16 DEF PolicyInv

\* After a restart everything is read again.
LEMMA RestartFits ==
    ASSUME PolicyInv, Policy!Restart
    PROVE  PolicyInv'
<1> DEFINE gone == \/ active # saved.active
                   \/ saved.provider # Policy!NoProvider
                   \/ \E k \in Keys : userPolicies[k] # Policy!JSON(userPolicies[k])
<1>1. /\ loading = 5 /\ loading' = 1
      /\ active' = Policy!None /\ userPolicies' = Policy!NoPolicies
      /\ provider' = Policy!NoProvider /\ groups' = Policy!NoGroups
      /\ plain' = {} /\ source' = Policy!None /\ verdict' = Policy!NoVerdict
      /\ UNCHANGED saved /\ Policy!Want(asked, gone)
  BY LoadingsAre DEF Policy!Restart, Policy!Start
<1>2. SettingsTyped
  BY DEF PolicyInv
<1>3. gone \in BOOLEAN
  BY Zenon
<1>4. SettingsTyped'
  BY <1>1, <1>2, NothingIs DEF SettingsTyped
<1>5. /\ excused' \in BOOLEAN /\ (excused' => asked' = Policy!NothingAsked)
      /\ (~excused' => ~excused /\ ~gone /\ asked' = asked)
  <2> HIDE DEF gone
  <2> QED BY <1>1, <1>3, WantIs
<1>6. ASSUME ~excused'
      PROVE  InStorage'
  <2>1. InMemory /\ ~gone /\ asked' = asked
    BY <1>1, <1>5, <1>6 DEF PolicyInv
  <2>2. active = saved.active /\ saved.provider = Policy!NoProvider /\ groups = saved.groups
        /\ asked = Current
    BY <2>1 DEF InMemory
  <2>3. provider = Policy!NoProvider
    <3>1. \A h \in Policy!TargetHyperties : provider[h] = Policy!NoPolicy
      BY <2>1, <2>2 DEF InMemory, Policy!NoProvider
    <3> QED BY <1>2, <3>1 DEF SettingsTyped, Policy!NoProvider
  <2>4. userPolicies = saved.user
    <3>1. \A k \in Keys : Policy!JSON(userPolicies[k]) = userPolicies[k]
      BY <2>1
    <3>2. saved.user = [k \in Keys |-> userPolicies[k]]
      BY <2>1, <3>1 DEF InMemory
    <3> QED BY <1>2, <3>2 DEF SettingsTyped
  <2>5. \A k \in Keys : Policy!JSON(saved.user[k]) = saved.user[k]
    BY <2>1, <2>4
  <2>6. asked' = Policy!Settings(saved'.active, saved'.user, saved'.provider,
                                 Policy!Members(saved'.groups))
    BY <1>1, <2>1, <2>2, <2>3, <2>4 DEF Current
  <2>7. \A g \in Groups : Policy!IsInjective(saved'.groups[g])
    BY <1>1, <2>1, <2>2 DEF InMemory
  <2> QED BY <1>1, <2>2, <2>5, <2>6, <2>7 DEF InStorage
<1>7. verdict' \in Verdicts /\ Policy!JudgedAsAsked' /\ Policy!ProviderPrevails'
  BY <1>1, NoVerdictIs DEF Policy!JudgedAsAsked, Policy!ProviderPrevails
<1>8. ~excused' => IF loading' = 5 THEN InMemory' ELSE InStorage'
  BY <1>1, <1>6
<1> QED BY <1>1, <1>4, <1>5, <1>7, <1>8 DEF PolicyInv

\* Every step keeps the invariant.
LEMMA PolicyNext == PolicyInv /\ [Policy!Next]_(Policy!vars) => PolicyInv'
<1> SUFFICES ASSUME PolicyInv, [Policy!Next]_(Policy!vars)
             PROVE  PolicyInv'
  OBVIOUS
<1>1. CASE UNCHANGED Policy!vars
  <2>1. UNCHANGED <<loading, active, userPolicies, provider, groups, plain, saved, source,
                    verdict, asked, excused>>
    BY <1>1 DEF Policy!vars
  <2> QED BY <2>1 DEF PolicyInv, SettingsTyped, Current, InMemory, InStorage,
                      Policy!JudgedAsAsked, Policy!ProviderPrevails
<1>2. CASE Policy!Next
  BY <1>2, AuthoriseFits, AddUserPolicyFits, ActivateFits, RemoveUserPolicyFits,
     AddProviderPolicyFits, RemoveProviderPolicyFits, CreateGroupFits, AddToGroupFits,
     RemoveFromGroupFits, SaveActivePolicyFits, RemoveAllPoliciesFits, LoadFits, RestartFits
     DEF Policy!Next
<1> QED BY <1>1, <1>2

\* The invariant implies the properties of the policies.
LEMMA PolicyKept ==
    PolicyInv => /\ Policy!TypeOK /\ Policy!JudgedAsAsked
                 /\ Policy!ProviderPrevails /\ Policy!GroupsAreAsAsked
<1>1. PolicyInv => Policy!GroupsAreAsAsked
  BY LoadingsAre, SettingsAre DEF PolicyInv, InMemory, Current, Policy!GroupsAreAsAsked
<1> QED BY <1>1, PolicyTyped DEF PolicyInv
==============================================================================
