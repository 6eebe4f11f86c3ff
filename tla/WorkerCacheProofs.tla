--------------------------- MODULE WorkerCacheProofs ---------------------------
(***************************************************************************)
(* Proofs about Registry and WorkerCache, for every set of bundles, shared  *)
(* files, clients and handlers, and any number of requests and failures.    *)
(***************************************************************************)
EXTENDS WorkerCache, TLAPS

-----------------------------------------------------------------------------
(* Requests.                                                                 *)

\* What a request of each kind looks like, and what it is about.
LEMMA RequestShape ==
  ASSUME NEW q \in Request
  PROVE  /\ q.kind \in {"none", "upload", "delete", "unlinked", "gc", "collected", "put", "drop"}
         /\ q.kind = "none" => q = None /\ Subjects(q) = {}
         /\ q.kind = "upload" => q.digest \in Digests /\ Subjects(q) = {RefOf[q.digest]} \cup Needs[q.digest]
         /\ q.kind \in {"delete", "unlinked"} => q.digest \in Digests /\ Subjects(q) = {RefOf[q.digest]}
         /\ q.kind \in {"gc", "collected"} => /\ q.digests \subseteq Digests
                                              /\ Subjects(q) = {RefOf[d] : d \in q.digests}
         /\ q.kind = "put" => q.name \in Names /\ q.content \in Contents /\ q.known \in BOOLEAN /\ Subjects(q) = {q.name}
         /\ q.kind = "drop" => q.name \in Names /\ Subjects(q) = {q.name}
  BY DEF Request, None, Subjects

LEMMA SubjectsType == ASSUME NEW q \in Request PROVE Subjects(q) \subseteq Refs \cup Names
  BY RequestShape, RefOfAssumption, NeedsAssumption

LEMMA RequestTypes ==
  /\ None \in Request /\ None.kind = "none"
  /\ \A d \in Digests : [kind |-> "upload", digest |-> d] \in Request
  /\ \A d \in Digests : [kind |-> "delete", digest |-> d] \in Request
  /\ \A d \in Digests : [kind |-> "unlinked", digest |-> d] \in Request
  /\ \A D \in SUBSET Digests : /\ [kind |-> "gc", digests |-> D] \in Request
                               /\ [kind |-> "collected", digests |-> D] \in Request
  /\ \A n \in Names, x \in Contents, k \in BOOLEAN :
       [kind |-> "put", name |-> n, content |-> x, known |-> k] \in Request
  /\ \A n \in Names : [kind |-> "drop", name |-> n] \in Request
  BY DEF Request, None

\* A request that comes makes shaky what another one is about already.
LEMMA Begun ==
  ASSUME RegistryTypeOK, Alone, NEW c \in Clients, NEW q \in Request, Begins(c, q)
  PROVE  /\ req' \in [Clients -> Request] /\ shaky' \subseteq Refs \cup Names
         /\ requests' \in 0..MaxRequests /\ trouble' \in 0..MaxTrouble
         /\ req[c] = None /\ req'[c] = q /\ \A o \in Clients \ {c} : req'[o] = req[o]
         /\ shaky \subseteq shaky'
         /\ \A o \in Clients : Subjects(q) \cap Subjects(req[o]) \subseteq shaky'
         /\ Alone'
  <1>1. /\ req' = [req EXCEPT ![c] = q] /\ req[c] = None
        /\ shaky' = shaky \cup (Subjects(q) \cap UnderWay)
        /\ requests < MaxRequests /\ requests' = requests + 1 /\ trouble' = trouble
    BY DEF Begins, Comes
  <1>2. /\ req'[c] = q /\ \A o \in Clients \ {c} : req'[o] = req[o]
    BY <1>1 DEF RegistryTypeOK
  <1>3. \A o \in Clients : Subjects(q) \cap Subjects(req[o]) \subseteq shaky'
    BY <1>1 DEF UnderWay
  <1>4. Alone'
    BY <1>1, <1>2, <1>3 DEF Alone
  <1>5. shaky' \subseteq Refs \cup Names
    BY <1>1, SubjectsType DEF RegistryTypeOK
  <1>6. requests' \in 0..MaxRequests
    BY <1>1, RequestsAssumption DEF RegistryTypeOK
  <1> QED
    BY <1>1, <1>2, <1>3, <1>4, <1>5, <1>6 DEF RegistryTypeOK

LEMMA Ended ==
  ASSUME RegistryTypeOK, Alone, NEW c \in Clients, Ends(c)
  PROVE  /\ req' \in [Clients -> Request] /\ UNCHANGED <<shaky, requests, trouble>>
         /\ req'[c] = None /\ \A o \in Clients \ {c} : req'[o] = req[o]
         /\ Alone'
  <1>1. req' = [req EXCEPT ![c] = None] /\ UNCHANGED <<shaky, requests, trouble>>
    BY DEF Ends
  <1>2. req' \in [Clients -> Request] /\ req'[c] = None /\ \A o \in Clients \ {c} : req'[o] = req[o]
    BY <1>1, RequestTypes DEF RegistryTypeOK
  <1>3. Subjects(None) = {}
    BY DEF None, Subjects
  <1>4. Alone'
    BY <1>1, <1>2, <1>3 DEF Alone
  <1> QED
    BY <1>1, <1>2, <1>4

LEMMA InitRegistry == RegistryInit => RegistryTypeOK /\ RegistryInv
  <1> SUFFICES ASSUME RegistryInit PROVE RegistryTypeOK /\ RegistryInv
    OBVIOUS
  <1>1. RegistryTypeOK
    BY RequestTypes, RequestsAssumption DEF RegistryInit, RegistryTypeOK
  <1>2. \A c \in Clients : req[c].kind = "none" /\ Subjects(req[c]) = {}
    BY DEF RegistryInit, None, Subjects
  <1>3. \A r \in Refs : bundle[r] # Null => bundle[r] \in Digests /\ \A n \in Needs[bundle[r]] : shared[n] # Null
    BY DEF RegistryInit, HasShared
  <1>4. batches \subseteq {r \in Refs : bundle[r] # Null}
    BY DEF RegistryInit
  <1>5. Alone
    BY <1>2 DEF Alone
  <1>6. RowsFit
    BY DEF RegistryInit
  <1>7. RequestsHold
    BY <1>2 DEF RequestsHold
  <1>8. RowsAreBacked
    BY <1>3 DEF RowsAreBacked, RegistryInit
  <1>9. ReferencesHold
    BY <1>3, <1>4, NeedsAssumption DEF ReferencesHold, RegistryInit
  <1> QED
    BY <1>1, <1>5, <1>6, <1>7, <1>8, <1>9 DEF RegistryInv

LEMMA BeginUploadKeeps ==
  ASSUME RegistryTypeOK, RegistryInv, NEW c \in Clients, NEW d \in Digests, BeginUpload(c, d)
  PROVE  RegistryTypeOK' /\ RegistryInv'
  <1> DEFINE q == [kind |-> "upload", digest |-> d]
  <1>1. /\ Begins(c, q) /\ q \in Request /\ HasShared(Needs[d])
        /\ blobs' = blobs \cup {d} /\ UNCHANGED <<bundle, shared, files, batches>>
    BY RequestTypes DEF BeginUpload
  <1>2. q.kind = "upload" /\ q.digest = d
    OBVIOUS
  <1> HIDE DEF q
  <1>3. /\ req' \in [Clients -> Request] /\ shaky' \subseteq Refs \cup Names
        /\ requests' \in 0..MaxRequests /\ trouble' \in 0..MaxTrouble
        /\ req[c] = None /\ req'[c] = q /\ \A o \in Clients \ {c} : req'[o] = req[o]
        /\ shaky \subseteq shaky' /\ Alone'
    BY <1>1, Begun DEF RegistryInv
  <1>4. RegistryTypeOK'
    BY <1>1, <1>3 DEF RegistryTypeOK
  <1>5. RowsFit' /\ ReferencesHold'
    BY <1>1, <1>3 DEF RegistryInv, RowsFit, ReferencesHold
  <1>6. RequestsHold'
    BY <1>1, <1>2, <1>3 DEF RegistryInv, RequestsHold, UploadHolds, PutHolds, GcHolds, HasShared
  <1>7. RowsAreBacked'
    BY <1>1, <1>3, RequestTypes DEF RegistryInv, RowsAreBacked
  <1> QED
    BY <1>3, <1>4, <1>5, <1>6, <1>7 DEF RegistryInv

\* Two requests under way that are both about s make s shaky.
LEMMA OneAtATime ==
  ASSUME RegistryInv, NEW c \in Clients, NEW o \in Clients, c # o,
         NEW s, s \in Subjects(req[c]), s \in Subjects(req[o])
  PROVE  s \in shaky
  BY DEF RegistryInv, Alone

\* What a garbage collection is about.
LEMMA GcShape ==
  ASSUME RegistryTypeOK, NEW c \in Clients, req[c].kind \in {"gc", "collected"}, NEW d \in req[c].digests
  PROVE  d \in Digests /\ RefOf[d] \in Refs /\ RefOf[d] \in Subjects(req[c])
  <1>1. req[c] \in Request
    BY DEF RegistryTypeOK
  <1> QED
    BY <1>1, RequestShape, RefOfAssumption

LEMMA CommitUploadKeeps ==
  ASSUME RegistryTypeOK, RegistryInv, NEW c \in Clients, CommitUpload(c)
  PROVE  RegistryTypeOK' /\ RegistryInv'
  <1> DEFINE d == req[c].digest
  <1>1. /\ req[c].kind = "upload" /\ Ends(c)
        /\ bundle' = IF Registered(d) THEN bundle ELSE [bundle EXCEPT ![RefOf[d]] = d]
        /\ UNCHANGED <<blobs, shared, files, batches>>
    BY DEF CommitUpload
  <1>2. req[c] \in Request
    BY DEF RegistryTypeOK
  <1>3. d \in Digests /\ RefOf[d] \in Refs /\ d # Null
    BY <1>1, <1>2, RequestShape, RefOfAssumption, NullAssumption
  <1>4. UploadHolds(d)
    BY <1>1 DEF RegistryInv, RequestsHold
  <1> HIDE DEF d
  <1>5. /\ req' \in [Clients -> Request] /\ UNCHANGED <<shaky, requests, trouble>>
        /\ req'[c] = None /\ \A o \in Clients \ {c} : req'[o] = req[o]
        /\ Alone'
    BY <1>1, Ended DEF RegistryInv
  <1>6. None.kind = "none"
    BY DEF None
  <1>7. /\ bundle' \in [Refs -> Digests \cup {Null}]
        /\ \A r \in Refs : bundle'[r] = bundle[r] \/ (r = RefOf[d] /\ bundle[r] = Null /\ bundle'[r] = d)
    BY <1>1, <1>3 DEF RegistryTypeOK, Registered
  <1>8. RegistryTypeOK'
    BY <1>1, <1>5, <1>7 DEF RegistryTypeOK
  <1>9. RowsFit'
    BY <1>7 DEF RegistryInv, RowsFit
  <1>10. RequestsHold'
    <2>1. ASSUME NEW o \in Clients \ {c}, req[o].kind \in {"gc", "collected"}
          PROVE  GcHolds(req[o])'
      <3>1. ASSUME NEW e \in req[o].digests, RefOf[e] = RefOf[d]
            PROVE  RefOf[d] \in shaky
        <4>1. RefOf[d] \in Subjects(req[o])
          BY <2>1, <3>1, GcShape
        <4>2. RefOf[d] \in Subjects(req[c])
          BY <1>1, <1>2, RequestShape DEF d
        <4> QED
          BY <4>1, <4>2, OneAtATime
      <3>2. \A e \in req[o].digests : RefOf[e] \in Refs
        BY <2>1, GcShape
      <3> QED
        BY <2>1, <3>1, <3>2, <1>1, <1>5, <1>7 DEF RegistryInv, RequestsHold, GcHolds
    <2> QED
      BY <2>1, <1>1, <1>5, <1>6 DEF RegistryInv, RequestsHold, UploadHolds, PutHolds
  <1>11. RowsAreBacked'
    <2>1. ASSUME NEW r \in Refs \ shaky, bundle'[r] # Null
          PROVE  bundle'[r] \in blobs \/ \E o \in Clients : req'[o].kind = "unlinked" /\ RefOf[req'[o].digest] = r
      BY <2>1, <1>1, <1>4, <1>5, <1>7 DEF RegistryInv, RowsAreBacked, UploadHolds
    <2>2. ASSUME NEW n \in Names \ shaky
          PROVE  files[n] = shared[n] \/ \E o \in Clients : req'[o].kind \in {"put", "drop"} /\ req'[o].name = n
      BY <2>2, <1>1, <1>5 DEF RegistryInv, RowsAreBacked
    <2> QED
      BY <2>1, <2>2, <1>1, <1>5 DEF RowsAreBacked
  <1>12. ReferencesHold'
    BY <1>1, <1>3, <1>4, <1>5, <1>7 DEF RegistryInv, ReferencesHold, UploadHolds
  <1> QED
    BY <1>5, <1>8, <1>9, <1>10, <1>11, <1>12 DEF RegistryInv

LEMMA BeginDeleteKeeps ==
  ASSUME RegistryTypeOK, RegistryInv, NEW c \in Clients, NEW r \in Refs, BeginDelete(c, r)
  PROVE  RegistryTypeOK' /\ RegistryInv'
  <1> DEFINE q == [kind |-> "delete", digest |-> bundle[r]]
  <1>1. /\ Begins(c, q) /\ bundle[r] # Null /\ r \notin batches
        /\ UNCHANGED <<bundle, blobs, shared, files, batches>>
    BY DEF BeginDelete, Unused
  <1>2. q.kind = "delete" /\ q.digest = bundle[r]
    OBVIOUS
  <1>3. bundle[r] \in Digests /\ RefOf[bundle[r]] = r
    BY <1>1 DEF RegistryTypeOK, RegistryInv, RowsFit
  <1>4. q \in Request
    BY <1>3, RequestTypes
  <1> HIDE DEF q
  <1>5. /\ req' \in [Clients -> Request] /\ shaky' \subseteq Refs \cup Names
        /\ requests' \in 0..MaxRequests /\ trouble' \in 0..MaxTrouble
        /\ req[c] = None /\ req'[c] = q /\ \A o \in Clients \ {c} : req'[o] = req[o]
        /\ shaky \subseteq shaky' /\ Alone'
    BY <1>1, <1>4, Begun DEF RegistryInv
  <1>6. RegistryTypeOK'
    BY <1>1, <1>5 DEF RegistryTypeOK
  <1>7. RowsFit' /\ ReferencesHold'
    BY <1>1, <1>5 DEF RegistryInv, RowsFit, ReferencesHold
  <1>8. RequestsHold'
    BY <1>1, <1>2, <1>3, <1>5 DEF RegistryInv, RequestsHold, UploadHolds, PutHolds, GcHolds
  <1>9. RowsAreBacked'
    BY <1>1, <1>5, RequestTypes DEF RegistryInv, RowsAreBacked
  <1> QED
    BY <1>5, <1>6, <1>7, <1>8, <1>9 DEF RegistryInv

LEMMA UnlinkKeeps ==
  ASSUME RegistryTypeOK, RegistryInv, NEW c \in Clients, Unlink(c)
  PROVE  RegistryTypeOK' /\ RegistryInv'
  <1> DEFINE d == req[c].digest
             q == [kind |-> "unlinked", digest |-> d]
  <1>1. /\ req[c].kind = "delete" /\ req' = [req EXCEPT ![c].kind = "unlinked"]
        /\ blobs' = (IF \E r \in Refs \ {RefOf[d]} : bundle[r] = d THEN blobs ELSE blobs \ {d})
        /\ UNCHANGED <<bundle, shared, files, batches, shaky, requests, trouble>>
    BY DEF Unlink
  <1>2. req[c] \in Request
    BY DEF RegistryTypeOK
  <1>3. d \in Digests /\ RefOf[d] \in Refs /\ Subjects(req[c]) = {RefOf[d]}
    BY <1>1, <1>2, RequestShape, RefOfAssumption
  <1>4. req[c] = [kind |-> "delete", digest |-> d]
    BY <1>1, <1>2 DEF Request, None
  <1>5. req'[c] = q /\ \A o \in Clients \ {c} : req'[o] = req[o]
    BY <1>1, <1>4 DEF RegistryTypeOK
  <1>6. q \in Request /\ q.kind = "unlinked" /\ q.digest = d
    BY <1>3, RequestTypes
  <1>7. req' \in [Clients -> Request]
    BY <1>1, <1>5, <1>6 DEF RegistryTypeOK
  <1>8. Subjects(q) = {RefOf[d]}
    BY <1>6, RequestShape
  <1> HIDE DEF d, q
  <1>9. RegistryTypeOK'
    BY <1>1, <1>7 DEF RegistryTypeOK
  <1>10. Alone'
    BY <1>1, <1>3, <1>5, <1>8 DEF RegistryInv, Alone
  <1>11. RowsFit' /\ ReferencesHold'
    BY <1>1 DEF RegistryInv, RowsFit, ReferencesHold
  <1>12. RequestsHold'
    <2>1. ASSUME NEW o \in Clients \ {c}, req[o].kind = "upload"
          PROVE  UploadHolds(req[o].digest)'
      <3>1. req[o] \in Request
        BY DEF RegistryTypeOK
      <3>2. RefOf[req[o].digest] \in Subjects(req[o])
        BY <2>1, <3>1, RequestShape
      <3>3. RefOf[req[o].digest] \notin shaky => req[o].digest # d
        BY <3>2, <1>3, OneAtATime
      <3>4. UploadHolds(req[o].digest)
        BY <2>1 DEF RegistryInv, RequestsHold
      <3> QED
        BY <3>3, <3>4, <1>1, <1>5 DEF UploadHolds
    <2>2. RefOf[d] \notin batches \ shaky
      BY <1>1 DEF RegistryInv, RequestsHold, d
    <2> QED
      BY <2>1, <2>2, <1>1, <1>5, <1>6 DEF RegistryInv, RequestsHold, PutHolds, GcHolds
  <1>13. RowsAreBacked'
    <2>1. ASSUME NEW r \in Refs \ shaky, bundle[r] # Null
          PROVE  bundle[r] \in blobs' \/ \E o \in Clients : req'[o].kind = "unlinked" /\ RefOf[req'[o].digest] = r
      <3>1. CASE r = RefOf[d]
        BY <3>1, <1>5, <1>6
      <3>2. CASE r # RefOf[d]
        <4>1. bundle[r] # d
          BY <3>2, <2>1 DEF RegistryInv, RowsFit
        <4>2. bundle[r] \in blobs \/ \E o \in Clients : req[o].kind = "unlinked" /\ RefOf[req[o].digest] = r
          BY <2>1 DEF RegistryInv, RowsAreBacked
        <4> QED
          BY <4>1, <4>2, <1>1, <1>5, <1>6
      <3> QED
        BY <3>1, <3>2
    <2>2. ASSUME NEW n \in Names \ shaky
          PROVE  files[n] = shared[n] \/ \E o \in Clients : req'[o].kind \in {"put", "drop"} /\ req'[o].name = n
      BY <2>2, <1>1, <1>5, <1>6 DEF RegistryInv, RowsAreBacked
    <2> QED
      BY <2>1, <2>2, <1>1 DEF RowsAreBacked
  <1> QED
    BY <1>9, <1>10, <1>11, <1>12, <1>13 DEF RegistryInv

LEMMA CommitDeleteKeeps ==
  ASSUME RegistryTypeOK, RegistryInv, NEW c \in Clients, CommitDelete(c)
  PROVE  RegistryTypeOK' /\ RegistryInv'
  <1> DEFINE d == req[c].digest
  <1>1. /\ req[c].kind = "unlinked" /\ Ends(c)
        /\ bundle' = [bundle EXCEPT ![RefOf[d]] = Null]
        /\ UNCHANGED <<blobs, shared, files, batches>>
    BY DEF CommitDelete
  <1>2. req[c] \in Request
    BY DEF RegistryTypeOK
  <1>3. d \in Digests /\ RefOf[d] \in Refs
    BY <1>1, <1>2, RequestShape, RefOfAssumption
  <1>4. RefOf[d] \notin batches \ shaky
    BY <1>1 DEF RegistryInv, RequestsHold
  <1>5. /\ req' \in [Clients -> Request] /\ UNCHANGED <<shaky, requests, trouble>>
        /\ req'[c] = None /\ \A o \in Clients \ {c} : req'[o] = req[o]
        /\ Alone'
    BY <1>1, Ended DEF RegistryInv
  <1>6. None.kind = "none"
    BY DEF None
  <1>7. \A r \in Refs : IF r = RefOf[d] THEN bundle'[r] = Null ELSE bundle'[r] = bundle[r]
    BY <1>1 DEF RegistryTypeOK
  <1>8. RegistryTypeOK'
    BY <1>1, <1>5 DEF RegistryTypeOK
  <1>9. RowsFit'
    BY <1>7 DEF RegistryInv, RowsFit
  <1>10. RequestsHold'
    <2>1. ASSUME NEW o \in Clients \ {c}, req[o].kind \in {"gc", "collected"}
          PROVE  GcHolds(req[o])'
      <3>1. \A e \in req[o].digests : RefOf[e] \in Refs
        BY <2>1, GcShape
      <3> QED
        BY <2>1, <3>1, <1>1, <1>5, <1>7 DEF RegistryInv, RequestsHold, GcHolds
    <2> QED
      BY <2>1, <1>1, <1>5, <1>6 DEF RegistryInv, RequestsHold, UploadHolds, PutHolds
  <1>11. RowsAreBacked'
    <2>1. ASSUME NEW r \in Refs \ shaky, bundle'[r] # Null
          PROVE  bundle'[r] \in blobs \/ \E o \in Clients : req'[o].kind = "unlinked" /\ RefOf[req'[o].digest] = r
      <3>1. r # RefOf[d] /\ bundle'[r] = bundle[r]
        BY <2>1, <1>7
      <3>2. bundle[r] \in blobs \/ \E o \in Clients : req[o].kind = "unlinked" /\ RefOf[req[o].digest] = r
        BY <2>1, <3>1 DEF RegistryInv, RowsAreBacked
      <3> QED
        BY <3>1, <3>2, <1>5
    <2>2. ASSUME NEW n \in Names \ shaky
          PROVE  files[n] = shared[n] \/ \E o \in Clients : req'[o].kind \in {"put", "drop"} /\ req'[o].name = n
      BY <2>2, <1>1, <1>5 DEF RegistryInv, RowsAreBacked
    <2> QED
      BY <2>1, <2>2, <1>1, <1>5 DEF RowsAreBacked
  <1>12. ReferencesHold'
    <2> HIDE DEF d
    <2>1. \A r \in batches \ shaky : bundle'[r] # Null
      BY <1>4, <1>7 DEF RegistryInv, ReferencesHold, RegistryTypeOK
    <2>2. \A r \in Refs : bundle'[r] # Null => bundle'[r] = bundle[r]
      BY <1>7
    <2> QED
      BY <2>1, <2>2, <1>1, <1>5 DEF RegistryInv, ReferencesHold
  <1> QED
    BY <1>5, <1>8, <1>9, <1>10, <1>11, <1>12 DEF RegistryInv

LEMMA BeginGcKeeps ==
  ASSUME RegistryTypeOK, RegistryInv, NEW c \in Clients, NEW S \in SUBSET Refs, BeginGc(c, S)
  PROVE  RegistryTypeOK' /\ RegistryInv'
  <1> DEFINE D == {bundle[r] : r \in S}
             q == [kind |-> "gc", digests |-> D]
  <1>1. /\ Begins(c, q) /\ \A r \in S : bundle[r] # Null /\ r \notin batches
        /\ UNCHANGED <<bundle, blobs, shared, files, batches>>
    BY DEF BeginGc, Unused
  <1>2. q.kind = "gc" /\ q.digests = D
    OBVIOUS
  <1>3. D \subseteq Digests /\ \A d \in D : RefOf[d] \notin batches
    BY <1>1 DEF RegistryTypeOK, RegistryInv, RowsFit
  <1> HIDE DEF D
  <1>4. q \in Request
    BY <1>3, RequestTypes
  <1> HIDE DEF q
  <1>5. /\ req' \in [Clients -> Request] /\ shaky' \subseteq Refs \cup Names
        /\ requests' \in 0..MaxRequests /\ trouble' \in 0..MaxTrouble
        /\ req[c] = None /\ req'[c] = q /\ \A o \in Clients \ {c} : req'[o] = req[o]
        /\ shaky \subseteq shaky' /\ Alone'
    BY <1>1, <1>4, Begun DEF RegistryInv
  <1>6. RegistryTypeOK'
    BY <1>1, <1>5 DEF RegistryTypeOK
  <1>7. RowsFit' /\ ReferencesHold'
    BY <1>1, <1>5 DEF RegistryInv, RowsFit, ReferencesHold
  <1>8. GcHolds(req[c])'
    BY <1>1, <1>2, <1>3, <1>5 DEF GcHolds
  <1>9. RequestsHold'
    BY <1>1, <1>2, <1>5, <1>8 DEF RegistryInv, RequestsHold, UploadHolds, PutHolds, GcHolds
  <1>10. RowsAreBacked'
    BY <1>1, <1>5, RequestTypes DEF RegistryInv, RowsAreBacked
  <1> QED
    BY <1>5, <1>6, <1>7, <1>9, <1>10 DEF RegistryInv

LEMMA CommitGcKeeps ==
  ASSUME RegistryTypeOK, RegistryInv, NEW c \in Clients, CommitGc(c)
  PROVE  RegistryTypeOK' /\ RegistryInv'
  <1> DEFINE D == req[c].digests
             q == [kind |-> "collected", digests |-> D]
  <1>1. /\ req[c].kind = "gc" /\ req' = [req EXCEPT ![c].kind = "collected"]
        /\ bundle' = [r \in Refs |-> IF r \in Subjects(req[c]) THEN Null ELSE bundle[r]]
        /\ UNCHANGED <<blobs, shared, files, batches, shaky, requests, trouble>>
    BY DEF CommitGc
  <1>2. req[c] \in Request
    BY DEF RegistryTypeOK
  <1>3. D \subseteq Digests /\ Subjects(req[c]) = {RefOf[d] : d \in D}
    BY <1>1, <1>2, RequestShape
  <1>4. \A d \in D : RefOf[d] \in Refs /\ RefOf[d] \notin batches \ shaky
    BY <1>1, <1>3, RefOfAssumption DEF RegistryInv, RequestsHold, GcHolds
  <1>5. req[c] = [kind |-> "gc", digests |-> D]
    BY <1>1, <1>2 DEF Request, None
  <1>6. req'[c] = q /\ \A o \in Clients \ {c} : req'[o] = req[o]
    BY <1>1, <1>5 DEF RegistryTypeOK
  <1>7. q \in Request /\ q.kind = "collected" /\ q.digests = D
    BY <1>3, RequestTypes
  <1>8. req' \in [Clients -> Request]
    BY <1>1, <1>6, <1>7 DEF RegistryTypeOK
  <1>9. Subjects(q) = Subjects(req[c])
    BY <1>3, <1>7, RequestShape
  <1> HIDE DEF D, q
  <1>10. \A r \in Refs : IF r \in Subjects(req[c]) THEN bundle'[r] = Null ELSE bundle'[r] = bundle[r]
    BY <1>1
  <1>11. RegistryTypeOK'
    BY <1>1, <1>8 DEF RegistryTypeOK
  <1>12. Alone'
    BY <1>1, <1>6, <1>9 DEF RegistryInv, Alone
  <1>13. RowsFit'
    BY <1>10 DEF RegistryInv, RowsFit
  <1>14. RequestsHold'
    <2>1. ASSUME NEW o \in Clients \ {c}, req[o].kind \in {"gc", "collected"}
          PROVE  GcHolds(req[o])'
      <3>1. \A e \in req[o].digests : RefOf[e] \in Refs
        BY <2>1, GcShape
      <3> QED
        BY <2>1, <3>1, <1>1, <1>6, <1>10 DEF RegistryInv, RequestsHold, GcHolds
    <2>2. GcHolds(req[c])'
      BY <1>3, <1>4, <1>6, <1>7, <1>10 DEF GcHolds
    <2> QED
      BY <2>1, <2>2, <1>1, <1>6, <1>7 DEF RegistryInv, RequestsHold, UploadHolds, PutHolds
  <1>15. RowsAreBacked'
    <2>1. ASSUME NEW r \in Refs \ shaky, bundle'[r] # Null
          PROVE  bundle'[r] \in blobs \/ \E o \in Clients : req'[o].kind = "unlinked" /\ RefOf[req'[o].digest] = r
      <3>1. bundle'[r] = bundle[r]
        BY <2>1, <1>10
      <3>2. bundle[r] \in blobs \/ \E o \in Clients : req[o].kind = "unlinked" /\ RefOf[req[o].digest] = r
        BY <2>1, <3>1 DEF RegistryInv, RowsAreBacked
      <3> QED
        BY <3>1, <3>2, <1>1, <1>6
    <2>2. ASSUME NEW n \in Names \ shaky
          PROVE  files[n] = shared[n] \/ \E o \in Clients : req'[o].kind \in {"put", "drop"} /\ req'[o].name = n
      BY <2>2, <1>1, <1>6 DEF RegistryInv, RowsAreBacked
    <2> QED
      BY <2>1, <2>2, <1>1 DEF RowsAreBacked
  <1>16. ReferencesHold'
    <2>1. \A r \in batches \ shaky : bundle'[r] # Null
      BY <1>3, <1>4, <1>10 DEF RegistryInv, ReferencesHold, RegistryTypeOK
    <2>2. \A r \in Refs : bundle'[r] # Null => bundle'[r] = bundle[r]
      BY <1>10
    <2> QED
      BY <2>1, <2>2, <1>1 DEF RegistryInv, ReferencesHold
  <1> QED
    BY <1>11, <1>12, <1>13, <1>14, <1>15, <1>16 DEF RegistryInv

LEMMA EndGcKeeps ==
  ASSUME RegistryTypeOK, RegistryInv, NEW c \in Clients, EndGc(c)
  PROVE  RegistryTypeOK' /\ RegistryInv'
  <1> DEFINE D == req[c].digests
  <1>1. /\ req[c].kind = "collected" /\ blobs' = blobs \ D /\ Ends(c)
        /\ UNCHANGED <<bundle, shared, files, batches>>
    BY DEF EndGc
  <1>2. \A d \in D : /\ d \in Digests /\ RefOf[d] \in Refs /\ RefOf[d] \in Subjects(req[c])
                     /\ RefOf[d] \in shaky \/ bundle[RefOf[d]] = Null
    BY <1>1, GcShape DEF RegistryInv, RequestsHold, GcHolds
  <1> HIDE DEF D
  <1>3. /\ req' \in [Clients -> Request] /\ UNCHANGED <<shaky, requests, trouble>>
        /\ req'[c] = None /\ \A o \in Clients \ {c} : req'[o] = req[o]
        /\ Alone'
    BY <1>1, Ended DEF RegistryInv
  <1>4. None.kind = "none"
    BY DEF None
  <1>5. RegistryTypeOK'
    BY <1>1, <1>3 DEF RegistryTypeOK
  <1>6. RowsFit' /\ ReferencesHold'
    BY <1>1, <1>3 DEF RegistryInv, RowsFit, ReferencesHold
  <1>7. RequestsHold'
    <2>1. ASSUME NEW o \in Clients \ {c}, req[o].kind = "upload"
          PROVE  UploadHolds(req[o].digest)'
      <3>1. req[o] \in Request
        BY DEF RegistryTypeOK
      <3>2. RefOf[req[o].digest] \in Subjects(req[o])
        BY <2>1, <3>1, RequestShape
      <3>3. RefOf[req[o].digest] \notin shaky => req[o].digest \notin D
        BY <3>2, <1>2, OneAtATime
      <3>4. UploadHolds(req[o].digest)
        BY <2>1 DEF RegistryInv, RequestsHold
      <3> QED
        BY <3>3, <3>4, <1>1, <1>3 DEF UploadHolds
    <2> QED
      BY <2>1, <1>1, <1>3, <1>4 DEF RegistryInv, RequestsHold, PutHolds, GcHolds
  <1>8. RowsAreBacked'
    <2>1. ASSUME NEW r \in Refs \ shaky, bundle[r] # Null
          PROVE  bundle[r] \in blobs' \/ \E o \in Clients : req'[o].kind = "unlinked" /\ RefOf[req'[o].digest] = r
      <3>1. bundle[r] \notin D
        BY <2>1, <1>2 DEF RegistryInv, RowsFit
      <3>2. bundle[r] \in blobs \/ \E o \in Clients : req[o].kind = "unlinked" /\ RefOf[req[o].digest] = r
        BY <2>1 DEF RegistryInv, RowsAreBacked
      <3> QED
        BY <3>1, <3>2, <1>1, <1>3
    <2>2. ASSUME NEW n \in Names \ shaky
          PROVE  files[n] = shared[n] \/ \E o \in Clients : req'[o].kind \in {"put", "drop"} /\ req'[o].name = n
      BY <2>2, <1>1, <1>3 DEF RegistryInv, RowsAreBacked
    <2> QED
      BY <2>1, <2>2, <1>1, <1>3 DEF RowsAreBacked
  <1> QED
    BY <1>3, <1>5, <1>6, <1>7, <1>8 DEF RegistryInv

LEMMA CreateBatchKeeps ==
  ASSUME RegistryTypeOK, RegistryInv, NEW r \in Refs, CreateBatch(r)
  PROVE  RegistryTypeOK' /\ RegistryInv'
  <1> DEFINE S == {r} \cup Needs[bundle[r]]
  <1>1. /\ bundle[r] # Null /\ batches' = batches \cup {r}
        /\ requests < MaxRequests /\ requests' = requests + 1
        /\ shaky' = shaky \cup (S \cap UnderWay)
        /\ UNCHANGED <<bundle, blobs, shared, files, req, trouble>>
    BY DEF CreateBatch, Comes
  <1>2. S \subseteq Refs \cup Names
    BY <1>1, NeedsAssumption DEF RegistryTypeOK
  <1>3. r \in S
    OBVIOUS
  <1> HIDE DEF S
  <1>4. RegistryTypeOK'
    BY <1>1, <1>2, RequestsAssumption DEF RegistryTypeOK
  <1>5. Alone' /\ RowsFit' /\ RowsAreBacked' /\ ReferencesHold'
    BY <1>1 DEF RegistryInv, Alone, RowsFit, RowsAreBacked, ReferencesHold, Subjects
  <1>6. ASSUME NEW c \in Clients, req[c].kind \in {"delete", "unlinked"}
        PROVE  RefOf[req[c].digest] \notin batches' \ shaky'
    <2>1. req[c] \in Request
      BY DEF RegistryTypeOK
    <2>2. RefOf[req[c].digest] \in UnderWay
      BY <1>6, <2>1, RequestShape DEF UnderWay
    <2> QED
      BY <1>1, <1>3, <1>6, <2>2 DEF RegistryInv, RequestsHold
  <1>7. ASSUME NEW c \in Clients, req[c].kind \in {"gc", "collected"}
        PROVE  GcHolds(req[c])'
    <2>1. \A d \in req[c].digests : RefOf[d] \in UnderWay
      BY <1>7, GcShape DEF UnderWay
    <2> QED
      BY <1>1, <1>3, <1>7, <2>1 DEF RegistryInv, RequestsHold, GcHolds
  <1>8. RequestsHold'
    BY <1>1, <1>6, <1>7 DEF RegistryInv, RequestsHold, UploadHolds, PutHolds
  <1> QED
    BY <1>4, <1>5, <1>8 DEF RegistryInv

LEMMA DeleteBatchesKeeps ==
  ASSUME RegistryTypeOK, RegistryInv, NEW r \in Refs, DeleteBatches(r)
  PROVE  RegistryTypeOK' /\ RegistryInv'
  <1>1. /\ batches' = batches \ {r} /\ shaky' = shaky
        /\ requests < MaxRequests /\ requests' = requests + 1
        /\ UNCHANGED <<bundle, blobs, shared, files, req, trouble>>
    BY DEF DeleteBatches, Comes
  <1>2. RegistryTypeOK'
    BY <1>1, RequestsAssumption DEF RegistryTypeOK
  <1>3. Alone' /\ RowsFit' /\ RowsAreBacked' /\ ReferencesHold'
    BY <1>1 DEF RegistryInv, Alone, RowsFit, RowsAreBacked, ReferencesHold, Subjects
  <1>4. RequestsHold'
    BY <1>1 DEF RegistryInv, RequestsHold, UploadHolds, PutHolds, GcHolds
  <1> QED
    BY <1>2, <1>3, <1>4 DEF RegistryInv

LEMMA BeginPutKeeps ==
  ASSUME RegistryTypeOK, RegistryInv, NEW c \in Clients, NEW n \in Names, NEW x \in Contents, BeginPut(c, n, x)
  PROVE  RegistryTypeOK' /\ RegistryInv'
  <1> DEFINE q == [kind |-> "put", name |-> n, content |-> x, known |-> shared[n] # Null]
  <1>1. /\ Begins(c, q) /\ files' = [files EXCEPT ![n] = x]
        /\ UNCHANGED <<bundle, blobs, shared, batches>>
    BY DEF BeginPut
  <1>2. /\ q \in Request /\ q.kind = "put" /\ q.name = n
        /\ q.content = x /\ q.known = (shared[n] # Null)
    BY RequestTypes
  <1>3. Subjects(q) = {n}
    BY <1>2, RequestShape
  <1> HIDE DEF q
  <1>4. /\ req' \in [Clients -> Request] /\ shaky' \subseteq Refs \cup Names
        /\ requests' \in 0..MaxRequests /\ trouble' \in 0..MaxTrouble
        /\ req[c] = None /\ req'[c] = q /\ \A o \in Clients \ {c} : req'[o] = req[o]
        /\ shaky \subseteq shaky' /\ Alone'
        /\ \A o \in Clients : Subjects(q) \cap Subjects(req[o]) \subseteq shaky'
    BY <1>1, <1>2, Begun DEF RegistryInv
  <1>5. RegistryTypeOK'
    BY <1>1, <1>4 DEF RegistryTypeOK
  <1>6. RowsFit' /\ ReferencesHold'
    BY <1>1, <1>4 DEF RegistryInv, RowsFit, ReferencesHold
  <1>7. files'[n] = x /\ \A m \in Names \ {n} : files'[m] = files[m]
    BY <1>1 DEF RegistryTypeOK
  <1>8. ASSUME NEW o \in Clients \ {c}, req[o].kind = "put"
        PROVE  PutHolds(req[o])'
    <2>1. req[o] \in Request
      BY DEF RegistryTypeOK
    <2>2. req[o].name \in Names /\ (req[o].name = n => n \in shaky')
      BY <1>3, <1>4, <1>8, <2>1, RequestShape
    <2>3. PutHolds(req[o])
      BY <1>8 DEF RegistryInv, RequestsHold
    <2> QED
      BY <1>1, <1>4, <1>7, <2>2, <2>3 DEF PutHolds
  <1>9. PutHolds(req[c])'
    BY <1>1, <1>2, <1>4, <1>7 DEF PutHolds
  <1>10. RequestsHold'
    BY <1>1, <1>2, <1>4, <1>8, <1>9 DEF RegistryInv, RequestsHold, UploadHolds, GcHolds
  <1>11. RowsAreBacked'
    <2>1. ASSUME NEW r \in Refs \ shaky', bundle[r] # Null
          PROVE  bundle[r] \in blobs \/ \E o \in Clients : req'[o].kind = "unlinked" /\ RefOf[req'[o].digest] = r
      BY <2>1, <1>4, RequestTypes DEF RegistryInv, RowsAreBacked
    <2>2. ASSUME NEW m \in Names \ shaky'
          PROVE  files'[m] = shared[m] \/ \E o \in Clients : req'[o].kind \in {"put", "drop"} /\ req'[o].name = m
      BY <1>2, <1>4, <1>7, RequestTypes DEF RegistryInv, RowsAreBacked
    <2> QED
      BY <2>1, <2>2, <1>1 DEF RowsAreBacked
  <1> QED
    BY <1>4, <1>5, <1>6, <1>10, <1>11 DEF RegistryInv

LEMMA CommitPutKeeps ==
  ASSUME RegistryTypeOK, RegistryInv, NEW c \in Clients, CommitPut(c)
  PROVE  RegistryTypeOK' /\ RegistryInv'
  <1> DEFINE n == req[c].name
             x == req[c].content
  <1>1. /\ req[c].kind = "put" /\ shared' = PutRow(req[c]) /\ Ends(c)
        /\ UNCHANGED <<bundle, blobs, files, batches>>
    BY DEF CommitPut
  <1>2. req[c] \in Request
    BY DEF RegistryTypeOK
  <1>3. n \in Names /\ x \in Contents /\ x # Null /\ Subjects(req[c]) = {n}
    BY <1>1, <1>2, RequestShape, NullAssumption
  <1>4. n \notin shaky => files[n] = x /\ req[c].known = (shared[n] # Null)
    BY <1>1 DEF RegistryInv, RequestsHold, PutHolds, GcHolds
  <1>5. /\ req' \in [Clients -> Request] /\ UNCHANGED <<shaky, requests, trouble>>
        /\ req'[c] = None /\ \A o \in Clients \ {c} : req'[o] = req[o]
        /\ Alone'
    BY <1>1, Ended DEF RegistryInv
  <1>6. None.kind = "none"
    BY DEF None
  <1>7. /\ shared' \in [Names -> Contents \cup {Null}]
        /\ \A m \in Names : shared'[m] = shared[m] \/ (m = n /\ shared'[m] = x)
        /\ n \notin shaky => shared'[n] = x
    BY <1>1, <1>3, <1>4 DEF RegistryTypeOK, PutRow
  <1> HIDE DEF n, x
  <1>8. RegistryTypeOK'
    BY <1>1, <1>5, <1>7 DEF RegistryTypeOK
  <1>9. RowsFit'
    BY <1>1 DEF RegistryInv, RowsFit
  <1>10. RequestsHold'
    <2>1. ASSUME NEW o \in Clients \ {c}, req[o].kind \in {"put", "drop"}
          PROVE  req[o].name \in shaky \/ shared'[req[o].name] = shared[req[o].name]
      <3>1. req[o] \in Request
        BY DEF RegistryTypeOK
      <3>2. req[o].name \in Names /\ req[o].name \in Subjects(req[o])
        BY <2>1, <3>1, RequestShape
      <3>3. req[o].name = n => n \in shaky
        BY <3>2, <1>3, OneAtATime
      <3> QED
        BY <3>2, <3>3, <1>7
    <2>2. ASSUME NEW o \in Clients \ {c}, req[o].kind = "upload"
          PROVE  UploadHolds(req[o].digest)'
      <3>1. req[o] \in Request
        BY DEF RegistryTypeOK
      <3>2. Needs[req[o].digest] \subseteq Names
        BY <2>2, <3>1, RequestShape, NeedsAssumption
      <3> QED
        BY <2>2, <3>2, <1>1, <1>3, <1>5, <1>7 DEF RegistryInv, RequestsHold, UploadHolds
    <2> QED
      BY <2>1, <2>2, <1>1, <1>5, <1>6 DEF RegistryInv, RequestsHold, PutHolds, GcHolds
  <1>11. RowsAreBacked'
    <2>1. ASSUME NEW r \in Refs \ shaky, bundle[r] # Null
          PROVE  bundle[r] \in blobs \/ \E o \in Clients : req'[o].kind = "unlinked" /\ RefOf[req'[o].digest] = r
      BY <2>1, <1>1, <1>5 DEF RegistryInv, RowsAreBacked
    <2>2. ASSUME NEW m \in Names \ shaky
          PROVE  files[m] = shared'[m] \/ \E o \in Clients : req'[o].kind \in {"put", "drop"} /\ req'[o].name = m
      <3>1. CASE m = n
        BY <3>1, <1>4, <1>7
      <3>2. CASE m # n
        <4>1. files[m] = shared[m] \/ \E o \in Clients : req[o].kind \in {"put", "drop"} /\ req[o].name = m
          BY DEF RegistryInv, RowsAreBacked
        <4> QED
          BY <4>1, <3>2, <1>5, <1>7 DEF n
      <3> QED
        BY <3>1, <3>2
    <2> QED
      BY <2>1, <2>2, <1>1, <1>5 DEF RowsAreBacked
  <1>12. ReferencesHold'
    <2>1. ASSUME NEW r \in Refs, bundle[r] # Null, NEW m \in Needs[bundle[r]] \ shaky
          PROVE  shared'[m] # Null
      <3>1. m \in Names /\ shared[m] # Null
        BY <2>1, NeedsAssumption DEF RegistryTypeOK, RegistryInv, ReferencesHold
      <3> QED
        BY <3>1, <1>3, <1>7
    <2> QED
      BY <2>1, <1>1, <1>5 DEF RegistryInv, ReferencesHold
  <1> QED
    BY <1>5, <1>8, <1>9, <1>10, <1>11, <1>12 DEF RegistryInv

LEMMA BeginDropKeeps ==
  ASSUME RegistryTypeOK, RegistryInv, NEW c \in Clients, NEW n \in Names, BeginDrop(c, n)
  PROVE  RegistryTypeOK' /\ RegistryInv'
  <1> DEFINE q == [kind |-> "drop", name |-> n]
  <1>1. /\ Begins(c, q) /\ Unreferenced(n) /\ shared' = [shared EXCEPT ![n] = Null]
        /\ UNCHANGED <<bundle, blobs, files, batches>>
    BY DEF BeginDrop
  <1>2. q \in Request /\ q.kind = "drop" /\ q.name = n
    BY RequestTypes
  <1>3. Subjects(q) = {n}
    BY <1>2, RequestShape
  <1> HIDE DEF q
  <1>4. /\ req' \in [Clients -> Request] /\ shaky' \subseteq Refs \cup Names
        /\ requests' \in 0..MaxRequests /\ trouble' \in 0..MaxTrouble
        /\ req[c] = None /\ req'[c] = q /\ \A o \in Clients \ {c} : req'[o] = req[o]
        /\ shaky \subseteq shaky' /\ Alone'
        /\ \A o \in Clients : Subjects(q) \cap Subjects(req[o]) \subseteq shaky'
    BY <1>1, <1>2, Begun DEF RegistryInv
  <1>5. shared'[n] = Null /\ \A m \in Names \ {n} : shared'[m] = shared[m]
    BY <1>1 DEF RegistryTypeOK
  <1>6. RegistryTypeOK'
    BY <1>1, <1>4 DEF RegistryTypeOK
  <1>7. RowsFit'
    BY <1>1 DEF RegistryInv, RowsFit
  <1>8. ASSUME NEW o \in Clients \ {c}
        PROVE  /\ req[o].kind = "upload" => UploadHolds(req[o].digest)'
               /\ req[o].kind = "put" => PutHolds(req[o])'
               /\ req[o].kind = "drop" => req[o].name \in shaky' \/ shared'[req[o].name] = Null
    <2>1. req[o] \in Request
      BY DEF RegistryTypeOK
    <2>2. n \in Subjects(req[o]) => n \in shaky'
      BY <1>3, <1>4
    <2>3. CASE req[o].kind = "upload"
      <3>1. Needs[req[o].digest] \subseteq Names /\ Needs[req[o].digest] \subseteq Subjects(req[o])
        BY <2>1, <2>3, RequestShape, NeedsAssumption
      <3>2. UploadHolds(req[o].digest)
        BY <2>3 DEF RegistryInv, RequestsHold
      <3> QED
        BY <2>2, <2>3, <3>1, <3>2, <1>1, <1>4, <1>5 DEF UploadHolds
    <2>4. CASE req[o].kind \in {"put", "drop"}
      <3>1. req[o].name \in Names /\ req[o].name \in Subjects(req[o])
        BY <2>1, <2>4, RequestShape
      <3>2. req[o].name \in shaky' \/ shared'[req[o].name] = shared[req[o].name]
        BY <2>2, <3>1, <1>5
      <3> QED
        BY <2>4, <3>2, <1>1, <1>4 DEF RegistryInv, RequestsHold, PutHolds, GcHolds
    <2> QED
      BY <2>3, <2>4
  <1>9. RequestsHold'
    BY <1>1, <1>2, <1>4, <1>5, <1>8 DEF RegistryInv, RequestsHold, GcHolds
  <1>10. RowsAreBacked'
    <2>1. ASSUME NEW r \in Refs \ shaky', bundle[r] # Null
          PROVE  bundle[r] \in blobs \/ \E o \in Clients : req'[o].kind = "unlinked" /\ RefOf[req'[o].digest] = r
      BY <2>1, <1>4, RequestTypes DEF RegistryInv, RowsAreBacked
    <2>2. ASSUME NEW m \in Names \ shaky'
          PROVE  files[m] = shared'[m] \/ \E o \in Clients : req'[o].kind \in {"put", "drop"} /\ req'[o].name = m
      BY <1>2, <1>4, <1>5, RequestTypes DEF RegistryInv, RowsAreBacked
    <2> QED
      BY <2>1, <2>2, <1>1 DEF RowsAreBacked
  <1>11. ReferencesHold'
    <2>1. ASSUME NEW r \in Refs, bundle[r] # Null, NEW m \in Needs[bundle[r]] \ shaky'
          PROVE  shared'[m] # Null
      <3>1. m \in Names /\ shared[m] # Null
        BY <2>1, <1>4, NeedsAssumption DEF RegistryTypeOK, RegistryInv, ReferencesHold
      <3>2. m # n
        BY <2>1, <1>1 DEF Unreferenced
      <3> QED
        BY <3>1, <3>2, <1>5
    <2> QED
      BY <2>1, <1>1, <1>4 DEF RegistryInv, ReferencesHold
  <1> QED
    BY <1>4, <1>6, <1>7, <1>9, <1>10, <1>11 DEF RegistryInv

LEMMA EndDropKeeps ==
  ASSUME RegistryTypeOK, RegistryInv, NEW c \in Clients, EndDrop(c)
  PROVE  RegistryTypeOK' /\ RegistryInv'
  <1> DEFINE n == req[c].name
  <1>1. /\ req[c].kind = "drop" /\ files' = [files EXCEPT ![n] = Null] /\ Ends(c)
        /\ UNCHANGED <<bundle, blobs, shared, batches>>
    BY DEF EndDrop
  <1>2. req[c] \in Request
    BY DEF RegistryTypeOK
  <1>3. n \in Names /\ Subjects(req[c]) = {n} /\ (n \in shaky \/ shared[n] = Null)
    BY <1>1, <1>2, RequestShape DEF RegistryInv, RequestsHold
  <1>4. /\ req' \in [Clients -> Request] /\ UNCHANGED <<shaky, requests, trouble>>
        /\ req'[c] = None /\ \A o \in Clients \ {c} : req'[o] = req[o]
        /\ Alone'
    BY <1>1, Ended DEF RegistryInv
  <1>5. None.kind = "none"
    BY DEF None
  <1>6. files'[n] = Null /\ \A m \in Names \ {n} : files'[m] = files[m]
    BY <1>1, <1>3 DEF RegistryTypeOK
  <1>7. RegistryTypeOK'
    BY <1>1, <1>4 DEF RegistryTypeOK
  <1> HIDE DEF n
  <1>8. RowsFit' /\ ReferencesHold'
    BY <1>1, <1>4 DEF RegistryInv, RowsFit, ReferencesHold
  <1>9. ASSUME NEW o \in Clients \ {c}, req[o].kind = "put"
        PROVE  PutHolds(req[o])'
    <2>1. req[o] \in Request
      BY DEF RegistryTypeOK
    <2>2. req[o].name \in Names /\ req[o].name \in Subjects(req[o])
      BY <1>9, <2>1, RequestShape
    <2>3. req[o].name = n => n \in shaky
      BY <2>2, <1>3, OneAtATime
    <2> QED
      BY <2>2, <2>3, <1>1, <1>4, <1>6, <1>9 DEF RegistryInv, RequestsHold, PutHolds, GcHolds
  <1>10. RequestsHold'
    BY <1>1, <1>4, <1>5, <1>9 DEF RegistryInv, RequestsHold, UploadHolds, GcHolds
  <1>11. RowsAreBacked'
    <2>1. ASSUME NEW r \in Refs \ shaky, bundle[r] # Null
          PROVE  bundle[r] \in blobs \/ \E o \in Clients : req'[o].kind = "unlinked" /\ RefOf[req'[o].digest] = r
      BY <2>1, <1>1, <1>4 DEF RegistryInv, RowsAreBacked
    <2>2. ASSUME NEW m \in Names \ shaky
          PROVE  files'[m] = shared[m] \/ \E o \in Clients : req'[o].kind \in {"put", "drop"} /\ req'[o].name = m
      <3>1. CASE m = n
        BY <3>1, <1>3, <1>6
      <3>2. CASE m # n
        <4>1. files[m] = shared[m] \/ \E o \in Clients : req[o].kind \in {"put", "drop"} /\ req[o].name = m
          BY DEF RegistryInv, RowsAreBacked
        <4> QED
          BY <4>1, <3>2, <1>4, <1>6 DEF n
      <3> QED
        BY <3>1, <3>2
    <2> QED
      BY <2>1, <2>2, <1>1, <1>4 DEF RowsAreBacked
  <1> QED
    BY <1>4, <1>7, <1>8, <1>10, <1>11 DEF RegistryInv

LEMMA OrchestratorDiesKeeps ==
  ASSUME RegistryTypeOK, RegistryInv, OrchestratorDies
  PROVE  RegistryTypeOK' /\ RegistryInv'
  <1>1. /\ shaky' = shaky \cup UnderWay /\ req' = [c \in Clients |-> None]
        /\ trouble < MaxTrouble /\ trouble' = trouble + 1
        /\ UNCHANGED <<bundle, blobs, shared, files, batches, requests>>
    BY DEF OrchestratorDies, Trouble
  <1>2. UnderWay \subseteq Refs \cup Names
    BY SubjectsType DEF UnderWay, RegistryTypeOK
  <1>3. RegistryTypeOK'
    BY <1>1, <1>2, RequestTypes, RequestsAssumption DEF RegistryTypeOK
  <1>4. \A c \in Clients : req'[c] = None /\ req'[c].kind = "none"
    BY <1>1, RequestTypes
  <1>5. Alone'
    BY <1>4 DEF Alone, None, Subjects
  <1>6. RowsFit' /\ ReferencesHold'
    BY <1>1 DEF RegistryInv, RowsFit, ReferencesHold
  <1>7. RequestsHold'
    BY <1>4 DEF RequestsHold
  <1>8. \A c \in Clients : req[c] \in Request /\ Subjects(req[c]) \subseteq shaky'
    BY <1>1 DEF UnderWay, RegistryTypeOK
  <1>9. \A c \in Clients : /\ req[c].kind = "unlinked" => RefOf[req[c].digest] \in shaky'
                           /\ req[c].kind \in {"put", "drop"} => req[c].name \in shaky'
    BY <1>8, RequestShape
  <1>10. RowsAreBacked'
    BY <1>1, <1>4, <1>9 DEF RegistryInv, RowsAreBacked
  <1> QED
    BY <1>3, <1>5, <1>6, <1>7, <1>10 DEF RegistryInv

LEMMA RegistryStepKeeps ==
  ASSUME RegistryTypeOK, RegistryInv, RegistryStep
  PROVE  RegistryTypeOK' /\ RegistryInv'
  BY BeginUploadKeeps, CommitUploadKeeps, BeginDeleteKeeps, UnlinkKeeps, CommitDeleteKeeps,
     BeginGcKeeps, CommitGcKeeps, EndGcKeeps, CreateBatchKeeps,
     DeleteBatchesKeeps, BeginPutKeeps, CommitPutKeeps, BeginDropKeeps, EndDropKeeps, OrchestratorDiesKeeps
     DEF RegistryStep

LEMMA RegistryStays ==
  ASSUME RegistryTypeOK, RegistryInv, UNCHANGED registryVars, requests' \in 0..MaxRequests, trouble' \in 0..MaxTrouble
  PROVE  RegistryTypeOK' /\ RegistryInv'
  <1>1. RegistryTypeOK'
    BY DEF RegistryTypeOK, registryVars
  <1>2. RegistryInv'
    BY DEF RegistryInv, Alone, RowsFit, RequestsHold, UploadHolds, PutHolds, GcHolds, RowsAreBacked, ReferencesHold, Subjects, registryVars
  <1> QED
    BY <1>1, <1>2

-----------------------------------------------------------------------------
(* The caches.                                                               *)

LEMMA CopyFacts ==
  /\ Absent \in Copy /\ Absent.whole = FALSE /\ Absent.of = Null /\ Part(Absent) = Absent
  /\ \A d \in Digests : /\ d # Null /\ Whole(d) \in Copy /\ Whole(d).whole = TRUE /\ Whole(d).of = d
                        /\ Whole(d) # Absent /\ Part(Whole(d)) # Absent
  /\ \A copy \in Copy : /\ Part(copy) \in Copy /\ Part(copy).of = copy.of
                        /\ copy # Absent => copy.of \in Digests
                        /\ copy.whole \in BOOLEAN
  <1>1. /\ Absent \in Copy /\ Absent.whole = FALSE /\ Absent.of = Null
    BY DEF Copy, Absent
  <1>2. Part(Absent) = Absent
    BY <1>1 DEF Part, Absent
  <1>3. \A d \in Digests : /\ d # Null /\ Whole(d) \in Copy /\ Whole(d).whole = TRUE /\ Whole(d).of = d
    BY NullAssumption DEF Copy, Whole
  <1>4. \A copy \in Copy : Part(copy).of = copy.of
    BY DEF Part
  <1>5. ASSUME NEW copy \in Copy
        PROVE  Part(copy) \in Copy /\ (copy # Absent => copy.of \in Digests) /\ copy.whole \in BOOLEAN
    <2>1. CASE copy = Absent
      BY <2>1, <1>1, <1>2
    <2>2. CASE copy # Absent
      <3>1. copy \in [of : Digests, whole : BOOLEAN]
        BY <2>2 DEF Copy, Absent
      <3>2. copy.of \in Digests /\ copy.whole \in BOOLEAN
        BY <3>1
      <3>3. [of |-> copy.of, whole |-> FALSE] \in [of : Digests, whole : BOOLEAN]
        BY <3>2
      <3> QED
        BY <3>2, <3>3 DEF Copy, Part
    <2> QED
      BY <2>1, <2>2
  <1>7. \A d \in Digests : Whole(d) # Absent /\ Part(Whole(d)) # Absent
    BY <1>1, <1>3, <1>4
  <1> QED
    BY <1>1, <1>2, <1>3, <1>4, <1>5, <1>7

LEMMA IdleFacts ==
  /\ Idle \in Ensuring /\ Idle.at = "idle" /\ Idle.name = Null
  /\ \A r \in Refs : LET w == [Idle EXCEPT !.at = "waiting", !.ref = r]
                     IN w \in Ensuring /\ w.at = "waiting" /\ w.ref = r /\ w.name = Null
  BY DEF Idle, Ensuring, Stages

\* What a thread knows after a step that changes it.
LEMMA Worked ==
  ASSUME CacheTypeOK, NEW t \in Tasks, NEW at \in Stages, NEW left \in SUBSET Names,
         NEW name \in Names \cup {Null}, NEW remote \in Contents \cup {Null}, Works(t, at, left, name, remote)
  PROVE  /\ task' \in [Tasks -> Ensuring]
         /\ task'[t].at = at /\ task'[t].ref = task[t].ref /\ task'[t].left = left
         /\ task'[t].name = name /\ task'[t].remote = remote
         /\ \A u \in Tasks \ {t} : task'[u] = task[u]
  <1>1. task[t].ref \in Refs \cup {Null}
    BY DEF CacheTypeOK, Ensuring
  <1>2. [at |-> at, ref |-> task[t].ref, left |-> left, name |-> name, remote |-> remote] \in Ensuring
    BY <1>1 DEF Ensuring
  <1> QED
    BY <1>2 DEF CacheTypeOK, Works

\* A thread that goes on keeps all but its stage.
LEMMA Gone ==
  ASSUME CacheTypeOK, NEW t \in Tasks, NEW at \in Stages, Goes(t, at)
  PROVE  /\ task' \in [Tasks -> Ensuring]
         /\ task'[t].at = at /\ task'[t].ref = task[t].ref /\ task'[t].left = task[t].left
         /\ task'[t].name = task[t].name /\ task'[t].remote = task[t].remote
         /\ \A u \in Tasks \ {t} : task'[u] = task[u]
  BY DEF CacheTypeOK, Goes, Ensuring

\* Two threads do not work on one ref, nor on one name.
LEMMA OneInSection ==
  ASSUME CacheTypeOK, LocksHeld, NEW t \in Tasks, NEW u \in Tasks, t # u
  PROVE  /\ task[t].ref \in Refs /\ InSection(t) /\ InSection(u) => task[u].ref # task[t].ref
         /\ task[t].name \in Names /\ task[t].at \in {"pulling", "placed"} /\ task[u].at \in {"pulling", "placed"}
              => task[u].name # task[t].name
  BY DEF LocksHeld

\* Nor is it being evicted.
LEMMA NotEvicting ==
  ASSUME CacheTypeOK, LocksHeld, EvictionLocks, NEW t \in Tasks, InSection(t), task[t].ref \in Refs
  PROVE  evicting # task[t].ref /\ holder[task[t].ref] = t
  BY CleanerAssumption DEF LocksHeld, EvictionLocks

\* What an error does to the locks: they go back to those who do not hold them.
LEMMA Failed ==
  ASSUME CacheTypeOK, LocksHeld, EvictionLocks, NEW t \in Tasks, Fails(t)
  PROVE  /\ task' \in [Tasks -> Ensuring] /\ holder' \in [Refs \cup Names -> Tasks \cup {Cleaner, Null}]
         /\ task'[t] = Idle /\ \A u \in Tasks \ {t} : task'[u] = task[u]
         /\ UNCHANGED <<registryVars, requests, trouble, cleanerVars, evicted, runs>>
         /\ LocksHeld' /\ EvictionLocks'
  <1>1. /\ task' = [task EXCEPT ![t] = Idle]
        /\ holder' = [l \in Refs \cup Names |-> IF holder[l] = t THEN Null ELSE holder[l]]
        /\ UNCHANGED <<registryVars, requests, trouble, cleanerVars, evicted, runs>>
    BY DEF Fails, Held, CacheTypeOK
  <1>2. task'[t] = Idle /\ \A u \in Tasks \ {t} : task'[u] = task[u]
    BY <1>1 DEF CacheTypeOK
  <1>3. task' \in [Tasks -> Ensuring] /\ holder' \in [Refs \cup Names -> Tasks \cup {Cleaner, Null}]
    BY <1>1, IdleFacts DEF CacheTypeOK
  <1>4. \A l \in Refs \cup Names : holder'[l] = (IF holder[l] = t THEN Null ELSE holder[l])
    BY <1>1
  <1>5. \A l \in Refs \cup Names : holder'[l] # t
    BY <1>4, CleanerAssumption
  <1>6. \A l \in Refs \cup Names : \A u \in Tasks \ {t} : holder'[l] = u <=> holder[l] = u
    BY <1>4, CleanerAssumption
  <1>7. LocksHeld'
    <2>1. ASSUME NEW u \in Tasks \ {t}
          PROVE  /\ \A r \in Refs : holder'[r] = u <=> task'[u].ref = r /\ task'[u].at \notin {"idle", "waiting", "running"}
                 /\ \A n \in Names : holder'[n] = u <=> task'[u].name = n /\ task'[u].at \in {"pulling", "placed"}
      BY <1>2, <1>6 DEF LocksHeld, InSection
    <2>2. /\ \A r \in Refs : holder'[r] = t <=> task'[t].ref = r /\ task'[t].at \notin {"idle", "waiting", "running"}
          /\ \A n \in Names : holder'[n] = t <=> task'[t].name = n /\ task'[t].at \in {"pulling", "placed"}
      BY <1>2, <1>5, IdleFacts
    <2> QED
      BY <2>1, <2>2 DEF LocksHeld, InSection
  <1>8. EvictionLocks'
    <2>1. \A l \in Refs \cup Names : holder'[l] = Cleaner <=> evicting' = l
      BY <1>1, <1>4, CleanerAssumption DEF EvictionLocks, cleanerVars
    <2>2. \A u \in Tasks : evicting' # Null /\ task'[u].ref = evicting' /\ task'[u].at = "running" => u \in evicted'
      BY <1>1, <1>2, IdleFacts DEF EvictionLocks, cleanerVars, InEnsure
    <2> QED
      BY <2>1, <2>2 DEF EvictionLocks, InEnsure
  <1> QED
    BY <1>1, <1>2, <1>3, <1>7, <1>8

\* What does not touch the shared files, nor the threads that replace one.
LEMMA SidecarStays ==
  ASSUME SidecarInv, UNCHANGED <<shared, cached, sidecar, torn>>,
         \A u \in Tasks : \A n \in Names : Placing(u, n) => Placing(u, n)'
  PROVE  SidecarInv'
  BY DEF SidecarInv

LEMMA DoomedStays == ASSUME DoomedInv, UNCHANGED <<registryVars, cleanerVars>> PROVE DoomedInv'
  BY DEF DoomedInv, registryVars, cleanerVars

CacheOK == CacheTypeOK /\ LocksHeld /\ CacheInv

LEMMA StartKeeps ==
  ASSUME CacheOK, RegistryTypeOK, NEW t \in Tasks, NEW r \in Refs, Start(t, r)
  PROVE  CacheOK'
  <1> USE DEF CacheOK, CacheInv
  <1>1. /\ task[t].at = "idle" /\ runs < MaxRuns /\ runs' = runs + 1
        /\ task' = [task EXCEPT ![t] = [Idle EXCEPT !.at = "waiting", !.ref = r]]
        /\ UNCHANGED <<registryVars, requests, trouble, cacheVars, holder, cleanerVars, evicted, cut, torn>>
    BY DEF Start, InEnsure
  <1>2. /\ task' \in [Tasks -> Ensuring] /\ task'[t].at = "waiting" /\ task'[t].ref = r
        /\ \A u \in Tasks \ {t} : task'[u] = task[u]
    BY <1>1, IdleFacts DEF CacheTypeOK
  <1>3. CacheTypeOK'
    BY <1>1, <1>2, RunsAssumption DEF CacheTypeOK, cacheVars, cleanerVars
  <1>4. LocksHeld'
    BY <1>1, <1>2 DEF LocksHeld, InSection
  <1>5. TasksShaped' /\ EvictionLocks'
    BY <1>1, <1>2 DEF TasksShaped, TaskShaped, EvictionLocks, InEnsure, Placing, cacheVars, cleanerVars
  <1>6. BundleInv'
    BY <1>1, <1>2 DEF BundleInv, PartsAreCut, StagesHold, StageHolds, VenvsFit, RunsWhole, InEnsure, cacheVars
  <1>7. SidecarInv'
    BY <1>1, <1>2, SidecarStays DEF Placing, InEnsure, cacheVars, registryVars
  <1>8. DoomedInv'
    BY <1>1, DoomedStays
  <1> QED
    BY <1>3, <1>4, <1>5, <1>6, <1>7, <1>8

LEMMA TakeRefKeeps ==
  ASSUME CacheOK, RegistryTypeOK, NEW t \in Tasks, TakeRef(t)
  PROVE  CacheOK'
  <1> USE DEF CacheOK, CacheInv
  <1> DEFINE r == task[t].ref
  <1>1. /\ task[t].at = "waiting" /\ holder[r] = Null /\ Goes(t, "looking")
        /\ holder' = [holder EXCEPT ![r] = t]
        /\ UNCHANGED <<registryVars, requests, trouble, cacheVars, cleanerVars, evicted, cut, torn, runs>>
    BY DEF TakeRef, InEnsure
  <1>2. /\ task' \in [Tasks -> Ensuring] /\ task'[t].at = "looking" /\ task'[t].ref = r
        /\ \A u \in Tasks \ {t} : task'[u] = task[u]
    BY <1>1, Gone DEF Stages
  <1>3. r \in Refs
    BY <1>1 DEF TasksShaped, TaskShaped
  <1> HIDE DEF r
  <1>4. /\ holder' \in [Refs \cup Names -> Tasks \cup {Cleaner, Null}]
        /\ holder'[r] = t /\ \A l \in (Refs \cup Names) \ {r} : holder'[l] = holder[l]
    BY <1>1, <1>3 DEF CacheTypeOK
  <1>5. CacheTypeOK'
    BY <1>1, <1>2, <1>4 DEF CacheTypeOK, cacheVars, cleanerVars
  <1>6. LocksHeld'
    <2>1. \A u \in Tasks : holder[r] # u
      BY <1>1, CleanerAssumption
    <2>2. ASSUME NEW u \in Tasks, NEW l \in Refs
          PROVE  holder'[l] = u <=> task'[u].ref = l /\ task'[u].at \notin {"idle", "waiting", "running"}
      <3>1. CASE u = t
        BY <3>1, <2>1, <1>1, <1>2, <1>4 DEF LocksHeld, InSection, r
      <3>2. CASE u # t
        BY <3>2, <2>1, <1>1, <1>2, <1>4 DEF LocksHeld, InSection
      <3> QED
        BY <3>1, <3>2
    <2>3. ASSUME NEW u \in Tasks, NEW n \in Names
          PROVE  holder'[n] = u <=> task'[u].name = n /\ task'[u].at \in {"pulling", "placed"}
      BY <1>1, <1>2, <1>3, <1>4, KindsAssumption DEF LocksHeld
    <2> QED
      BY <2>2, <2>3 DEF LocksHeld, InSection
  <1>7. TasksShaped'
    BY <1>1, <1>2, <1>3 DEF TasksShaped, TaskShaped, InEnsure, Placing, cacheVars
  <1>8. EvictionLocks'
    BY <1>1, <1>2, <1>3, <1>4, CleanerAssumption DEF EvictionLocks, InEnsure, cleanerVars
  <1>9. BundleInv'
    BY <1>1, <1>2 DEF BundleInv, PartsAreCut, StagesHold, StageHolds, VenvsFit, RunsWhole, InEnsure, cacheVars
  <1>10. SidecarInv'
    BY <1>1, <1>2, SidecarStays DEF Placing, InEnsure, cacheVars, registryVars
  <1>11. DoomedInv'
    BY <1>1, DoomedStays
  <1> QED
    BY <1>5, <1>6, <1>7, <1>8, <1>9, <1>10, <1>11

\* A thread that goes on under the locks it has.
LEMMA SectionStays ==
  ASSUME LocksHeld, EvictionLocks, NEW t \in Tasks, InSection(t), InSection(t)',
         task'[t].ref = task[t].ref, task[t].at \in {"pulling", "placed"} => task'[t].name = task[t].name,
         task'[t].at \in {"pulling", "placed"} <=> task[t].at \in {"pulling", "placed"},
         \A u \in Tasks \ {t} : task'[u] = task[u], UNCHANGED <<holder, evicting, evicted>>
  PROVE  LocksHeld' /\ EvictionLocks'
  <1>1. \A u \in Tasks : /\ task'[u].ref = task[u].ref
                         /\ task[u].at \in {"pulling", "placed"} => task'[u].name = task[u].name
                         /\ task'[u].at \in {"pulling", "placed"} <=> task[u].at \in {"pulling", "placed"}
                         /\ InSection(u)' <=> InSection(u)
                         /\ task'[u].at = "running" <=> task[u].at = "running"
    BY DEF InSection
  <1>2. LocksHeld'
    BY <1>1 DEF LocksHeld
  <1>3. EvictionLocks'
    BY <1>1 DEF EvictionLocks, InEnsure
  <1> QED
    BY <1>2, <1>3

\* What a thread knows stays true, if the others leave its shared file alone.
LEMMA ShapedStays ==
  ASSUME TasksShaped, NEW t \in Tasks, TaskShaped(t)', \A u \in Tasks \ {t} : task'[u] = task[u],
         \A u \in Tasks \ {t} : task[u].at \in {"pulling", "placed"} =>
           /\ sidecar'[task[u].name] = sidecar[task[u].name]
           /\ cached'[task[u].name] = cached[task[u].name]
  PROVE  TasksShaped'
  <1>1. ASSUME NEW u \in Tasks \ {t} PROVE TaskShaped(u)'
    <2>1. TaskShaped(u) /\ task'[u] = task[u]
      BY DEF TasksShaped
    <2>2. task[u].at \in {"pulling", "placed"} =>
           /\ sidecar'[task[u].name] = sidecar[task[u].name]
           /\ cached'[task[u].name] = cached[task[u].name]
      OBVIOUS
    <2> QED
      BY <2>1, <2>2 DEF TaskShaped, InEnsure
  <1> QED
    BY <1>1 DEF TasksShaped

\* What a thread does to its ref is no concern of the others.
LEMMA BundleStays ==
  ASSUME CacheOK, NEW t \in Tasks, NEW r \in Refs, InSection(t), task[t].ref = r,
         \A u \in Tasks \ {t} : task'[u] = task[u],
         task'[t].at = "idle" \/ task'[t].ref = r,
         UNCHANGED <<cut, evicted>>,
         \A o \in Refs \ {r} : dir'[o] = dir[o] /\ venv'[o] = venv[o],
         r \notin cut => dir'[r] = Absent \/ dir'[r].whole \/ task'[t].at = "extracting",
         r \notin cut => venv'[r] = Absent \/ venv'[r].whole,
         venv'[r] # Absent => dir'[r] # Absent /\ venv'[r].of = dir'[r].of,
         StageHolds(t)',
         dir[r].whole /\ venv[r].whole => dir'[r].whole /\ venv'[r].whole,
         task'[t].at = "running" /\ r \notin cut => dir'[r].whole /\ venv'[r].whole
  PROVE  BundleInv'
  <1> USE DEF CacheOK, CacheInv, BundleInv
  <1>1. \A u \in Tasks \ {t} : InSection(u) => task[u].ref # r
    BY OneInSection
  <1>2. VenvsFit'
    BY DEF VenvsFit
  <1>3. PartsAreCut'
    <2>1. ASSUME NEW o \in Refs \ cut, o # r
          PROVE  /\ dir'[o] = Absent \/ dir'[o].whole \/ \E u \in Tasks : task'[u].at = "extracting" /\ task'[u].ref = o
                 /\ venv'[o] = Absent \/ venv'[o].whole
      BY <2>1 DEF PartsAreCut, InEnsure
    <2>2. ASSUME r \notin cut
          PROVE  /\ dir'[r] = Absent \/ dir'[r].whole \/ \E u \in Tasks : task'[u].at = "extracting" /\ task'[u].ref = r
                 /\ venv'[r] = Absent \/ venv'[r].whole
      BY <2>2
    <2> QED
      BY <2>1, <2>2 DEF PartsAreCut, InEnsure
  <1>4. StagesHold'
    <2>1. ASSUME NEW u \in Tasks \ {t}
          PROVE  StageHolds(u)'
      <3>1. CASE InSection(u)
        <4>1. task[u].ref \in Refs \ {r}
          BY <3>1, <1>1 DEF TasksShaped, TaskShaped, InSection
        <4> QED
          BY <4>1 DEF StagesHold, StageHolds, InEnsure
      <3>2. CASE ~ InSection(u)
        BY <3>2 DEF StageHolds, InEnsure, InSection
      <3> QED
        BY <3>1, <3>2
    <2> QED
      BY <2>1 DEF StagesHold
  <1>5. RunsWhole'
    <2>1. ASSUME NEW u \in Tasks \ evicted, u # t, task[u].at = "running", task[u].ref \notin cut
          PROVE  dir'[task[u].ref].whole /\ venv'[task[u].ref].whole
      <3>1. task[u].ref \in Refs /\ dir[task[u].ref].whole /\ venv[task[u].ref].whole
        BY <2>1 DEF RunsWhole, InEnsure, TasksShaped, TaskShaped
      <3> QED
        BY <3>1
    <2> QED
      BY <2>1 DEF RunsWhole, InEnsure
  <1> QED
    BY <1>2, <1>3, <1>4, <1>5

LEMMA LookKeeps ==
  ASSUME CacheOK, RegistryTypeOK, NEW t \in Tasks, Look(t)
  PROVE  CacheOK'
  <1> USE DEF CacheOK, CacheInv
  <1> DEFINE r == task[t].ref
  <1>1. /\ task[t].at = "looking"
        /\ UNCHANGED <<registryVars, requests, trouble, venv, cached, sidecar, holder, cleanerVars, evicted, cut, torn, runs>>
    BY DEF Look, InEnsure
  <1>2. r \in Refs /\ InSection(t)
    BY <1>1 DEF TasksShaped, TaskShaped, InSection
  <1>3. \A u \in Tasks \ {t} : InSection(u) => task[u].ref # r
    BY <1>2, OneInSection
  <1>4. /\ dir' \in [Refs -> Copy] /\ \A o \in Refs \ {r} : dir'[o] = dir[o]
        /\ \/ dir[r] # Absent /\ Goes(t, "preparing") /\ dir'[r] = dir[r]
           \/ dir[r] = Absent /\ Goes(t, "extracting") /\ dir'[r] # Absent
    BY <1>2, CopyFacts DEF Look, CacheTypeOK, RegistryTypeOK
  <1>5. /\ task' \in [Tasks -> Ensuring]
        /\ task'[t].at \in {"preparing", "extracting"} /\ task'[t].ref = r /\ task'[t].name = task[t].name
        /\ task'[t].at = "preparing" => dir[r] # Absent /\ dir'[r] = dir[r]
        /\ task'[t].at = "extracting" => dir[r] = Absent /\ dir'[r] # Absent
        /\ \A u \in Tasks \ {t} : task'[u] = task[u]
    BY <1>4, Gone DEF Stages
  <1>6. CacheTypeOK'
    BY <1>1, <1>4, <1>5 DEF CacheTypeOK, cleanerVars
  <1>7. LocksHeld' /\ EvictionLocks'
    <2>1. InSection(t)'
      BY <1>5 DEF InSection
    <2> QED
      BY <2>1, <1>1, <1>2, <1>5, SectionStays DEF cleanerVars
  <1>8. TasksShaped'
    BY <1>1, <1>2, <1>5 DEF TasksShaped, TaskShaped, Placing, InEnsure
  <1>9. BundleInv'
    <2>1. dir[r] = Absent => venv[r] = Absent
      BY <1>2 DEF BundleInv, VenvsFit
    <2>2. r \notin cut => /\ task'[t].at = "preparing" => dir[r].whole
                          /\ venv[r] = Absent \/ venv[r].whole
      BY <1>1, <1>2, <1>3, <1>5 DEF BundleInv, PartsAreCut, InEnsure, InSection
    <2>3. StageHolds(t)'
      BY <2>1, <2>2, <1>1, <1>5 DEF StageHolds, InEnsure
    <2>4. venv[r] # Absent => dir'[r] # Absent /\ venv[r].of = dir'[r].of
      BY <2>1, <1>2, <1>5 DEF BundleInv, VenvsFit
    <2>5. dir[r].whole => dir'[r].whole
      BY <1>5, CopyFacts
    <2> HIDE DEF r, CacheOK, CacheInv
    <2> QED
      BY <2>2, <2>3, <2>4, <2>5, <1>1, <1>2, <1>4, <1>5, BundleStays DEF r
  <1>10. SidecarInv'
    BY <1>1, <1>5, SidecarStays DEF Placing, InEnsure, registryVars
  <1>11. DoomedInv'
    BY <1>1, DoomedStays
  <1> QED
    BY <1>6, <1>7, <1>8, <1>9, <1>10, <1>11

\* An error before a shared file is replaced leaves the shared files as they are.
LEMMA FailedKeeps ==
  ASSUME CacheOK, NEW t \in Tasks, Fails(t), ~ InEnsure(t, "placed"),
         UNCHANGED <<cached, sidecar, cut, torn>>,
         dir' \in [Refs -> Copy], venv' \in [Refs -> Copy], BundleInv'
  PROVE  CacheOK'
  <1> USE DEF CacheOK, CacheInv
  <1>1. /\ task' \in [Tasks -> Ensuring] /\ holder' \in [Refs \cup Names -> Tasks \cup {Cleaner, Null}]
        /\ task'[t] = Idle /\ \A u \in Tasks \ {t} : task'[u] = task[u]
        /\ UNCHANGED <<registryVars, requests, trouble, cleanerVars, evicted, runs>>
        /\ LocksHeld' /\ EvictionLocks'
    BY Failed
  <1>2. CacheTypeOK'
    BY <1>1 DEF CacheTypeOK, cleanerVars
  <1>3. TasksShaped'
    <2>1. task'[t].at = "idle"
      BY <1>1, IdleFacts
    <2> QED
      BY <2>1, <1>1 DEF TasksShaped, TaskShaped, Placing, InEnsure
  <1>4. SidecarInv'
    BY <1>1, SidecarStays DEF Placing, InEnsure, registryVars
  <1>5. DoomedInv'
    BY <1>1, DoomedStays
  <1> QED
    BY <1>1, <1>2, <1>3, <1>4, <1>5

\* An error that changes nothing but the thread.
LEMMA BundleUntouched ==
  ASSUME CacheOK, NEW t \in Tasks, Fails(t), InSection(t), ~ InEnsure(t, "extracting"),
         UNCHANGED <<dir, venv, cut>>
  PROVE  BundleInv'
  <1> USE DEF CacheOK, CacheInv
  <1> DEFINE r == task[t].ref
  <1>1. /\ task'[t] = Idle /\ \A u \in Tasks \ {t} : task'[u] = task[u]
        /\ UNCHANGED evicted
    BY Failed
  <1>2. r \in Refs /\ task'[t].at = "idle"
    BY <1>1, IdleFacts DEF TasksShaped, TaskShaped, InSection
  <1>3. \A u \in Tasks \ {t} : InSection(u) => task[u].ref # r
    BY <1>2, OneInSection
  <1>4. r \notin cut => /\ dir[r] = Absent \/ dir[r].whole
                        /\ venv[r] = Absent \/ venv[r].whole
    BY <1>2, <1>3 DEF BundleInv, PartsAreCut, InSection, InEnsure
  <1>5. venv[r] # Absent => dir[r] # Absent /\ venv[r].of = dir[r].of
    BY <1>2 DEF BundleInv, VenvsFit
  <1>6. StageHolds(t)'
    BY <1>2 DEF StageHolds, InEnsure
  <1> HIDE DEF CacheOK, CacheInv, r
  <1> QED
    BY <1>1, <1>2, <1>4, <1>5, <1>6, BundleStays DEF r

LEMMA FetchFailsKeeps ==
  ASSUME CacheOK, NEW t \in Tasks, FetchFails(t)
  PROVE  CacheOK'
  <1>1. /\ task[t].at = "looking" /\ Fails(t) /\ UNCHANGED <<dir, venv, cached, sidecar, cut, torn>>
    BY DEF FetchFails, InEnsure, cacheVars
  <1>2. BundleInv'
    BY <1>1, BundleUntouched DEF InSection, InEnsure
  <1> QED
    BY <1>1, <1>2, FailedKeeps DEF InEnsure, CacheOK, CacheTypeOK

LEMMA SyncFailsKeeps ==
  ASSUME CacheOK, NEW t \in Tasks, SyncFails(t)
  PROVE  CacheOK'
  <1>1. /\ task[t].at \in {"syncing", "pulling"} /\ Fails(t) /\ UNCHANGED <<dir, venv, cached, sidecar, cut, torn>>
    BY DEF SyncFails, InEnsure, cacheVars
  <1>2. BundleInv'
    BY <1>1, BundleUntouched DEF InSection, InEnsure
  <1> QED
    BY <1>1, <1>2, FailedKeeps DEF InEnsure, CacheOK, CacheTypeOK

LEMMA ExtractFailsKeeps ==
  ASSUME CacheOK, NEW t \in Tasks, ExtractFails(t)
  PROVE  CacheOK'
  <1> DEFINE r == task[t].ref
  <1>1. /\ task[t].at = "extracting" /\ Fails(t) /\ dir' = [dir EXCEPT ![r] = Absent]
        /\ UNCHANGED <<venv, cached, sidecar, cut, torn>>
    BY DEF ExtractFails, InEnsure, LeftAfter
  <1>2. r \in Refs /\ InSection(t) /\ venv[r] = Absent
    BY <1>1 DEF CacheOK, CacheInv, TasksShaped, TaskShaped, InSection, BundleInv, StagesHold, StageHolds, InEnsure
  <1>3. /\ task'[t].at = "idle" /\ \A u \in Tasks \ {t} : task'[u] = task[u]
        /\ UNCHANGED evicted
    BY <1>1, Failed, IdleFacts DEF CacheOK, CacheInv
  <1>4. /\ dir' \in [Refs -> Copy] /\ dir'[r] = Absent /\ \A o \in Refs \ {r} : dir'[o] = dir[o]
    BY <1>1, <1>2, CopyFacts DEF CacheOK, CacheTypeOK
  <1>5. StageHolds(t)'
    BY <1>3 DEF StageHolds, InEnsure
  <1>6. ~ venv[r].whole
    BY <1>2, CopyFacts
  <1>7. BundleInv'
    BY <1>1, <1>2, <1>3, <1>4, <1>5, <1>6, BundleStays DEF r
  <1> QED
    BY <1>1, <1>4, <1>7, FailedKeeps DEF InEnsure, CacheOK, CacheTypeOK

LEMMA ExtractedKeeps ==
  ASSUME CacheOK, NEW t \in Tasks, Extracted(t)
  PROVE  CacheOK'
  <1> USE DEF CacheOK, CacheInv
  <1> DEFINE r == task[t].ref
  <1>1. /\ task[t].at = "extracting" /\ dir' = [dir EXCEPT ![r] = Whole(dir[r].of)] /\ Goes(t, "preparing")
        /\ UNCHANGED <<registryVars, requests, trouble, venv, cached, sidecar, holder, cleanerVars, evicted, cut, torn, runs>>
    BY DEF Extracted, InEnsure
  <1>2. r \in Refs /\ InSection(t) /\ dir[r] # Absent /\ venv[r] = Absent
    BY <1>1 DEF TasksShaped, TaskShaped, InSection, BundleInv, StagesHold, StageHolds, InEnsure
  <1>3. dir[r].of \in Digests
    BY <1>2, CopyFacts DEF CacheTypeOK
  <1>4. /\ dir' \in [Refs -> Copy] /\ dir'[r] = Whole(dir[r].of) /\ \A o \in Refs \ {r} : dir'[o] = dir[o]
    BY <1>1, <1>2, <1>3, CopyFacts DEF CacheTypeOK
  <1>5. /\ task' \in [Tasks -> Ensuring]
        /\ task'[t].at = "preparing" /\ task'[t].ref = r /\ task'[t].name = task[t].name
        /\ \A u \in Tasks \ {t} : task'[u] = task[u]
    BY <1>1, Gone DEF Stages
  <1> HIDE DEF r
  <1>6. CacheTypeOK'
    BY <1>1, <1>4, <1>5 DEF CacheTypeOK, cleanerVars
  <1>7. LocksHeld' /\ EvictionLocks'
    BY <1>1, <1>2, <1>5, SectionStays DEF cleanerVars, r, InSection
  <1>8. TasksShaped'
    BY <1>1, <1>2, <1>5 DEF TasksShaped, TaskShaped, Placing, InEnsure
  <1>9. BundleInv'
    <2>1. StageHolds(t)'
      BY <1>1, <1>3, <1>4, <1>5, CopyFacts DEF StageHolds, InEnsure
    <2>2. dir'[r].whole
      BY <1>3, <1>4, CopyFacts
    <2> HIDE DEF CacheOK, CacheInv
    <2> QED
      BY <2>1, <2>2, <1>1, <1>2, <1>4, <1>5, BundleStays DEF r
  <1>10. SidecarInv'
    BY <1>1, <1>5, SidecarStays DEF Placing, InEnsure, registryVars
  <1>11. DoomedInv'
    BY <1>1, DoomedStays
  <1> QED
    BY <1>6, <1>7, <1>8, <1>9, <1>10, <1>11

LEMMA PrepareKeeps ==
  ASSUME CacheOK, NEW t \in Tasks, Prepare(t)
  PROVE  CacheOK'
  <1> USE DEF CacheOK, CacheInv
  <1> DEFINE r == task[t].ref
             need == Needs[dir[r].of]
  <1>1. /\ task[t].at = "preparing"
        /\ (venv[r] # Absent /\ venv' = venv) \/ venv' = [venv EXCEPT ![r] = Whole(dir[r].of)]
        /\ Works(t, "syncing", need, Null, Null)
        /\ UNCHANGED <<registryVars, requests, trouble, dir, cached, sidecar, holder, cleanerVars, evicted, cut, torn, runs>>
    BY DEF Prepare, InEnsure
  <1>2. r \in Refs /\ InSection(t) /\ dir[r] # Absent /\ (r \notin cut => dir[r].whole)
    BY <1>1 DEF TasksShaped, TaskShaped, InSection, BundleInv, StagesHold, StageHolds, InEnsure
  <1>3. dir[r].of \in Digests /\ need \subseteq Names
    BY <1>2, CopyFacts, NeedsAssumption DEF CacheTypeOK
  <1> HIDE DEF need
  <1>4. /\ task' \in [Tasks -> Ensuring]
        /\ task'[t].at = "syncing" /\ task'[t].ref = r
        /\ \A u \in Tasks \ {t} : task'[u] = task[u]
    BY <1>1, <1>3, Worked DEF Stages
  <1>5. /\ venv' \in [Refs -> Copy] /\ \A o \in Refs \ {r} : venv'[o] = venv[o]
        /\ (venv[r] # Absent /\ venv'[r] = venv[r]) \/ venv'[r] = Whole(dir[r].of)
    BY <1>1, <1>2, <1>3, CopyFacts DEF CacheTypeOK
  <1> HIDE DEF r
  <1>6. CacheTypeOK'
    BY <1>1, <1>4, <1>5 DEF CacheTypeOK, cleanerVars
  <1>7. LocksHeld' /\ EvictionLocks'
    BY <1>1, <1>2, <1>4, SectionStays DEF cleanerVars, r, InSection
  <1>8. TasksShaped'
    BY <1>1, <1>2, <1>4 DEF TasksShaped, TaskShaped, Placing, InEnsure
  <1>9. BundleInv'
    <2>1. venv[r] # Absent => venv[r].of = dir[r].of /\ (r \notin cut => venv[r].whole)
      BY <1>2 DEF BundleInv, VenvsFit, PartsAreCut
    <2>2. venv'[r].of = dir[r].of /\ (r \notin cut => venv'[r].whole) /\ (venv[r].whole => venv'[r].whole)
      BY <2>1, <1>3, <1>5, CopyFacts
    <2>3. StageHolds(t)'
      BY <2>2, <1>1, <1>2, <1>4 DEF StageHolds, InEnsure
    <2> HIDE DEF CacheOK, CacheInv
    <2> QED
      BY <2>2, <2>3, <1>1, <1>2, <1>4, <1>5, BundleStays DEF r
  <1>10. SidecarInv'
    BY <1>1, <1>4, SidecarStays DEF Placing, InEnsure, registryVars
  <1>11. DoomedInv'
    BY <1>1, DoomedStays
  <1> QED
    BY <1>6, <1>7, <1>8, <1>9, <1>10, <1>11

LEMMA PrepareFailsKeeps ==
  ASSUME CacheOK, NEW t \in Tasks, PrepareFails(t)
  PROVE  CacheOK'
  <1> DEFINE r == task[t].ref
  <1>1. /\ task[t].at = "preparing" /\ Fails(t)
        /\ venv' = venv \/ (~ venv[r].whole /\ venv' = [venv EXCEPT ![r] = Absent])
        /\ UNCHANGED <<dir, cached, sidecar, cut, torn>>
    BY DEF PrepareFails, InEnsure
  <1>2. r \in Refs /\ InSection(t) /\ dir[r] # Absent /\ (r \notin cut => dir[r].whole)
    BY <1>1 DEF CacheOK, CacheInv, TasksShaped, TaskShaped, InSection, BundleInv, StagesHold, StageHolds, InEnsure
  <1>3. /\ task'[t].at = "idle" /\ \A u \in Tasks \ {t} : task'[u] = task[u]
        /\ UNCHANGED evicted
    BY <1>1, Failed, IdleFacts DEF CacheOK, CacheInv
  <1>4. /\ venv' \in [Refs -> Copy] /\ \A o \in Refs \ {r} : venv'[o] = venv[o]
        /\ venv'[r] = venv[r] \/ (~ venv[r].whole /\ venv'[r] = Absent)
    BY <1>1, <1>2, CopyFacts DEF CacheOK, CacheTypeOK
  <1>5. StageHolds(t)'
    BY <1>3 DEF StageHolds, InEnsure
  <1>6. venv[r] # Absent => venv[r].of = dir[r].of /\ (r \notin cut => venv[r].whole)
    BY <1>2 DEF CacheOK, CacheInv, BundleInv, VenvsFit, PartsAreCut
  <1>7. BundleInv'
    BY <1>1, <1>2, <1>3, <1>4, <1>5, <1>6, BundleStays DEF r
  <1> QED
    BY <1>1, <1>4, <1>7, FailedKeeps DEF InEnsure, CacheOK, CacheTypeOK

\* While the shared files are fetched, and when the run starts, bundle and venv stay.
LEMMA BundleReady ==
  ASSUME CacheOK, NEW t \in Tasks, task[t].at \in {"syncing", "pulling", "placed"},
         \A u \in Tasks \ {t} : task'[u] = task[u],
         task'[t].at = "idle" \/ (task'[t].ref = task[t].ref /\ task'[t].at \in {"syncing", "pulling", "placed", "running"}),
         UNCHANGED <<dir, venv, cut, evicted>>
  PROVE  BundleInv'
  <1> DEFINE r == task[t].ref
  <1>1. InSection(t) /\ r \in Refs /\ dir[r] # Absent
    BY DEF CacheOK, CacheInv, TasksShaped, TaskShaped, InSection, BundleInv, StagesHold, StageHolds
  <1>2. r \notin cut => dir[r].whole /\ venv[r].whole
    BY DEF CacheOK, CacheInv, BundleInv, StagesHold, StageHolds
  <1>3. venv[r] # Absent => venv[r].of = dir[r].of
    BY <1>1 DEF CacheOK, CacheInv, BundleInv, VenvsFit
  <1>4. StageHolds(t)'
    BY <1>1, <1>2 DEF StageHolds, InEnsure
  <1> HIDE DEF r
  <1> QED
    BY <1>1, <1>2, <1>3, <1>4, BundleStays DEF r

LEMMA SyncKeeps ==
  ASSUME CacheOK, RegistryTypeOK, NEW t \in Tasks, NEW n \in Names, Sync(t, n)
  PROVE  CacheOK'
  <1> USE DEF CacheOK, CacheInv
  <1> DEFINE r == task[t].ref
  <1>1. /\ task[t].at = "syncing" /\ holder[n] = Null /\ shared[n] # Null
        /\ UNCHANGED <<registryVars, requests, trouble, dir, venv, cached, sidecar, cleanerVars, evicted, cut, torn, runs>>
    BY DEF Sync, InEnsure, cacheVars
  <1>2. InSection(t) /\ r \in Refs
    BY <1>1 DEF TasksShaped, TaskShaped, InSection
  <1>3. task[t] \in Ensuring /\ shared[n] \in Contents
    BY <1>1 DEF CacheTypeOK, RegistryTypeOK
  <1>4. CASE Works(t, "syncing", task[t].left \ {n}, Null, Null) /\ UNCHANGED holder
    <2>1. task[t].left \ {n} \in SUBSET Names
      BY <1>3 DEF Ensuring
    <2>2. /\ task' \in [Tasks -> Ensuring]
          /\ task'[t].at = "syncing" /\ task'[t].ref = r
          /\ \A u \in Tasks \ {t} : task'[u] = task[u]
      BY <2>1, <1>4, Worked DEF Stages
    <2>3. CacheTypeOK'
      BY <2>2, <1>1, <1>4 DEF CacheTypeOK, cleanerVars
    <2>4. LocksHeld' /\ EvictionLocks'
      BY <1>1, <1>2, <1>4, <2>2, SectionStays DEF cleanerVars, InSection
    <2>5. TasksShaped'
      BY <1>1, <1>2, <2>2 DEF TasksShaped, TaskShaped, Placing, InEnsure
    <2>6. BundleInv'
      BY <1>1, <2>2, BundleReady
    <2>7. SidecarInv'
      BY <1>1, <2>2, SidecarStays DEF Placing, InEnsure, registryVars
    <2>8. DoomedInv'
      BY <1>1, DoomedStays
    <2> QED
      BY <2>3, <2>4, <2>5, <2>6, <2>7, <2>8
  <1>5. CASE /\ LocalSha(n) # shared[n]
             /\ Works(t, "pulling", task[t].left, n, shared[n])
             /\ holder' = [holder EXCEPT ![n] = t]
    <2>1. /\ task' \in [Tasks -> Ensuring]
          /\ task'[t].at = "pulling" /\ task'[t].ref = r /\ task'[t].name = n /\ task'[t].remote = shared[n]
          /\ \A u \in Tasks \ {t} : task'[u] = task[u]
      <3>1. /\ "pulling" \in Stages /\ task[t].left \in SUBSET Names
            /\ n \in Names \cup {Null} /\ shared[n] \in Contents \cup {Null}
        BY <1>3 DEF Ensuring, Stages
      <3> DEFINE left == task[t].left
                 x == shared[n]
      <3>2. Works(t, "pulling", left, n, x) /\ CacheTypeOK
        BY <1>5
      <3> HIDE DEF left, x
      <3>3. left \in SUBSET Names /\ x \in Contents \cup {Null}
        BY <3>1 DEF left, x
      <3>4. /\ task' \in [Tasks -> Ensuring]
            /\ task'[t].at = "pulling" /\ task'[t].ref = task[t].ref /\ task'[t].name = n /\ task'[t].remote = x
            /\ \A u \in Tasks \ {t} : task'[u] = task[u]
        BY <3>1, <3>2, <3>3, Worked
      <3> QED
        BY <3>4 DEF x
    <2>2. /\ holder' \in [Refs \cup Names -> Tasks \cup {Cleaner, Null}]
          /\ holder'[n] = t /\ \A l \in (Refs \cup Names) \ {n} : holder'[l] = holder[l]
      BY <1>5 DEF CacheTypeOK
    <2>3. CacheTypeOK'
      BY <2>1, <2>2, <1>1 DEF CacheTypeOK, cleanerVars
    <2>4. LocksHeld'
      <3>1. \A u \in Tasks : holder[n] # u
        BY <1>1, CleanerAssumption
      <3>2. ASSUME NEW u \in Tasks, NEW l \in Refs
            PROVE  holder'[l] = u <=> task'[u].ref = l /\ task'[u].at \notin {"idle", "waiting", "running"}
        BY <1>1, <2>1, <2>2, KindsAssumption DEF LocksHeld, InSection
      <3>3. ASSUME NEW u \in Tasks, NEW l \in Names
            PROVE  holder'[l] = u <=> task'[u].name = l /\ task'[u].at \in {"pulling", "placed"}
        <4>1. CASE u = t
          BY <4>1, <3>1, <1>1, <2>1, <2>2 DEF LocksHeld
        <4>2. CASE u # t
          BY <4>2, <3>1, <1>1, <2>1, <2>2 DEF LocksHeld
        <4> QED
          BY <4>1, <4>2
      <3> QED
        BY <3>2, <3>3 DEF LocksHeld, InSection
    <2>5. EvictionLocks'
      BY <1>1, <2>1, <2>2, CleanerAssumption DEF EvictionLocks, InEnsure, cleanerVars
    <2>6. sidecar[n] # shared[n]
      BY <1>1, <1>5 DEF LocalSha, SidecarInv
    <2>7. TasksShaped'
      BY <1>1, <1>2, <1>3, <2>1, <2>6 DEF TasksShaped, TaskShaped, Placing, InEnsure
    <2>8. BundleInv'
      BY <1>1, <2>1, BundleReady
    <2>9. SidecarInv'
      BY <1>1, <2>1, SidecarStays DEF Placing, InEnsure, registryVars
    <2>10. DoomedInv'
      BY <1>1, DoomedStays
    <2> QED
      BY <2>3, <2>4, <2>5, <2>7, <2>8, <2>9, <2>10
  <1> QED
    BY <1>4, <1>5 DEF Sync

LEMMA PlaceKeeps ==
  ASSUME CacheOK, NEW t \in Tasks, Place(t)
  PROVE  CacheOK'
  <1> USE DEF CacheOK, CacheInv
  <1> DEFINE r == task[t].ref
             n == task[t].name
             x == task[t].remote
  <1>1. /\ task[t].at = "pulling" /\ cached' = [cached EXCEPT ![n] = x] /\ Goes(t, "placed")
        /\ UNCHANGED <<registryVars, requests, trouble, dir, venv, sidecar, holder, cleanerVars, evicted, cut, torn, runs>>
    BY DEF Place, InEnsure, Stored
  <1>2. r \in Refs /\ InSection(t) /\ n \in Names /\ x \in Contents /\ sidecar[n] # x /\ x # Null
    BY <1>1, NullAssumption DEF TasksShaped, TaskShaped, InSection
  <1>3. /\ task' \in [Tasks -> Ensuring] /\ task'[t].at = "placed"
        /\ task'[t].ref = r /\ task'[t].name = n /\ task'[t].remote = x
        /\ \A u \in Tasks \ {t} : task'[u] = task[u]
    BY <1>1, Gone DEF Stages
  <1>4. \A u \in Tasks \ {t} : task[u].at \in {"pulling", "placed"} => task[u].name # n
    BY <1>1, <1>2, OneInSection
  <1>5. /\ cached' \in [Names -> Contents \cup {Null}] /\ cached'[n] = x
        /\ \A m \in Names \ {n} : cached'[m] = cached[m]
    BY <1>1, <1>2 DEF CacheTypeOK
  <1>6. LocksHeld' /\ EvictionLocks'
    BY <1>1, <1>2, <1>3, SectionStays DEF cleanerVars, InSection
  <1>7. BundleInv'
    BY <1>1, <1>3, BundleReady
  <1> HIDE DEF r, n, x
  <1>8. CacheTypeOK'
    BY <1>1, <1>3, <1>5 DEF CacheTypeOK, cleanerVars
  <1>9. TasksShaped'
    BY <1>1, <1>2, <1>3, <1>4, <1>5 DEF TasksShaped, TaskShaped, Placing, InEnsure
  <1>10. SidecarInv'
    BY <1>1, <1>2, <1>3, <1>5 DEF SidecarInv, Placing, InEnsure, registryVars, n
  <1>11. DoomedInv'
    BY <1>1, DoomedStays
  <1> QED
    BY <1>6, <1>7, <1>8, <1>9, <1>10, <1>11

LEMMA NoteKeeps ==
  ASSUME CacheOK, NEW t \in Tasks, Note(t)
  PROVE  CacheOK'
  <1> USE DEF CacheOK, CacheInv
  <1> DEFINE r == task[t].ref
             n == task[t].name
             x == task[t].remote
  <1>1. /\ task[t].at = "placed" /\ sidecar' = [sidecar EXCEPT ![n] = x]
        /\ holder' = [holder EXCEPT ![n] = Null] /\ torn' = [torn EXCEPT ![n] = "no"]
        /\ Works(t, "syncing", task[t].left \ {n}, Null, Null)
        /\ UNCHANGED <<registryVars, requests, trouble, dir, venv, cached, cleanerVars, evicted, cut, runs>>
    BY DEF Note, InEnsure, Stored
  <1>2. r \in Refs /\ InSection(t) /\ n \in Names /\ x \in Contents /\ cached[n] = x /\ x # Null
    BY <1>1, NullAssumption DEF TasksShaped, TaskShaped, InSection, Placing, InEnsure
  <1>3. task[t].left \ {n} \in SUBSET Names
    BY DEF CacheTypeOK, Ensuring
  <1>4. /\ task' \in [Tasks -> Ensuring]
        /\ task'[t].at = "syncing" /\ task'[t].ref = r /\ task'[t].name = Null
        /\ \A u \in Tasks \ {t} : task'[u] = task[u]
    BY <1>1, <1>3, Worked DEF Stages
  <1>8. \A u \in Tasks \ {t} : task[u].at \in {"pulling", "placed"} => task[u].name # n
    BY <1>1, <1>2, OneInSection
  <1>9. BundleInv'
    BY <1>1, <1>4, BundleReady
  <1> HIDE DEF r, n, x
  <1>10. /\ sidecar' \in [Names -> Contents \cup {Null}] /\ sidecar'[n] = x
         /\ torn' \in [Names -> {"no", "torn", "changed"}] /\ torn'[n] = "no"
         /\ holder' \in [Refs \cup Names -> Tasks \cup {Cleaner, Null}] /\ holder'[n] = Null
         /\ \A m \in Names \ {n} : sidecar'[m] = sidecar[m] /\ torn'[m] = torn[m]
         /\ \A l \in (Refs \cup Names) \ {n} : holder'[l] = holder[l]
    BY <1>1, <1>2 DEF CacheTypeOK
  <1>11. CacheTypeOK'
    BY <1>1, <1>4, <1>10 DEF CacheTypeOK, cleanerVars
  <1>12. holder[n] = t
    BY <1>1, <1>2 DEF LocksHeld, n
  <1>13. LocksHeld'
    <2>1. ASSUME NEW u \in Tasks, NEW l \in Refs
          PROVE  holder'[l] = u <=> task'[u].ref = l /\ task'[u].at \notin {"idle", "waiting", "running"}
      BY <1>1, <1>2, <1>4, <1>10, KindsAssumption DEF LocksHeld, InSection, r
    <2>2. ASSUME NEW u \in Tasks, NEW m \in Names
          PROVE  holder'[m] = u <=> task'[u].name = m /\ task'[u].at \in {"pulling", "placed"}
      <3>1. CASE u = t
        BY <3>1, <1>1, <1>2, <1>4, <1>10, CleanerAssumption DEF LocksHeld, n
      <3>2. CASE u # t
        BY <3>2, <1>2, <1>4, <1>8, <1>10, CleanerAssumption DEF LocksHeld
      <3> QED
        BY <3>1, <3>2
    <2> QED
      BY <2>1, <2>2 DEF LocksHeld, InSection
  <1>14. EvictionLocks'
    BY <1>1, <1>2, <1>4, <1>10, <1>12, CleanerAssumption DEF EvictionLocks, InEnsure, cleanerVars
  <1>15. TasksShaped'
    BY <1>1, <1>2, <1>4, <1>8, <1>10 DEF TasksShaped, TaskShaped, Placing, InEnsure
  <1>16. SidecarInv'
    BY <1>1, <1>2, <1>4, <1>10 DEF SidecarInv, Placing, InEnsure, registryVars, n
  <1>17. DoomedInv'
    BY <1>1, DoomedStays
  <1> QED
    BY <1>9, <1>11, <1>13, <1>14, <1>15, <1>16, <1>17

LEMMA NoteFailsKeeps ==
  ASSUME CacheOK, NEW t \in Tasks, NoteFails(t)
  PROVE  CacheOK'
  <1> USE DEF CacheOK, CacheInv
  <1> DEFINE r == task[t].ref
             n == task[t].name
             x == task[t].remote
  <1>1. /\ task[t].at = "placed" /\ Fails(t) /\ torn' = Torn({t})
        /\ sidecar' = [sidecar EXCEPT ![n] = sidecar[n]] \/ sidecar' = [sidecar EXCEPT ![n] = Null]
        /\ UNCHANGED <<dir, venv, cached, cut>>
    BY DEF NoteFails, InEnsure
  <1>2. r \in Refs /\ InSection(t) /\ n \in Names /\ x \in Contents /\ cached[n] = x /\ x # Null /\ sidecar[n] # x
    BY <1>1, NullAssumption DEF TasksShaped, TaskShaped, InSection, Placing, InEnsure
  <1>3. /\ task' \in [Tasks -> Ensuring] /\ holder' \in [Refs \cup Names -> Tasks \cup {Cleaner, Null}]
        /\ task'[t].at = "idle" /\ \A u \in Tasks \ {t} : task'[u] = task[u]
        /\ UNCHANGED <<registryVars, requests, trouble, cleanerVars, evicted, runs>>
        /\ LocksHeld' /\ EvictionLocks'
    BY <1>1, Failed, IdleFacts
  <1>4. \A u \in Tasks \ {t} : task[u].at \in {"pulling", "placed"} => task[u].name # n
    BY <1>1, <1>2, OneInSection
  <1>5. BundleInv'
    BY <1>1, <1>3, BundleReady
  <1>6. /\ torn' \in [Names -> {"no", "torn", "changed"}]
        /\ torn'[n] = (IF x = shared[n] THEN "torn" ELSE "changed")
        /\ \A m \in Names \ {n} : torn'[m] = torn[m]
    BY <1>1, <1>2 DEF Torn, InEnsure, CacheTypeOK
  <1> HIDE DEF r, n, x
  <1>7. /\ sidecar' \in [Names -> Contents \cup {Null}] /\ sidecar'[n] \in {sidecar[n], Null}
        /\ \A m \in Names \ {n} : sidecar'[m] = sidecar[m]
    BY <1>1, <1>2 DEF CacheTypeOK
  <1>8. CacheTypeOK'
    BY <1>1, <1>3, <1>6, <1>7 DEF CacheTypeOK, cleanerVars
  <1>9. TasksShaped'
    BY <1>1, <1>2, <1>3, <1>4, <1>7 DEF TasksShaped, TaskShaped, Placing, InEnsure
  <1>10. SidecarInv'
    <2>1. \A m \in Names \ {n} : \A u \in Tasks : Placing(u, m) => Placing(u, m)'
      BY <1>3 DEF Placing, InEnsure, n
    <2> QED
      BY <2>1, <1>1, <1>2, <1>3, <1>6, <1>7 DEF SidecarInv, registryVars
  <1>11. DoomedInv'
    BY <1>3, DoomedStays
  <1> QED
    BY <1>3, <1>5, <1>8, <1>9, <1>10, <1>11

LEMMA ReturnKeeps ==
  ASSUME CacheOK, NEW t \in Tasks, Return(t)
  PROVE  CacheOK'
  <1> USE DEF CacheOK, CacheInv
  <1> DEFINE r == task[t].ref
  <1>1. /\ task[t].at = "syncing" /\ Goes(t, "running") /\ holder' = [holder EXCEPT ![r] = Null]
        /\ UNCHANGED <<registryVars, requests, trouble, dir, venv, cached, sidecar, cleanerVars, evicted, cut, torn, runs>>
    BY DEF Return, InEnsure, cacheVars
  <1>2. InSection(t) /\ r \in Refs
    BY <1>1 DEF TasksShaped, TaskShaped, InSection
  <1>3. /\ task' \in [Tasks -> Ensuring] /\ task'[t].at = "running" /\ task'[t].ref = r
        /\ \A u \in Tasks \ {t} : task'[u] = task[u]
    BY <1>1, Gone DEF Stages
  <1>4. evicting # r /\ holder[r] = t
    BY <1>2, NotEvicting
  <1>5. BundleInv'
    BY <1>1, <1>3, BundleReady
  <1> HIDE DEF r
  <1>6. /\ holder' \in [Refs \cup Names -> Tasks \cup {Cleaner, Null}]
        /\ holder'[r] = Null /\ \A l \in (Refs \cup Names) \ {r} : holder'[l] = holder[l]
    BY <1>1, <1>2 DEF CacheTypeOK
  <1>7. CacheTypeOK'
    BY <1>1, <1>3, <1>6 DEF CacheTypeOK, cleanerVars
  <1>8. LocksHeld'
    <2>1. ASSUME NEW u \in Tasks, NEW l \in Refs
          PROVE  holder'[l] = u <=> task'[u].ref = l /\ task'[u].at \notin {"idle", "waiting", "running"}
      <3>1. CASE l = r
        BY <3>1, <1>2, <1>3, <1>4, <1>6, CleanerAssumption DEF LocksHeld, InSection
      <3>2. CASE l # r
        BY <3>2, <1>1, <1>3, <1>6 DEF LocksHeld, InSection, r
      <3> QED
        BY <3>1, <3>2
    <2>2. ASSUME NEW u \in Tasks, NEW n \in Names
          PROVE  holder'[n] = u <=> task'[u].name = n /\ task'[u].at \in {"pulling", "placed"}
      BY <1>1, <1>2, <1>3, <1>6, KindsAssumption DEF LocksHeld
    <2> QED
      BY <2>1, <2>2 DEF LocksHeld, InSection
  <1>9. EvictionLocks'
    BY <1>1, <1>2, <1>3, <1>4, <1>6, CleanerAssumption DEF EvictionLocks, InEnsure, cleanerVars
  <1>10. TasksShaped'
    <2>1. TaskShaped(t)'
      BY <1>2, <1>3 DEF TaskShaped, InEnsure
    <2> QED
      BY <2>1, <1>1, <1>3, ShapedStays
  <1>11. SidecarInv'
    BY <1>1, <1>3, SidecarStays DEF Placing, InEnsure, registryVars
  <1>12. DoomedInv'
    BY <1>1, DoomedStays
  <1> QED
    BY <1>5, <1>7, <1>8, <1>9, <1>10, <1>11, <1>12

LEMMA EndKeeps ==
  ASSUME CacheOK, NEW t \in Tasks, End(t)
  PROVE  CacheOK'
  <1> USE DEF CacheOK, CacheInv
  <1>1. /\ task[t].at = "running" /\ task' = [task EXCEPT ![t] = Idle] /\ evicted' = evicted \ {t}
        /\ UNCHANGED <<registryVars, requests, trouble, dir, venv, cached, sidecar, holder, cleanerVars, cut, torn, runs>>
    BY DEF End, InEnsure, cacheVars
  <1>2. /\ task' \in [Tasks -> Ensuring] /\ task'[t].at = "idle"
        /\ \A u \in Tasks \ {t} : task'[u] = task[u]
    BY <1>1, IdleFacts DEF CacheTypeOK
  <1>3. CacheTypeOK'
    BY <1>1, <1>2 DEF CacheTypeOK, cleanerVars
  <1>4. LocksHeld'
    BY <1>1, <1>2 DEF LocksHeld, InSection
  <1>5. EvictionLocks'
    BY <1>1, <1>2 DEF EvictionLocks, InEnsure, cleanerVars
  <1>6. TasksShaped'
    <2>1. TaskShaped(t)'
      BY <1>2 DEF TaskShaped, InEnsure
    <2> QED
      BY <2>1, <1>1, <1>2, ShapedStays
  <1>7. BundleInv'
    BY <1>1, <1>2 DEF BundleInv, PartsAreCut, StagesHold, StageHolds, VenvsFit, RunsWhole, InEnsure
  <1>8. SidecarInv'
    BY <1>1, <1>2, SidecarStays DEF Placing, InEnsure, registryVars
  <1>9. DoomedInv'
    BY <1>1, DoomedStays
  <1> QED
    BY <1>3, <1>4, <1>5, <1>6, <1>7, <1>8, <1>9

LEMMA EvictKeeps ==
  ASSUME CacheOK, NEW r \in Refs, Evict(r)
  PROVE  CacheOK'
  <1> USE DEF CacheOK, CacheInv
  <1>1. /\ evicting = Null /\ holder[r] = Null /\ evicting' = r /\ holder' = [holder EXCEPT ![r] = Cleaner]
        /\ evicted' = evicted \cup {t \in Tasks : task[t].ref = r /\ task[t].at = "running"}
        /\ UNCHANGED <<registryVars, requests, trouble, dir, venv, cached, sidecar, task, doomed, cut, torn, unlisted, runs>>
    BY DEF Evict, InEnsure, cacheVars
  <1>2. /\ holder' \in [Refs \cup Names -> Tasks \cup {Cleaner, Null}]
        /\ holder'[r] = Cleaner /\ \A l \in (Refs \cup Names) \ {r} : holder'[l] = holder[l]
    BY <1>1 DEF CacheTypeOK
  <1>3. CacheTypeOK'
    BY <1>1, <1>2 DEF CacheTypeOK
  <1>4. LocksHeld'
    BY <1>1, <1>2, KindsAssumption, CleanerAssumption DEF LocksHeld, InSection
  <1>5. EvictionLocks'
    <2>1. \A l \in Refs \cup Names : holder'[l] = Cleaner <=> evicting' = l
      BY <1>1, <1>2, NullAssumption DEF EvictionLocks
    <2> QED
      BY <2>1, <1>1 DEF EvictionLocks, InEnsure
  <1>6. TasksShaped' /\ BundleInv'
    BY <1>1 DEF TasksShaped, TaskShaped, BundleInv, PartsAreCut, StagesHold, StageHolds, VenvsFit, RunsWhole, InEnsure
  <1>7. SidecarInv' /\ DoomedInv'
    BY <1>1 DEF SidecarInv, DoomedInv, Placing, InEnsure, registryVars
  <1> QED
    BY <1>3, <1>4, <1>5, <1>6, <1>7

LEMMA EvictEndsKeeps ==
  ASSUME CacheOK, EvictEnds
  PROVE  CacheOK'
  <1> USE DEF CacheOK, CacheInv
  <1> DEFINE r == evicting
  <1>1. /\ r # Null /\ dir' = [dir EXCEPT ![r] = Absent] /\ venv' = [venv EXCEPT ![r] = Absent]
        /\ cut' = cut \ {r} /\ holder' = [holder EXCEPT ![r] = Null] /\ evicting' = Null
        /\ UNCHANGED <<registryVars, requests, trouble, cached, sidecar, task, doomed, evicted, torn, unlisted, runs>>
    BY DEF EvictEnds, Removed
  <1>2. r \in Refs /\ holder[r] = Cleaner
    BY <1>1 DEF CacheTypeOK, EvictionLocks
  <1>3. \A t \in Tasks : InSection(t) => task[t].ref # r
    BY <1>2, CleanerAssumption DEF LocksHeld
  <1>4. \A t \in Tasks : task[t].ref = r /\ task[t].at = "running" => t \in evicted
    BY <1>1 DEF EvictionLocks, InEnsure
  <1>5. \A l \in Refs \cup Names : l # r => holder[l] # Cleaner
    BY DEF EvictionLocks
  <1> HIDE DEF r
  <1>6. /\ holder' \in [Refs \cup Names -> Tasks \cup {Cleaner, Null}]
        /\ holder'[r] = Null /\ \A l \in (Refs \cup Names) \ {r} : holder'[l] = holder[l]
        /\ dir' \in [Refs -> Copy] /\ venv' \in [Refs -> Copy] /\ dir'[r] = Absent /\ venv'[r] = Absent
        /\ \A o \in Refs \ {r} : dir'[o] = dir[o] /\ venv'[o] = venv[o]
    BY <1>1, <1>2, CopyFacts DEF CacheTypeOK
  <1>7. CacheTypeOK'
    BY <1>1, <1>6 DEF CacheTypeOK
  <1>8. LocksHeld'
    BY <1>1, <1>2, <1>6, KindsAssumption, CleanerAssumption DEF LocksHeld, InSection
  <1>9. EvictionLocks'
    BY <1>1, <1>2, <1>5, <1>6, NullAssumption, CleanerAssumption DEF EvictionLocks, InEnsure
  <1>10. TasksShaped'
    BY <1>1 DEF TasksShaped, TaskShaped, InEnsure
  <1>11. BundleInv'
    <2>1. PartsAreCut' /\ VenvsFit'
      BY <1>1, <1>6 DEF BundleInv, PartsAreCut, VenvsFit, InEnsure
    <2>2. ASSUME NEW t \in Tasks
          PROVE  StageHolds(t)'
      <3>1. CASE InSection(t)
        <4>1. task[t].ref \in Refs \ {r}
          BY <3>1, <1>3 DEF TasksShaped, TaskShaped, InSection
        <4> QED
          BY <4>1, <1>1, <1>6 DEF BundleInv, StagesHold, StageHolds, InEnsure
      <3>2. CASE ~ InSection(t)
        BY <3>2, <1>1 DEF StageHolds, InEnsure, InSection
      <3> QED
        BY <3>1, <3>2
    <2>3. RunsWhole'
      BY <1>1, <1>4, <1>6 DEF BundleInv, RunsWhole, InEnsure, TasksShaped, TaskShaped
    <2> QED
      BY <2>1, <2>2, <2>3 DEF BundleInv, StagesHold
  <1>12. SidecarInv' /\ DoomedInv'
    BY <1>1 DEF SidecarInv, DoomedInv, Placing, InEnsure, registryVars
  <1> QED
    BY <1>7, <1>8, <1>9, <1>10, <1>11, <1>12

LEMMA AskRegistryKeeps ==
  ASSUME CacheOK, AskRegistry
  PROVE  CacheOK'
  <1> USE DEF CacheOK, CacheInv
  <1>1. /\ doomed' = {n \in Names : cached[n] # Null /\ shared[n] = Null} /\ unlisted' = {}
        /\ UNCHANGED <<registryVars, requests, trouble, dir, venv, cached, sidecar, holder, task, evicting, evicted, cut, torn, runs>>
    BY DEF AskRegistry, Orphan, cacheVars
  <1>2. CacheTypeOK' /\ LocksHeld'
    BY <1>1 DEF CacheTypeOK, LocksHeld, InSection
  <1>3. TasksShaped' /\ EvictionLocks' /\ BundleInv'
    BY <1>1 DEF TasksShaped, TaskShaped, EvictionLocks, BundleInv, PartsAreCut, StagesHold, StageHolds, VenvsFit, RunsWhole, InEnsure
  <1>4. SidecarInv' /\ DoomedInv'
    BY <1>1 DEF SidecarInv, DoomedInv, Placing, InEnsure, registryVars
  <1> QED
    BY <1>2, <1>3, <1>4

LEMMA SweepKeeps ==
  ASSUME CacheOK, NEW n \in Names, Sweep(n)
  PROVE  CacheOK'
  <1> USE DEF CacheOK, CacheInv
  <1>1. /\ holder[n] = Null /\ doomed' = doomed \ {n}
        /\ cached' = [cached EXCEPT ![n] = Null] /\ sidecar' = [sidecar EXCEPT ![n] = Null]
        /\ UNCHANGED <<registryVars, requests, trouble, dir, venv, holder, task, evicting, evicted, cut, torn, unlisted, runs>>
    BY DEF Sweep
  <1>2. /\ cached' \in [Names -> Contents \cup {Null}] /\ sidecar' \in [Names -> Contents \cup {Null}]
        /\ cached'[n] = Null /\ sidecar'[n] = Null
        /\ \A m \in Names \ {n} : cached'[m] = cached[m] /\ sidecar'[m] = sidecar[m]
    BY <1>1 DEF CacheTypeOK
  <1>3. \A t \in Tasks : task[t].at \in {"pulling", "placed"} => task[t].name # n
    BY <1>1, CleanerAssumption DEF LocksHeld
  <1>4. CacheTypeOK' /\ LocksHeld'
    BY <1>1, <1>2 DEF CacheTypeOK, LocksHeld, InSection
  <1>5. EvictionLocks' /\ BundleInv'
    BY <1>1 DEF EvictionLocks, BundleInv, PartsAreCut, StagesHold, StageHolds, VenvsFit, RunsWhole, InEnsure
  <1>6. TasksShaped'
    BY <1>1, <1>2, <1>3 DEF TasksShaped, TaskShaped, InEnsure
  <1>7. SidecarInv' /\ DoomedInv'
    BY <1>1, <1>2 DEF SidecarInv, DoomedInv, Placing, InEnsure, registryVars
  <1> QED
    BY <1>4, <1>5, <1>6, <1>7

LEMMA RegistryMovesKeeps ==
  ASSUME CacheOK, RegistryTypeOK, RegistryMoves
  PROVE  CacheOK'
  <1> USE DEF CacheOK, CacheInv
  <1>1. /\ unlisted' = unlisted \cup {n \in doomed : shared'[n] # Null}
        /\ torn' = [n \in Names |-> IF torn[n] = "torn" /\ shared'[n] # shared[n] THEN "changed" ELSE torn[n]]
        /\ UNCHANGED <<dir, venv, cached, sidecar, holder, task, evicting, doomed, evicted, cut, runs>>
    BY DEF RegistryMoves, cacheVars
  <1>2. CacheTypeOK' /\ LocksHeld'
    BY <1>1 DEF CacheTypeOK, LocksHeld, InSection
  <1>3. TasksShaped' /\ EvictionLocks' /\ BundleInv'
    BY <1>1 DEF TasksShaped, TaskShaped, EvictionLocks, BundleInv, PartsAreCut, StagesHold, StageHolds, VenvsFit, RunsWhole, InEnsure
  <1>4. SidecarInv'
    BY <1>1 DEF SidecarInv, Placing, InEnsure
  <1>5. DoomedInv'
    BY <1>1 DEF DoomedInv
  <1> QED
    BY <1>2, <1>3, <1>4, <1>5

LEMMA WorkerDiesKeeps ==
  ASSUME CacheOK, RegistryTypeOK, WorkerDies
  PROVE  CacheOK'
  <1> USE DEF CacheOK, CacheInv
  <1>1. /\ cut' = cut \cup ({evicting} \ {Null}) \cup {task[t].ref : t \in {u \in Tasks : task[u].at = "extracting"}}
        /\ torn' = Torn(Tasks) /\ task' = [t \in Tasks |-> Idle]
        /\ holder' = [l \in Refs \cup Names |-> Null]
        /\ evicting' = Null /\ doomed' = {} /\ unlisted' = {} /\ evicted' = {}
        /\ UNCHANGED <<registryVars, requests, cached, sidecar, runs>>
    BY DEF WorkerDies, InEnsure, CacheTypeOK
  <1>2. cut' \subseteq Refs /\ cut \subseteq cut' /\ (evicting \in Refs => evicting \in cut')
    BY <1>1, NullAssumption DEF CacheTypeOK, TasksShaped, TaskShaped
  <1>3. \A t \in Tasks : task[t].at = "extracting" => task[t].ref \in cut'
    BY <1>1
  <1>4. \A t \in Tasks : task'[t] = Idle /\ task'[t].at = "idle"
    BY <1>1, IdleFacts
  <1>5. /\ dir' \in [Refs -> Copy] /\ venv' \in [Refs -> Copy]
        /\ \A o \in Refs : o # evicting => dir'[o] = dir[o] /\ venv'[o] = venv[o]
        /\ \A o \in Refs : o = evicting => \/ venv'[o] = Absent
                                           \/ venv'[o] = Part(venv[o]) /\ dir'[o] = dir[o]
    <2>1. PICK r \in Refs : (evicting # Null => r = evicting) /\ Killed(r)
      BY DEF WorkerDies
    <2>2. CASE evicting # r
      BY <2>1, <2>2, NullAssumption DEF Killed, CacheTypeOK
    <2>3. CASE evicting = r /\ venv' = [venv EXCEPT ![r] = Part(venv[r])] /\ UNCHANGED dir
      BY <2>3, CopyFacts DEF CacheTypeOK
    <2>4. CASE evicting = r /\ venv' = [venv EXCEPT ![r] = Absent] /\ UNCHANGED dir
      BY <2>4, CopyFacts DEF CacheTypeOK
    <2>5. CASE evicting = r /\ venv' = [venv EXCEPT ![r] = Absent] /\ dir' = [dir EXCEPT ![r] = Part(dir[r])]
      BY <2>5, CopyFacts DEF CacheTypeOK
    <2> QED
      BY <2>1, <2>2, <2>3, <2>4, <2>5 DEF Killed, Removed
  <1>6. CacheTypeOK'
    <2>1. torn' \in [Names -> {"no", "torn", "changed"}]
      BY <1>1 DEF Torn, CacheTypeOK
    <2>2. task' \in [Tasks -> Ensuring] /\ holder' \in [Refs \cup Names -> Tasks \cup {Cleaner, Null}]
      BY <1>1, IdleFacts
    <2> QED
      BY <2>1, <2>2, <1>1, <1>2, <1>5 DEF CacheTypeOK
  <1>7. LocksHeld'
    BY <1>1, <1>4, CleanerAssumption DEF LocksHeld, InSection
  <1>8. EvictionLocks'
    BY <1>1, <1>4, CleanerAssumption, NullAssumption DEF EvictionLocks, InEnsure
  <1>9. TasksShaped'
    BY <1>4 DEF TasksShaped, TaskShaped, InEnsure
  <1>10. PartsAreCut'
    <2>1. ASSUME NEW o \in Refs \ cut'
          PROVE  (dir'[o] = Absent \/ dir'[o].whole) /\ (venv'[o] = Absent \/ venv'[o].whole)
      <3>1. o # evicting /\ o \notin cut /\ \A t \in Tasks : ~ (task[t].at = "extracting" /\ task[t].ref = o)
        BY <2>1, <1>2, <1>3
      <3> QED
        BY <3>1, <1>5 DEF BundleInv, PartsAreCut, InEnsure
    <2> QED
      BY <2>1 DEF PartsAreCut
  <1>11. StagesHold' /\ RunsWhole'
    BY <1>4 DEF StagesHold, StageHolds, RunsWhole, InEnsure
  <1>12. VenvsFit'
    BY <1>5, CopyFacts DEF BundleInv, VenvsFit, CacheTypeOK
  <1>13. SidecarInv'
    <2>1. ASSUME NEW n \in Names
          PROVE  /\ cached'[n] = Null => sidecar'[n] = Null
                 /\ torn'[n] = "no" => sidecar'[n] = cached'[n]
                 /\ torn'[n] = "torn" => sidecar'[n] = Null \/ sidecar'[n] # shared'[n]
      <3>1. UNCHANGED <<shared, cached, sidecar>>
        BY <1>1 DEF registryVars
      <3>2. CASE \A t \in Tasks : ~ Placing(t, n)
        <4>1. torn'[n] = torn[n]
          BY <3>2, <1>1 DEF Torn, Placing
        <4> QED
          BY <4>1, <3>1, <3>2 DEF SidecarInv
      <3>3. CASE \E t \in Tasks : Placing(t, n)
        <4>1. torn'[n] = (IF \E t \in Tasks : Placing(t, n) /\ task[t].remote = shared[n] THEN "torn" ELSE "changed")
          BY <3>3, <1>1 DEF Torn, Placing
        <4>2. \A t \in Tasks : Placing(t, n) => sidecar[n] # task[t].remote
          BY DEF TasksShaped, TaskShaped, Placing, InEnsure
        <4> QED
          BY <4>1, <4>2, <3>1 DEF SidecarInv
      <3> QED
        BY <3>2, <3>3
    <2> QED
      BY <2>1 DEF SidecarInv
  <1>14. DoomedInv'
    BY <1>1 DEF DoomedInv
  <1> QED
    BY <1>6, <1>7, <1>8, <1>9, <1>10, <1>11, <1>12, <1>13, <1>14 DEF BundleInv

LEMMA InitCache == Init => RegistryTypeOK /\ RegistryInv /\ CacheOK
  <1> SUFFICES ASSUME Init PROVE RegistryTypeOK /\ RegistryInv /\ CacheOK
    OBVIOUS
  <1>1. RegistryTypeOK /\ RegistryInv
    BY InitRegistry DEF Init
  <1>2. \A t \in Tasks : task[t] = Idle /\ task[t].at = "idle"
    BY IdleFacts DEF Init
  <1>3. task \in [Tasks -> Ensuring]
    BY IdleFacts DEF Init
  <1>4. CacheTypeOK
    BY <1>3, CopyFacts, RunsAssumption DEF Init, CacheTypeOK
  <1>5. LocksHeld
    BY <1>2, CleanerAssumption DEF Init, LocksHeld, InSection
  <1>6. TasksShaped
    BY <1>2 DEF TasksShaped, TaskShaped, InEnsure
  <1>7. EvictionLocks
    BY <1>2, CleanerAssumption, NullAssumption DEF Init, EvictionLocks, InEnsure
  <1>8. \A r \in Refs : /\ dir[r] = Absent \/ dir[r].whole
                        /\ venv[r] = Absent \/ (venv[r].whole /\ venv[r] = dir[r])
    BY CopyFacts DEF Init
  <1>9. BundleInv
    BY <1>2, <1>8 DEF BundleInv, PartsAreCut, StagesHold, StageHolds, VenvsFit, RunsWhole, InEnsure
  <1>10. SidecarInv /\ DoomedInv
    BY DEF Init, SidecarInv, DoomedInv
  <1> QED
    BY <1>1, <1>4, <1>5, <1>6, <1>7, <1>9, <1>10 DEF CacheOK, CacheInv

\* What the registry's requests touch, and when its history stays.
LEMMA RegistryIdle ==
  ASSUME RegistryTypeOK, [Next]_vars, ~ RegistryMoves
  PROVE  UNCHANGED registryVars /\ requests' \in 0..MaxRequests /\ trouble' \in 0..MaxTrouble
  <1>1. CASE \E t \in Tasks : (\E r \in Refs : Start(t, r)) \/ Ensure(t) \/ End(t)
    BY <1>1 DEF Ensure, Start, TakeRef, Look, FetchFails, Extracted, ExtractFails, Prepare, PrepareFails, Sync,
                SyncFails, Place, Note, NoteFails, Return, End, Fails, RegistryTypeOK
  <1>2. CASE Cleanup
    BY <1>2 DEF Cleanup, EvictEnds, AskRegistry, Evict, Sweep, RegistryTypeOK
  <1>3. CASE WorkerDies
    BY <1>3, RequestsAssumption DEF WorkerDies, Trouble, RegistryTypeOK
  <1>4. CASE UNCHANGED vars
    BY <1>4 DEF vars, RegistryTypeOK
  <1> QED
    BY <1>1, <1>2, <1>3, <1>4 DEF Next

LEMMA RegistryKeeps ==
  ASSUME RegistryTypeOK, RegistryInv, [Next]_vars
  PROVE  RegistryTypeOK' /\ RegistryInv'
  <1>1. CASE RegistryMoves
    BY <1>1, RegistryStepKeeps DEF RegistryMoves
  <1>2. CASE ~ RegistryMoves
    BY <1>2, RegistryIdle, RegistryStays
  <1> QED
    BY <1>1, <1>2

LEMMA CacheStutters == ASSUME CacheOK, UNCHANGED vars PROVE CacheOK'
  <1> USE DEF vars, registryVars, cacheVars, cleanerVars
  <1>1. CacheTypeOK' /\ LocksHeld'
    BY DEF CacheOK, CacheTypeOK, LocksHeld, InSection
  <1>2. TasksShaped' /\ EvictionLocks' /\ BundleInv'
    BY DEF CacheOK, CacheInv, TasksShaped, TaskShaped, EvictionLocks, BundleInv, PartsAreCut, StagesHold, StageHolds,
           VenvsFit, RunsWhole, InEnsure
  <1>3. SidecarInv' /\ DoomedInv'
    BY DEF CacheOK, CacheInv, SidecarInv, DoomedInv, Placing, InEnsure
  <1> QED
    BY <1>1, <1>2, <1>3 DEF CacheOK, CacheInv

LEMMA CacheKeeps ==
  ASSUME CacheOK, RegistryTypeOK, [Next]_vars
  PROVE  CacheOK'
  <1>1. CASE RegistryMoves
    BY <1>1, RegistryMovesKeeps
  <1>2. ASSUME NEW t \in Tasks, (\E r \in Refs : Start(t, r)) \/ Ensure(t) \/ End(t)
        PROVE  CacheOK'
    BY <1>2, StartKeeps, TakeRefKeeps, LookKeeps, FetchFailsKeeps, ExtractedKeeps, ExtractFailsKeeps, PrepareKeeps,
       PrepareFailsKeeps, SyncKeeps, SyncFailsKeeps, PlaceKeeps, NoteKeeps, NoteFailsKeeps, ReturnKeeps, EndKeeps DEF Ensure
  <1>3. CASE Cleanup
    BY <1>3, EvictKeeps, EvictEndsKeeps, AskRegistryKeeps, SweepKeeps DEF Cleanup
  <1>4. CASE WorkerDies
    BY <1>4, WorkerDiesKeeps
  <1>5. CASE UNCHANGED vars
    BY <1>5, CacheStutters
  <1> QED
    BY <1>1, <1>2, <1>3, <1>4, <1>5 DEF Next

\* Every reachable state of registry and caches is of its type, locks are held by those in
\* their sections and nobody else, and all the inductive parts hold.
THEOREM CacheInvariant == Spec => [](TypeOK /\ RegistryInv /\ CacheInv)
  <1>1. Init => RegistryTypeOK /\ RegistryInv /\ CacheOK
    BY InitCache
  <1>2. RegistryTypeOK /\ RegistryInv /\ CacheOK /\ [Next]_vars => (RegistryTypeOK /\ RegistryInv /\ CacheOK)'
    BY RegistryKeeps, CacheKeeps
  <1>3. RegistryTypeOK /\ RegistryInv /\ CacheOK => TypeOK /\ RegistryInv /\ CacheInv
    BY DEF TypeOK, CacheOK
  <1> QED
    BY <1>1, <1>2, <1>3, PTL DEF Spec

-----------------------------------------------------------------------------
(* The theorems.                                                             *)

\* Rows and disk of the registry agree once a request is over (api/bundles.py, api/shared.py).
THEOREM RowsBacked == Spec => []RowsAreBacked
  <1>1. RegistryInv => RowsAreBacked
    BY DEF RegistryInv
  <1> QED
    BY <1>1, CacheInvariant, PTL

\* What a batch needs stays registered (the reference checks of both registries).
THEOREM ReferencesStay == Spec => []ReferencesHold
  <1>1. RegistryInv => ReferencesHold
    BY DEF RegistryInv
  <1> QED
    BY <1>1, CacheInvariant, PTL

\* A granule runs all of its bundle in all of its venv (bundle.ensure against prune_caches).
THEOREM WholeRuns == Spec => []RunsWhole
  <1>1. CacheInv => RunsWhole
    BY DEF CacheInv, BundleInv
  <1> QED
    BY <1>1, CacheInvariant, PTL

\* A venv stands beside the bundle it was built for, whatever was killed when.
THEOREM VenvsFitBundles == Spec => []VenvFits
  <1>1. CacheInv => VenvFits
    BY DEF CacheInv, BundleInv, VenvsFit, VenvFits
  <1> QED
    BY <1>1, CacheInvariant, PTL

\* A cached shared file that counts as the registered one is it (shared._local_sha).
THEOREM SidecarsTruthful == Spec => []SidecarTruthful
  <1>1. TypeOK /\ CacheInv => SidecarTruthful
    <2> SUFFICES ASSUME TypeOK, CacheInv, NEW n \in Names, holder[n] = Null, torn[n] # "changed", LocalSha(n) # Null
                 PROVE  LocalSha(n) = cached[n] \/ LocalSha(n) # shared[n]
      BY DEF SidecarTruthful
    <2>1. \A t \in Tasks : ~ Placing(t, n)
      BY CleanerAssumption DEF TypeOK, LocksHeld, Placing, InEnsure
    <2>2. torn[n] \in {"no", "torn"}
      BY DEF TypeOK, CacheTypeOK
    <2> QED
      BY <2>1, <2>2 DEF CacheInv, SidecarInv, LocalSha
  <1> QED
    BY <1>1, CacheInvariant, PTL

\* No run loses a shared file it is entitled to: what the sweep removes had no row when it
\* asked, and what a registered bundle with a batch needs has one (prune_orphans).
THEOREM SweepSpares == Spec => SweepSparesRuns
  <1> DEFINE Spares == \A n \in Names : cached[n] # Null /\ cached'[n] = Null => ~ \E t \in Tasks : Deprives(t, n)
  <1>1. TypeOK /\ RegistryInv /\ CacheInv /\ [Next]_vars => [Spares]_vars
    <2> SUFFICES ASSUME TypeOK, RegistryInv, CacheInv, [Next]_vars,
                        NEW n \in Names, cached[n] # Null, cached'[n] = Null
                 PROVE  ~ \E t \in Tasks : Deprives(t, n)
      OBVIOUS
    <2>1. n \in doomed
      <3>1. \A t \in Tasks : ~ Place(t)
        <4> SUFFICES ASSUME NEW t \in Tasks, Place(t) PROVE FALSE
          OBVIOUS
        <4>1. task[t].name \in Names /\ task[t].remote \in Contents
          BY DEF CacheInv, TasksShaped, TaskShaped, Place, InEnsure
        <4>2. cached' = [cached EXCEPT ![task[t].name] = task[t].remote]
          BY DEF Place, Stored
        <4> QED
          BY <4>1, <4>2, NullAssumption DEF TypeOK, CacheTypeOK
      <3>2. \A m \in Names : Sweep(m) => m = n
        BY DEF Sweep, TypeOK, CacheTypeOK
      <3>3. cached' # cached
        OBVIOUS
      <3>4. \E m \in Names : Sweep(m)
        <4>1. ASSUME NEW t \in Tasks, (\E r \in Refs : Start(t, r)) \/ Ensure(t) \/ End(t)
              PROVE  cached' = cached
          <5>1. \A r \in Refs : Start(t, r) => cached' = cached
            BY DEF Start, cacheVars
          <5>2. TakeRef(t) \/ Look(t) \/ FetchFails(t) \/ Extracted(t) \/ ExtractFails(t) => cached' = cached
            BY DEF TakeRef, Look, FetchFails, Extracted, ExtractFails, cacheVars
          <5>3. Prepare(t) \/ PrepareFails(t) \/ (\E m \in Names : Sync(t, m)) \/ SyncFails(t) => cached' = cached
            BY DEF Prepare, PrepareFails, Sync, SyncFails, cacheVars
          <5>4. Note(t) \/ NoteFails(t) \/ Return(t) \/ End(t) => cached' = cached
            BY DEF Note, Stored, NoteFails, Return, End, cacheVars
          <5> QED
            BY <4>1, <5>1, <5>2, <5>3, <5>4, <3>1 DEF Ensure
        <4>2. RegistryMoves \/ WorkerDies \/ UNCHANGED vars => cached' = cached
          BY DEF RegistryMoves, WorkerDies, vars, cacheVars
        <4>3. EvictEnds \/ AskRegistry \/ (\E r \in Refs : Evict(r)) => cached' = cached
          BY DEF EvictEnds, AskRegistry, Evict, cacheVars
        <4> QED
          BY <4>1, <4>2, <4>3, <3>3 DEF Next, Cleanup
      <3> QED
        BY <3>2, <3>4 DEF Sweep
    <2>2. ASSUME NEW t \in Tasks, Deprives(t, n) PROVE FALSE
      <3>1. /\ task[t].ref \in batches \ shaky /\ bundle[task[t].ref] # Null
            /\ n \in Needs[bundle[task[t].ref]] \ shaky /\ n \notin unlisted
        BY <2>2 DEF Deprives
      <3>2. task[t].ref \in Refs
        BY <3>1 DEF TypeOK, RegistryTypeOK
      <3>3. shared[n] # Null
        BY <3>1, <3>2 DEF RegistryInv, ReferencesHold
      <3>4. shared[n] = Null
        BY <2>1, <3>1 DEF CacheInv, DoomedInv
      <3> QED
        BY <3>3, <3>4
    <2> QED
      BY <2>2
  <1> QED
    BY <1>1, CacheInvariant, PTL DEF Spec, SweepSparesRuns
=============================================================================
