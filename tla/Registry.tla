------------------------------- MODULE Registry -------------------------------
(***************************************************************************)
(* The orchestrator's registries of bundles and of shared files              *)
(* (api/bundles.py, api/shared.py): rows in the database, bytes on the disk, *)
(* which no transaction covers both of, and the checks that keep what is     *)
(* referenced.  A request takes two steps or three where another one may get *)
(* between its check, its change on the disk and its commit.                 *)
(*                                                                           *)
(* A zip names its own bundle and version, so its digest decides them.       *)
(***************************************************************************)
EXTENDS Integers, FiniteSets

CONSTANTS Refs,        \* name@version of bundles
          Digests,     \* the zips there are
          RefOf,       \* digest -> ref in its manifest
          Needs,       \* digest -> shared_files of its manifest
          Names,       \* of shared files
          Contents,    \* bytes of shared files
          Null,
          Clients,     \* whose requests may overlap
          MaxRequests, \* bound: requests ever
          MaxTrouble   \* bound: failures ever

ASSUME RefOfAssumption == RefOf \in [Digests -> Refs]
ASSUME NeedsAssumption == Needs \in [Digests -> SUBSET Names]
ASSUME NullAssumption == Null \notin Digests \cup Contents \cup Refs \cup Names
ASSUME KindsAssumption == Refs \cap Names = {}  \* a ref and a name are told apart
ASSUME RequestsAssumption == MaxRequests \in Nat /\ MaxTrouble \in Nat

VARIABLES
  bundle,   \* ref -> sha256 of its bundles row
  blobs,    \* digests stored as <sha256>.zip
  shared,   \* name -> sha256 of its shared_files row
  files,    \* name -> bytes stored under the name
  batches,  \* refs that a batch refers to
  req,      \* client -> request under way
  shaky,    \* history: refs and names whose requests have overlapped or were cut short
  requests, \* number of requests so far
  trouble   \* number of failures so far

registryVars == <<bundle, blobs, shared, files, batches, req, shaky>>

None == [kind |-> "none"]
Request ==
  {None}
    \cup [kind : {"upload"}, digest : Digests]              \* blob there, row not committed
    \cup [kind : {"delete", "unlinked"}, digest : Digests]  \* checked; blob gone, row not
    \cup [kind : {"gc", "collected"}, digests : SUBSET Digests]  \* rows there; rows gone, blobs not
    \cup [kind : {"put"}, name : Names, content : Contents, known : BOOLEAN]  \* file replaced
    \cup [kind : {"drop"}, name : Names]                    \* row gone, file not

RegistryTypeOK ==
  /\ bundle \in [Refs -> Digests \cup {Null}] /\ blobs \subseteq Digests
  /\ shared \in [Names -> Contents \cup {Null}] /\ files \in [Names -> Contents \cup {Null}]
  /\ batches \subseteq Refs
  /\ req \in [Clients -> Request]
  /\ shaky \subseteq Refs \cup Names
  /\ requests \in 0..MaxRequests /\ trouble \in 0..MaxTrouble

Registered(d) == bundle[RefOf[d]] # Null
HasShared(S) == \A n \in S : shared[n] # Null

\* A row has the ref of its zip.
RowsFit == \A r \in Refs : bundle[r] # Null => RefOf[bundle[r]] = r

\* Whatever was registered before, on the disk too, with what it needs; batches use any of it.
RegistryInit ==
  /\ bundle \in [Refs -> Digests \cup {Null}] /\ RowsFit
  /\ blobs = {bundle[r] : r \in Refs} \ {Null}
  /\ shared \in [Names -> Contents \cup {Null}] /\ files = shared
  /\ \A r \in Refs : bundle[r] # Null => HasShared(Needs[bundle[r]])
  /\ batches \in SUBSET {r \in Refs : bundle[r] # Null}
  /\ req = [c \in Clients |-> None]
  /\ shaky = {} /\ requests = 0 /\ trouble = 0

Trouble == trouble < MaxTrouble /\ trouble' = trouble + 1

\* What a request is about.
Subjects(q) ==
  CASE q.kind = "none" -> {}
    [] q.kind = "upload" -> {RefOf[q.digest]} \cup Needs[q.digest]
    [] q.kind \in {"delete", "unlinked"} -> {RefOf[q.digest]}
    [] q.kind \in {"gc", "collected"} -> {RefOf[d] : d \in q.digests}
    [] OTHER -> {q.name}
UnderWay == UNION {Subjects(req[c]) : c \in Clients}

\* A request about S comes in.
Comes(S) ==
  /\ requests < MaxRequests /\ requests' = requests + 1
  /\ shaky' = shaky \cup (S \cap UnderWay)
Begins(c, q) ==
  /\ req[c] = None
  /\ Comes(Subjects(q))
  /\ req' = [req EXCEPT ![c] = q]
  /\ UNCHANGED trouble
Ends(c) ==
  /\ req' = [req EXCEPT ![c] = None]
  /\ UNCHANGED <<shaky, requests, trouble>>

-----------------------------------------------------------------------------
(* Bundles.                                                                  *)

\* The ref is new, its shared files are there, and the blob is, from now on.
BeginUpload(c, d) ==
  /\ ~ Registered(d) /\ HasShared(Needs[d])
  /\ Begins(c, [kind |-> "upload", digest |-> d])
  /\ blobs' = blobs \cup {d}
  /\ UNCHANGED <<bundle, shared, files, batches>>

\* The row, or a conflict with another one: its primary key, also while it is being deleted.
CommitUpload(c) ==
  /\ req[c].kind = "upload"
  /\ LET d == req[c].digest
     IN /\ \A o \in Clients : req[o].kind = "unlinked" => RefOf[req[o].digest] # RefOf[d]
        /\ bundle' = IF Registered(d) THEN bundle ELSE [bundle EXCEPT ![RefOf[d]] = d]
  /\ Ends(c)
  /\ UNCHANGED <<blobs, shared, files, batches>>

\* Mutant: nobody looks at the batches.
UnusedUnchecked(r) == bundle[r] # Null
Unused(r) == bundle[r] # Null /\ r \notin batches

\* A bundle that no batch refers to; its digest is read here.
BeginDelete(c, r) ==
  /\ Unused(r)
  /\ Begins(c, [kind |-> "delete", digest |-> bundle[r]])
  /\ UNCHANGED <<bundle, blobs, shared, files, batches>>

\* The DELETE is flushed, whatever row it finds; the blob goes unless another row has its
\* digest, which none can have.
Unlink(c) ==
  /\ req[c].kind = "delete"
  /\ LET d == req[c].digest
     IN /\ \A o \in Clients : req[o].kind = "unlinked" => RefOf[req[o].digest] # RefOf[d]
        /\ blobs' = IF \E r \in Refs \ {RefOf[d]} : bundle[r] = d THEN blobs ELSE blobs \ {d}
  /\ req' = [req EXCEPT ![c].kind = "unlinked"]
  /\ UNCHANGED <<bundle, shared, files, batches, shaky, requests, trouble>>

CommitDelete(c) ==
  /\ req[c].kind = "unlinked"
  /\ bundle' = [bundle EXCEPT ![RefOf[req[c].digest]] = Null]
  /\ Ends(c)
  /\ UNCHANGED <<blobs, shared, files, batches>>

\* Garbage collection: bundles that no batch refers to, and as old as asked for, which any may be.
BeginGc(c, S) ==
  /\ S # {} /\ \A r \in S : Unused(r)
  /\ Begins(c, [kind |-> "gc", digests |-> {bundle[r] : r \in S}])
  /\ UNCHANGED <<bundle, blobs, shared, files, batches>>
\* The rows are deleted and that is committed, before the blobs go.
CommitGc(c) ==
  /\ req[c].kind = "gc"
  /\ \A o \in Clients : req[o].kind = "unlinked" => RefOf[req[o].digest] \notin Subjects(req[c])
  /\ bundle' = [r \in Refs |-> IF r \in Subjects(req[c]) THEN Null ELSE bundle[r]]
  /\ req' = [req EXCEPT ![c].kind = "collected"]
  /\ UNCHANGED <<blobs, shared, files, batches, shaky, requests, trouble>>
EndGc(c) ==
  /\ req[c].kind = "collected"
  /\ blobs' = blobs \ req[c].digests
  /\ Ends(c)
  /\ UNCHANGED <<bundle, shared, files, batches>>

\* The first batch of a ref, checked like an upload; the last one is deleted.
CreateBatch(r) ==
  /\ bundle[r] # Null /\ r \notin batches
  /\ HasShared(Needs[bundle[r]])
  /\ Comes({r} \cup Needs[bundle[r]])
  /\ batches' = batches \cup {r}
  /\ UNCHANGED <<bundle, blobs, shared, files, req, trouble>>
DeleteBatches(r) ==
  /\ r \in batches /\ Comes({})
  /\ batches' = batches \ {r}
  /\ UNCHANGED <<bundle, blobs, shared, files, req, trouble>>

-----------------------------------------------------------------------------
(* Shared files.                                                             *)

\* The file is replaced under its name before the row is looked at.
BeginPut(c, n, x) ==
  /\ Begins(c, [kind |-> "put", name |-> n, content |-> x, known |-> shared[n] # Null])
  /\ files' = [files EXCEPT ![n] = x]
  /\ UNCHANGED <<bundle, blobs, shared, batches>>

\* Mutant: a row that is known keeps its digest.
PutRowKept(q) == IF q.known THEN shared ELSE [shared EXCEPT ![q.name] = q.content]
\* An INSERT or UPDATE that finds the row there or gone fails.
PutRow(q) ==
  IF q.known = (shared[q.name] # Null) THEN [shared EXCEPT ![q.name] = q.content] ELSE shared

CommitPut(c) ==
  /\ req[c].kind = "put"
  /\ shared' = PutRow(req[c])
  /\ Ends(c)
  /\ UNCHANGED <<bundle, blobs, files, batches>>

\* Mutant: only bundles of a batch keep a shared file.
UnreferencedByBatches(n) == \A r \in batches : bundle[r] # Null => n \notin Needs[bundle[r]]
Unreferenced(n) == \A r \in Refs : bundle[r] # Null => n \notin Needs[bundle[r]]

\* A file no bundle needs: the row is gone first, then the file.
BeginDrop(c, n) ==
  /\ shared[n] # Null /\ Unreferenced(n)
  /\ Begins(c, [kind |-> "drop", name |-> n])
  /\ shared' = [shared EXCEPT ![n] = Null]
  /\ UNCHANGED <<bundle, blobs, files, batches>>
EndDrop(c) ==
  /\ req[c].kind = "drop"
  /\ files' = [files EXCEPT ![req[c].name] = Null]
  /\ Ends(c)
  /\ UNCHANGED <<bundle, blobs, shared, batches>>

-----------------------------------------------------------------------------
\* The orchestrator dies and restarts: the disk stays as it is, the transactions roll back.
OrchestratorDies ==
  /\ UnderWay # {} /\ Trouble
  /\ shaky' = shaky \cup UnderWay
  /\ req' = [c \in Clients |-> None]
  /\ UNCHANGED <<bundle, blobs, shared, files, batches, requests>>

RegistryStep ==
  \/ \E c \in Clients :
       \/ \E d \in Digests : BeginUpload(c, d)
       \/ \E r \in Refs : BeginDelete(c, r)
       \/ \E S \in SUBSET Refs : BeginGc(c, S)
       \/ \E n \in Names : BeginDrop(c, n) \/ \E x \in Contents : BeginPut(c, n, x)
       \/ CommitUpload(c) \/ Unlink(c) \/ CommitDelete(c) \/ CommitGc(c) \/ EndGc(c)
       \/ CommitPut(c) \/ EndDrop(c)
  \/ \E r \in Refs : CreateBatch(r) \/ DeleteBatches(r)
  \/ OrchestratorDies

-----------------------------------------------------------------------------
\* Row and disk agree, though no transaction spans them: the blob of every bundle is there,
\* and the bytes of every shared file have the digest of its row, once the request that
\* changes them is over - unless requests for it overlapped or one was cut short.
RowsAreBacked ==
  /\ \A r \in Refs \ shaky :
       bundle[r] # Null => bundle[r] \in blobs \/ \E c \in Clients : req[c].kind = "unlinked" /\ RefOf[req[c].digest] = r
  /\ \A n \in Names \ shaky :
       files[n] = shared[n] \/ \E c \in Clients : req[c].kind \in {"put", "drop"} /\ req[c].name = n

\* What a batch needs stays registered, through deletions at either level and new uploads
\* under the same name, unless requests for it overlapped.
ReferencesHold ==
  /\ \A r \in batches \ shaky : bundle[r] # Null
  /\ \A r \in Refs : bundle[r] # Null => \A n \in Needs[bundle[r]] \ shaky : shared[n] # Null

\* What makes both inductive.  What two requests are about at a time is shaky.
Alone == \A c, o \in Clients : c # o => Subjects(req[c]) \cap Subjects(req[o]) \subseteq shaky

\* What a request found when it came still holds when it commits.
UploadHolds(d) ==
  /\ RefOf[d] \notin shaky => d \in blobs
  /\ \A n \in Needs[d] \ shaky : shared[n] # Null
PutHolds(q) == q.name \notin shaky => files[q.name] = q.content /\ q.known = (shared[q.name] # Null)
GcHolds(q) ==
  \A d \in q.digests :
    /\ q.kind = "gc" => RefOf[d] \notin batches \ shaky
    /\ q.kind = "collected" => RefOf[d] \in shaky \/ bundle[RefOf[d]] = Null
RequestsHold ==
  \A c \in Clients :
    /\ req[c].kind = "upload" => UploadHolds(req[c].digest)
    /\ req[c].kind \in {"delete", "unlinked"} => RefOf[req[c].digest] \notin batches \ shaky
    /\ req[c].kind \in {"gc", "collected"} => GcHolds(req[c])
    /\ req[c].kind = "put" => PutHolds(req[c])
    /\ req[c].kind = "drop" => req[c].name \in shaky \/ shared[req[c].name] = Null

RegistryInv == Alone /\ RowsFit /\ RequestsHold /\ RowsAreBacked /\ ReferencesHold
=============================================================================
