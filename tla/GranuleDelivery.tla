--------------------------- MODULE GranuleDelivery ---------------------------
(***************************************************************************)
(* The inductive invariant behind the delivery and lease properties of      *)
(* GranuleProtocol, for granule ids that are not submitted a second time:   *)
(* what a state must satisfy beyond those properties so that every action   *)
(* preserves all of them together.                                          *)
(***************************************************************************)
EXTENDS GranuleProtocol

\* Only submitted granules have rows or are owed a confirmation, and a pruned granule
\* does not come back.
GranulesKnown ==
  /\ \A g \in Granules : granule[g].state # "absent" => g \in known
  /\ \A x \in confirms : x[2] \in known
  /\ \A g \in retired : g \in known /\ granule[g].state = "absent"

\* An object row belongs to one granule and was uploaded by someone; marks are only
\* held by rows that exist.
ObjectRows ==
  /\ \A g, h \in Granules : rows[g] \cap rows[h] # {} => g = h
  /\ \A g \in Granules : \A o \in rows[g] : host[o] # NoWorker
  /\ \A o \in acked \cup deleted : \E g \in Granules : o \in rows[g]

\* The objects of a granule come from one upload, so they share their host and are
\* stamped deleted together.
OneUpload ==
  \A g \in Granules : \A o, p \in rows[g] :
    host[o] = host[p] /\ (o \in deleted <=> p \in deleted)

\* A granule with objects waits in UPLOADED for as long as one of them is unacked: no
\* granule is stranded there with everything delivered.
UploadedIsWaiting ==
  \A g \in Granules :
    granule[g].state = "uploaded" /\ rows[g] # {} => ~ rows[g] \subseteq acked

\* Without its batch there is nothing.
BatchOwnsRows ==
  batch = "absent" => \A g \in Granules : granule[g].state = "absent"

DeliveryInv ==
  /\ LeaseDiscipline /\ NoStaleObjects
  /\ DeliveredMeansReceived /\ ConfirmGated /\ ReceiptPerAck /\ DeletedIsClean
  /\ GranulesKnown /\ ObjectRows /\ OneUpload /\ UploadedIsWaiting /\ BatchOwnsRows
=============================================================================
