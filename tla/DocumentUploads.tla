--------------------------- MODULE DocumentUploads ---------------------------
(***************************************************************************)
(* UploadDocument and UploadDocumentWithParents: the file, the rows of one *)
(* Postgres transaction and the points in Qdrant, which is outside it.     *)
(***************************************************************************)
EXTENDS ApiBase

CONSTANTS ChunkCount,      \* chunks the chunker makes of a text
          ParentCount      \* parents it makes where there are parents

Document == [tenant : Users, parents : Nat, status : {"processing", "completed", None},
             chunk_count : Nat, rows : Nat, points : Nat, committed : BOOLEAN]

ASSUME UploadsAssumption ==
    ChunkCount \in Nat /\ ParentCount \in Nat /\ None \notin Document

VARIABLES docs

DocsInit == docs = [d \in Ids |-> None]

(* LocalFileStorage.save, then nothing of the document but its file. *)
save_file(d, tenant, parents) ==
    docs' = [docs EXCEPT ![d] = [tenant |-> tenant, parents |-> parents, status |-> None,
                                 chunk_count |-> 0, rows |-> 0, points |-> 0, committed |-> FALSE]]

save_document(d) == docs' = [docs EXCEPT ![d].status = "processing"]

upsert(d) == docs' = [docs EXCEPT ![d].points = @ + 1]

(* Parents are rows too, but they are never points. *)
save_chunks(d) ==
    docs' = [docs EXCEPT ![d].rows = docs[d].points + docs[d].parents]

(* Fault: the parents are counted as well. *)
update_document_status_AllRows(d) ==
    docs' = [docs EXCEPT ![d].status = "completed", ![d].chunk_count = docs[d].rows]

update_document_status(d) ==
    docs' = [docs EXCEPT ![d].status = "completed", ![d].chunk_count = docs[d].points]

commit(d) == docs' = [docs EXCEPT ![d].committed = TRUE]

(* Points and file stay. *)
rollback(d) == IF docs[d] # None /\ ~docs[d].committed
               THEN docs' = [docs EXCEPT ![d].status = None, ![d].rows = 0]
               ELSE UNCHANGED docs
=============================================================================
