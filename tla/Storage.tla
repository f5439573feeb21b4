------------------------------ MODULE Storage ------------------------------
(***************************************************************************)
(* Stored files (commons/storage) and the attachments that refer to them:  *)
(* the row of a stored object outlives that of its attachment by some      *)
(* days, and its file outlives it by a moment.                             *)
(***************************************************************************)

CONSTANTS
    Files   \* uploads, each with a stored object and at most one attachment

VARIABLES
    storaged,   \* the rows of the stored objects
    onDisk,     \* the files
    attachments \* the rows of the attachments

storage == <<storaged, onDisk, attachments>>

\* "kept": deleted_at is null; "marked": it is not; "expired": for longer than
\* DAYS_TO_STORE_DELETED_STORAGED_OBJECTS.
StorageTypeOK ==
    /\ storaged \in [Files -> {"none", "kept", "marked", "expired", "gone"}]
    /\ onDisk \subseteq Files
    /\ attachments \subseteq Files

StorageInit ==
    /\ storaged = [f \in Files |-> "none"]
    /\ onDisk = {}
    /\ attachments = {}

\* create_storaged_object: the file is written, then its row.
CreateStoragedObject(f) ==
    /\ storaged[f] = "none"
    /\ storaged' = [storaged EXCEPT ![f] = "kept"]
    /\ onDisk' = onDisk \cup {f}

\* The deletion of attachments marks their files in the same transaction
\* (mark_attachment_file_to_delete).
DeleteAttachments(deleted) ==
    /\ attachments' = attachments \ deleted
    /\ storaged' = [f \in Files |->
         IF f \in deleted /\ storaged[f] = "kept" THEN "marked" ELSE storaged[f]]
    /\ UNCHANGED onDisk

Expire(f) ==
    /\ storaged[f] = "marked"
    /\ storaged' = [storaged EXCEPT ![f] = "expired"]
    /\ UNCHANGED <<onDisk, attachments>>

MutantDeleteStoragedObject(f) ==
    /\ storaged[f] = "marked"
    /\ f \notin attachments
    /\ storaged' = [storaged EXCEPT ![f] = "gone"]
    /\ UNCHANGED <<onDisk, attachments>>

\* delete_storaged_object, of those clean_deleted_storaged_objects lists: an
\* attachment restricts the deletion of its file.
DeleteStoragedObject(f) ==
    /\ storaged[f] = "expired"
    /\ f \notin attachments
    /\ storaged' = [storaged EXCEPT ![f] = "gone"]
    /\ UNCHANGED <<onDisk, attachments>>

\* The file is deleted after the commit; a worker that stops in between leaves it.
DeleteFile(f) ==
    /\ f \in onDisk
    /\ storaged[f] = "gone"
    /\ onDisk' = onDisk \ {f}
    /\ UNCHANGED <<storaged, attachments>>

StorageStep == \E f \in Files : Expire(f) \/ DeleteStoragedObject(f) \/ DeleteFile(f)
=============================================================================
