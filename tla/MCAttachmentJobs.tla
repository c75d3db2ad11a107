-------------------------- MODULE MCAttachmentJobs --------------------------
(* Small instances of AttachmentJobs. *)
EXTENDS AttachmentJobs

OnePhoto == [m \in Media |-> << "a", "b" >>]
OnePicture == [m \in Media |-> << "a" >>]
SameListing == [m \in Media |-> "l1"]
============================================================================
