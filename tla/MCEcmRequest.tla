--------------------------- MODULE MCEcmRequest ---------------------------
(***************************************************************************)
(* EcmRequest with the readers and requests its .cfg chooses.              *)
(***************************************************************************)
EXTENDS EcmRequest, EcmReaders
===========================================================================
