-------------------------------- MODULE MCAta --------------------------------
(***************************************************************************)
(* Sectors of two words, and addresses of which each needs another one of  *)
(* the drive's registers, of one bit each.                                 *)
(***************************************************************************)
EXTENDS AtaDrive

Addresses == {1, 2, 12}
=============================================================================
