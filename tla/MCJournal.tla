----------------------------- MODULE MCJournal ------------------------------
(***************************************************************************)
(* TLC instance of Journal: four entries in batches of two, so that what   *)
(* is left after the first takes several passes, of which two may fail.    *)
(***************************************************************************)
EXTENDS Journal
=============================================================================
