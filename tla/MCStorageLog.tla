---------------------------- MODULE MCStorageLog ----------------------------
(***************************************************************************)
(* TLC instance of StorageLog: a loader runs beside a collector that is    *)
(* killed, restarted and stopped, with calls that fail.  Fields are cut    *)
(* inside as well as between; the buffer holds one short record but not    *)
(* two.                                                                    *)
(***************************************************************************)
EXTENDS StorageLog
=============================================================================
