-------------------------- MODULE MCServiceClient ---------------------------
(***************************************************************************)
(* An instance of ServiceClient for TLC: a service with two dependencies,  *)
(* whose providers may be at either of two addresses; the one for ledger   *)
(* does not support the version the service proposes.                      *)
(***************************************************************************)
EXTENDS ServiceClient

CONSTANTS storage, ledger, managerUrl, url1, url2
=============================================================================
