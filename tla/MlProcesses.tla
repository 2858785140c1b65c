---------------------------- MODULE MlProcesses -----------------------------
(***************************************************************************)
(* The worker processes uvicorn starts for the ML service.                 *)
(***************************************************************************)
CONSTANT Process
=============================================================================
