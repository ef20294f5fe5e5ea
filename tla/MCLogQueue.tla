----------------------------- MODULE MCLogQueue -----------------------------
(* LogQueue with a channel smaller than the callers that want to be in it.  *)
EXTENDS LogQueue
=============================================================================
