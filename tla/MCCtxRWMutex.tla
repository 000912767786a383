----------------------------- MODULE MCCtxRWMutex -----------------------------
(* Small instances of CtxRWMutex.                                            *)
EXTENDS CtxRWMutex

CONSTANTS a, b, c, d
=============================================================================
