----------------------------- MODULE MCWasmHost -----------------------------
(* Model-checking instance of WasmHost: one caller whose request traps and   *)
(* two whose requests do not.                                                *)
EXTENDS WasmHost

CONSTANTS bad, c1, c2
=============================================================================
