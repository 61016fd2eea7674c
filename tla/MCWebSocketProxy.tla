--------------------------- MODULE MCWebSocketProxy ---------------------------
(***************************************************************************)
(* Model values for WebSocketProxy.                                        *)
(***************************************************************************)
EXTENDS WebSocketProxy
===============================================================================
