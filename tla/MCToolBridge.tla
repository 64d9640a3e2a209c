---------------------------- MODULE MCToolBridge ----------------------------
(* Two tools, one of them capped and outside what a condition may call. *)
EXTENDS ToolBridge

CONSTANTS read, delete

MCTools == {read, delete}
MCSafe == {read}
MCCapped == {delete}
=============================================================================
