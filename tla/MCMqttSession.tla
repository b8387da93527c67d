----------------------------- MODULE MCMqttSession -----------------------------
(***************************************************************************)
(* MqttSession for TLC.  The model's windows are small: 1 stands for the   *)
(* library's 16 and for its 1024 messages.                                 *)
(***************************************************************************)
EXTENDS MqttSession

=============================================================================
