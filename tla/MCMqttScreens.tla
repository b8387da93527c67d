----------------------------- MODULE MCMqttScreens -----------------------------
(***************************************************************************)
(* MqttScreens for TLC.                                                    *)
(***************************************************************************)
EXTENDS MqttScreens

=============================================================================
