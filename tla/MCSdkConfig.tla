----------------------------- MODULE MCSdkConfig -----------------------------
(* Instances of SdkConfig for TLC. *)
EXTENDS SdkConfig, MCServiceRegistration
=============================================================================
