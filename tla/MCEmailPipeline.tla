-------------------------- MODULE MCEmailPipeline --------------------------
(* An instance of EmailPipeline for TLC: every event of the listener.      *)
EXTENDS EmailPipeline

AllEvents == DOMAIN EmailListener
=============================================================================
