------------------------------- MODULE MCVerdict -------------------------------
(* Small instances of AgentVerdict: every kind, a stray and two restarts. *)
EXTENDS AgentVerdict
================================================================================
