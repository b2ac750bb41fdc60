------------------------- MODULE MCProviderHealth --------------------------
(***************************************************************************)
(* Instances of ProviderHealth: a remote and a local provider.             *)
(***************************************************************************)
EXTENDS ProviderHealth

CONSTANTS anthropic, local, s1

MCOrder == <<anthropic, local>>
MCLocal == {local}
OneScan == {s1}
MCForced == {"local-only"}
=============================================================================
