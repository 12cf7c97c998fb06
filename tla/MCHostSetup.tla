---------------------------- MODULE MCHostSetup ----------------------------
(* An instance of HostSetup for TLC: one version, one settings file.       *)
EXTENDS HostSetup

CONSTANTS v1, stable

OneSettings == <<stable>>
Profiles == {{"terminal"}}
Wrappers == {{"wrappers"}}
=============================================================================
