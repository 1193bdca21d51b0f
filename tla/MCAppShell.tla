----------------------------- MODULE MCAppShell -----------------------------
(***************************************************************************)
(* Instances of AppShell for TLC.                                          *)
(***************************************************************************)
EXTENDS AppShell

CONSTANTS alice, bob
=============================================================================
