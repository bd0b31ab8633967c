---------------------------- MODULE MCHubImports ----------------------------
(* Small instances of HubImports for TLC. *)
EXTENDS HubImports

=============================================================================
