------------------------- MODULE MCWebhookAdmission -------------------------
(* Small instances of WebhookAdmission for TLC. *)
EXTENDS WebhookAdmission, TLC

\* Calls, replicas and repositories are interchangeable; payloads are not.
Symmetry == Permutations(Calls) \cup Permutations(Gateways) \cup Permutations(Repos)

=============================================================================
