----------------------------- MODULE MCCliProfile -----------------------------
(* TLC instances of CliProfile: two logins in the life of the profile, one *)
(* at an issuer with a revocation endpoint and one without.                *)
EXTENDS CliProfile
=============================================================================
