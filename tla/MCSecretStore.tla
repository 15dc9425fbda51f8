----------------------------- MODULE MCSecretStore -----------------------------
(* Two secrets, so that one can be legacy while the other is sealed, and two *)
(* passwords, so that one can replace the other.                             *)
EXTENDS SecretStore

CONSTANTS desktop, web, s1, s2

===============================================================================
