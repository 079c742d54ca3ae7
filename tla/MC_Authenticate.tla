-------------------------- MODULE MC_Authenticate --------------------------
(***************************************************************************)
(* Two user ids, two non-empty usernames and two non-empty passwords: a    *)
(* table can hold no user, one or two, a request can name a user with the  *)
(* right or the wrong password, an unknown user, or empty credentials.     *)
(***************************************************************************)
EXTENDS Authenticate

MCIds == {"u1", "u2"}
MCNames == {"", "test", "admin"}
MCPasswords == {"", "test", "secret"}
MCEmpty == ""
=============================================================================
