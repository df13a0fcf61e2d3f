----------------------------- MODULE MCAccounts -----------------------------
EXTENDS Accounts

MCClients == {"c1", "c2"}
MCPasswords == {"hash of admin", "another"}
MCDefault == "hash of admin"
(* In units of the life of a token: one hour west, UTC, and east. *)
MCZones == {-2, 0, 2}
=============================================================================
