----------------------------- MODULE MCAccounts -----------------------------
(* Small instances of Accounts. *)
EXTENDS Accounts

\* What meets what: tokens and a Redis that fails, revocations, failed logins,
\* and the life of an account with its user, an admin and the cleanup job.
Everyday == {{"register", "login", "refresh", "logout", "outage"},
             {"register", "refresh", "password", "outage"},
             {"register", "refresh", "status"},
             {"register", "login", "wrong"},
             {"register", "login", "delete", "cancel"},
             {"register", "delete", "status"}}
=============================================================================
