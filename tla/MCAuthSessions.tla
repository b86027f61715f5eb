--------------------------- MODULE MCAuthSessions ---------------------------
(* Small instances of AuthSessions: one browser with two tabs.               *)
EXTENDS AuthSessions

CONSTANTS t1, t2
=============================================================================
