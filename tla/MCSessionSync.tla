----------------------------- MODULE MCSessionSync -----------------------------
(* SessionSync with a few calls and tasks of each kind; MCSessionSync.cfg      *)
(* gives them their values.                                                    *)
EXTENDS SessionSync
===============================================================================
