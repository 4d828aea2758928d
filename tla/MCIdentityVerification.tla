------------------------ MODULE MCIdentityVerification ------------------------
(* IdentityVerification with a few sets of methods in common. *)
EXTENDS IdentityVerification, TLC

MCOffered == {{}, {"Sas", "Show"}, {"Scan"}}
===============================================================================
