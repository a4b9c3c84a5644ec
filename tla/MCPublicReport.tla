---------------------------- MODULE MCPublicReport ----------------------------
(* TLC instances of PublicReport.                                               *)
EXTENDS PublicReport
================================================================================
