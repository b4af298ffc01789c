------------------------------ MODULE MCS3Lease ------------------------------
(* TLC instance of S3Lease: containers that compete for one run and may    *)
(* work longer than their leases last.                                     *)
EXTENDS S3Lease
=============================================================================
