---------------------------- MODULE MCHrxStream ----------------------------
(***************************************************************************)
(* HrxStream for TLC, with the streams of the configurations.              *)
(***************************************************************************)
EXTENDS HrxStream
====
