---------------------------- MODULE MCRideRefusals ----------------------------
(* RideRefusals over the tables of MCRideTransactions. *)
EXTENDS MCRideTransactions, RideRefusals
=============================================================================
