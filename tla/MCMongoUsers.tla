---------------------------- MODULE MCMongoUsers ----------------------------
(* Logins, masks and loaded documents for MongoUsers. *)
EXTENDS MongoUsers

CONSTANTS l1, l2, l3, m1, t1, t2, t3

\* data.js loads one of the users here.
OneLoaded == <<l3>>

SomeUsers == [m \in Mask |-> {l1, l3}]
=============================================================================
