-------------------------- MODULE MCBrokerDemoRouter --------------------------
(* Small instances of BrokerDemoRouter for TLC.                             *)
EXTENDS BrokerDemoRouter, TLC

\* Client ids are interchangeable: the router only compares them.
Symmetry == Permutations(Cid)
=============================================================================
