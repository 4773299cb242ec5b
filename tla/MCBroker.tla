------------------------------ MODULE MCBroker ------------------------------
(***************************************************************************)
(* Model values for the broker: HELLOs that fail each check in turn, and   *)
(* offers below, at and above the local limits.                            *)
(***************************************************************************)
EXTENDS Broker

MCPeerHellos ==
    {[decodes |-> TRUE, identity |-> TRUE, maxPdu |-> p, maxInflight |-> i] :
        p \in 1 .. 4, i \in 0 .. 4}
    \cup [decodes : BOOLEAN, identity : {FALSE}, maxPdu : {3}, maxInflight : {3}]
MCSizes == 0 .. 4
=============================================================================
