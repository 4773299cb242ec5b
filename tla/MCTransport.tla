---------------------------- MODULE MCTransport ----------------------------
(***************************************************************************)
(* Model values for the session engine.  A header is one byte and a frame  *)
(* carries one byte of a PDU, so that a request or reply with data takes   *)
(* two frames.                                                             *)
(***************************************************************************)
EXTENDS Transport

MCSeqNums == {1, 2}
MCLengths == {1}
MCOpaqueSizes == {1}
MCPeerPduIds == {1}
MCOwnPduIds == {1}

\* An owner that also uses the first id the engine gives a reply.
MCClashingPduIds == {1, 10}

Offer(pdu, inflight) ==
    [decodes |-> TRUE, identity |-> TRUE, maxPdu |-> pdu, maxInflight |-> inflight]

\* An acceptable HELLO and one of a stranger.
MCPeerHellos == {Offer(2, 3), [Offer(2, 3) EXCEPT !.identity = FALSE]}
MCSmallOffer == {Offer(2, 2)}

\* As above, or a peer that takes no reply with data.
MCUnequalHellos == MCPeerHellos \cup {Offer(1, 3)}

\* Replies of one to three bytes, of which the window takes two and the second
\* peer one.
MCLongerLengths == {2}
MCLongerHellos == {Offer(3, 2), Offer(1, 2)}
=============================================================================
