------------------------------- MODULE Broker -------------------------------
(***************************************************************************)
(* The broker session (src/src/broker.rs): the HELLO handshake, which      *)
(* fixes the limits of the session once, and the two flow-control windows, *)
(* each counting the bytes and the PDUs in flight in one direction.        *)
(*                                                                         *)
(* A HELLO is reduced to what the handshake tells apart: whether it        *)
(* decodes, whether its identity (UUID, generation, tokens, nonce) is the  *)
(* expected one, and the two limits it offers.  A refused call that leaves *)
(* every field alone is a stutter.                                         *)
(***************************************************************************)
EXTENDS Integers

CONSTANTS
    PeerHellos,       \* HELLOs a peer may present
    Sizes,            \* PDU sizes callers reserve and release
    MinPdu,           \* MIN_PDU_SIZE
    MaxPdu,           \* max_pdu of the local HELLO
    MaxInflight,      \* max_inflight of the local HELLO
    TxWindowBytes, TxWindowPdus, RxWindowBytes, RxWindowPdus

ASSUME BrokerAssumption ==
    /\ PeerHellos \subseteq [decodes : BOOLEAN, identity : BOOLEAN,
                             maxPdu : Nat, maxInflight : Nat]
    /\ Sizes \subseteq Nat
    /\ MinPdu \in Nat \ {0} /\ MaxPdu \in Nat /\ MinPdu <= MaxPdu
    /\ MaxInflight \in Nat \ {0}
    /\ {TxWindowBytes, TxWindowPdus, RxWindowBytes, RxWindowPdus} \subseteq Nat \ {0}

VARIABLES
    brokerState, nonceConsumed,
    negotiatedMaxPdu, negotiatedMaxInflight,
    txBytes, txPdus, rxBytes, rxPdus      \* the *_in_flight counters

handshakeVars == <<brokerState, nonceConsumed, negotiatedMaxPdu, negotiatedMaxInflight>>
txVars == <<txBytes, txPdus>>
rxVars == <<rxBytes, rxPdus>>
brokerVars == <<handshakeVars, txVars, rxVars>>

BrokerStates == {"New", "HelloSent", "Established", "Closed", "Failed"}

Least(a, b) == IF a <= b THEN a ELSE b

-----------------------------------------------------------------------------
BrokerInit ==
    /\ brokerState = "New"
    /\ nonceConsumed = FALSE
    /\ negotiatedMaxPdu = MaxPdu
    /\ negotiatedMaxInflight = MaxInflight
    /\ txBytes = 0 /\ txPdus = 0 /\ rxBytes = 0 /\ rxPdus = 0

MarkHelloSent ==
    /\ brokerState = "New"
    /\ brokerState' = "HelloSent"
    /\ UNCHANGED <<nonceConsumed, negotiatedMaxPdu, negotiatedMaxInflight, txVars, rxVars>>

\* A HELLO is looked at once, and only before the session is settled.  As
\* variants, an established or a failed session looks at one more.
AwaitsHelloAgain == brokerState \in {"New", "HelloSent", "Established"}
AwaitsHelloAfterFailure == ~nonceConsumed
AwaitsHello == ~nonceConsumed /\ brokerState \in {"New", "HelloSent"}

\* It decodes with limits in range, matches, and offers no more than we do.
ValidHello(h) ==
    /\ h.decodes /\ h.maxPdu >= MinPdu /\ h.maxInflight >= 1
    /\ h.identity
    /\ h.maxPdu <= MaxPdu /\ h.maxInflight <= MaxInflight

AcceptHello(h) ==
    /\ AwaitsHello
    /\ IF ValidHello(h)
       THEN /\ brokerState' = "Established"
            /\ nonceConsumed' = TRUE
            /\ negotiatedMaxPdu' = Least(MaxPdu, h.maxPdu)
            /\ negotiatedMaxInflight' = Least(MaxInflight, h.maxInflight)
       ELSE /\ brokerState' = "Failed"
            /\ UNCHANGED <<nonceConsumed, negotiatedMaxPdu, negotiatedMaxInflight>>
    /\ UNCHANGED <<txVars, rxVars>>

-----------------------------------------------------------------------------
(* reserve(): the result of asking one window for a PDU.  The negotiated   *)
(* limits come before the window, so a window at least as wide as          *)
(* max_inflight never reports itself exhausted on its PDU count.           *)

Exceeds(size, pdus) == size > negotiatedMaxPdu \/ pdus >= negotiatedMaxInflight

ReserveResult(size, bytes, pdus, windowBytes, windowPdus) ==
    IF brokerState # "Established" THEN "InvalidState"
    ELSE IF size = 0 THEN "InvalidArgument"
    ELSE IF Exceeds(size, pdus) THEN "LimitExceeded"
    ELSE IF size > windowBytes - bytes \/ pdus >= windowPdus THEN "WindowExhausted"
    ELSE "Ok"

\* As a variant, the byte window admits a PDU while any byte is free.
ReserveSendResultPartly(size, bytes, pdus) ==
    IF bytes < TxWindowBytes
    THEN ReserveResult(size, 0, pdus, size, TxWindowPdus)
    ELSE "WindowExhausted"
ReserveSendResult(size, bytes, pdus) ==
    ReserveResult(size, bytes, pdus, TxWindowBytes, TxWindowPdus)
ReserveReceiveResult(size, bytes, pdus) ==
    ReserveResult(size, bytes, pdus, RxWindowBytes, RxWindowPdus)

\* consume(): what releasing a PDU demands.  As a variant, it demands nothing
\* of the session or of what is in flight.
CanConsumeAlways(size, bytes, pdus) == size # 0
CanConsume(size, bytes, pdus) ==
    brokerState = "Established" /\ size # 0 /\ size <= bytes /\ pdus # 0

ReserveSend(size) ==
    /\ ReserveSendResult(size, txBytes, txPdus) = "Ok"
    /\ txBytes' = txBytes + size /\ txPdus' = txPdus + 1
    /\ UNCHANGED <<handshakeVars, rxVars>>

AckSend(size) ==
    /\ CanConsume(size, txBytes, txPdus)
    /\ txBytes' = txBytes - size /\ txPdus' = txPdus - 1
    /\ UNCHANGED <<handshakeVars, rxVars>>

ReserveReceive(size) ==
    /\ ReserveReceiveResult(size, rxBytes, rxPdus) = "Ok"
    /\ rxBytes' = rxBytes + size /\ rxPdus' = rxPdus + 1
    /\ UNCHANGED <<handshakeVars, txVars>>

ConsumeReceive(size) ==
    /\ CanConsume(size, rxBytes, rxPdus)
    /\ rxBytes' = rxBytes - size /\ rxPdus' = rxPdus - 1
    /\ UNCHANGED <<handshakeVars, txVars>>

\* As a variant, close() forgets the receive window.
CloseBrokerKeepingReceive ==
    /\ brokerState # "Failed"
    /\ brokerState' = "Closed"
    /\ txBytes' = 0 /\ txPdus' = 0
    /\ UNCHANGED <<nonceConsumed, negotiatedMaxPdu, negotiatedMaxInflight, rxVars>>

CloseBroker ==
    /\ brokerState # "Failed"
    /\ brokerState' = "Closed"
    /\ txBytes' = 0 /\ txPdus' = 0 /\ rxBytes' = 0 /\ rxPdus' = 0
    /\ UNCHANGED <<nonceConsumed, negotiatedMaxPdu, negotiatedMaxInflight>>

BrokerNext ==
    \/ MarkHelloSent
    \/ \E h \in PeerHellos : AcceptHello(h)
    \/ \E size \in Sizes : ReserveSend(size) \/ AckSend(size)
    \/ \E size \in Sizes : ReserveReceive(size) \/ ConsumeReceive(size)
    \/ CloseBroker

BrokerSpec == BrokerInit /\ [][BrokerNext]_brokerVars

-----------------------------------------------------------------------------
\* The broker's fields hold values of their types.
BrokerTypeOK ==
    /\ brokerState \in BrokerStates
    /\ nonceConsumed \in BOOLEAN
    /\ {negotiatedMaxPdu, negotiatedMaxInflight} \subseteq Nat
    /\ {txBytes, txPdus, rxBytes, rxPdus} \subseteq Nat

\* No sequence of reservations and releases takes a direction past its window
\* or past the limits both peers agreed to.
WithinWindows ==
    /\ txBytes <= TxWindowBytes /\ rxBytes <= RxWindowBytes
    /\ txPdus <= Least(TxWindowPdus, negotiatedMaxInflight)
    /\ rxPdus <= Least(RxWindowPdus, negotiatedMaxInflight)

\* Credit is held only by an established session: before the handshake, after
\* close() and after a failed handshake there is nothing left to release.
CreditNeedsSession ==
    brokerState # "Established" => txBytes = 0 /\ txPdus = 0 /\ rxBytes = 0 /\ rxPdus = 0

\* The handshake settles a session once: a session becomes established only by
\* consuming its nonce, the nonce stays consumed, and the limits agreed with it
\* never change again nor exceed what the local HELLO offered.
HandshakeOnce ==
    [][/\ brokerState' = "Established" /\ brokerState # "Established"
             => ~nonceConsumed /\ nonceConsumed'
       /\ nonceConsumed => /\ nonceConsumed'
                           /\ UNCHANGED <<negotiatedMaxPdu, negotiatedMaxInflight>>
       /\ negotiatedMaxPdu' <= MaxPdu /\ negotiatedMaxInflight' <= MaxInflight]_brokerVars
=============================================================================
