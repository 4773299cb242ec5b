------------------------------ MODULE Passive ------------------------------
(***************************************************************************)
(* The parts of the crate beside the engine: the wire session, the USB/IP *)
(* server session and the URB codec, which follow a protocol without       *)
(* taking part in it, and the event side of the C ABI.                     *)
(* They share nothing and no property relates them, so a behaviour moves   *)
(* one of them and leaves the others as they began.                        *)
(***************************************************************************)
EXTENDS WireSession, ServerSession, UrbCodec, EventPort

PassiveInit == WireInit /\ ServerInit /\ UrbInit /\ PortInit

PassiveNext ==
    \/ /\ ServerInit /\ UrbInit /\ PortInit /\ WireNext
       /\ UNCHANGED <<serverVars, urb, portVars>>
    \/ /\ WireInit /\ UrbInit /\ PortInit /\ ServerNext
       /\ UNCHANGED <<wireVars, urb, portVars>>
    \/ /\ WireInit /\ ServerInit /\ PortInit /\ UrbNext
       /\ UNCHANGED <<wireVars, serverVars, portVars>>
    \/ /\ WireInit /\ ServerInit /\ UrbInit /\ PortNext
       /\ UNCHANGED <<wireVars, serverVars, urb>>

PassiveSpec == PassiveInit /\ [][PassiveNext]_<<wireVars, serverVars, urb, portVars>>
=============================================================================
