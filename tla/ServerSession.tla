---------------------------- MODULE ServerSession ----------------------------
(***************************************************************************)
(* The USB/IP server session (ServerSession of src/src/usbip.rs): one      *)
(* client asks for the device list or imports the one device on offer, and *)
(* the server answers each request before the next.                        *)
(*                                                                         *)
(* A request is malformed, a device list, or an import that names the      *)
(* device on offer or another; a completed import names no device, the one *)
(* on offer or another.                                                    *)
(***************************************************************************)
EXTENDS Integers, Sequences, SequencesExt

CONSTANT MaxDialogue        \* bound: requests and replies recorded

VARIABLES
    serverState,    \* ServerSession::state
    dialogue        \* history: requests accepted and replies given

serverVars == <<serverState, dialogue>>

Requests == {"Malformed", "DeviceList", "ImportOffered", "ImportOther"}
Devices == {"None", "Offered", "Other"}

Says(entry) == dialogue' = Append(dialogue, entry)

ServerInit == serverState = "New" /\ dialogue = <<>>

\* accept_request(): a request that does not decode is an error and no more; one
\* that comes at the wrong time, or asks for another device, fails the session.
\* As a variant, it need not wait for its turn.
AcceptsOutOfTurn(request) ==
    \/ request = "DeviceList" /\ serverState \in {"New", "Ready", "ImportReplyPending"}
    \/ request = "ImportOffered" /\ serverState \in {"New", "Ready"}
Accepts(request) ==
    \/ request = "DeviceList" /\ serverState \in {"New", "Ready"}
    \/ request = "ImportOffered" /\ serverState \in {"New", "Ready"}

AcceptRequest(request) ==
    /\ serverState \notin {"Closed", "Failed"}
    /\ request # "Malformed"
    /\ Len(dialogue) < MaxDialogue
    /\ IF Accepts(request)
       THEN /\ serverState' = IF request = "DeviceList"
                              THEN "DeviceListReplyPending" ELSE "ImportReplyPending"
            /\ Says(request)
       ELSE /\ serverState' = "Failed"
            /\ UNCHANGED dialogue

\* complete_device_list(): a failed listing names no device.
CompleteDeviceList(failed, count) ==
    /\ serverState = "DeviceListReplyPending"
    /\ failed => count = 0
    /\ serverState' = "Ready"
    /\ Says("DeviceListReply")

\* complete_import(): a completion that names a device it should not, or none
\* where it should, is an error that leaves the reply pending; a granted import
\* of another device fails the session.  As a variant, a granted import need
\* not name a device.
CompleteImportUnchecked(failed, device) ==
    /\ serverState = "ImportReplyPending"
    /\ IF failed
       THEN /\ device = "None"
            /\ serverState' = "Ready"
            /\ Says("ImportDenied")
       ELSE /\ serverState' = "Imported"
            /\ Says(IF device = "Offered" THEN "ImportGranted" ELSE "ImportDenied")
CompleteImport(failed, device) ==
    /\ serverState = "ImportReplyPending"
    /\ \/ /\ failed /\ device = "None"
          /\ serverState' = "Ready"
          /\ Says("ImportDenied")
       \/ /\ ~failed /\ device = "Offered"
          /\ serverState' = "Imported"
          /\ Says("ImportGranted")
       \/ /\ ~failed /\ device = "Other"
          /\ serverState' = "Failed"
          /\ UNCHANGED dialogue

\* accept_data() only answers.
AcceptsData == serverState = "Imported"

CloseServer == serverState' = "Closed" /\ UNCHANGED dialogue

ServerNext ==
    \/ \E request \in Requests : AcceptRequest(request)
    \/ \E failed \in BOOLEAN, count \in 0 .. 1 : CompleteDeviceList(failed, count)
    \/ \E failed \in BOOLEAN, device \in Devices : CompleteImport(failed, device)
    \/ CloseServer

-----------------------------------------------------------------------------
IsRequest(entry) == entry \in {"DeviceList", "ImportOffered"}
Answers(entry, request) ==
    \/ request = "DeviceList" /\ entry = "DeviceListReply"
    \/ request = "ImportOffered" /\ entry \in {"ImportGranted", "ImportDenied"}

\* Requests and replies take turns and each reply is to the request before it,
\* through failed completions that were repeated.  The reply of the last
\* request is pending as long as the session has not ended.
RepliesTakeTurns ==
    /\ \A i \in DOMAIN dialogue :
          IF i % 2 = 1 THEN IsRequest(dialogue[i])
                       ELSE Answers(dialogue[i], dialogue[i - 1])
    /\ serverState \notin {"Closed", "Failed"} =>
          (serverState \in {"DeviceListReplyPending", "ImportReplyPending"}
             <=> Len(dialogue) % 2 = 1)

\* URB data passes exactly from the granted import on until the session ends,
\* and nothing is asked or answered after it.
DataFollowsGrantedImport ==
    LET granted == \E i \in DOMAIN dialogue : dialogue[i] = "ImportGranted"
    IN  /\ AcceptsData => granted
        /\ granted => /\ Last(dialogue) = "ImportGranted"
                      /\ serverState \in {"Imported", "Closed", "Failed"}
=============================================================================
