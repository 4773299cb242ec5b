----------------------------- MODULE Attachment -----------------------------
(***************************************************************************)
(* What a RUSB session promises the two hosts that it joins: a device is   *)
(* attached once the exporter has granted it, and from then until either   *)
(* side ends, PDUs go both ways, each direction a queue that loses,        *)
(* repeats, reorders and tears nothing.                                    *)
(*                                                                         *)
(* There are no frames, fragments, windows or messages in transit here.    *)
(* A side whose peer has ended may go on until it learns of it.            *)
(***************************************************************************)
EXTENDS Sequences, SequencesExt

Sides == {"Exporter", "Importer"}
Peer(side) == IF side = "Exporter" THEN "Importer" ELSE "Exporter"

VARIABLES
    phase,      \* side -> "Opening", "Open" or "Ended"
    sent,       \* side -> PDUs it has sent
    taken       \* side -> PDUs of its peer it has taken

attachmentVars == <<phase, sent, taken>>

AttachmentInit ==
    /\ phase = [s \in Sides |-> "Opening"]
    /\ sent = [s \in Sides |-> <<>>]
    /\ taken = [s \in Sides |-> <<>>]

\* The exporter grants the device; the importer opens only when it has.
Open(s) ==
    /\ phase[s] = "Opening"
    /\ s = "Importer" => phase["Exporter"] # "Opening"
    /\ phase' = [phase EXCEPT ![s] = "Open"]
    /\ UNCHANGED <<sent, taken>>

\* An open side sends PDUs, takes the next PDU of its peer or does both, and
\* may end with it.
Exchange(s) ==
    /\ phase[s] = "Open"
    /\ phase' \in {phase, [phase EXCEPT ![s] = "Ended"]}
    /\ sent' = [sent EXCEPT ![s] = sent'[s]] /\ IsPrefix(sent[s], sent'[s])
    /\ \/ UNCHANGED taken
       \/ LET n == Len(taken[s]) + 1
          IN  /\ n <= Len(sent[Peer(s)])
              /\ taken' = [taken EXCEPT ![s] = Append(@, sent[Peer(s)][n])]

\* A side that is not open ends without a word.
End(s) ==
    /\ phase[s] = "Opening"
    /\ phase' = [phase EXCEPT ![s] = "Ended"]
    /\ UNCHANGED <<sent, taken>>

AttachmentNext == \E s \in Sides : Open(s) \/ Exchange(s) \/ End(s)

AttachmentSpec == AttachmentInit /\ [][AttachmentNext]_attachmentVars
=============================================================================
