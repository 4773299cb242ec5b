------------------------------- MODULE MCLink -------------------------------
(***************************************************************************)
(* Model values for the two joined engines.                                *)
(***************************************************************************)
EXTENDS Link

MCHello == [decodes |-> TRUE, identity |-> TRUE, maxPdu |-> 2, maxInflight |-> 3]

Submit(seq, dir) == [kind |-> "Submit", request |-> [seq |-> seq, dir |-> dir, len |-> 1]]
Unlink(seq, target) == [kind |-> "Unlink", unlink |-> seq, target |-> target]

Opaque(size) == [kind |-> "Opaque", size |-> size]

\* The importer sends an OUT request of two frames and the UNLINK of it, in
\* either order; the exporter a USB/IP control message of two frames.
MCImporterPdus == (1 :> Submit(1, "Out")) @@ (2 :> Unlink(2, 1))
MCExporterPdus == (1 :> Opaque(2))
MCImporterIds == DOMAIN MCImporterPdus
MCExporterIds == DOMAIN MCExporterPdus
=============================================================================
