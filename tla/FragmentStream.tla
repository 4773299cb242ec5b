--------------------------- MODULE FragmentStream ---------------------------
(***************************************************************************)
(* The reassembler under an arbitrary stream of fragments, well formed or  *)
(* not, with the history of what it took: the fragments of the PDU under   *)
(* way and those of the PDU it handed over last.  The history never guards *)
(* a step.                                                                 *)
(***************************************************************************)
EXTENDS Reassembler, Sequences

VARIABLES
    pieces,     \* fragments taken for the PDU under way, in order
    handedOver  \* fragments of the PDU handed over last

streamVars == <<reassemblerVars, pieces, handedOver>>

\* Every fragment around the bounds, within them or one beyond.
Fragments == [id : PduIds, total : 0 .. HardMaxPdu + 1, offset : 0 .. HardMaxPdu,
              len : 0 .. MaxFragmentSize + 1, more : BOOLEAN]

StreamInit == ReassemblerInit /\ pieces = <<>> /\ handedOver = <<>>

Take(f) ==
    /\ PushPartial(f)
    /\ pieces' = Append(pieces, f)
    /\ UNCHANGED handedOver

HandOver(f) ==
    /\ PushLast(f)
    /\ pieces' = <<>>
    /\ handedOver' = Append(pieces, f)

Refuse(f) ==
    /\ RefuseFragment(f)
    /\ pieces' = IF WellFormed(f) THEN <<>> ELSE pieces
    /\ UNCHANGED handedOver

StreamNext == \E f \in Fragments : Take(f) \/ HandOver(f) \/ Refuse(f)

StreamSpec == StreamInit /\ [][StreamNext]_streamVars

-----------------------------------------------------------------------------
\* Fragments that lie end to end, from the first byte of one PDU on.
EndOf(f) == f.offset + f.len
EndToEnd(s) ==
    /\ s # <<>> => s[1].offset = 0
    /\ \A i \in 1 .. Len(s) - 1 : /\ s[i + 1].offset = EndOf(s[i])
                                  /\ s[i + 1].id = s[i].id
                                  /\ s[i + 1].total = s[i].total

\* The reassembler's counters agree with the fragments it took for the PDU under
\* way, and stay within its limits: nothing of a PDU that was completed or
\* given up leaks into the next one.
CountersMatchPieces ==
    /\ fragments = Len(pieces) /\ fragments <= MaxFragments
    /\ EndToEnd(pieces)
    /\ IF pieces = <<>>
       THEN activePdu = NoPdu /\ totalLength = 0 /\ received = 0
       ELSE LET f == pieces[Len(pieces)]
            IN  /\ activePdu = f.id /\ totalLength = f.total /\ received = EndOf(f)
                /\ received < totalLength /\ totalLength <= MaxReassembly

\* A PDU is handed over whole: its fragments lie end to end, all of one PDU, and
\* reach exactly its announced length, however fragments of other PDUs, repeats,
\* gaps and malformed fragments came in between.
HandedOverWhole ==
    handedOver # <<>> =>
        LET last == handedOver[Len(handedOver)]
        IN  /\ EndToEnd(handedOver)
            /\ EndOf(last) = last.total
            /\ last.total <= MaxReassembly /\ Len(handedOver) <= MaxFragments
=============================================================================
