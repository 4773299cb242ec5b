---------------------------- MODULE Reassembler ----------------------------
(***************************************************************************)
(* The bounded PDU reassembler (Fragment and Reassembler of                *)
(* src/src/wire.rs).  One PDU is put together at a time, from fragments    *)
(* that follow each other without a gap.                                   *)
(*                                                                         *)
(* Bytes are counted, not represented: a fragment is the interval          *)
(* offset .. offset + len - 1 of its PDU.  All fragments that reach the    *)
(* reassembler carry the session's lease token (the engine compares it     *)
(* first), so the stored lease is left out.                                *)
(***************************************************************************)
EXTENDS Integers

CONSTANTS
    PduIds,          \* PDU identifiers peers use (u64, never zero)
    MaxFragmentSize, \* chunk bytes that fit a frame (MAX_PAYLOAD - FRAGMENT_PREFIX_SIZE)
    HardMaxPdu,      \* MAX_REASSEMBLY
    MaxReassembly,   \* max_reassembly_size
    MaxFragments     \* max_fragments

ASSUME ReassemblerAssumption ==
    /\ PduIds \subseteq Nat \ {0}
    /\ {MaxFragmentSize, MaxReassembly, MaxFragments, HardMaxPdu} \subseteq Nat \ {0}
    /\ MaxReassembly <= HardMaxPdu

VARIABLES
    activePdu,      \* identifier of the PDU under way, or NoPdu
    totalLength,    \* its announced length
    fragments,      \* fragments of it received
    received        \* bytes of it received

reassemblerVars == <<activePdu, totalLength, fragments, received>>

NoPdu == 0

Fragment == [id : PduIds, total : Nat, offset : Nat, len : Nat, more : BOOLEAN]

\* Fragment::validate, which decode() and push() both apply.
WellFormed(f) ==
    /\ f.len > 0 /\ f.total > 0 /\ f.total <= HardMaxPdu
    /\ f.offset + f.len <= f.total
    /\ f.more <=> f.offset + f.len < f.total
    /\ f.len <= MaxFragmentSize

\* The fragment starts a PDU when none is under way, or continues exactly
\* where the PDU under way stops.  As a variant, the offset is not looked at.
ContinuesAtAnyOffset(f) ==
    activePdu = NoPdu \/ (activePdu = f.id /\ totalLength = f.total)
Continues(f) ==
    \/ activePdu = NoPdu /\ f.offset = 0
    \/ activePdu = f.id /\ totalLength = f.total /\ f.offset = received

\* push() takes the fragment.  As a variant, one fragment too many is let in.
CanPushOneMore(f) ==
    /\ WellFormed(f)
    /\ f.total <= MaxReassembly
    /\ Continues(f)
    /\ fragments <= MaxFragments
    /\ ~f.more => received + f.len = f.total
CanPush(f) ==
    /\ WellFormed(f)
    /\ f.total <= MaxReassembly
    /\ Continues(f)
    /\ fragments < MaxFragments
    /\ ~f.more => received + f.len = f.total

ReassemblerInit ==
    activePdu = NoPdu /\ totalLength = 0 /\ fragments = 0 /\ received = 0

Clear ==
    activePdu' = NoPdu /\ totalLength' = 0 /\ fragments' = 0 /\ received' = 0

\* More fragments are to come.
PushPartial(f) ==
    /\ CanPush(f) /\ f.more
    /\ activePdu' = f.id /\ totalLength' = f.total
    /\ fragments' = fragments + 1
    /\ received' = received + f.len

\* The last fragment: the PDU, f.total bytes of it, is handed over.
PushLast(f) == CanPush(f) /\ ~f.more /\ Clear

\* push() reports an error.  A malformed fragment leaves the PDU under way as it
\* is; every other refusal gives it up.  (The engine fails the session and
\* clears the reassembler on either.)
RefuseFragment(f) ==
    /\ ~CanPush(f)
    /\ IF WellFormed(f) THEN Clear ELSE UNCHANGED reassemblerVars
=============================================================================
