------------------------------ MODULE EventPort ------------------------------
(***************************************************************************)
(* How events reach a caller of the C ABI (src/src/ffi.rs): each call of   *)
(* rusb_session_next_event() moves one event out of the engine's queue,    *)
(* keeps it, and writes a C structure whose data points into the kept      *)
(* event or into a scratch buffer.  Every other call of the ABI is one     *)
(* call of the engine (Transport); here it only queues events.             *)
(***************************************************************************)
EXTENDS Integers, Sequences, SequencesExt

CONSTANT MaxProduced        \* bound: events of the engine

VARIABLES
    queue,          \* the events of the engine
    currentEvent,   \* RusbSession::current_event
    scratch,        \* RusbSession::scratch: the event it is an encoding of
    out,            \* the caller's structure: its event, and where its data is
    fresh,          \* the last rusb_session_next_event() has written it
    produced,       \* history: events of the engine
    handed          \* history: events the caller was handed

portVars == <<queue, currentEvent, scratch, out, fresh, produced, handed>>

\* Events with data of their own, with data encoded for the caller, without
\* data, and with a status: u32 in the engine, i32 in the structure.
Kinds == {"OutputFrame", "Capability", "Cancel", "OpenRejected", "OpenRejectedBeyondI32"}
NoEvent == [kind |-> "None", number |-> 0]

PortInit ==
    /\ queue = <<>> /\ currentEvent = NoEvent /\ scratch = NoEvent
    /\ out = [event |-> NoEvent, data |-> "Null"] /\ fresh = FALSE
    /\ produced = <<>> /\ handed = <<>>

EngineCall(kind) ==
    /\ Len(produced) < MaxProduced
    /\ LET e == [kind |-> kind, number |-> Len(produced) + 1]
       IN  queue' = Append(queue, e) /\ produced' = Append(produced, e)
    /\ UNCHANGED <<currentEvent, scratch, out, fresh, handed>>

\* fill_event()
Converts(e) == e.kind # "OpenRejectedBeyondI32"
Encoded(e) == IF e.kind = "Capability" THEN e ELSE NoEvent
DataOf(e) ==
    IF e.kind = "OutputFrame" THEN "Current"
    ELSE IF e.kind = "Capability" THEN "Scratch"
    ELSE "Null"

Taken == IF queue = <<>> THEN NoEvent ELSE Head(queue)

\* rusb_session_next_event(): without a structure to write it takes nothing.  As
\* variants, it takes the event first, or clears the scratch buffer last.
NextEventCallTakesFirst(writable) ==
    /\ currentEvent' = Taken
    /\ queue' = IF queue = <<>> THEN <<>> ELSE Tail(queue)
    /\ scratch' = Encoded(Taken)
    /\ IF writable /\ Converts(Taken)
       THEN /\ out' = [event |-> Taken, data |-> DataOf(Taken)]
            /\ fresh' = TRUE
            /\ handed' = IF Taken = NoEvent THEN handed ELSE Append(handed, Taken)
       ELSE fresh' = FALSE /\ UNCHANGED <<out, handed>>
    /\ UNCHANGED produced
NextEventCallClearsLast(writable) ==
    /\ writable
    /\ currentEvent' = Taken
    /\ queue' = IF queue = <<>> THEN <<>> ELSE Tail(queue)
    /\ scratch' = NoEvent
    /\ IF Converts(Taken)
       THEN /\ out' = [event |-> Taken, data |-> DataOf(Taken)]
            /\ fresh' = TRUE
            /\ handed' = IF Taken = NoEvent THEN handed ELSE Append(handed, Taken)
       ELSE fresh' = FALSE /\ UNCHANGED <<out, handed>>
    /\ UNCHANGED produced
NextEventCall(writable) ==
    /\ writable
    /\ currentEvent' = Taken
    /\ queue' = IF queue = <<>> THEN <<>> ELSE Tail(queue)
    /\ scratch' = Encoded(Taken)
    /\ IF Converts(Taken)
       THEN /\ out' = [event |-> Taken, data |-> DataOf(Taken)]
            /\ fresh' = TRUE
            /\ handed' = IF Taken = NoEvent THEN handed ELSE Append(handed, Taken)
       ELSE fresh' = FALSE /\ UNCHANGED <<out, handed>>
    /\ UNCHANGED produced

PortNext ==
    \/ \E kind \in Kinds : EngineCall(kind)
    \/ \E writable \in BOOLEAN : NextEventCall(writable)

-----------------------------------------------------------------------------
\* Through failed calls, too, the caller is handed the events of the engine in
\* their order and each once: of those taken from the queue, it never sees the
\* rejections whose status does not fit the structure, and nothing else (their
\* call fails after the event was taken); those not taken are all still queued.
OnlyRejectionsAreLost ==
    LET taken == Len(produced) - Len(queue)
    IN  /\ queue = SubSeq(produced, taken + 1, Len(produced))
        /\ \A i, j \in DOMAIN handed : i < j => handed[i].number < handed[j].number
        /\ Range(handed) = {produced[i] : i \in {k \in 1 .. taken : Converts(produced[k])}}

\* Whatever else is called, the data of the event the caller holds stays that
\* event's until it asks for the next.
DataBelongsToEvent ==
    fresh => /\ out.data = "Current" => currentEvent = out.event
             /\ out.data = "Scratch" => scratch = out.event
             /\ handed # <<>> /\ out.event # NoEvent => out.event = Last(handed)
=============================================================================
