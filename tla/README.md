# Verification of the remote-USB session core

TLA+ specifications of the Rust crate `moonlight-remote-usb-core`, which lets an
importer (the host that runs a game) use a USB device of an exporter (the
client) over one RUSB stream. The core does no I/O: it is a passive engine that
its owner feeds with the bytes of the peer, whose output it takes event by
event, and that answers USB requests with what a platform backend reports. The
modules were written from the Rust source; the contract
(`contract/protocol-v1.md`), the vectors and the tests were read to know what the
program is meant to do.

    tlc -config Executor.cfg MCExecutor.tla       model-checks a module
    tlapm ExecutorProofs.tla                      checks the proofs of a module

## 1. The system

| component | source | state it keeps | operations | modelled by |
|---|---|---|---|---|
| request executor | `executor.rs` | next token, live requests indexed by sequence number and by token, memory of retired tokens | `accept_pdu` (SUBMIT, UNLINK), `complete`, `complete_cancel`, `close` | `Executor`, `ExecutorService`, `UrbService`, `LateCompletion`; `ExecutorProofs` |
| broker session | `broker.rs` | handshake state, nonce, negotiated limits, bytes and PDUs in flight each way | `mark_hello_sent`, `accept_hello`, `reserve_send/receive`, `ack_send`, `consume_receive`, `close` | `Broker`; `PartProofs` |
| reassembler | `wire.rs` (`Fragment`, `Reassembler`) | the PDU under way: id, length, fragments, bytes | `push`, `clear` | `Reassembler`, `FragmentStream`; `PartProofs` |
| session engine | `transport.rs` (`session.rs` re-exports it) | session state, frame sequences both ways, output reservations, replies held back, event queue; owns the three above | `start`, `accept_hello`, `send_*`, `accept_frame`, `ack_output`, `complete`, `complete_cancel`, `next_event`, `close` | `Transport`, `Endpoint`; `TransportOutput`, `TransportAccounts`, `TransportProofs` |
| two joined engines | `transport.rs` on both hosts, the contract | what both engines keep, and what is on its way | the calls of both owners | `Link`, `Attachment`; `EndpointProofs`, `LinkProofs` |
| frame codecs | `wire.rs` | none | encode and decode of headers and control payloads | their verdicts, in `Transport` and `Endpoint` |
| wire session | `wire.rs` (`WireSession`) | phase, sequence numbers both ways | `next_header`, `accept` | `WireSession`; `PassiveProofs` |
| URB codec | `pdu.rs` | none | encode and decode of URB PDUs | `UrbCodec`; `PassiveProofs` |
| USB/IP control and server session | `usbip.rs` | the import state of a USB/IP server | `accept_request`, `complete_device_list`, `complete_import`, `accept_data`, `close` | `ServerSession`; device records are not modelled |
| C ABI | `ffi.rs`, `remoteusb.h` | the engine, the event last handed over, a scratch buffer | `rusb_session_next_event`; the others are conversions around one call of the engine | `EventPort`, the others in `Transport` |

The wire session, the server session and the URB codec's reply side are offered to
embedding programs; the engine uses none of them.

**How they interact.** There are no threads, callbacks or timers: every call
runs to its end under the owner's exclusive reference, so one call is one atomic
step, and the concurrency is that of the callers. Three parties call in any
order: the *peer* (its HELLO and frames), the *owner* (opening, sending, taking
events, acknowledging what it wrote, closing) and the *platform* (completions
and cancellations). `accept_frame` runs a frame through sequence check,
reassembler, receive window and executor; what the executor answers becomes
replies that take send-window credit, are cut into frames and queued as events.
A reply the window has no room for waits in `pending_replies` until an
`ack_output`, a later request or a later completion tries again.

**What is hard here.**

- Orders of calls nobody wrote a test for: an UNLINK racing the completion of
  its target, a sequence number reused while calls for its old token still come,
  acknowledgements after a close.
- State kept twice: the executor's two indexes; the broker's credit and the
  engine's reservations; the session's state and the broker's state. One call
  that updates one of the two is a leak or a stranded request.
- Errors half-way: `close` and `complete` may fail in the draining of replies,
  after the executor has retired the request.
- Limits: the memory of retired tokens is emptied when full; the request limit
  is compared before the window, so which error a full window reports depends
  on which of the two is smaller.
- Nothing moves by itself: a path that frees credit and does not drain loses a
  reply for good.
- Two hosts: frames of requests, control messages and CLOSE cross on their way,
  and either side may close while the other still opens or sends.
- Limits that differ: a peer's smaller `max_pdu`, a window smaller than a reply, a
  PDU id that the engine wants for a reply.

`PROJECT.json` lists every hazard at its line, with the property that would
catch it or the reason none does yet.

**What makes each component correct.**

- *Executor*: each admitted SUBMIT and each accepted UNLINK is answered exactly
  once with its own sequence number; the indexes agree; silence only for what
  was answered; the limit holds.
- *Broker*: windows and negotiated limits hold; a session is settled once; only
  an established session holds credit.
- *Reassembler*: a PDU is handed over whole or not at all; nothing of an
  abandoned PDU survives in the counters.
- *Engine*: credit equals what is unacknowledged; frame sequence numbers have
  no gap; PDUs are not interleaved; replies keep their order; no wake-up is
  lost; an ended session is silent; requests are answered on the wire.
- *Two engines*: each direction is a queue of whole PDUs; the importer opens only
  what the exporter granted; neither honest side breaks the other; a close
  reaches the peer.
- *Wire session*: it accepts the conversations of the contract and no other.
- *Server session*: requests and replies take turns; data only after an import
  that was granted.
- *URB codec*: what is encoded is decoded to itself, and what is decoded encodes
  to the bytes it came from.
- *C ABI*: the caller is handed the engine's events in their order.

## 2. The modules

`Executor` translates `executor.rs`. A request is its sequence number, direction
and buffer length; payload bytes and statuses are left out because nothing
branches on them. The maps are functions (`Insert`, `Remove`), the retired set a
set, and the walk of `close` over a hash map any order of the live tokens
(`Orders`). A refused call changes nothing in the code and is a stutter; its
conditions have names (`CanAdmit`, `CanUnlink`, `FitsRequest`, `CanCancel`) that
`Transport` uses. `ExecutorService` adds a history (`admitted`, `unlinkOf`,
`answers`) that never guards a step, and states the properties. `UrbService` is
the abstract service: a request goes from unused to open, perhaps unlinking, to
done, and replies are counted; there are no tables. `ExecutorService` maps onto it
by `UrbStage` and the number of answers. `LateCompletion` adds the set of
cancelled requests for one finding.

`Broker` translates `broker.rs`: a HELLO is four facts (does it decode, does its
identity match, the two limits it offers); a window is two counters.
`ReserveResult` keeps the order of the code's checks because the engine treats
the errors differently.

`Reassembler` translates `Fragment::validate`, `push` and `clear` with a fragment
as an interval of its PDU. `FragmentStream` feeds it any fragments, well formed
or not, and records what it took.

`Transport` is the engine, as instances of the three over shared variables. One
public call, or one frame of the peer, is one action. The output side is one
record value (`Output`) so that a handler reads as the code does: `Notify`,
`Enqueue`, `Drained` are `queue_event`, `handle_executor_events` and
`drain_pending_replies`; the drain is always part of the action that triggers it.
Its loop is a turn (`DrainTurn`: the front reply is sent if the broker lets it)
repeated as often as there are replies.
`accept_frame` turns any error into Failed (`RejectFrame`, `RefuseFrame`, and a
drain error in `ReceiveRequest`), while an error of the drain in `complete` or
`close` is returned with the session still running (`PlatformCall`,
`CloseRunning`). `framed` is a history: how often a token's RET_SUBMIT became
frames.

The owner's obligations, which the code does not check, are part of the model:
it acknowledges a PDU only after taking its frames (`Written`), and the platform
completes only tokens it was told of (`Told`). They are read from the C header
and from the way the tests drive the engine. The ids of an owner's PDUs may be
ones that the engine picks for its replies.

`Endpoint` extends `Transport` with what the engine does with one given message,
where `Transport` lets any message come: `AcceptFrame` takes the message if it is
in sequence and expected (`Expects`, in the order of the code's checks), and fails
the session otherwise. Frames carry no bytes; the content of a PDU is found by
its id.

`Link` is two `Endpoint`s, the exporter's over the module's own variables and the
importer's an instance over a second set, and a stream each way. (`Link` takes both from
`EndpointProofs`, which is `Endpoint` with the lemmas about it, so that each lemma
holds of either side.) An owner's step
is a call of its engine, or a transmission: an event is taken and, if it is
output, written; or a message is read and given to the engine. `Attachment` is
what this is for: each side is opening, open or ended, and each direction a queue
of PDUs. The mapping takes the engine's states to those three, what a side has
sent to what it has written plus what is still in its event queue, and what it
has taken to the PDUs that its engine has put together (the history `taken`).

`WireSession`, `ServerSession`, `UrbCodec` and `EventPort` translate the parts beside
the engine, each as a small state machine: `accept` as a phase table, the server's
requests and completions, the codec as the PDUs and values that each direction
accepts, and the event that the C ABI keeps while the caller reads it. They share
nothing, so `Passive` runs them in one instance, one at a time.

Operators whose comment begins with *As a variant* are mistakes the code could
have made. Nothing uses them; each is there to be put in the place of its
original, to see that a property notices.

## 3. The runs

| run | question | bounds and why they are enough |
|---|---|---|
| `executor` | are requests answered once, do the indexes agree, is the service implemented | two sequence numbers (reuse happens), two requests at a time, five tokens: more than the memory of four, so it overflows also within a `close`; lengths 1 and 2 with limit 1 give an admitted and a refused one. Deadlock is checked: `close` is always possible |
| `broker` | windows, credit, one handshake | windows of 5 bytes and 2 PDUs out, 7 bytes and 4 PDUs in, with offers below, at and above the limits (3, 3): each of the four checks of `reserve` is the binding one somewhere |
| `fragments` | whole PDUs only | two PDU ids, chunks of up to 2 bytes, 3 fragments, 5 bytes of a hard limit of 6: gaps, repeats, other PDUs, too long, too many |
| `transport_exporter` | the engine's safety from `start` to `close` | a window of 3 bytes and 2 PDUs with replies of 1 and 2 bytes, limit 3: replies are held back for bytes and for PDUs; a peer that takes 2 bytes and one that takes 1; an owner PDU with the id of the first reply; two sequence numbers, three tokens; five frames each way by choice, of which the opening takes two |
| `transport_liveness` | every request is answered | a window of one PDU and 2 bytes, replies of 1 to 3 bytes, a peer that takes 3 and one that takes 1; two requests; the fairness below |
| `link` | do two engines implement the attachment | an OUT request of two frames and its UNLINK one way, a control message of two frames the other, each sent at most once and in any order; one message on its way in each direction and two events waiting, so that both sides are always out of step; either side closes at any moment |
| `passive` | the conversation, the dialogue, the codec and the events | nine sequence numbers: every conversation of up to seven frames; eight entries of dialogue: four requests, so denied imports and lists repeat; every PDU with lengths around 0 and the largest of 2, both sides of every check; four events of five kinds |

Five runs show disagreements (section 5) and stop at a counterexample. The
larger instance of `link` with two messages on their way and one more PDU of the
importer (631,901 states) satisfies the same safety properties; it takes too long
to be kept as a run.

The bounds on the model only are `MaxToken` (the code's is 2^64 - 1; the code
refuses at its end as the model does), `MaxFrames` (frames the peer sends, and
frames the owner sends by choice) and `MaxEvents` (a peer's frame comes only
while few events wait, since the queue in the code is unbounded). They restrict
the callers, never a handler: what the engine itself queues is not bounded. With
frames bounded a session of the engine comes to rest, so those runs do not check
deadlock; neither does `broker`, where a failed session takes no call any more,
nor `fragments`, where every fragment is answered anyway.

**Fairness.** The engine has no thread, so nothing in it is fair by itself.
`FairSpec` asks it of the callers, as the header does of an embedding program:
the owner keeps taking events (weak fairness of `NextEvent`), acknowledges
what it has written (weak fairness of some `AckOutput`: which one is not chosen,
and there are finitely many), and the platform completes each request it was
told of (weak fairness of `Complete` per token). No fairness is put on the
engine's retry of held-back replies: that the retry is part of the call that
frees the credit is what the run is about. The peer owes nothing. `RequestsAnswered`
excepts a session that stops running, and a reply at the head of the queue that
is larger than the peer's limit or than the whole window (`Stuck`): nothing
can let it through, and the code does not give it up. That the session goes on
with it is the code's behaviour, so the run includes both cases.

`FairLinkSpec` asks for weak fairness of `Transmit` alone: as long as one of the two
owners can write or read something, something is written or read. This is weaker
than fairness of each owner's loop, and it is enough because calls and frames are
bounded in the instance, so that everything in transit is in the end read.

## 4. What is proved

Every theorem holds for all values of the constants, under the assumptions named
in the modules: that windows, limits and sizes are numbers, that sequence
numbers and PDU ids are positive, and two that the code's configuration checks
enforce (`MaxReassembly <= MaxPdu`, and a transfer with its header fits a
reassembled PDU). `Endpoint` and `Link` add that the peer's HELLO and the PDUs of
either owner are of the form that the engine reads (`Pdus`), and that what the one
side calls its own the other calls its peer's. None fixes a bound, and TLC evaluates
each of them in a run.

| module | theorem | property |
|---|---|---|
| `ExecutorProofs` | `TypeCorrect` | `TypeOK` |
| | `IndexesAlwaysAgree` | `IndexesAgree` |
| | `ExactlyOnce` | `AnsweredExactlyOnce` |
| | `SilenceIsSafe` | `SilenceOnlyAfterAnswer` |
| | `ExecutorImplementsService` | `ImplementsUrbService` |
| `PartProofs` | `BrokerTypeCorrect` | `BrokerTypeOK` |
| | `WindowsHold` | `WithinWindows` |
| | `CreditHasSession` | `CreditNeedsSession` |
| | `HandshakeSettlesOnce` | `HandshakeOnce` |
| | `CountersMatch` | `CountersMatchPieces` |
| | `HandsOverWhole` | `HandedOverWhole` |
| `PassiveProofs` | `WireAcceptsLegal` | `AcceptedIsLegal` |
| | `ServerTakesTurns` | `RepliesTakeTurns` |
| | `ServerGrantsFirst` | `DataFollowsGrantedImport` |
| | `CodecKeepsRequests` | `RequestsMeanTheSame` |
| | `CodecKeepsReplies` | `RepliesKeepTheirMeaning` |
| | `PortLosesOnlyRejections` | `OnlyRejectionsAreLost` |
| | `PortDataIsTheEvents` | `DataBelongsToEvent` |
| `TransportProofs` | `TransportTypeCorrect` | `TypeOK` |
| | `CreditIsExact` | `CreditMatchesReservations` |
| | `FramesAreNumbered` | `SequencesContiguous` |
| | `PdusStayWhole` | `PdusContiguous` |
| | `RepliesKeepOrder` | `RepliesInOrder` |
| | `RequestsAreAnsweredOnce` | `AnsweredExactlyOnce` |
| | `WakeupsAreKept` | `NoLostWakeup` |
| | `OpeningFollowsHandshake` | `OpenNeedsHandshake` |
| | `EndedSessionsAreSilent` | `SilentOnceEnded` |
| | `RefusalIsFinal` | `RefusedHelloIsFinal` |
| `LinkProofs` | `StreamsStayIntact` | `StreamIntact` |
| | `ImporterIsSafe` | `ImporterEngineSafe` |
| | `ImporterFallsSilent` | `ImporterSilentOnceEnded` |
| | `LinkImplementsAttachment` | `ImplementsAttachment` |

**The executor.** The four invariants are not inductive one by one. `Inv` is their
conjunction with two more:

- `HistoryMatches`: for a live token, the recorded admission and UNLINK are the
  ones in the tables. A reply is built from the tables and judged against the
  history; without the link nothing is known of it.
- `WithinLimit`: at most `MaxInflight` requests are live. `close` may forget the
  memory in the middle of its walk and then keeps the rest of the walk; the rest
  is within the bound only because the walk is no longer than the limit.

`Inv` is preserved by one lemma per action (`SubmitInv`, `UnlinkInv`, `CompleteInv`,
`CancelInv`, `CloseInv`); completion and cancellation share `AnswerInv`, as they
share `Retire`. The step that takes thought is index agreement: removing a
token's sequence number from one map must leave the other tokens alone, which
holds because the maps are inverse and so injective.

The refinement is a step simulation under `Inv` and `Inv'`: `StageFacts` says what
`UrbStage` is in terms of issued, live and unlinked; `SubmitImplements`,
`UnlinkImplements`, `CompleteImplements` and `CloseImplements` show that each
action is the service's Admit, Unlink or Answer; the limit of Admit follows from
`InflightIsLive`, which equates the code's count (requests by sequence number)
with the service's (open requests) through the bijection of the indexes.

**The broker.** The windows alone are not inductive: a HELLO lowers the agreed
limits under credit that might be in flight. `BrokerInv` adds `CreditNeedsSession`,
so that there is none before the session is established, and that the agreed
limits stay within the local offer.

**The reassembler.** Both properties are inductive once the histories are typed.
`PushExtends` says what the checks of `push` mean together: the new fragment begins
where the last one ended, so the pieces stay end to end.

**The parts beside the engine.** Each has an invariant of its own. `WireInv` ties the
phase of the wire session to the shape of the conversation so far (`Conversation`:
a prefix of the opening, the opening with data, or one that was rejected or
closed). `ServerInv` adds to the turns whose turn it is. The codec's properties
have no state; their proofs compare the fields one by one. `PortInv` says which
of the events produced are gone, which one is kept by the caller, and which
still wait.

**The session engine.** `Inv` of `TransportProofs` is

| part | says | why the induction needs it |
|---|---|---|
| `Parts` | session and broker are typed, the receive window is empty between calls, and the executor's indexes agree as far as the engine looks at them (`Requests`) | completions look a token up in two maps |
| `Framing` | the frames waiting are numbered up to the next number, fragments of a PDU follow each other, the ids of waiting replies end just below the next internal id and those of framed ones are below them | order and numbering of *events* say nothing of the *next* frame without the counters |
| `Accounts` | an established broker counts exactly the reservations and is within the window; any other counts nothing; before the handshake nothing is reserved | a credit returned is subtracted: it must have been counted |
| `Answered` | a token is due an answer just if its RET_SUBMIT was framed once or waits at one place | `close` and completion make tokens due; the drain moves an answer from one place to the other |
| `OpenNeedsHandshake`, `RepliesFollowOpen` | only an established session opens, and a reply waits only in a session that has run | a session that starts running has no reply that should have been sent |
| `NoLostWakeup` | the reply at the front is refused | every call that frees credit must drain again |

The middle three are `Sound(o, due)`, a predicate of an *output side*: the record
that the handlers of `Transport` pass along. A lemma for each step of an output side
(`NotifySound`, `ControlSound`, `SentSound`, `TurnSound`) then serves every handler, and
`OutputStep` turns a sound output side into the next state. Three arguments
carry the rest:

- *The drain is a loop.* `Drained` is a recursive function of the number of turns.
  `DrainLoop` shows by induction that what every turn preserves the loop preserves,
  and that it ends only where the front reply is refused; the induction theorem of
  the library takes a predicate, so the lemma uses `SetInduction` over a set of
  numbers instead.
- *Credit is a sum.* Sizes are summed as the number of elements of a set of
  (id, byte) pairs (`ReservedBytes`), so that adding and removing a reservation is
  a fact about cardinalities (`OneReservation`) and not about a recursive sum.
- *The walk of `close` visits tokens in any order.* `WalkReplies` shows by induction on
  the length of the walk that the concatenated replies answer each live token
  once, whatever the order.

`SilentOnceEnded` and `RefusedHelloIsFinal` are about steps: `QuietSteps` lists the
actions that are still possible in a session that has ended or not begun, and
`AckQuietly` shows that the one of them that drains has nothing to send.

**The two engines.** `LinkInv` is the `Inv` of both engines and, for each direction,
that the frames which wait at the sender and those on their way form one
`Stream`: strictly increasing, without a gap, from the number that the receiver
takes next to the one that the sender gives next. The second part is claimed of a
receiver that still *expects* messages, which is more than `StreamIntact` says
(a running one): a session begins to run long after the first frames were sent.

- *Every step of an owner is a step of its engine* (`EndpointProofs`), or writes an
  event, and then the engine's own invariant is preserved by the lemmas of
  `TransportProofs`. For the importer they are cited through the instance, with the
  substituted assumptions discharged by `ImporterConfig`.
- *What an engine adds follows on.* `Grown` says that a step leaves the queue as it
  was and adds a stream that begins with the sender's next number. It holds for
  each step of an output side, and so through the loop of the drain for every
  action (`Continues`).
- *What an engine takes is the next number.* A session that expects messages and
  still does after a frame has taken just that frame (`Took`); one that has
  stopped never begins again (`Awaits`).

`LinkImplementsAttachment` is a step simulation under `ContentInv`, which adds to
the numbers what they carry:

- While a side expects messages, the PDUs its peer has written are those it has
  taken and then those on their way (`ExporterContent`, `ImporterContent`). Numbers
  alone would let a side take PDUs of another content.
- An exporter that has not opened has no OPEN_OK out (`Granted`). `Open` of the
  importer needs it, as nothing else ties the phase of one side to the other's.

A PDU is known by its last frame, and the PDUs of a queue are the concatenation of
what its messages tell (`PdusOf`), so that `FlattenConcat` moves a message from the
queue to the stream and from the stream to `taken`. What an engine says in a step
(`Grown`, by type in `Sayable`) tells of a PDU only if it runs, and an engine that runs
or has ended does not open again (`Moves`, `Begins`). The steps then fall out:

| step of the link | step of the attachment |
|---|---|
| a call of an owner or the platform | `Exchange` of a running side; `Open`, `End` or none of one that opens; none of one that has ended |
| an owner writes | none: what is written has been sent already |
| an owner reads | as a call, and a last fragment is the `Exchange` that takes the next PDU; OPEN_OK is the importer's `Open` |

`ExporterMoves` and `ImporterMoves` say once per side when a change of phase, PDUs
sent and PDUs taken is such a step, and the lemmas per action supply the change.

**What stays with TLC.** Liveness (`RequestsAnswered`, `CloseReachesPeer`): the proof
system has no support for fairness and ENABLED here. `HonestImporterNeverFailsExporter`
is a statement about the instance: an importer's owner who sends a SUBMIT above the
transfer limit, or more of them than the exporter admits, does fail the session,
so it is no theorem for all PDUs of the owner. What a recursive definition computes
for every input; the lemmas about `Drained` and `FlattenSeq` say what it preserves,
and `FlattenConcat` that it turns two lists in a row into two results in a row.
`SelectSeq` has no meaning to the provers, so no definition that is proved about
uses it.

## 5. Where the code and its documentation disagree

1. `late_completion`: the memory of retired tokens is emptied as a whole when
   it is full, so a late completion of a cancelled request can be NotFound; the
   contract says it is ignored.
2. `default_window`: `reserve` compares the request limit before the window and
   answers LimitExceeded, on which the drain does not wait. With a PDU window of
   at least `max_inflight` (the default always is) a full window makes
   `complete` an error and fails the session on the next request.
3. `importer_replies`: `handle_pdu` gives every URB PDU to the executor, whose decoder
   knows requests only. The importer's session fails at the first RET_SUBMIT or
   RET_UNLINK; the contract says RUSB forwards them.
4. `peer_close`: a CLOSE of the peer leaves requests live in the executor; the
   contract says shutdown retires them.
5. `close_behind_window`: with a full window `close` queues CLOSE while
   cancellations are held back, and they never leave.

What the models met besides, without a run of its own:

- A refused HELLO fails the broker and leaves the session in AwaitHello
  (`transport.rs:155`); the contract (section 10) calls for a failed session.
  `RefusedHelloIsFinal` checks that nothing but CLOSE can follow.
- Unequal HELLO offers do not negotiate: the side that offers less refuses the
  larger offer, while the other side accepts and waits (`broker.rs:192`).
- When two CLOSE frames cross, each side meets the other's as a frame in a closed
  session and becomes Failed; `HonestImporterNeverFailsExporter` excepts just this.
- The engine's `decode_frame` does not check payloads as the wire session does, so
  an OPEN_REJECT of any status is accepted (`transport.rs:283`). One beyond `i32` is
  lost to a caller of the C ABI (`OnlyRejectionsAreLost`).
- `WireSession` refuses the last sequence number that `next_header` still hands out
  (`wire.rs:583`); in the model too, at the end of its small number space.

`NoLostWakeup`, which `transport_exporter` checks, is what holds in its place whatever
the limits: a reply is held back only while sending it would be refused.
`RepliesWaitOnlyForTheWindow`, which asks that the refusal be the window's, is what
`default_window` violates.

## 6. What is not modelled

- Byte layouts of frames, HELLO, CAPABILITY, OPEN and of USB/IP device records and
  control replies: codecs without state, covered by the vectors and round-trip
  tests. Of URB PDUs, the fields that no check looks at.
- The ends of the 64-bit counters of the engine (frame sequences, internal PDU
  ids): the model starts at their beginning. The end of the token counter is
  modelled, and that of the wire session's numbers.
- The lease token's comparison, which is one more way to refuse a frame.
- The pointer, size and version checks of the C ABI, and its handling of panics.
- Lost or reordered messages and restarts: RUSB runs over a reliable ordered
  stream, keeps nothing on disk and has no retries or timers. A stream that
  breaks is an owner that stops reading and closes.
- In `link`, the importer's requests are fixed in number, and RET_SUBMIT and
  RET_UNLINK end the importer's session (section 5); so answers are followed to
  the importer's engine and no further.
- Receive credit: the engine takes and returns it in one call, so at rest it is
  always zero; the refusal when it is missing is in `ReceivePdu`.

## 7. Plan

Done: every component with behaviour modelled and checked, the two engines
composed and checked against their abstract specification, every component proved on
its own, the session engine included, and for the composition the numbering of
the two streams, their content and the refinement of `Attachment`.

Next: what the exporter's engine keeps when it is joined to a peer (`LinkSpec` lets
it do less than `Spec`, so each of its theorems should carry over), and
`HonestImporterNeverFailsExporter` for importers whose requests the exporter admits.
