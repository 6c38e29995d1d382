--------------------------------- MODULE Seam ---------------------------------
(***************************************************************************)
(* The device adapter of src/ffi/src/seam.rs: the reactor's half, and the  *)
(* two blocking threads that sit in the host's recv and send callbacks,    *)
(* joined by bounded channels of recycled buffers.  The host's context is  *)
(* released with the last Arc on it.                                       *)
(***************************************************************************)
EXTENDS Integers, Sequences, FiniteSets

CONSTANTS
  BufferDepth,  \* DEPTH: buffers per direction of the device
  HostCloses    \* whether the host supplies the close callback

ASSUME SeamAssumption == BufferDepth \in Nat \ {0} /\ HostCloses \in BOOLEAN

VARIABLES
  owner,      \* the reactor that owns the device: "running" or "ended"
  reader, writer,              \* the device threads
  refill, inbound, outbound,   \* their channels
  refs,       \* the Arcs on the device context
  released    \* how often the context was released

seamVars == <<owner, reader, writer, refill, inbound, outbound, refs, released>>

\* Device::new: every buffer starts with the reader, and the context has one Arc.
SeamInit ==
  /\ owner = "running"
  /\ reader = "unstarted" /\ writer = "unstarted"
  /\ refill = BufferDepth /\ inbound = <<>> /\ outbound = 0
  /\ refs = 1 /\ released = 0

Release(holders) ==
  /\ refs' = refs - holders
  /\ released' = IF refs - holders = 0 THEN released + 1 ELSE released

DeviceOpen == owner = "running"

\* Dropping the device closes its channels and calls the host's close.
EndOwner ==
  /\ owner' = "ended"
  /\ Release(1)
  /\ UNCHANGED <<reader, writer, refill, inbound, outbound>>

\* The reactor is cancelled, or the runtime that holds it is shut down.
DropDevice == DeviceOpen /\ EndOwner

\* Mutant: the writer borrows the reader's hold on the context.
StartSharing ==
  /\ DeviceOpen /\ reader = "unstarted"
  /\ reader' = "waiting" /\ writer' = "waiting"
  /\ refs' = refs + 1
  /\ UNCHANGED <<owner, refill, inbound, outbound, released>>

\* Device::start on first use; each thread holds the context.
Start ==
  /\ DeviceOpen /\ reader = "unstarted"
  /\ reader' = "waiting" /\ writer' = "waiting"
  /\ refs' = refs + 2
  /\ UNCHANGED <<owner, refill, inbound, outbound, released>>

\* recv: a packet's buffer goes back to the reader; an error that is not
\* transient, or the threads' end, ends the reactor.
TakePacket ==
  /\ DeviceOpen /\ inbound # <<>> /\ Head(inbound) \in {"packet", "transient"}
  /\ inbound' = Tail(inbound)
  /\ refill' = IF Head(inbound) = "packet" THEN refill + 1 ELSE refill
  /\ UNCHANGED <<owner, reader, writer, outbound, refs, released>>

TakeError ==
  /\ DeviceOpen
  /\ \/ inbound # <<>> /\ Head(inbound) = "error"
     \/ inbound = <<>> /\ reader = "gone" /\ writer = "gone"
  /\ EndOwner

\* send: a full channel drops the packet after its budget, a closed one ends
\* the reactor.
SendPacket ==
  /\ DeviceOpen /\ writer \notin {"unstarted", "gone"} /\ outbound < BufferDepth
  /\ outbound' = outbound + 1
  /\ UNCHANGED <<owner, reader, writer, refill, inbound, refs, released>>

SendClosed ==
  /\ DeviceOpen /\ writer = "gone"
  /\ EndOwner

-----------------------------------------------------------------------------
(* read_loop and write_loop *)

\* A closed refill channel still yields the buffers it holds.
ReaderTakes ==
  /\ reader = "waiting"
  /\ \/ /\ refill > 0 /\ refill' = refill - 1 /\ reader' = "reading"
        /\ UNCHANGED <<refs, released>>
     \/ /\ refill = 0 /\ ~DeviceOpen /\ reader' = "gone" /\ Release(1)
        /\ UNCHANGED refill
  /\ UNCHANGED <<owner, writer, inbound, outbound>>

\* Mutant: dropping the device does not call close.
ReadReturnsUnclosed ==
  /\ reader = "reading"
  /\ reader' \in {"delivering", "again", "failing", "hiccup"}
  /\ UNCHANGED <<owner, writer, refill, inbound, outbound, refs, released>>

\* The host's recv returns; zero means ask again.  After close it fails.
ReadReturns ==
  /\ reader = "reading"
  /\ reader' \in IF HostCloses /\ ~DeviceOpen THEN {"failing"}
                 ELSE {"delivering", "again", "failing", "hiccup"}
  /\ UNCHANGED <<owner, writer, refill, inbound, outbound, refs, released>>

ReadAgain ==
  /\ reader = "again" /\ reader' = "reading"
  /\ UNCHANGED <<owner, writer, refill, inbound, outbound, refs, released>>

\* A packet is handed over; a failure, transient or not, ends the thread.
Handed == [delivering |-> "packet", failing |-> "error", hiccup |-> "transient"]
ReaderHands ==
  /\ reader \in DOMAIN Handed
  /\ \/ /\ DeviceOpen /\ Len(inbound) < BufferDepth
        /\ inbound' = Append(inbound, Handed[reader])
        /\ reader' = IF reader = "delivering" THEN "waiting" ELSE "gone"
     \/ /\ ~DeviceOpen /\ reader' = "gone" /\ UNCHANGED inbound
  /\ IF reader' = "gone" THEN Release(1) ELSE UNCHANGED <<refs, released>>
  /\ UNCHANGED <<owner, writer, refill, outbound>>

WriterTakes ==
  /\ writer = "waiting"
  /\ \/ /\ outbound > 0 /\ outbound' = outbound - 1 /\ writer' = "writing"
        /\ UNCHANGED <<refs, released>>
     \/ /\ outbound = 0 /\ ~DeviceOpen /\ writer' = "gone" /\ Release(1)
        /\ UNCHANGED outbound
  /\ UNCHANGED <<owner, reader, refill, inbound>>

WriteReturns ==
  /\ writer = "writing"
  /\ writer' \in {"waiting", "failing"}
  /\ UNCHANGED <<owner, reader, refill, inbound, outbound, refs, released>>

WriterHands ==
  /\ writer = "failing"
  /\ \/ /\ DeviceOpen /\ Len(inbound) < BufferDepth /\ inbound' = Append(inbound, "error")
     \/ /\ ~DeviceOpen /\ UNCHANGED inbound
  /\ writer' = "gone" /\ Release(1)
  /\ UNCHANGED <<owner, reader, refill, outbound>>

-----------------------------------------------------------------------------
OwnerStep == DropDevice \/ Start \/ TakePacket \/ TakeError \/ SendPacket \/ SendClosed
DeviceStep ==
  ReaderTakes \/ ReadReturns \/ ReadAgain \/ ReaderHands \/ WriterTakes \/ WriteReturns \/ WriterHands

SeamNext == OwnerStep \/ DeviceStep

\* The threads run, and a host callback returns: a recv in bounded time if the
\* host gave no close, else by the time it was closed.
SeamFairness ==
  /\ WF_seamVars(\/ ReaderTakes \/ ReadAgain \/ ReaderHands
                 \/ ReadReturns /\ (~DeviceOpen \/ ~HostCloses))
  /\ WF_seamVars(WriterTakes \/ WriteReturns \/ WriterHands)

-----------------------------------------------------------------------------
(* Properties *)

\* "Releases `context` once all callbacks have returned": once, and with no
\* device thread inside a callback nor a way for one to start.
ReleasedAfterCalls ==
  /\ released <= 1
  /\ released = 1 => ~DeviceOpen /\ {reader, writer} \subseteq {"unstarted", "gone"}

\* Once the device is dropped its context is released: close makes a blocked
\* recv return and both threads see their channels closed.
ContextReleased == (~DeviceOpen) ~> (released = 1)
=============================================================================
