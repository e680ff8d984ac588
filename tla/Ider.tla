-------------------------------- MODULE Ider --------------------------------
(***************************************************************************)
(* IderEngine: the IDE-R state machine of one redirection session, and the *)
(* media images behind it.  feed() takes the endpoint's frames one at a    *)
(* time; a SCSI read is drained frame by frame before feed() goes on, a    *)
(* SCSI write waits for DATA_FROM_HOST frames.  The image files belong to  *)
(* the controller's file system, where anyone may truncate them meanwhile. *)
(*                                                                         *)
(* A block is the unit of transfer.  _read_queue and _reset_pending have   *)
(* no counterpart: _pump_read runs to its end inside the call that sets    *)
(* _read_state, so no frame is ever handled while a read is in flight.     *)
(***************************************************************************)
EXTENDS Integers, Sequences, FiniteSets

CONSTANTS
    Blocks,      \* MediaImage.blocks of each device, fixed when it is opened
    Data,        \* contents of a block
    ReadBuffers, \* values OPEN_SESSION_REPLY may give for readbfr; 0 is none
    SixLimit,    \* what a zero length means in a 6-byte CDB (256)
    LengthMod,   \* range of a frame's 16-bit length field, in blocks
    SequenceMod, \* range of a sequence number (2^32)
    None         \* no read, write or command

floppy == "floppy"

cdrom == "cdrom"

Devices == {floppy, cdrom}

\* _ReadRequest, _PendingWrite and the READ they come from.
Reads == [device : Devices, offset : Nat, remaining : Nat]

Writes == [offset : Nat, expected : Nat, received : Nat]

Commands == [device : Devices, lba : Nat, length : Nat]

ASSUME ConstantsAssumption ==
    /\ Blocks \in [Devices -> Nat]
    /\ Data # {}
    /\ ReadBuffers \subseteq Nat
    /\ SixLimit \in Nat \ {0}
    /\ LengthMod \in Nat \ {0}
    /\ SequenceMod \in Nat \ {0, 1}
    /\ None \notin Reads \cup Writes \cup Commands

VARIABLES
    devices,   \* the device slots with an image
    writable,  \* the floppy image was opened writable
    size,      \* blocks now in each image file
    content,   \* the floppy image's blocks
    stopped,   \* the session is over: torn down, or feed() raised
    in_seq,    \* the sequence number feed() expects
    readbfr,   \* negotiated read buffer; 0 before OPEN_SESSION_REPLY
    reading,   \* _read_state, or None
    pending,   \* _pending_write, or None
    asked,     \* the length the last GET_DATA_FROM_HOST carried
    host_seq,  \* endpoint: the number of its next frame
    fault,     \* the endpoint closed the session or broke the protocol, or an
               \* image file or the connection failed
    command,   \* endpoint: the read it waits for or last waited for, or None
    got,       \* endpoint: the blocks received for that read
    verdict,   \* endpoint: how it went: "refused", "open", "ok" or "sense"
    sent,      \* endpoint: what it sent for the last accepted write, by block
    acked      \* endpoint: the blocks it was told are stored, as it sent them

vars == <<devices, writable, size, content, stopped, in_seq, readbfr,
          reading, pending, asked, host_seq, fault, command, got, verdict,
          sent, acked>>

files == <<devices, writable, size, content>>

session == <<stopped, in_seq, readbfr>>

endpoint == <<command, got, verdict, sent, acked>>

---------------------------------------------------------------------------
Extent(lba, length) == lba .. lba + length - 1

Smaller(m, n) == IF m < n THEN m ELSE n

Larger(m, n) == IF m < n THEN n ELSE m

\* READ_6 and WRITE_6: `cdb[4] or 256`; READ_10 and WRITE_10: as it stands.
transfer_length(six, field) == IF six /\ field = 0 THEN SixLimit ELSE field

---------------------------------------------------------------------------
(***************************************************************************)
(* feed() and _dispatch.                                                   *)
(***************************************************************************)
NextInSeq == (in_seq + 1) % SequenceMod

\* A frame is handled when the engine is not inside _pump_read; one out of
\* sequence ends the session.
Frame ==
    /\ ~stopped
    /\ reading = None
    /\ host_seq' = (host_seq + 1) % SequenceMod

Accept ==
    /\ Frame
    /\ in_seq = host_seq
    /\ in_seq' = NextInSeq

OutOfSequence ==
    /\ Frame
    /\ \E seq \in 0 .. SequenceMod - 1 :
           /\ seq # in_seq
           /\ fault' = (fault \/ seq # host_seq)
    /\ stopped' = TRUE
    /\ UNCHANGED <<files, in_seq, readbfr, reading, pending, asked, endpoint>>

\* CLOSE, an unknown command, and an OPEN_SESSION_REPLY that asks too much.
Close ==
    /\ Accept
    /\ fault' = TRUE
    /\ stopped' = TRUE
    /\ UNCHANGED <<files, readbfr, reading, pending, asked, endpoint>>

OpenSessionReply ==
    /\ Accept
    /\ readbfr' \in ReadBuffers
    /\ UNCHANGED <<files, stopped, reading, pending, asked, fault, endpoint>>

\* KEEPALIVE, HEARTBEAT, ERROR_OCCURRED, RESET_OCCURRED, STATUS_DATA (whose
\* toggle verdict MediaSession follows up) and the SCSI commands that answer
\* from tables: none touches a transfer, a pending write included.
Answered ==
    /\ Accept
    /\ UNCHANGED <<files, stopped, readbfr, reading, pending, asked,
                   fault, endpoint>>

---------------------------------------------------------------------------
(***************************************************************************)
(* The read path: _scsi_read and _pump_read.                               *)
(***************************************************************************)
\* A READ within the image starts the pump.
Read(device, lba, length) ==
    /\ Accept
    /\ got' = <<>>
    /\ IF device \in devices /\ lba + length <= Blocks[device] /\ length > 0
       THEN /\ reading' = [device |-> device, offset |-> lba, remaining |-> length]
            /\ command' = [device |-> device, lba |-> lba, length |-> length]
            /\ verdict' = "open"
       ELSE /\ UNCHANGED reading
            /\ command' = None
            /\ verdict' = "refused"
    /\ UNCHANGED <<files, stopped, readbfr, pending, asked, fault, sent, acked>>

chunk_size ==
    IF readbfr = 0 THEN reading.remaining
    ELSE Smaller(reading.remaining, readbfr)

\* How much of the chunk the file still has.
available == Larger(0, Smaller(chunk_size, size[reading.device] - reading.offset))

Chunk == [i \in 1 .. available |-> reading.offset + i - 1]

\* Mutant: a short read is not noticed.
PumpBlindly ==
    /\ reading # None
    /\ got' = got \o Chunk
    /\ IF available < reading.remaining
       THEN /\ reading' = [reading EXCEPT !.offset = @ + available,
                                          !.remaining = @ - available]
            /\ UNCHANGED verdict
       ELSE reading' = None /\ verdict' = "ok"

\* Mutant: the transfer is over when the file is.
PumpToEof ==
    /\ reading # None
    /\ got' = got \o Chunk
    /\ IF available = chunk_size /\ available < reading.remaining
       THEN /\ reading' = [reading EXCEPT !.offset = @ + available,
                                          !.remaining = @ - available]
            /\ UNCHANGED verdict
       ELSE reading' = None /\ verdict' = "ok"

\* One DATA_TO_HOST frame, the last one marked completed; or, when the file
\* yields nothing, MEDIUM ERROR.
PumpFrame ==
    /\ reading # None
    /\ IF available = 0
       THEN reading' = None /\ verdict' = "sense" /\ UNCHANGED got
       ELSE /\ got' = got \o Chunk
            /\ IF available < reading.remaining
               THEN /\ reading' = [reading EXCEPT !.offset = @ + available,
                                                  !.remaining = @ - available]
                    /\ UNCHANGED verdict
               ELSE reading' = None /\ verdict' = "ok"

Pump ==
    /\ ~stopped
    /\ PumpFrame
    /\ UNCHANGED <<files, session, pending, asked, host_seq, fault, command, sent,
                   acked>>

\* MediaImage.read or the send raises: the error leaves feed(), _read_state as
\* it is, and run_session's last resort ends the session.
ReadFails ==
    /\ ~stopped
    /\ reading # None
    /\ stopped' = TRUE
    /\ fault' = TRUE
    /\ UNCHANGED <<files, in_seq, readbfr, reading, pending, asked, host_seq,
                   endpoint>>

---------------------------------------------------------------------------
(***************************************************************************)
(* The write path: _scsi_write_request, _on_data_from_host and             *)
(* MediaImage.write.                                                       *)
(***************************************************************************)
\* Mutant: the bounds check leaves the length out.
MayWriteAnywhere(device, lba, length) ==
    device = floppy /\ floppy \in devices /\ lba < Blocks[floppy] /\ length > 0 /\ writable

MayWrite(device, lba, length) ==
    /\ device = floppy
    /\ floppy \in devices
    /\ lba + length <= Blocks[floppy]
    /\ length > 0
    /\ writable

\* A WRITE that may go ahead replaces whatever write was pending and asks for
\* its data; every other one is answered at once.
Write(device, lba, length) ==
    /\ Accept
    /\ IF MayWrite(device, lba, length)
       THEN /\ pending' = [offset |-> lba, expected |-> length, received |-> 0]
            /\ asked' = length % LengthMod
            /\ sent' = <<>>
            /\ acked' = [b \in DOMAIN acked \ Extent(lba, length) |-> acked[b]]
       ELSE UNCHANGED <<pending, asked, sent, acked>>
    /\ UNCHANGED <<files, stopped, readbfr, reading, fault, command, got,
                   verdict>>

\* f with d on a range of blocks.
Filled(f, blocks, d) ==
    [b \in DOMAIN f \cup blocks |-> IF b \in blocks THEN d ELSE f[b]]

\* MediaImage.write raises ProtocolError for an image that is read-only or too
\* small, which ends the session.
Refuses(offset, length) == ~writable \/ offset + length > Blocks[floppy]

\* Past the end of a truncated file the gap reads as zero, which Truncate has
\* already made of it.
Store(offset, length, d) ==
    /\ content' = Filled(content, Extent(offset, length), d)
    /\ size' = [size EXCEPT ![floppy] = Larger(@, offset + length)]

\* Mutant: every frame of a transfer goes to its start.
OffsetOfWrite(p) == p.offset

\* pending.byte_offset + pending.received
WriteOffset(p) == p.offset + p.received

\* Mutant: the payload is bounded by the image, not by what the CDB declared.
OverrunImage(p, length) == length > Blocks[floppy] - p.offset - p.received

Overrun(p, length) == length > p.expected - p.received

DataFromHost(length, d) ==
    /\ Accept
    /\ CASE pending = None ->
              UNCHANGED <<stopped, pending, content, size, sent, acked>>
         [] pending # None /\ Overrun(pending, length) ->
              pending' = None /\ UNCHANGED <<stopped, content, size, sent, acked>>
         [] /\ pending # None /\ ~Overrun(pending, length)
            /\ Refuses(WriteOffset(pending), length) ->
              stopped' = TRUE /\ UNCHANGED <<pending, content, size, sent, acked>>
         [] /\ pending # None /\ ~Overrun(pending, length)
            /\ ~Refuses(WriteOffset(pending), length) ->
              /\ UNCHANGED stopped
              /\ Store(WriteOffset(pending), length, d)
              /\ sent' = Filled(sent, Extent(pending.offset + pending.received, length), d)
              /\ IF pending.received + length >= pending.expected
                 THEN /\ pending' = None
                      /\ acked' = [b \in DOMAIN acked \cup DOMAIN sent' |->
                                     IF b \in DOMAIN sent' THEN sent'[b] ELSE acked[b]]
                 ELSE /\ pending' = [pending EXCEPT !.received = @ + length]
                      /\ UNCHANGED acked
    /\ UNCHANGED <<devices, writable, readbfr, reading, asked, fault, command,
                   got, verdict>>

\* The file's write or flush, or the send of the acknowledgement, raises: a
\* first part of the payload, none or all of it may be stored, the endpoint
\* hears nothing, and the session is over.
WriteFails(length, d) ==
    /\ Accept
    /\ pending # None
    /\ ~Overrun(pending, length)
    /\ ~Refuses(WriteOffset(pending), length)
    /\ \/ UNCHANGED <<content, size>>
       \/ \E part \in 1 .. length : Store(WriteOffset(pending), part, d)
    /\ sent' = Filled(sent, Extent(pending.offset + pending.received, length), d)
    /\ stopped' = TRUE
    /\ fault' = TRUE
    /\ UNCHANGED <<devices, writable, readbfr, reading, pending, asked, command,
                   got, verdict, acked>>

---------------------------------------------------------------------------
\* Another process truncates an image file; what was stored beyond is gone.
Zero == CHOOSE d \in Data : TRUE

Below(f, blocks) == [b \in {a \in DOMAIN f : a < blocks} |-> f[b]]

Truncate(device, blocks) ==
    /\ device \in devices
    /\ blocks < size[device]
    /\ size' = [size EXCEPT ![device] = blocks]
    /\ IF device = floppy
       THEN /\ content' = [b \in DOMAIN content |->
                              IF b < blocks THEN content[b] ELSE Zero]
            /\ acked' = Below(acked, blocks)
            /\ sent' = Below(sent, blocks)
       ELSE UNCHANGED <<content, acked, sent>>
    /\ UNCHANGED <<devices, writable, session, reading, pending, asked, host_seq,
                   fault, command, got, verdict>>

---------------------------------------------------------------------------
Init ==
    /\ devices \in SUBSET Devices
    /\ writable \in (IF floppy \in devices THEN BOOLEAN ELSE {FALSE})
    /\ size = Blocks
    /\ content = [b \in 0 .. Blocks[floppy] - 1 |-> Zero]
    /\ stopped = FALSE
    /\ in_seq = 0
    /\ readbfr = 0
    /\ reading = None
    /\ pending = None
    /\ asked = 0
    /\ host_seq = 0
    /\ fault = FALSE
    /\ command = None
    /\ got = <<>>
    /\ verdict = "refused"
    /\ sent = <<>>
    /\ acked = <<>>

\* The lengths the endpoint may use: those of the image and one beyond.
Lengths(device) == 0 .. Blocks[device] + 1

HostFrame ==
    \/ OutOfSequence \/ Close \/ OpenSessionReply \/ Answered
    \/ \E device \in Devices : \E lba, field \in Lengths(device) :
           \E six \in BOOLEAN :
               \/ Read(device, lba, transfer_length(six, field))
               \/ Write(device, lba, transfer_length(six, field))
    \/ \E length \in Lengths(floppy) \ {0} : \E d \in Data :
           DataFromHost(length, d) \/ WriteFails(length, d)

Next ==
    \/ HostFrame
    \/ Pump
    \/ ReadFails
    \/ \E device \in Devices : \E blocks \in Lengths(device) : Truncate(device, blocks)

Spec == Init /\ [][Next]_vars

\* _pump_read is a loop over local file reads: it keeps going.
FairSpec == Spec /\ WF_vars(Pump)

---------------------------------------------------------------------------
(***************************************************************************)
(* Properties.                                                             *)
(***************************************************************************)
\* Type correctness; in particular no image file is ever longer than it was
\* when it was opened.
TypeOK ==
    /\ devices \subseteq Devices
    /\ writable \in BOOLEAN
    /\ size \in [Devices -> Nat]
    /\ \A device \in Devices : size[device] <= Blocks[device]
    /\ content \in [0 .. Blocks[floppy] - 1 -> Data]
    /\ stopped \in BOOLEAN
    /\ in_seq \in 0 .. SequenceMod - 1
    /\ readbfr \in ReadBuffers \cup {0}
    /\ reading \in Reads \cup {None}
    /\ pending \in Writes \cup {None}
    /\ asked \in 0 .. LengthMod - 1
    /\ host_seq \in 0 .. SequenceMod - 1
    /\ fault \in BOOLEAN
    /\ command \in Commands \cup {None}
    /\ got \in Seq(Nat)
    /\ verdict \in {"refused", "open", "ok", "sense"}
    /\ sent \in [DOMAIN sent -> Data] /\ DOMAIN sent \subseteq DOMAIN content
    /\ acked \in [DOMAIN acked -> Data] /\ DOMAIN acked \subseteq DOMAIN content

\* feed() and MediaImage.write: the session ends only because the endpoint closed
\* it or broke the protocol, or a file or the connection failed, never over the engine's own count, the wrap
\* included, nor in the write's last check ("an internal bug").
TornDownForCause == stopped => fault

\* _on_data_from_host: a frame changes nothing but blocks of the write whose
\* CDB was checked and accepted, whatever length it carries.
WritesStayInTheirCommand ==
    [][\A b \in DOMAIN content : content'[b] # content[b] =>
          \/ size'[floppy] < size[floppy]
          \/ /\ writable
             /\ pending # None
             /\ b \in Extent(pending.offset, pending.expected)]_vars

\* _on_data_from_host: a write that was acknowledged is in the file as it was
\* sent, however it was split into frames and whatever other writes were
\* begun, abandoned, refused or failed in part since.
AckedIsStored == \A b \in DOMAIN acked : content[b] = acked[b]

\* _pump_read: a transfer marked completed carried exactly the blocks the READ
\* asked for, in order, also when the file is truncated under it.
CompletedReadIsWhole ==
    verdict = "ok" =>
        got = [i \in 1 .. command.length |-> command.lba + i - 1]

\* _pump_read "is guaranteed to terminate", file truncated or not; where the
\* file or the connection fails it ends with the session.
PumpEnds == reading # None ~> reading = None \/ stopped

\* protocol-notes.md 5.2: GET_DATA_FROM_HOST asks for all the data of the write.
AsksForAll == pending # None => asked = pending.expected
=============================================================================
