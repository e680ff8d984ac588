----------------------------- MODULE IderProofs -----------------------------
(***************************************************************************)
(* Proofs about Ider, for every image size, read buffer, length and        *)
(* sequence range.                                                         *)
(***************************************************************************)
EXTENDS Ider, TLAPS, SequenceTheorems

---------------------------------------------------------------------------
(***************************************************************************)
(* The constants' shape, the files and the session.                        *)
(***************************************************************************)
FileBlocks == 0 .. Blocks[floppy] - 1

LEMMA Shapes ==
    /\ floppy \in Devices /\ cdrom \in Devices
    /\ Blocks[floppy] \in Nat /\ Blocks[cdrom] \in Nat
    /\ \A device \in Devices : Lengths(device) \subseteq Nat
    /\ SixLimit \in Nat \ {0}
    /\ None \notin Reads /\ None \notin Writes /\ None \notin Commands
    /\ Zero \in Data
<1>1. Zero \in Data
  BY ConstantsAssumption DEF Zero
<1>2. \A device \in Devices : Blocks[device] \in Nat
  BY ConstantsAssumption
<1> QED
  BY <1>1, <1>2, ConstantsAssumption DEF Devices, floppy, cdrom, Lengths

LEMMA LengthIsNatural ==
    ASSUME NEW six \in BOOLEAN, NEW field \in Nat
    PROVE  transfer_length(six, field) \in Nat
BY Shapes DEF transfer_length

\* The disjuncts of Next, with the lengths known to be naturals.
LEMMA Steps ==
    ASSUME [Next]_vars
    PROVE  \/ OutOfSequence \/ Close \/ OpenSessionReply \/ Answered \/ Pump
           \/ ReadFails
           \/ \E device \in Devices : \E lba, length \in Nat :
                  Read(device, lba, length) \/ Write(device, lba, length)
           \/ \E length \in Nat \ {0} : \E d \in Data :
                  DataFromHost(length, d) \/ WriteFails(length, d)
           \/ \E device \in Devices : \E blocks \in Nat : Truncate(device, blocks)
           \/ UNCHANGED vars
<1>1. CASE \E device \in Devices : \E lba, field \in Lengths(device) :
               \E six \in BOOLEAN :
                   \/ Read(device, lba, transfer_length(six, field))
                   \/ Write(device, lba, transfer_length(six, field))
  BY <1>1, Shapes, LengthIsNatural
<1>2. CASE \E length \in Lengths(floppy) \ {0} : \E d \in Data :
               DataFromHost(length, d) \/ WriteFails(length, d)
  BY <1>2, Shapes
<1>3. CASE \E device \in Devices : \E blocks \in Lengths(device) : Truncate(device, blocks)
  BY <1>3, Shapes
<1> QED
  BY <1>1, <1>2, <1>3 DEF Next, HostFrame

---------------------------------------------------------------------------
(***************************************************************************)
(* The write path.                                                         *)
(***************************************************************************)
\* What is known of a pending write: it lies in the image, it is not complete,
\* what arrived for it is in the file unless storing it failed, and nothing
\* under it counts as acknowledged.
WriteInv ==
    /\ content \in [FileBlocks -> Data]
    /\ pending \in Writes \cup {None}
    /\ DOMAIN acked \subseteq FileBlocks
    /\ DOMAIN sent \subseteq FileBlocks
    /\ AckedIsStored
    /\ pending # None =>
           /\ writable
           /\ pending.offset + pending.expected <= Blocks[floppy]
           /\ pending.received < pending.expected
           /\ DOMAIN sent \subseteq Extent(pending.offset, pending.expected)
           /\ ~stopped => \A b \in DOMAIN sent : content[b] = sent[b]
           /\ DOMAIN acked \cap Extent(pending.offset, pending.expected) = {}

LEMMA WriteInit == Init => WriteInv
<1> SUFFICES ASSUME Init PROVE WriteInv
  OBVIOUS
<1>1. DOMAIN acked = {} /\ DOMAIN sent = {}
  BY DEF Init
<1>2. content \in [FileBlocks -> Data]
  BY Shapes DEF Init, FileBlocks
<1>3. pending = None
  BY DEF Init
<1> QED
  BY <1>1, <1>2, <1>3 DEF WriteInv, AckedIsStored

LEMMA WriteUntouched ==
    ASSUME WriteInv, UNCHANGED <<content, pending, acked, sent, writable>>,
           stopped => stopped'
    PROVE  WriteInv'
BY DEF WriteInv, AckedIsStored

\* A block that is stored lies in its command and in the image.
LEMMA StoredWhere ==
    ASSUME NEW p \in Writes, NEW length \in Nat, ~Overrun(p, length),
           p.offset + p.expected <= Blocks[floppy]
    PROVE  /\ Extent(WriteOffset(p), length) \subseteq Extent(p.offset, p.expected)
           /\ Extent(p.offset, p.expected) \subseteq FileBlocks
BY Shapes DEF Writes, Overrun, WriteOffset, Extent, FileBlocks

\* The last check in MediaImage.write never turns a block away.
LEMMA StoreGoesAhead ==
    ASSUME WriteInv, NEW length \in Nat, pending # None, ~Overrun(pending, length)
    PROVE  ~Refuses(WriteOffset(pending), length)
<1>1. /\ pending \in Writes /\ writable
      /\ pending.offset + pending.expected <= Blocks[floppy]
  BY DEF WriteInv
<1>2. /\ pending.offset \in Nat /\ pending.expected \in Nat /\ pending.received \in Nat
  BY <1>1 DEF Writes
<1> QED
  BY <1>1, <1>2, Shapes DEF Overrun, Refuses, WriteOffset

LEMMA WriteByWrite ==
    ASSUME WriteInv, NEW device \in Devices, NEW lba \in Nat, NEW length \in Nat,
           Write(device, lba, length)
    PROVE  WriteInv'
<1> UNCHANGED <<content, writable, stopped>>
  BY DEF Write, files
<1>1. CASE ~MayWrite(device, lba, length)
  BY <1>1, WriteUntouched DEF Write
<1>2. CASE MayWrite(device, lba, length)
  <2>1. /\ pending' = [offset |-> lba, expected |-> length, received |-> 0]
        /\ sent' = <<>>
        /\ acked' = [b \in DOMAIN acked \ Extent(lba, length) |-> acked[b]]
    BY <1>2 DEF Write
  <2>2. writable /\ lba + length <= Blocks[floppy] /\ length > 0
    BY <1>2 DEF MayWrite
  <2>3. /\ pending'.offset = lba /\ pending'.expected = length
        /\ pending'.received = 0 /\ pending' \in Writes
    BY <2>1 DEF Writes
  <2>4. DOMAIN sent' = {}
    BY <2>1
  <2>5. /\ DOMAIN acked' = DOMAIN acked \ Extent(lba, length)
        /\ \A b \in DOMAIN acked' : acked'[b] = acked[b]
    BY <2>1
  <2> QED
    BY <2>2, <2>3, <2>4, <2>5 DEF WriteInv, AckedIsStored
<1> QED
  BY <1>1, <1>2

LEMMA WriteByData ==
    ASSUME WriteInv, NEW length \in Nat \ {0}, NEW d \in Data, DataFromHost(length, d)
    PROVE  WriteInv'
<1> UNCHANGED writable /\ ~stopped
  BY DEF DataFromHost, Accept, Frame
<1>1. CASE pending = None
  BY <1>1, WriteUntouched DEF DataFromHost
<1>2. CASE pending # None /\ Overrun(pending, length)
  <2>1. pending' = None /\ UNCHANGED <<content, sent, acked>>
    BY <1>2 DEF DataFromHost
  <2> QED
    BY <2>1 DEF WriteInv, AckedIsStored
<1>3. CASE pending # None /\ ~Overrun(pending, length)
  <2> DEFINE here == Extent(WriteOffset(pending), length)
             all == Extent(pending.offset, pending.expected)
  <2>1. /\ pending \in Writes /\ writable
        /\ pending.offset \in Nat /\ pending.expected \in Nat /\ pending.received \in Nat
        /\ pending.offset + pending.expected <= Blocks[floppy]
        /\ DOMAIN sent \subseteq all
        /\ \A b \in DOMAIN sent : content[b] = sent[b]
        /\ DOMAIN acked \cap all = {}
    BY <1>3 DEF WriteInv, Writes
  <2>2. here \subseteq all /\ all \subseteq FileBlocks
    BY <1>3, <2>1, StoredWhere
  <2>3. /\ content' = Filled(content, here, d)
        /\ sent' = Filled(sent, here, d)
    BY <1>3, StoreGoesAhead DEF DataFromHost, Store, WriteOffset
  <2>4. /\ DOMAIN content = FileBlocks
        /\ content' = [b \in FileBlocks |-> IF b \in here THEN d ELSE content[b]]
    BY <2>2, <2>3 DEF WriteInv, Filled
  <2>5. content' \in [FileBlocks -> Data]
    BY <2>4 DEF WriteInv
  <2>6. /\ DOMAIN sent' = DOMAIN sent \cup here
        /\ \A b \in DOMAIN sent' : sent'[b] = IF b \in here THEN d ELSE sent[b]
    BY <2>3 DEF Filled
  <2>7. \A b \in DOMAIN sent' : content'[b] = sent'[b]
    BY <2>1, <2>2, <2>4, <2>6
  <2>8. \A b \in DOMAIN acked : content'[b] = acked[b]
    BY <2>1, <2>2, <2>4 DEF WriteInv, AckedIsStored
  <2>9. DOMAIN acked \subseteq FileBlocks
    BY DEF WriteInv
  <2> HIDE DEF here, all
  <2>10. CASE pending.received + length >= pending.expected
    <3>1. /\ pending' = None
          /\ acked' = [b \in DOMAIN acked \cup DOMAIN sent' |->
                         IF b \in DOMAIN sent' THEN sent'[b] ELSE acked[b]]
      BY <1>3, <2>10, StoreGoesAhead DEF DataFromHost
    <3>2. /\ DOMAIN acked' \subseteq FileBlocks
          /\ \A b \in DOMAIN acked' : content'[b] = acked'[b]
      BY <2>1, <2>2, <2>6, <2>7, <2>8, <2>9, <3>1
    <3> QED
      BY <2>1, <2>2, <2>5, <2>6, <3>1, <3>2 DEF WriteInv, AckedIsStored
  <2>11. CASE ~(pending.received + length >= pending.expected)
    <3>1. /\ pending' = [pending EXCEPT !.received = @ + length]
          /\ acked' = acked
      BY <1>3, <2>11, StoreGoesAhead DEF DataFromHost
    <3>2. /\ pending' \in Writes
          /\ pending'.offset = pending.offset /\ pending'.expected = pending.expected
          /\ pending'.received = pending.received + length
      BY <2>1, <3>1 DEF Writes
    <3>3. pending'.received < pending'.expected
      BY <2>1, <2>11, <3>2
    <3>4. Extent(pending'.offset, pending'.expected) = all
      BY <3>2 DEF all
    <3> QED
      BY <2>1, <2>2, <2>5, <2>6, <2>7, <2>8, <2>9, <3>1, <3>2, <3>3, <3>4
      DEF WriteInv, AckedIsStored
  <2> QED
    BY <2>10, <2>11
<1> QED
  BY <1>1, <1>2, <1>3

\* What a write that fails may leave behind: a part of its payload.
LEMMA FailureStores ==
    ASSUME NEW length \in Nat \ {0}, NEW d \in Data, WriteFails(length, d)
    PROVE  \/ UNCHANGED <<content, size>>
           \/ \E part \in Nat \ {0} : part <= length /\ Store(WriteOffset(pending), part, d)
<1>1. ASSUME NEW part \in 1 .. length PROVE part \in Nat \ {0} /\ part <= length
  OBVIOUS
<1> QED
  BY <1>1 DEF WriteFails

LEMMA WriteByFailure ==
    ASSUME WriteInv, NEW length \in Nat \ {0}, NEW d \in Data, WriteFails(length, d)
    PROVE  WriteInv'
<1> DEFINE all == Extent(pending.offset, pending.expected)
<1>1. /\ pending \in Writes /\ pending # None /\ ~Overrun(pending, length)
      /\ pending.offset + pending.expected <= Blocks[floppy]
      /\ DOMAIN sent \subseteq all /\ DOMAIN acked \cap all = {}
      /\ UNCHANGED <<pending, acked, writable>> /\ stopped'
  BY DEF WriteInv, WriteFails
<1>2. Extent(WriteOffset(pending), length) \subseteq all /\ all \subseteq FileBlocks
  BY <1>1, StoredWhere
<1>3. DOMAIN sent' \subseteq all
  BY <1>1, <1>2 DEF WriteFails, Filled, WriteOffset
<1>4. /\ content' \in [FileBlocks -> Data]
      /\ \A b \in FileBlocks \ all : content'[b] = content[b]
  <2>1. CASE UNCHANGED content
    BY <2>1 DEF WriteInv
  <2>2. ASSUME NEW part \in Nat \ {0}, part <= length, Store(WriteOffset(pending), part, d)
        PROVE  <1>4
    <3>1. Extent(WriteOffset(pending), part) \subseteq all
      <4>1. WriteOffset(pending) \in Nat
        BY <1>1 DEF Writes, WriteOffset
      <4>2. Extent(WriteOffset(pending), part) \subseteq Extent(WriteOffset(pending), length)
        BY <2>2, <4>1 DEF Extent
      <4> QED
        BY <1>2, <4>2
    <3>2. content' = Filled(content, Extent(WriteOffset(pending), part), d)
      BY <2>2 DEF Store
    <3> HIDE DEF all
    <3> QED
      BY <1>2, <3>1, <3>2 DEF WriteInv, Filled
  <2> QED
    BY <2>1, <2>2, FailureStores
<1>5. \A b \in DOMAIN acked : content'[b] = acked[b]
  <2> HIDE DEF all
  <2> QED
    BY <1>1, <1>4 DEF WriteInv, AckedIsStored
<1> QED
  BY <1>1, <1>2, <1>3, <1>4, <1>5 DEF WriteInv, AckedIsStored

LEMMA WriteByTruncate ==
    ASSUME WriteInv, NEW device \in Devices, NEW blocks \in Nat,
           Truncate(device, blocks)
    PROVE  WriteInv'
<1> UNCHANGED <<pending, writable, stopped>>
  BY DEF Truncate, session
<1>1. CASE device # floppy
  BY <1>1, WriteUntouched DEF Truncate
<1>2. CASE device = floppy
  <2>1. /\ content' = [b \in FileBlocks |-> IF b < blocks THEN content[b] ELSE Zero]
        /\ acked' = Below(acked, blocks)
        /\ sent' = Below(sent, blocks)
    BY <1>2 DEF Truncate, WriteInv
  <2>2. content' \in [FileBlocks -> Data]
    BY <2>1, Shapes DEF WriteInv
  <2>3. /\ DOMAIN acked' = {b \in DOMAIN acked : b < blocks}
        /\ \A b \in DOMAIN acked' : acked'[b] = acked[b]
    BY <2>1 DEF Below
  <2>4. /\ DOMAIN sent' = {b \in DOMAIN sent : b < blocks}
        /\ \A b \in DOMAIN sent' : sent'[b] = sent[b]
    BY <2>1 DEF Below
  <2> QED
    BY <2>1, <2>2, <2>3, <2>4 DEF WriteInv, AckedIsStored
<1> QED
  BY <1>1, <1>2

LEMMA WriteStep == WriteInv /\ [Next]_vars => WriteInv'
<1> SUFFICES ASSUME WriteInv, [Next]_vars PROVE WriteInv'
  OBVIOUS
<1>1. CASE OutOfSequence \/ Close \/ OpenSessionReply \/ Answered \/ Pump
           \/ ReadFails \/ UNCHANGED vars
  BY <1>1, WriteUntouched DEF OutOfSequence, Close, OpenSessionReply, Answered,
     Pump, ReadFails, files, session, endpoint, vars
<1>2. ASSUME NEW device \in Devices, NEW lba \in Nat, NEW length \in Nat,
             Read(device, lba, length)
      PROVE  WriteInv'
  BY <1>2, WriteUntouched DEF Read, files
<1>3. ASSUME NEW device \in Devices, NEW lba \in Nat, NEW length \in Nat,
             Write(device, lba, length)
      PROVE  WriteInv'
  BY <1>3, WriteByWrite
<1>4. ASSUME NEW length \in Nat \ {0}, NEW d \in Data, DataFromHost(length, d)
      PROVE  WriteInv'
  BY <1>4, WriteByData
<1>5. ASSUME NEW device \in Devices, NEW blocks \in Nat, Truncate(device, blocks)
      PROVE  WriteInv'
  BY <1>5, WriteByTruncate
<1>6. ASSUME NEW length \in Nat \ {0}, NEW d \in Data, WriteFails(length, d)
      PROVE  WriteInv'
  BY <1>6, WriteByFailure
<1> QED
  BY <1>1, <1>2, <1>3, <1>4, <1>5, <1>6, Steps

\* An acknowledged write is in the file as it was sent, however it was split.
THEOREM AckedWritesAreStored == Spec => []AckedIsStored
<1>1. WriteInv => AckedIsStored
  BY DEF WriteInv
<1> QED
  BY <1>1, WriteInit, WriteStep, PTL DEF Spec

---------------------------------------------------------------------------
(***************************************************************************)
(* Teardown.                                                               *)
(***************************************************************************)
\* The two counters move together for as long as the session lives.
InStep ==
    /\ in_seq \in 0 .. SequenceMod - 1
    /\ fault \in BOOLEAN
    /\ ~stopped => in_seq = host_seq
    /\ TornDownForCause

LEMMA InStepStep == WriteInv /\ InStep /\ [Next]_vars => InStep'
<1> SUFFICES ASSUME WriteInv, InStep, [Next]_vars PROVE InStep'
  OBVIOUS
<1> SequenceMod \in Nat \ {0, 1}
  BY ConstantsAssumption
<1> USE DEF InStep, TornDownForCause
<1>1. ASSUME Accept, UNCHANGED <<stopped, fault>> PROVE InStep'
  BY <1>1 DEF Accept, Frame, NextInSeq
<1>2. CASE OutOfSequence
  BY <1>2 DEF OutOfSequence, Frame
<1>3. CASE Close
  BY <1>3 DEF Close, Accept, Frame, NextInSeq
<1>4. ASSUME UNCHANGED <<stopped, fault, in_seq, host_seq>> PROVE InStep'
  BY <1>4
<1>5. CASE OpenSessionReply \/ Answered
  BY <1>1, <1>5 DEF OpenSessionReply, Answered
<1>6. CASE Pump \/ UNCHANGED vars
  BY <1>4, <1>6 DEF Pump, session, vars
<1>7. ASSUME NEW device \in Devices, NEW lba \in Nat, NEW length \in Nat,
             Read(device, lba, length) \/ Write(device, lba, length)
      PROVE  InStep'
  BY <1>1, <1>7 DEF Read, Write
<1>8. ASSUME NEW length \in Nat \ {0}, NEW d \in Data, DataFromHost(length, d)
      PROVE  InStep'
  BY <1>1, <1>8, StoreGoesAhead DEF DataFromHost
<1>9. ASSUME NEW device \in Devices, NEW blocks \in Nat, Truncate(device, blocks)
      PROVE  InStep'
  BY <1>4, <1>9 DEF Truncate, session
<1>10. CASE ReadFails
  BY <1>10 DEF ReadFails
<1>11. ASSUME NEW length \in Nat \ {0}, NEW d \in Data, WriteFails(length, d)
       PROVE  InStep'
  BY <1>11 DEF WriteFails, Accept, Frame, NextInSeq
<1> QED
  BY <1>2, <1>3, <1>5, <1>6, <1>7, <1>8, <1>9, <1>10, <1>11, Steps

\* The engine never ends a session over its own count or its own writes.
THEOREM TeardownHasCause == Spec => []TornDownForCause
<1>1. Init => InStep
  <2>1. 0 \in 0 .. SequenceMod - 1
    BY ConstantsAssumption
  <2>2. Init => in_seq = 0 /\ host_seq = 0 /\ fault = FALSE /\ stopped = FALSE
    BY DEF Init
  <2> QED
    BY <2>1, <2>2 DEF InStep, TornDownForCause
<1>2. InStep => TornDownForCause
  BY DEF InStep
<1> QED
  BY <1>1, <1>2, InStepStep, WriteInit, WriteStep, PTL DEF Spec

---------------------------------------------------------------------------
(***************************************************************************)
(* The read path.                                                          *)
(***************************************************************************)
\* n consecutive blocks from a on.
Run(a, n) == [i \in 1 .. n |-> a + i - 1]

LEMMA RunsJoin ==
    ASSUME NEW a \in Nat, NEW m \in Nat, NEW n \in Nat
    PROVE  Run(a, m) \o Run(a + m, n) = Run(a, m + n)
<1>1. Run(a, m) \in Seq(Nat) /\ Len(Run(a, m)) = m
  BY IsASeq, LenProperties DEF Run
<1>2. Run(a + m, n) \in Seq(Nat) /\ Len(Run(a + m, n)) = n
  BY IsASeq, LenProperties DEF Run
<1>3. Run(a, m + n) \in Seq(Nat) /\ Len(Run(a, m + n)) = m + n
  BY IsASeq, LenProperties DEF Run
<1>4. /\ Run(a, m) \o Run(a + m, n) \in Seq(Nat)
      /\ Len(Run(a, m) \o Run(a + m, n)) = m + n
  BY <1>1, <1>2
<1>5. ASSUME NEW i \in 1 .. m + n
      PROVE  (Run(a, m) \o Run(a + m, n))[i] = Run(a, m + n)[i]
  <2>1. CASE i <= m
    BY <1>1, <1>2, <2>1 DEF Run
  <2>2. CASE i > m
    <3>1. (Run(a, m) \o Run(a + m, n))[i] = Run(a + m, n)[i - m]
      BY <1>1, <1>2, <2>2, ConcatProperties
    <3>2. i - m \in 1 .. n
      BY <2>2
    <3> QED
      BY <2>2, <3>1, <3>2 DEF Run
  <2>3. i <= m \/ i > m
    OBVIOUS
  <2> QED
    BY <2>1, <2>2, <2>3
<1> QED
  BY <1>3, <1>4, <1>5, SeqEqual

\* A read under way has delivered the blocks up to its offset, and what remains
\* is the rest of its command.
ReadInv ==
    /\ size \in [Devices -> Nat]
    /\ readbfr \in Nat
    /\ reading \in Reads \cup {None}
    /\ reading # None =>
           /\ verdict = "open"
           /\ command \in Commands
           /\ command.lba <= reading.offset
           /\ reading.remaining > 0
           /\ reading.offset + reading.remaining = command.lba + command.length
           /\ got = Run(command.lba, reading.offset - command.lba)
    /\ verdict = "ok" => got = Run(command.lba, command.length)

LEMMA ReadInit == Init => ReadInv
<1> SUFFICES ASSUME Init PROVE ReadInv
  OBVIOUS
<1>1. size \in [Devices -> Nat]
  BY ConstantsAssumption DEF Init
<1>2. reading = None /\ verdict = "refused" /\ readbfr = 0
  BY DEF Init
<1> QED
  BY <1>1, <1>2 DEF ReadInv

LEMMA ReadUntouched ==
    ASSUME ReadInv, UNCHANGED <<reading, verdict, command, got>>,
           size' \in [Devices -> Nat], readbfr' \in Nat
    PROVE  ReadInv'
BY DEF ReadInv

LEMMA ReadByPump ==
    ASSUME ReadInv, Pump
    PROVE  ReadInv'
<1> UNCHANGED <<size, readbfr, command>>
  BY DEF Pump, files, session
<1>1. reading # None /\ reading \in Reads
  BY DEF Pump, PumpFrame, ReadInv
<1> DEFINE offset == reading.offset
           rest == reading.remaining
<1>2. /\ offset \in Nat /\ rest \in Nat \ {0} /\ reading.device \in Devices
      /\ command \in Commands /\ command.lba \in Nat /\ command.length \in Nat
      /\ command.lba <= offset /\ offset + rest = command.lba + command.length
      /\ got = Run(command.lba, offset - command.lba)
      /\ verdict = "open"
  BY <1>1 DEF ReadInv, Reads, Commands
<1>3. chunk_size \in Nat /\ chunk_size <= rest
  BY <1>2 DEF chunk_size, Smaller, ReadInv
<1>4. size[reading.device] \in Nat
  BY <1>2 DEF ReadInv
<1>5. available \in Nat /\ available <= rest
  BY <1>2, <1>3, <1>4 DEF available, Larger, Smaller
<1>6. Chunk = Run(offset, available)
  BY DEF Chunk, Run
<1>7. got \o Chunk = Run(command.lba, offset + available - command.lba)
  <2>1. offset - command.lba \in Nat /\ command.lba + (offset - command.lba) = offset
    BY <1>2
  <2>2. (offset - command.lba) + available = offset + available - command.lba
    BY <1>2, <1>5
  <2>3. Run(command.lba, offset - command.lba) \o Run(command.lba + (offset - command.lba), available)
          = Run(command.lba, (offset - command.lba) + available)
    BY <1>2, <1>5, <2>1, RunsJoin
  <2>4. got = Run(command.lba, offset - command.lba)
    BY <1>2
  <2>5. Chunk = Run(command.lba + (offset - command.lba), available)
    BY <1>6, <2>1
  <2> HIDE DEF offset
  <2> QED
    BY <2>2, <2>3, <2>4, <2>5
<1>8. CASE available = 0
  BY <1>8 DEF Pump, PumpFrame, ReadInv
<1>9. CASE available # 0 /\ available < rest
  <2>1. /\ got' = got \o Chunk
        /\ reading' = [reading EXCEPT !.offset = @ + available, !.remaining = @ - available]
        /\ verdict' = verdict
    BY <1>9 DEF Pump, PumpFrame
  <2>2. /\ reading' \in Reads
        /\ reading'.offset = offset + available
        /\ reading'.remaining = rest - available
    <3>1. reading = [device |-> reading.device, offset |-> offset, remaining |-> rest]
      BY <1>1 DEF Reads
    <3>2. reading' = [device |-> reading.device, offset |-> offset + available,
                      remaining |-> rest - available]
      BY <2>1, <3>1
    <3>3. offset + available \in Nat /\ rest - available \in Nat
      BY <1>2, <1>5
    <3> QED
      BY <1>2, <3>2, <3>3 DEF Reads
  <2>3. got' = Run(command.lba, reading'.offset - command.lba)
    <3>1. got' = Run(command.lba, offset + available - command.lba)
      BY <1>7, <2>1
    <3>2. offset + available - command.lba = reading'.offset - command.lba
      BY <1>2, <1>5, <2>2
    <3> HIDE DEF offset
    <3> QED
      BY <3>1, <3>2
  <2>4. /\ command.lba <= reading'.offset
        /\ reading'.remaining > 0
        /\ reading'.offset + reading'.remaining = command.lba + command.length
    BY <1>2, <1>5, <1>9, <2>2
  <2> QED
    BY <1>2, <2>1, <2>2, <2>3, <2>4 DEF ReadInv
<1>10. CASE available # 0 /\ ~(available < rest)
  <2>1. got' = got \o Chunk /\ reading' = None /\ verdict' = "ok"
    BY <1>10 DEF Pump, PumpFrame
  <2>2. offset + available - command.lba = command.length
    BY <1>2, <1>5, <1>10
  <2> QED
    BY <1>7, <2>1, <2>2 DEF ReadInv
<1> QED
  BY <1>8, <1>9, <1>10

LEMMA ReadStep == WriteInv /\ ReadInv /\ [Next]_vars => ReadInv'
<1> SUFFICES ASSUME WriteInv, ReadInv, [Next]_vars PROVE ReadInv'
  OBVIOUS
<1>1. CASE OutOfSequence \/ Close \/ Answered \/ ReadFails \/ UNCHANGED vars
  <2>1. UNCHANGED <<reading, verdict, command, got, size, readbfr>>
    BY <1>1 DEF OutOfSequence, Close, Answered, ReadFails, files, endpoint, vars
  <2> QED
    BY <2>1, ReadUntouched DEF ReadInv
<1>2. CASE OpenSessionReply
  BY <1>2, ReadUntouched, ConstantsAssumption DEF OpenSessionReply, files, endpoint,
     ReadInv
<1>3. CASE Pump
  BY <1>3, ReadByPump
<1>4. ASSUME NEW device \in Devices, NEW lba \in Nat, NEW length \in Nat,
             Read(device, lba, length)
      PROVE  ReadInv'
  <2>1. UNCHANGED <<size, readbfr>> /\ reading = None /\ got' = <<>>
    BY <1>4 DEF Read, Accept, Frame, files
  <2>2. Run(lba, lba - lba) = <<>>
    BY DEF Run
  <2>3. CASE reading' = reading
    BY <1>4, <2>1, <2>3, Shapes DEF Read, ReadInv, Reads
  <2>4. CASE /\ reading' = [device |-> device, offset |-> lba, remaining |-> length]
             /\ command' = [device |-> device, lba |-> lba, length |-> length]
             /\ verdict' = "open" /\ length > 0
    BY <2>1, <2>2, <2>4 DEF ReadInv, Reads, Commands
  <2> QED
    BY <1>4, <2>3, <2>4 DEF Read
<1>5. ASSUME NEW device \in Devices, NEW lba \in Nat, NEW length \in Nat,
             Write(device, lba, length)
      PROVE  ReadInv'
  <2>1. UNCHANGED <<reading, verdict, command, got, size, readbfr>>
    BY <1>5 DEF Write, files
  <2> QED
    BY <2>1, ReadUntouched DEF ReadInv
<1>6. ASSUME NEW length \in Nat \ {0}, NEW d \in Data, DataFromHost(length, d)
      PROVE  ReadInv'
  <2>1. UNCHANGED <<reading, verdict, command, got, readbfr>>
    BY <1>6 DEF DataFromHost
  <2>2. size' \in [Devices -> Nat]
    <3>1. CASE size' = size
      BY <3>1 DEF ReadInv
    <3>2. CASE pending # None /\ ~Overrun(pending, length)
      <4>1. WriteOffset(pending) \in Nat
        BY <1>6, <3>2 DEF WriteInv, Writes, WriteOffset
      <4>2. size' = [size EXCEPT ![floppy] = Larger(@, WriteOffset(pending) + length)]
        BY <1>6, <3>2, StoreGoesAhead DEF DataFromHost, Store
      <4>3. Larger(size[floppy], WriteOffset(pending) + length) \in Nat
        BY <4>1, Shapes DEF ReadInv, Larger
      <4> QED
        BY <4>2, <4>3 DEF ReadInv
    <3> QED
      BY <1>6, <3>1, <3>2, StoreGoesAhead DEF DataFromHost
  <2> QED
    BY <2>1, <2>2, ReadUntouched DEF ReadInv
<1>7. ASSUME NEW device \in Devices, NEW blocks \in Nat, Truncate(device, blocks)
      PROVE  ReadInv'
  BY <1>7, ReadUntouched DEF Truncate, session, ReadInv
<1>8. ASSUME NEW length \in Nat \ {0}, NEW d \in Data, WriteFails(length, d)
      PROVE  ReadInv'
  <2>1. UNCHANGED <<reading, verdict, command, got, readbfr>>
    BY <1>8 DEF WriteFails
  <2>2. size' \in [Devices -> Nat]
    <3>1. WriteOffset(pending) \in Nat
      BY <1>8 DEF WriteFails, WriteInv, Writes, WriteOffset
    <3>2. ASSUME NEW part \in Nat, Store(WriteOffset(pending), part, d)
          PROVE  size' \in [Devices -> Nat]
      <4>1. Larger(size[floppy], WriteOffset(pending) + part) \in Nat
        BY <3>1, Shapes DEF ReadInv, Larger
      <4> QED
        BY <3>2, <4>1 DEF ReadInv, Store
    <3> QED
      BY <1>8, <3>2, FailureStores DEF ReadInv
  <2> QED
    BY <2>1, <2>2, ReadUntouched DEF ReadInv
<1> QED
  BY <1>1, <1>2, <1>3, <1>4, <1>5, <1>6, <1>7, <1>8, Steps

\* A transfer marked completed carried exactly the blocks the READ asked for, for
\* every read buffer and whenever the file is truncated.
THEOREM CompletedReadsAreWhole == Spec => []CompletedReadIsWhole
<1>1. ReadInv => CompletedReadIsWhole
  BY DEF ReadInv, CompletedReadIsWhole, Run
<1> QED
  BY <1>1, ReadInit, ReadStep, WriteInit, WriteStep, PTL DEF Spec

\* A frame changes only blocks of the write whose CDB was accepted.
THEOREM WritesAreConfined == Spec => WritesStayInTheirCommand
<1> DEFINE Confined ==
        \A b \in DOMAIN content : content'[b] # content[b] =>
            \/ size'[floppy] < size[floppy]
            \/ /\ writable
               /\ pending # None
               /\ b \in Extent(pending.offset, pending.expected)
<1>1. WriteInv /\ ReadInv /\ [Next]_vars => [Confined]_vars
  <2> SUFFICES ASSUME WriteInv, ReadInv, [Next]_vars PROVE Confined
    OBVIOUS
  <2>1. CASE OutOfSequence \/ Close \/ OpenSessionReply \/ Answered \/ Pump
             \/ ReadFails \/ UNCHANGED vars
    BY <2>1 DEF OutOfSequence, Close, OpenSessionReply, Answered, Pump, ReadFails,
       files, vars
  <2>2. ASSUME NEW device \in Devices, NEW lba \in Nat, NEW length \in Nat,
               Read(device, lba, length) \/ Write(device, lba, length)
        PROVE  Confined
    BY <2>2 DEF Read, Write, files
  <2>3. ASSUME NEW length \in Nat \ {0}, NEW d \in Data, DataFromHost(length, d)
        PROVE  Confined
    <3>1. CASE pending = None \/ Overrun(pending, length)
      BY <2>3, <3>1 DEF DataFromHost
    <3>2. CASE pending # None /\ ~Overrun(pending, length)
      <4>1. content' = Filled(content, Extent(WriteOffset(pending), length), d)
        BY <2>3, <3>2, StoreGoesAhead DEF DataFromHost, Store
      <4>2. /\ writable
            /\ Extent(WriteOffset(pending), length)
                   \subseteq Extent(pending.offset, pending.expected)
        BY <3>2, StoredWhere DEF WriteInv
      <4> QED
        BY <3>2, <4>1, <4>2 DEF Filled
    <3> QED
      BY <3>1, <3>2
  <2>4. ASSUME NEW device \in Devices, NEW blocks \in Nat, Truncate(device, blocks)
        PROVE  Confined
    <3>1. CASE device = floppy
      BY <2>4, <3>1 DEF Truncate, ReadInv
    <3>2. CASE device # floppy
      BY <2>4, <3>2 DEF Truncate
    <3> QED
      BY <3>1, <3>2
  <2>5. ASSUME NEW length \in Nat \ {0}, NEW d \in Data, WriteFails(length, d)
        PROVE  Confined
    <3>1. /\ pending # None /\ writable /\ pending \in Writes /\ ~Overrun(pending, length)
          /\ pending.offset + pending.expected <= Blocks[floppy]
          /\ WriteOffset(pending) \in Nat
      BY <2>5 DEF WriteFails, WriteInv, Writes, WriteOffset
    <3>2. Extent(WriteOffset(pending), length)
              \subseteq Extent(pending.offset, pending.expected)
      BY <3>1, StoredWhere
    <3>3. ASSUME NEW part \in Nat, part <= length, Store(WriteOffset(pending), part, d)
          PROVE  Confined
      <4>1. Extent(WriteOffset(pending), part) \subseteq Extent(WriteOffset(pending), length)
        BY <3>1, <3>3 DEF Extent
      <4>2. content' = Filled(content, Extent(WriteOffset(pending), part), d)
        BY <3>3 DEF Store
      <4> QED
        BY <3>1, <3>2, <4>1, <4>2 DEF Filled
    <3> QED
      BY <2>5, <3>3, FailureStores
  <2> QED
    BY <2>1, <2>2, <2>3, <2>4, <2>5, Steps
<1> QED
  BY <1>1, WriteInit, WriteStep, ReadInit, ReadStep, PTL DEF Spec, WritesStayInTheirCommand

---------------------------------------------------------------------------
(***************************************************************************)
(* Type correctness, with the fields that have a width: the sequence       *)
(* numbers stay in their range, the length of GET_DATA_FROM_HOST in its    *)
(* field, and no image file grows beyond what it was when it was opened.   *)
(***************************************************************************)
\* The fields of the session, ...
SessionOK ==
    /\ devices \subseteq Devices /\ writable \in BOOLEAN
    /\ stopped \in BOOLEAN /\ fault \in BOOLEAN
    /\ in_seq \in 0 .. SequenceMod - 1 /\ host_seq \in 0 .. SequenceMod - 1
    /\ readbfr \in ReadBuffers \cup {0}
    /\ asked \in 0 .. LengthMod - 1

\* ... the files ...
SizeOK == size \in [Devices -> Nat] /\ \A device \in Devices : size[device] <= Blocks[device]

\* ... and what the endpoint saw.
EndpointOK ==
    /\ command \in Commands \cup {None}
    /\ got \in Seq(Nat)
    /\ verdict \in {"refused", "open", "ok", "sense"}
    /\ sent \in [DOMAIN sent -> Data]
    /\ acked \in [DOMAIN acked -> Data]

\* A count modulo its range stays in it.
LEMMA Wraps ==
    /\ \A n \in Nat : (n + 1) % SequenceMod \in 0 .. SequenceMod - 1
    /\ \A n \in Nat : n % LengthMod \in 0 .. LengthMod - 1
  BY ConstantsAssumption

\* They hold at the start.
LEMMA SessionInit == Init => SessionOK /\ SizeOK /\ EndpointOK
<1> SUFFICES ASSUME Init PROVE SessionOK /\ SizeOK /\ EndpointOK
  OBVIOUS
<1>1. devices \subseteq Devices /\ writable \in BOOLEAN
  BY DEF Init
<1>2. SessionOK
  <2>1. 0 \in 0 .. SequenceMod - 1 /\ 0 \in 0 .. LengthMod - 1
    BY ConstantsAssumption
  <2>2. stopped = FALSE /\ fault = FALSE /\ in_seq = 0 /\ host_seq = 0 /\ readbfr = 0 /\ asked = 0
    BY DEF Init
  <2> QED BY <1>1, <2>1, <2>2 DEF SessionOK
<1>3. SizeOK
  BY ConstantsAssumption DEF Init, SizeOK
<1>4. DOMAIN sent = {} /\ DOMAIN acked = {} /\ sent = <<>> /\ acked = <<>>
  BY DEF Init
<1>5. sent \in [DOMAIN sent -> Data] /\ acked \in [DOMAIN acked -> Data]
  BY <1>4
<1> QED BY <1>2, <1>3, <1>5 DEF Init, EndpointOK

\* Every frame keeps the numbers in their ranges.
LEMMA SessionStep == SessionOK /\ [Next]_vars => SessionOK'
<1> SUFFICES ASSUME SessionOK, [Next]_vars PROVE SessionOK'
  OBVIOUS
<1>a. Accept => in_seq' \in 0 .. SequenceMod - 1 /\ host_seq' \in 0 .. SequenceMod - 1
  BY Wraps DEF Accept, Frame, NextInSeq, SessionOK
<1>1. CASE OutOfSequence
  <2>1. host_seq' \in 0 .. SequenceMod - 1
    BY <1>1, Wraps DEF OutOfSequence, Frame, SessionOK
  <2>2. fault' \in BOOLEAN
    <3>1. PICK seq \in 0 .. SequenceMod - 1 : fault' = (fault \/ seq # host_seq)
      BY <1>1 DEF OutOfSequence
    <3> QED BY <3>1, Zenon
  <2> QED BY <1>1, <2>1, <2>2 DEF OutOfSequence, SessionOK, files
<1>2. CASE Close
  BY <1>2, <1>a DEF Close, SessionOK, files
<1>3. CASE OpenSessionReply
  BY <1>3, <1>a DEF OpenSessionReply, SessionOK, files
<1>4. CASE Answered
  BY <1>4, <1>a DEF Answered, SessionOK, files
<1>5. CASE Pump
  BY <1>5 DEF Pump, SessionOK, files, session
<1>6. ASSUME NEW device \in Devices, NEW lba \in Nat, NEW length \in Nat,
             Read(device, lba, length)
      PROVE  SessionOK'
  BY <1>6, <1>a DEF Read, SessionOK, files
<1>7. ASSUME NEW device \in Devices, NEW lba \in Nat, NEW length \in Nat,
             Write(device, lba, length)
      PROVE  SessionOK'
  <2>1. asked' \in 0 .. LengthMod - 1
    BY <1>7, Wraps DEF Write, SessionOK
  <2> QED BY <1>7, <1>a, <2>1 DEF Write, SessionOK, files
<1>8. ASSUME NEW length \in Nat \ {0}, NEW d \in Data, DataFromHost(length, d)
      PROVE  SessionOK'
  <2>1. stopped' \in BOOLEAN
    BY <1>8 DEF DataFromHost, SessionOK
  <2> QED BY <1>8, <1>a, <2>1 DEF DataFromHost, SessionOK
<1>9. ASSUME NEW device \in Devices, NEW blocks \in Nat, Truncate(device, blocks)
      PROVE  SessionOK'
  BY <1>9 DEF Truncate, SessionOK, session
<1>10. CASE UNCHANGED vars
  BY <1>10 DEF vars, SessionOK
<1>11. CASE ReadFails
  BY <1>11 DEF ReadFails, SessionOK, files
<1>12. ASSUME NEW length \in Nat \ {0}, NEW d \in Data, WriteFails(length, d)
       PROVE  SessionOK'
  BY <1>12, <1>a DEF WriteFails, SessionOK
<1> QED BY <1>1, <1>2, <1>3, <1>4, <1>5, <1>6, <1>7, <1>8, <1>9, <1>10, <1>11, <1>12, Steps

\* MediaImage.write may refill a truncated file, up to the size it had and no more.
LEMMA SizeStep == WriteInv /\ SizeOK /\ [Next]_vars => SizeOK'
<1> SUFFICES ASSUME WriteInv, SizeOK, [Next]_vars PROVE SizeOK'
  OBVIOUS
<1>1. CASE UNCHANGED size
  BY <1>1 DEF SizeOK
<1>2. ASSUME NEW length \in Nat \ {0}, NEW d \in Data, DataFromHost(length, d),
             pending # None, ~Overrun(pending, length)
      PROVE  SizeOK'
  <2>1. ~Refuses(WriteOffset(pending), length)
    BY <1>2, StoreGoesAhead
  <2>2. size' = [size EXCEPT ![floppy] = Larger(@, WriteOffset(pending) + length)]
    BY <1>2, <2>1 DEF DataFromHost, Store
  <2>3. pending.offset \in Nat /\ pending.received \in Nat
    BY <1>2 DEF WriteInv, Writes
  <2>4. WriteOffset(pending) + length \in Nat /\ WriteOffset(pending) + length <= Blocks[floppy]
    BY <2>1, <2>3, Shapes DEF Refuses, WriteOffset
  <2>5. size[floppy] \in Nat /\ size[floppy] <= Blocks[floppy]
    BY Shapes DEF SizeOK
  <2>6. /\ Larger(size[floppy], WriteOffset(pending) + length) \in Nat
        /\ Larger(size[floppy], WriteOffset(pending) + length) <= Blocks[floppy]
    BY <2>4, <2>5 DEF Larger
  <2> QED BY <2>2, <2>6 DEF SizeOK
<1>3. ASSUME NEW length \in Nat \ {0}, NEW d \in Data, DataFromHost(length, d),
             ~(pending # None /\ ~Overrun(pending, length))
      PROVE  UNCHANGED size
  BY <1>3 DEF DataFromHost
<1>4. ASSUME NEW device \in Devices, NEW blocks \in Nat, Truncate(device, blocks)
      PROVE  SizeOK'
  <2>1. blocks < size[device] /\ size' = [size EXCEPT ![device] = blocks]
    BY <1>4 DEF Truncate
  <2>2. size[device] \in Nat /\ size[device] <= Blocks[device] /\ Blocks[device] \in Nat
    BY ConstantsAssumption DEF SizeOK
  <2>3. blocks <= Blocks[device]
    BY <2>1, <2>2
  <2> QED BY <2>1, <2>3 DEF SizeOK
<1>5. OutOfSequence \/ Close \/ OpenSessionReply \/ Answered \/ Pump \/ ReadFails
          \/ UNCHANGED vars => UNCHANGED size
  BY DEF OutOfSequence, Close, OpenSessionReply, Answered, Pump, ReadFails, vars, files
<1>6. ASSUME NEW device \in Devices, NEW lba \in Nat, NEW length \in Nat,
             Read(device, lba, length) \/ Write(device, lba, length)
      PROVE  UNCHANGED size
  BY <1>6 DEF Read, Write, files
<1>7. ASSUME NEW length \in Nat \ {0}, NEW d \in Data, WriteFails(length, d)
      PROVE  SizeOK'
  <2>1. /\ ~Refuses(WriteOffset(pending), length)
        /\ pending.offset \in Nat /\ pending.received \in Nat
    BY <1>7 DEF WriteFails, WriteInv, Writes
  <2>2. ASSUME NEW part \in Nat, part <= length, Store(WriteOffset(pending), part, d)
        PROVE  SizeOK'
    <3>1. size' = [size EXCEPT ![floppy] = Larger(@, WriteOffset(pending) + part)]
      BY <2>2 DEF Store
    <3>2. /\ WriteOffset(pending) + part \in Nat
          /\ WriteOffset(pending) + part <= Blocks[floppy]
      BY <2>1, <2>2, Shapes DEF Refuses, WriteOffset
    <3>3. size[floppy] \in Nat /\ size[floppy] <= Blocks[floppy]
      BY Shapes DEF SizeOK
    <3>4. /\ Larger(size[floppy], WriteOffset(pending) + part) \in Nat
          /\ Larger(size[floppy], WriteOffset(pending) + part) <= Blocks[floppy]
      BY <3>2, <3>3 DEF Larger
    <3> QED BY <3>1, <3>4 DEF SizeOK
  <2> QED BY <1>1, <1>7, <2>2, FailureStores
<1> QED BY <1>1, <1>2, <1>3, <1>4, <1>5, <1>6, <1>7, Steps

\* What the endpoint is told has its type.
LEMMA EndpointStep == WriteInv /\ ReadInv /\ EndpointOK /\ [Next]_vars => EndpointOK'
<1> SUFFICES ASSUME WriteInv, ReadInv, EndpointOK, [Next]_vars PROVE EndpointOK'
  OBVIOUS
<1>1. CASE UNCHANGED endpoint
  BY <1>1 DEF EndpointOK, endpoint
<1>2. OutOfSequence \/ Close \/ OpenSessionReply \/ Answered \/ ReadFails \/ UNCHANGED vars
          => UNCHANGED endpoint
  BY DEF OutOfSequence, Close, OpenSessionReply, Answered, ReadFails, vars, endpoint
<1>3. CASE Pump
  <2>1. reading \in Reads /\ size \in [Devices -> Nat] /\ readbfr \in Nat
    BY <1>3 DEF Pump, PumpFrame, ReadInv
  <2>2. /\ reading.device \in Devices /\ reading.offset \in Nat /\ reading.remaining \in Nat
        /\ size[reading.device] \in Nat
    BY <2>1 DEF Reads
  <2>3. available \in Nat
    BY <2>1, <2>2 DEF available, chunk_size, Larger, Smaller
  <2>4. Chunk \in Seq(Nat)
    BY <2>2, <2>3, IsASeq DEF Chunk
  <2>5. got' \in Seq(Nat)
    <3>1. got' = got \/ got' = got \o Chunk
      BY <1>3 DEF Pump, PumpFrame
    <3>2. got \in Seq(Nat)
      BY DEF EndpointOK
    <3> QED BY <2>4, <3>1, <3>2, ConcatProperties
  <2>6. verdict' \in {"refused", "open", "ok", "sense"}
    BY <1>3 DEF Pump, PumpFrame, EndpointOK
  <2> QED BY <1>3, <2>5, <2>6 DEF Pump, EndpointOK
<1>4. ASSUME NEW device \in Devices, NEW lba \in Nat, NEW length \in Nat,
             Read(device, lba, length)
      PROVE  EndpointOK'
  <2>1. got' \in Seq(Nat)
    BY <1>4 DEF Read
  <2>2. command' \in Commands \cup {None} /\ verdict' \in {"refused", "open", "ok", "sense"}
    BY <1>4 DEF Read, Commands
  <2> QED BY <1>4, <2>1, <2>2 DEF Read, EndpointOK
<1>5. ASSUME NEW device \in Devices, NEW lba \in Nat, NEW length \in Nat,
             Write(device, lba, length)
      PROVE  EndpointOK'
  <2>1. CASE MayWrite(device, lba, length)
    <3>1. sent' = <<>> /\ acked' = [b \in DOMAIN acked \ Extent(lba, length) |-> acked[b]]
      BY <1>5, <2>1 DEF Write
    <3>2. sent' \in [DOMAIN sent' -> Data]
      BY <3>1
    <3>3. acked' \in [DOMAIN acked' -> Data]
      BY <3>1 DEF EndpointOK
    <3> QED BY <1>5, <3>2, <3>3 DEF Write, EndpointOK
  <2>2. CASE ~MayWrite(device, lba, length)
    BY <1>5, <2>2 DEF Write, EndpointOK
  <2> QED BY <2>1, <2>2
<1>6. ASSUME NEW length \in Nat \ {0}, NEW d \in Data, DataFromHost(length, d)
      PROVE  EndpointOK'
  <2>1. CASE UNCHANGED <<sent, acked>>
    BY <1>6, <2>1 DEF DataFromHost, EndpointOK
  <2>2. CASE pending # None /\ ~Overrun(pending, length)
    <3>1. sent' = Filled(sent, Extent(pending.offset + pending.received, length), d)
      BY <1>6, <2>2, StoreGoesAhead DEF DataFromHost
    <3>2. sent' \in [DOMAIN sent' -> Data]
      BY <3>1 DEF Filled, EndpointOK
    <3>3. \/ UNCHANGED acked
          \/ acked' = [b \in DOMAIN acked \cup DOMAIN sent' |->
                         IF b \in DOMAIN sent' THEN sent'[b] ELSE acked[b]]
      BY <1>6, <2>2, StoreGoesAhead DEF DataFromHost
    <3>4. acked' \in [DOMAIN acked' -> Data]
      BY <3>2, <3>3 DEF EndpointOK
    <3> QED BY <1>6, <3>2, <3>4 DEF DataFromHost, EndpointOK
  <2>3. ~(pending # None /\ ~Overrun(pending, length)) => UNCHANGED <<sent, acked>>
    BY <1>6 DEF DataFromHost
  <2> QED BY <2>1, <2>2, <2>3
<1>7. ASSUME NEW device \in Devices, NEW blocks \in Nat, Truncate(device, blocks)
      PROVE  EndpointOK'
  <2>1. \/ UNCHANGED <<sent, acked>>
        \/ acked' = Below(acked, blocks) /\ sent' = Below(sent, blocks)
    BY <1>7 DEF Truncate
  <2>2. sent' \in [DOMAIN sent' -> Data] /\ acked' \in [DOMAIN acked' -> Data]
    BY <2>1 DEF Below, EndpointOK
  <2> QED BY <1>7, <2>2 DEF Truncate, EndpointOK
<1>8. ASSUME NEW length \in Nat \ {0}, NEW d \in Data, WriteFails(length, d)
      PROVE  EndpointOK'
  <2>1. sent' = Filled(sent, Extent(pending.offset + pending.received, length), d)
    BY <1>8 DEF WriteFails
  <2>2. sent' \in [DOMAIN sent' -> Data]
    BY <2>1 DEF Filled, EndpointOK
  <2> QED BY <1>8, <2>2 DEF WriteFails, EndpointOK
<1> QED BY <1>1, <1>2, <1>3, <1>4, <1>5, <1>6, <1>7, <1>8, Steps

\* The engine keeps its types for every image, read buffer and range: its counters
\* and length fields stay within their widths, and whatever is truncated and
\* written meanwhile no image file becomes longer than it was when it was opened.
THEOREM TypeCorrect == Spec => []TypeOK
<1>1. SessionOK /\ SizeOK /\ EndpointOK /\ WriteInv /\ ReadInv => TypeOK
  <2> SUFFICES ASSUME SessionOK, SizeOK, EndpointOK, WriteInv, ReadInv PROVE TypeOK
    OBVIOUS
  <2>1. DOMAIN content = FileBlocks
    BY DEF WriteInv
  <2> QED BY <2>1 DEF SessionOK, SizeOK, EndpointOK, WriteInv, ReadInv, TypeOK, FileBlocks
<1> QED BY <1>1, SessionInit, SessionStep, SizeStep, EndpointStep, WriteInit, WriteStep,
           ReadInit, ReadStep, PTL DEF Spec
=============================================================================
