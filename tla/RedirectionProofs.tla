------------------------- MODULE RedirectionProofs -------------------------
(***************************************************************************)
(* Type correctness, StreamIntact and ServesWhenAccepted, for messages of  *)
(* every size and every number of frames.                                  *)
(***************************************************************************)
EXTENDS Redirection, TLAPS

\* The messages lie one after the other in the stream.
Laid ==
    /\ \A i \in DOMAIN msgs : msgs[i].first + msgs[i].size - 1 <= written
    /\ \A i, j \in DOMAIN msgs :
           i < j => msgs[i].first + msgs[i].size <= msgs[j].first
    /\ \A i \in 1 .. Len(msgs) - 1 :
           msgs[i + 1].first = msgs[i].first + msgs[i].size
    /\ msgs # <<>> => LET m == msgs[Len(msgs)]
                      IN  msgs[1].first = 1 /\ written = m.first + m.size - 1
    /\ msgs = <<>> => written = 0

\* One buffer holds what was received and not taken, the other nothing.
Buffered ==
    LET rest == Run(Taken, received - Taken)
    IN  /\ Taken <= received
        /\ pc \in {"feeding", "recv"} => buf = <<>> /\ engine_buf = rest
        /\ pc \notin {"feeding", "recv"} => buf = rest /\ engine_buf = <<>>

InOrder ==
    /\ Len(handled) <= Len(msgs)
    /\ \A n \in DOMAIN handled : handled[n] = n

\* How far the handshake is: a reply taken for each request sent but the last,
\* none of them one that must end it.
PhaseInv ==
    /\ pc \in {"idle", "connected", "start"} => asked = 0 /\ handled = <<>>
    /\ pc \in Awaiting \ {"start"} =>
           /\ Len(handled) = asked
           /\ \A n \in 2 .. asked : /\ msgs[handled[n]].kind = "auth"
                                   /\ msgs[handled[n]].type # "insecure"
    /\ pc = "types" => asked = 1
    /\ pc = "challenge" => asked = 2
    /\ pc = "verdict" => asked \in {2, 3}
    /\ ServesWhenAccepted

StreamInv ==
    /\ Laid
    /\ pc # "closed" => InOrder /\ Buffered

---------------------------------------------------------------------------
(* Runs of bytes.                                                          *)

\* A run is a sequence of its length.
LEMMA RunType ==
    ASSUME NEW a \in Nat, NEW n \in Nat
    PROVE  Run(a, n) \in Seq(Nat) /\ Len(Run(a, n)) = n
  BY DEF Run

\* Two runs that meet are one.
LEMMA RunConcat ==
    ASSUME NEW a \in Nat, NEW n \in Nat, NEW k \in Nat
    PROVE  Run(a, n) \o Run(a + n, k) = Run(a, n + k)
  BY DEF Run

\* A run without its first bytes is a run.
LEMMA RunRest ==
    ASSUME NEW a \in Nat, NEW n \in Nat, NEW k \in 0 .. n
    PROVE  SubSeq(Run(a, n), k + 1, n) = Run(a + k, n - k)
  BY DEF Run

\* An empty buffer adds nothing.
LEMMA EmptyConcat ==
    ASSUME NEW s \in Seq(Nat)
    PROVE  s \o <<>> = s /\ <<>> \o s = s
  OBVIOUS

---------------------------------------------------------------------------
(* Messages.                                                               *)

\* A message has a first byte and a size that holds its header.
LEMMA MsgType ==
    ASSUME TypeOK, NEW i \in DOMAIN msgs
    PROVE  /\ i \in 1 .. Len(msgs)
           /\ msgs[i] \in Messages
           /\ msgs[i].first \in Nat \ {0}
           /\ msgs[i].size \in Nat \ {0}
           /\ msgs[i].size >= Header
  <1>1. i \in 1 .. Len(msgs) /\ msgs[i] \in Messages
    BY DEF TypeOK
  <1>2. msgs[i].size \in Header .. MaxSize /\ msgs[i].first \in Nat \ {0}
    BY <1>1 DEF Messages
  <1> QED
    BY <1>1, <1>2, ConstantsAssumption

\* What has been taken is a number of bytes.
LEMMA TakenType ==
    ASSUME TypeOK, InOrder
    PROVE  Taken \in Nat
  <1>1. CASE handled = <<>>
    BY <1>1 DEF Taken
  <1>2. CASE handled # <<>>
    <2>1. Len(handled) \in DOMAIN msgs
      BY <1>2 DEF TypeOK, InOrder
    <2> QED
      BY <1>2, <2>1, MsgType DEF Taken
  <1> QED
    BY <1>1, <1>2

\* A buffer that starts where the messages taken end, starts with the next one.
LEMMA HeadIsNext ==
    ASSUME TypeOK, Laid, InOrder, Taken <= received,
           NEW i \in Heads(Run(Taken, received - Taken))
    PROVE  i = Len(handled) + 1 /\ msgs[i].first = Taken + 1
  <1> DEFINE k == Len(handled)
  <1>1. i \in DOMAIN msgs /\ i \in 1 .. Len(msgs) /\ k \in Nat /\ k <= Len(msgs)
    BY DEF Heads, InOrder, TypeOK
  <1>2. msgs[i].first = Taken + 1
    <2>1. Taken \in Nat /\ received - Taken \in Nat
      BY TakenType DEF TypeOK
    <2>2. received - Taken >= Header
      BY <2>1, RunType DEF Heads
    <2>3. Run(Taken, received - Taken)[1] = Taken + 1
      BY <2>1, <2>2, ConstantsAssumption DEF Run
    <2> QED
      BY <2>3 DEF Heads
  <1>3. \A j \in DOMAIN msgs : /\ msgs[j].first \in Nat \ {0}
                               /\ msgs[j].size \in Nat \ {0}
    BY MsgType
  <1>4. CASE k = 0
    <2>1. Taken = 0
      BY <1>4 DEF Taken, TypeOK
    <2>2. 1 \in DOMAIN msgs
      BY <1>1
    <2>3. i > 1 => msgs[1].first + msgs[1].size <= msgs[i].first
      BY <1>1, <2>2 DEF Laid
    <2> QED
      BY <1>1, <1>2, <1>3, <1>4, <2>1, <2>2, <2>3
  <1>5. CASE k > 0
    <2>1. k \in DOMAIN msgs /\ Taken = msgs[k].first + msgs[k].size - 1
      BY <1>1, <1>5 DEF Taken, TypeOK
    <2>2. i < k => msgs[i].first + msgs[i].size <= msgs[k].first
      BY <1>1, <2>1 DEF Laid
    <2>3. i > k + 1 => /\ k + 1 \in DOMAIN msgs
                       /\ msgs[k + 1].first = msgs[k].first + msgs[k].size
                       /\ msgs[k + 1].first + msgs[k + 1].size <= msgs[i].first
      BY <1>1, <2>1 DEF Laid
    <2> QED
      <3>1. ~(i < k)
        <4> SUFFICES ASSUME i < k PROVE FALSE
          OBVIOUS
        <4>1. /\ msgs[i].first \in Nat /\ msgs[i].size \in Nat \ {0}
              /\ msgs[k].first \in Nat /\ msgs[k].size \in Nat \ {0}
          BY <1>1, <1>3, <2>1
        <4>2. msgs[i].first = msgs[k].first + msgs[k].size
          BY <1>2, <2>1, <4>1
        <4> QED
          BY <2>2, <4>1, <4>2
      <3>2. i # k
        BY <1>2, <1>3, <1>1, <2>1
      <3>3. ~(i > k + 1)
        <4> SUFFICES ASSUME i > k + 1 PROVE FALSE
          OBVIOUS
        <4>1. msgs[k + 1].first = Taken + 1
          <5>1. msgs[k].first \in Nat /\ msgs[k].size \in Nat
            BY <1>3, <2>1
          <5>2. msgs[k + 1].first = msgs[k].first + msgs[k].size
            BY <2>3
          <5> QED
            BY <5>1, <5>2, <2>1
        <4> QED
          BY <4>1, <1>2, <1>3, <2>3, <2>1, <1>1
      <3> QED
        BY <1>1, <1>2, <3>1, <3>2, <3>3
  <1> QED
    BY <1>1, <1>2, <1>4, <1>5

\* Taking the next message from a buffer leaves the rest of the stream in it.
LEMMA TakeNext ==
    ASSUME TypeOK, Laid, InOrder, Taken <= received,
           NEW b, b = Run(Taken, received - Taken),
           NEW i \in Heads(b), Whole(b, i),
           handled' = Append(handled, i), UNCHANGED <<msgs, received>>
    PROVE  /\ InOrder'
           /\ Taken' <= received'
           /\ Rest(b, i) = Run(Taken', received' - Taken')
           /\ Rest(b, i) \in Seq(Nat)
           /\ handled' \in Seq(Nat)
  <1>1. i = Len(handled) + 1 /\ msgs[i].first = Taken + 1
    BY HeadIsNext
  <1>2. i \in DOMAIN msgs /\ i \in 1 .. Len(msgs) /\ msgs[i].size \in Nat \ {0}
    BY MsgType DEF Heads
  <1>3. handled' \in Seq(Nat) /\ Len(handled') = i /\ handled' # <<>>
    <2>1. handled \in Seq(Nat) /\ i \in Nat
      BY <1>2 DEF TypeOK
    <2>2. Append(handled, i) \in Seq(Nat) /\ Len(Append(handled, i)) = Len(handled) + 1
      BY <2>1
    <2>3. Append(handled, i) # <<>>
      BY <2>1, <2>2
    <2> QED
      BY <1>1, <2>2, <2>3
  <1>4. InOrder'
    <2>1. \A n \in 1 .. Len(handled) : handled'[n] = handled[n]
      BY DEF TypeOK
    <2>2. handled'[i] = i
      BY <1>1 DEF TypeOK
    <2> QED
      BY <1>1, <1>2, <1>3, <2>1, <2>2 DEF InOrder, TypeOK
  <1>5. Taken \in Nat /\ received \in Nat /\ received - Taken \in Nat
    BY TakenType DEF TypeOK
  <1> DEFINE a == Taken
             n == received - Taken
             k == msgs[i].size
  <1>6. Taken' = a + k
    <2>1. Taken' = msgs[i].first + k - 1
      BY <1>3 DEF Taken
    <2> QED
      BY <1>1, <1>2, <1>5, <2>1
  <1>7. a \in Nat /\ n \in Nat /\ k \in Nat /\ b = Run(a, n)
    BY <1>2, <1>5
  <1>8. n - k = received' - (a + k) /\ a + k \in Nat
    BY <1>2, <1>5
  <1> HIDE DEF a, n
  <1>9. Len(b) = n
    BY <1>7, RunType
  <1>10. k \in 0 .. n
    BY <1>7, <1>9 DEF Whole
  <1>11. Rest(b, i) = Run(a + k, n - k)
    <2>1. Rest(b, i) = SubSeq(b, k + 1, Len(b))
      BY DEF Rest
    <2> HIDE DEF k
    <2>2. SubSeq(Run(a, n), k + 1, n) = Run(a + k, n - k)
      BY <1>7, <1>10, RunRest
    <2> QED
      BY <1>7, <1>9, <2>1, <2>2
  <1>12. Run(a + k, n - k) \in Seq(Nat)
    <2>1. n - k \in Nat
      BY <1>7, <1>10
    <2> QED
      BY <2>1, <1>8, RunType
  <1>13. Taken' <= received'
    <2>1. Taken' = a + k /\ received' = a + n /\ k <= n
      BY <1>5, <1>6, <1>10 DEF a, n
    <2> QED
      BY <1>7, <2>1
  <1> QED
    BY <1>3, <1>4, <1>6, <1>8, <1>11, <1>12, <1>13

\* What arrives goes behind what is there.
LEMMA ReceiveMore ==
    ASSUME TypeOK, InOrder, Taken <= received,
           NEW b, b = Run(Taken, received - Taken),
           NEW k \in 1 .. written - received,
           received' = received + k, UNCHANGED <<msgs, handled, written>>
    PROVE  /\ Taken' = Taken
           /\ Taken' <= received'
           /\ b \o Run(received, k) = Run(Taken', received' - Taken')
           /\ b \o Run(received, k) \in Seq(Nat)
           /\ received' \in 0 .. written'
  <1> DEFINE a == Taken
             n == received - Taken
  <1>1. a \in Nat /\ n \in Nat /\ received \in Nat /\ written \in Nat
    BY TakenType DEF TypeOK
  <1>2. k \in Nat /\ k <= written - received
    BY <1>1
  <1>3. Taken' = a
    BY DEF Taken
  <1>4. received = a + n /\ n + k = received' - a /\ a <= received'
    BY <1>1, <1>2
  <1>5. received' \in 0 .. written'
    BY <1>1, <1>2
  <1> HIDE DEF a, n
  <1>6. Run(a, n) \o Run(a + n, k) = Run(a, n + k)
    BY <1>1, <1>2, RunConcat
  <1>7. Run(a, n + k) \in Seq(Nat)
    BY <1>1, <1>2, RunType
  <1>8. b \o Run(received, k) = Run(Taken', received' - Taken')
    BY <1>3, <1>4, <1>6 DEF a, n
  <1>9. Run(Taken', received' - Taken') \in Seq(Nat)
    BY <1>3, <1>4, <1>7
  <1> QED
    BY <1>3, <1>4, <1>5, <1>8, <1>9 DEF a

\* A message sent later is laid behind the others and disturbs nothing taken.
LEMMA PutLays ==
    ASSUME TypeOK, Laid, NEW kind \in Kinds, NEW status \in Statuses,
           NEW type \in Types, Put(kind, status, type),
           UNCHANGED handled
    PROVE  /\ Laid'
           /\ msgs' \in Seq(Messages)
           /\ written' \in Nat
           /\ written' >= written
           /\ Len(msgs') = Len(msgs) + 1
           /\ \A i \in DOMAIN msgs : msgs'[i] = msgs[i]
           /\ InOrder => InOrder' /\ Taken' = Taken
  <1>1. PICK size \in Header .. MaxSize :
            /\ msgs' = Append(msgs, [kind |-> kind, first |-> written + 1,
                                     size |-> size, status |-> status,
                                     type |-> type])
            /\ written' = written + size
    BY DEF Put
  <1> DEFINE m == [kind |-> kind, first |-> written + 1, size |-> size,
                   status |-> status, type |-> type]
             top == Len(msgs) + 1
  <1>2. size \in Nat \ {0} /\ written \in Nat /\ msgs \in Seq(Messages)
    BY ConstantsAssumption DEF TypeOK
  <1>3. m \in Messages /\ m.first = written + 1 /\ m.size = size
    BY <1>2 DEF Messages
  <1> HIDE DEF m
  <1>4. msgs' \in Seq(Messages) /\ Len(msgs') = top /\ DOMAIN msgs' = 1 .. top
    BY <1>1, <1>2, <1>3 DEF m
  <1>5. msgs'[top] = m /\ \A i \in DOMAIN msgs : msgs'[i] = msgs[i]
    BY <1>1, <1>2, <1>3 DEF m
  <1>6. \A i \in DOMAIN msgs : /\ msgs[i].first \in Nat \ {0}
                               /\ msgs[i].size \in Nat \ {0}
    BY MsgType
  <1>7. written' \in Nat /\ written' = written + size
    BY <1>1, <1>2
  <1>8. DOMAIN msgs = 1 .. Len(msgs) /\ Len(msgs) \in Nat
    BY <1>2
  <1>9. Laid'
    <2>1. \A i \in DOMAIN msgs' : msgs'[i].first + msgs'[i].size - 1 <= written'
      <3> SUFFICES ASSUME NEW i \in DOMAIN msgs'
                   PROVE  msgs'[i].first + msgs'[i].size - 1 <= written'
        OBVIOUS
      <3>1. CASE i = top
        BY <3>1, <1>2, <1>3, <1>5, <1>7
      <3>2. CASE i \in DOMAIN msgs
        <4>1. msgs[i].first + msgs[i].size - 1 <= written
          BY <3>2 DEF Laid
        <4>2. msgs[i].first \in Nat /\ msgs[i].size \in Nat /\ msgs'[i] = msgs[i]
          BY <3>2, <1>5, <1>6
        <4> QED
          BY <4>1, <4>2, <1>2, <1>7
      <3> QED
        BY <3>1, <3>2, <1>4, <1>8
    <2>2. \A i, j \in DOMAIN msgs' :
              i < j => msgs'[i].first + msgs'[i].size <= msgs'[j].first
      <3> SUFFICES ASSUME NEW i \in DOMAIN msgs', NEW j \in DOMAIN msgs', i < j
                   PROVE  msgs'[i].first + msgs'[i].size <= msgs'[j].first
        OBVIOUS
      <3>1. i \in DOMAIN msgs
        BY <1>4, <1>8
      <3>2. CASE j = top
        <4>1. msgs[i].first + msgs[i].size - 1 <= written
          BY <3>1 DEF Laid
        <4> QED
          BY <3>1, <3>2, <4>1, <1>2, <1>3, <1>5, <1>6
      <3>3. CASE j \in DOMAIN msgs
        BY <3>1, <3>3, <1>5 DEF Laid
      <3> QED
        BY <3>2, <3>3, <1>4, <1>8
    <2>3. \A i \in 1 .. Len(msgs') - 1 :
              msgs'[i + 1].first = msgs'[i].first + msgs'[i].size
      <3> SUFFICES ASSUME NEW i \in 1 .. Len(msgs') - 1
                   PROVE  msgs'[i + 1].first = msgs'[i].first + msgs'[i].size
        OBVIOUS
      <3>1. i \in DOMAIN msgs /\ i \in 1 .. Len(msgs)
        BY <1>4, <1>8
      <3>2. CASE i = Len(msgs)
        <4>1. written = msgs[i].first + msgs[i].size - 1
          BY <3>1, <3>2, <1>2 DEF Laid
        <4> QED
          <5>1. msgs[i].first \in Nat /\ msgs[i].size \in Nat /\ msgs'[i] = msgs[i]
            BY <3>1, <1>5, <1>6
          <5>2. msgs'[i + 1].first = written + 1
            BY <3>2, <1>3, <1>5
          <5>3. written + 1 = msgs[i].first + msgs[i].size
            <6> DEFINE x == msgs[i].first
                       y == msgs[i].size
            <6>1. x \in Nat /\ y \in Nat /\ written = x + y - 1
              BY <4>1, <5>1
            <6> HIDE DEF x, y
            <6>2. written + 1 = x + y
              BY <6>1
            <6> QED
              BY <6>2 DEF x, y
          <5> QED
            BY <5>1, <5>2, <5>3, Zenon
      <3>3. CASE i < Len(msgs)
        BY <3>1, <3>3, <1>5, <1>8 DEF Laid
      <3> QED
        BY <3>1, <3>2, <3>3
    <2>4. msgs'[1].first = 1 /\ written' = msgs'[top].first + msgs'[top].size - 1
      <3>1. CASE msgs = <<>>
        BY <3>1, <1>2, <1>3, <1>5, <1>7 DEF Laid
      <3>2. CASE msgs # <<>>
        BY <3>2, <1>2, <1>3, <1>5, <1>7, <1>8 DEF Laid
      <3> QED
        BY <3>1, <3>2
    <2> QED
      BY <2>1, <2>2, <2>3, <2>4, <1>4, <1>8 DEF Laid
  <1>10. ASSUME InOrder PROVE InOrder' /\ Taken' = Taken
    <2>1. InOrder'
      BY <1>10, <1>4, <1>8 DEF InOrder, TypeOK
    <2>2. handled # <<>> => Len(handled) \in DOMAIN msgs
      BY <1>10, <1>8 DEF InOrder, TypeOK
    <2> QED
      BY <2>1, <2>2, <1>5 DEF Taken
  <1> QED
    BY <1>2, <1>4, <1>5, <1>7, <1>9, <1>10

---------------------------------------------------------------------------
Inv == TypeOK /\ StreamInv /\ PhaseInv

\* Nothing in the two later parts depends on a message sent afterwards.
LEMMA EndpointStep ==
    ASSUME Inv, Reply \/ SendFrame
    PROVE  Inv'
  <1>1. PICK kind \in Kinds, status \in Statuses, type \in Types :
            Put(kind, status, type)
    BY DEF Reply, SendFrame, Kinds, Statuses, Types
  <1>2. /\ UNCHANGED <<pc, buf, engine_buf, asked, handled, received>>
        /\ owed' \in BOOLEAN
        /\ pc # "closed"
    BY DEF Reply, SendFrame, Inv, TypeOK
  <1>3. TypeOK /\ Laid /\ InOrder /\ Buffered
    BY <1>2 DEF Inv, StreamInv
  <1>4. /\ Laid' /\ InOrder' /\ Taken' = Taken
        /\ msgs' \in Seq(Messages) /\ written' \in Nat /\ written' >= written
        /\ \A i \in DOMAIN msgs : msgs'[i] = msgs[i]
    BY <1>1, <1>2, <1>3, PutLays
  <1>5. TypeOK'
    BY <1>2, <1>3, <1>4 DEF TypeOK
  <1>6. StreamInv'
    BY <1>2, <1>3, <1>4 DEF StreamInv, Buffered
  <1>7. \A n \in DOMAIN handled : msgs'[handled[n]] = msgs[handled[n]]
    BY <1>3, <1>4 DEF InOrder, TypeOK
  <1>8. DOMAIN handled = 1 .. Len(handled) /\ Len(handled) \in Nat /\ asked \in Nat
    BY <1>3 DEF TypeOK
  <1>9. ServesWhenAccepted'
    <2> SUFFICES ASSUME pc \in Serving
                 PROVE  ServesWhenAccepted'
      BY <1>2 DEF ServesWhenAccepted
    <2>1. ServesWhenAccepted
      BY DEF Inv, PhaseInv
    <2>2. /\ 1 + asked \in DOMAIN handled
          /\ \A n \in 2 .. 1 + asked : n \in DOMAIN handled
          /\ \A n \in 2 .. asked : n \in DOMAIN handled
          /\ \A n \in 2 + asked .. Len(handled) : n \in DOMAIN handled
      BY <1>8, <2>1 DEF ServesWhenAccepted
    <2> QED
      BY <1>2, <1>7, <2>1, <2>2 DEF ServesWhenAccepted
  <1>10. PhaseInv'
    <2>1. ASSUME pc \in Awaiting \ {"start"}
          PROVE  \A n \in 2 .. asked : /\ msgs'[handled[n]].kind = "auth"
                                       /\ msgs'[handled[n]].type # "insecure"
      <3>1. Len(handled) = asked
        BY <2>1 DEF Inv, PhaseInv
      <3>2. \A n \in 2 .. asked : n \in DOMAIN handled
        BY <3>1, <1>8
      <3> QED
        BY <2>1, <3>2, <1>7 DEF Inv, PhaseInv
    <2> QED
      BY <1>2, <1>9, <2>1 DEF Inv, PhaseInv
  <1> QED
    BY <1>5, <1>6, <1>10 DEF Inv

\* Once the session is closed nothing but the types and the layout matters.
LEMMA ClosedStep ==
    ASSUME Inv, pc' = "closed", UNCHANGED <<endpoint, asked, received>>,
           buf' \in Seq(Nat), engine_buf' \in Seq(Nat), handled' \in Seq(Nat),
           owed' \in BOOLEAN
    PROVE  Inv'
  <1>1. TypeOK'
    BY DEF Inv, TypeOK, endpoint, Pcs
  <1>2. StreamInv'
    BY DEF Inv, StreamInv, Laid, endpoint
  <1>3. PhaseInv'
    BY DEF PhaseInv, Awaiting, Serving, ServesWhenAccepted
  <1> QED
    BY <1>1, <1>2, <1>3 DEF Inv

\* Before the first reply nothing has arrived.
LEMMA OpenStep ==
    ASSUME Inv, OpenSocket \/ StartSession
    PROVE  Inv'
  <1>1. CASE pc' = "closed"
    <2>1. UNCHANGED <<endpoint, asked, received, buf, engine_buf, handled, owed>>
      BY <1>1 DEF OpenSocket, StartSession, Raise, SendFails
    <2> QED
      BY <1>1, <2>1, ClosedStep DEF Inv, TypeOK
  <1>2. CASE pc' # "closed"
    <2>1. /\ pc \in {"idle", "connected"} /\ pc' \in {"connected", "start"}
          /\ UNCHANGED <<endpoint, asked, received, buf, engine_buf, handled>>
          /\ owed' \in BOOLEAN
      BY <1>2 DEF OpenSocket, StartSession, Raise, SendFails, Inv, TypeOK
    <2>2. TypeOK'
      BY <2>1 DEF Inv, TypeOK, endpoint, Pcs, Awaiting
    <2>3. StreamInv'
      BY <2>1 DEF Inv, StreamInv, Laid, InOrder, Buffered, Taken, endpoint
    <2>4. PhaseInv'
      BY <2>1 DEF Inv, PhaseInv, Awaiting, Serving, ServesWhenAccepted
    <2> QED
      BY <2>2, <2>3, <2>4 DEF Inv
  <1> QED
    BY <1>1, <1>2

\* _fill adds to the handshake's buffer.
LEMMA FillStep ==
    ASSUME Inv, Fill
    PROVE  Inv'
  <1>1. /\ pc \in Awaiting /\ pc # "closed" /\ pc \notin {"feeding", "recv"}
        /\ UNCHANGED <<pc, engine_buf, asked, handled, owed, written, msgs>>
    BY DEF Fill, WantsMore, Awaiting, endpoint
  <1>2. TypeOK /\ Laid /\ InOrder /\ Taken <= received
        /\ buf = Run(Taken, received - Taken) /\ engine_buf = <<>>
    BY <1>1 DEF Inv, StreamInv, Buffered
  <1>3. PICK k \in 1 .. written - received :
            buf' = buf \o Run(received, k) /\ received' = received + k
    BY DEF Fill
  <1>4. /\ Taken' = Taken /\ Taken' <= received'
        /\ buf' = Run(Taken', received' - Taken')
        /\ buf' \in Seq(Nat)
        /\ received' \in 0 .. written'
    BY <1>1, <1>2, <1>3, ReceiveMore
  <1>5. TypeOK'
    BY <1>1, <1>2, <1>4 DEF TypeOK
  <1>6. StreamInv'
    BY <1>1, <1>2, <1>4 DEF StreamInv, Laid, InOrder, Buffered
  <1>7. PhaseInv'
    BY <1>1 DEF Inv, PhaseInv, ServesWhenAccepted
  <1> QED
    BY <1>5, <1>6, <1>7 DEF Inv

\* recv() adds to the engine's buffer.
LEMMA RecvStep ==
    ASSUME Inv, Recv
    PROVE  Inv'
  <1>1. /\ pc = "recv" /\ pc' = "feeding"
        /\ UNCHANGED <<buf, asked, handled, owed, written, msgs>>
    BY DEF Recv, endpoint
  <1>2. TypeOK /\ Laid /\ InOrder /\ Taken <= received
        /\ engine_buf = Run(Taken, received - Taken) /\ buf = <<>>
    BY <1>1 DEF Inv, StreamInv, Buffered
  <1>3. PICK k \in 1 .. written - received :
            engine_buf' = engine_buf \o Run(received, k) /\ received' = received + k
    BY DEF Recv
  <1>4. /\ Taken' = Taken /\ Taken' <= received'
        /\ engine_buf' = Run(Taken', received' - Taken')
        /\ engine_buf' \in Seq(Nat)
        /\ received' \in 0 .. written'
    BY <1>1, <1>2, <1>3, ReceiveMore
  <1>5. TypeOK'
    BY <1>1, <1>2, <1>4 DEF TypeOK, Pcs, Serving
  <1>6. StreamInv'
    BY <1>1, <1>2, <1>4 DEF StreamInv, Laid, InOrder, Buffered
  <1>7. PhaseInv'
    BY <1>1 DEF Inv, PhaseInv, ServesWhenAccepted, Awaiting, Serving
  <1> QED
    BY <1>5, <1>6, <1>7 DEF Inv

\* connect() returns its left-over and the engine takes it; feed() returns.
LEMMA HandOverStep ==
    ASSUME Inv, StartEngine \/ FeedReturns, pc' # "closed"
    PROVE  Inv'
  <1>1. /\ pc \in {"ready", "feeding"} /\ pc' \in {"feeding", "recv"}
        /\ UNCHANGED <<asked, handled, received, owed, written, msgs>>
    BY DEF StartEngine, FeedReturns, endpoint
  <1>2. TypeOK /\ Laid /\ InOrder /\ Buffered /\ Taken' = Taken
    BY <1>1 DEF Inv, StreamInv, Taken
  <1>3. buf' = <<>> /\ engine_buf' = Run(Taken, received - Taken)
    BY <1>1, <1>2 DEF StartEngine, FeedReturns, Buffered
  <1>4. engine_buf' \in Seq(Nat)
    BY <1>2 DEF StartEngine, FeedReturns, TypeOK
  <1>5. TypeOK'
    BY <1>1, <1>2, <1>3, <1>4 DEF TypeOK, Pcs, Serving
  <1>6. StreamInv'
    BY <1>1, <1>2, <1>3 DEF StreamInv, Laid, InOrder, Buffered
  <1>7. PhaseInv'
    BY <1>1 DEF Inv, PhaseInv, ServesWhenAccepted, Awaiting, Serving
  <1> QED
    BY <1>5, <1>6, <1>7 DEF Inv

\* feed() takes one message.
LEMMA FeedStep ==
    ASSUME Inv, FeedFrame, pc' # "closed"
    PROVE  Inv'
  <1>1. /\ pc = "feeding" /\ pc' = "feeding"
        /\ UNCHANGED <<buf, asked, received, owed, written, msgs>>
    BY DEF FeedFrame, endpoint
  <1>2. TypeOK /\ Laid /\ InOrder /\ Taken <= received
        /\ engine_buf = Run(Taken, received - Taken) /\ buf = <<>>
    BY <1>1 DEF Inv, StreamInv, Buffered
  <1>3. PICK i \in Heads(engine_buf) :
            /\ msgs[i].kind = "frame"
            /\ Whole(engine_buf, i)
            /\ engine_buf' = Rest(engine_buf, i)
            /\ handled' = Append(handled, i)
    BY DEF FeedFrame
  <1>4. /\ InOrder' /\ Taken' <= received' /\ handled' \in Seq(Nat)
        /\ engine_buf' = Run(Taken', received' - Taken')
        /\ engine_buf' \in Seq(Nat)
    BY <1>1, <1>2, <1>3, TakeNext
  <1>5. TypeOK'
    BY <1>1, <1>2, <1>4 DEF TypeOK
  <1>6. StreamInv'
    BY <1>1, <1>2, <1>4 DEF StreamInv, Laid, Buffered
  <1>7. /\ Len(handled') = Len(handled) + 1 /\ handled'[Len(handled) + 1] = i
        /\ \A n \in 1 .. Len(handled) : handled'[n] = handled[n]
        /\ Len(handled) \in Nat /\ asked \in Nat
    <2>1. handled \in Seq(Nat) /\ i \in Nat
      BY <1>2 DEF TypeOK, Heads
    <2> QED
      BY <1>2, <1>3, <2>1 DEF TypeOK
  <1>8. PhaseInv'
    <2>1. ServesWhenAccepted'
      BY <1>1, <1>3, <1>7 DEF Inv, PhaseInv, ServesWhenAccepted, Serving
    <2> QED
      BY <1>1, <2>1 DEF PhaseInv, Awaiting
  <1> QED
    BY <1>5, <1>6, <1>8 DEF Inv

\* The replies: the one place where the phase changes.
LEMMA ReplyStep ==
    ASSUME Inv, TakeReply
    PROVE  Inv'
  <1>1. /\ pc \in Awaiting /\ pc # "closed" /\ pc \notin {"feeding", "recv"}
        /\ UNCHANGED <<engine_buf, received, written, msgs>>
    BY DEF TakeReply, Awaiting, endpoint
  <1>2. TypeOK /\ Laid /\ InOrder /\ Taken <= received
        /\ buf = Run(Taken, received - Taken) /\ engine_buf = <<>>
    BY <1>1 DEF Inv, StreamInv, Buffered
  <1>3. PICK i \in Heads(buf) :
            /\ ~Unwanted(msgs[i])
            /\ Whole(buf, i)
            /\ buf' = Rest(buf, i)
            /\ handled' = Append(handled, i)
            /\ Authenticate(msgs[i])
    BY DEF TakeReply
  <1>4. /\ InOrder' /\ Taken' <= received' /\ handled' \in Seq(Nat)
        /\ buf' = Run(Taken', received' - Taken')
        /\ buf' \in Seq(Nat)
    BY <1>1, <1>2, <1>3, TakeNext
  <1>5. /\ Len(handled') = Len(handled) + 1 /\ handled'[Len(handled) + 1] = i
        /\ \A n \in 1 .. Len(handled) : handled'[n] = handled[n]
        /\ Len(handled) \in Nat /\ asked \in Nat
    <2>1. handled \in Seq(Nat) /\ i \in Nat
      BY <1>2 DEF TypeOK, Heads
    <2> QED
      BY <1>2, <1>3, <2>1 DEF TypeOK
  <1>6. pc # "start" => msgs[i].kind = "auth"
    BY <1>3 DEF Unwanted
  <1>7. \/ /\ pc' = "types" /\ pc = "start" /\ asked' = asked + 1 /\ owed' = TRUE
        \/ /\ pc' = "challenge" /\ pc = "types" /\ asked' = asked + 1 /\ owed' = TRUE
           /\ msgs[i].type # "insecure"
        \/ /\ pc' = "verdict" /\ pc \in {"types", "challenge"}
           /\ asked' = asked + 1 /\ owed' = TRUE
           /\ msgs[i].type # "insecure"
        \/ /\ pc' = "ready" /\ pc \in Awaiting \ {"start"}
           /\ msgs[i].status = "ok" /\ UNCHANGED <<owed, asked>>
        \/ pc' = "closed" /\ UNCHANGED <<owed, asked>>
    BY <1>3 DEF Authenticate, Judge, Ask, Succeed, Fail, SendFails, Awaiting
  <1>8. asked' \in 0 .. 3 /\ owed' \in BOOLEAN /\ pc' \in Pcs
    <2>1. /\ pc = "start" => asked = 0
          /\ pc = "types" => asked = 1
          /\ pc = "challenge" => asked = 2
          /\ asked \in 0 .. 3
      BY DEF Inv, PhaseInv, TypeOK
    <2>2. asked' \in 0 .. 3
      BY <1>7, <2>1
    <2>3. pc' \in Pcs
      BY <1>7 DEF Pcs, Awaiting, Serving
    <2>4. owed' \in BOOLEAN
      <3>1. owed \in BOOLEAN
        BY DEF Inv, TypeOK
      <3>2. owed' = TRUE \/ owed' = owed
        BY <1>7, Zenon
      <3> QED
        BY <3>1, <3>2, Zenon
    <2> QED
      BY <2>2, <2>3, <2>4
  <1>9. TypeOK'
    BY <1>1, <1>2, <1>4, <1>8 DEF TypeOK
  <1>10. StreamInv'
    <2>1. pc' \notin {"feeding", "recv"}
      BY <1>7
    <2> QED
      BY <1>1, <1>2, <1>4, <2>1 DEF StreamInv, Laid, Buffered
  <1>11. PhaseInv'
    <2>1. CASE pc' = "closed"
      BY <2>1 DEF PhaseInv, Awaiting, Serving, ServesWhenAccepted
    <2>2. CASE pc' = "types"
      <3>1. asked = 0 /\ handled = <<>> /\ asked' = 1
        BY <1>7, <2>2 DEF Inv, PhaseInv
      <3>2. Len(handled') = 1
        BY <1>5, <3>1
      <3> QED
        BY <2>2, <3>1, <3>2 DEF PhaseInv, Awaiting, Serving, ServesWhenAccepted
    <2>3. CASE pc' \in {"challenge", "verdict", "ready"}
      <3>1. pc \in Awaiting \ {"start"}
        BY <1>7, <2>3 DEF Awaiting
      <3>2. /\ Len(handled) = asked /\ asked \in {1, 2, 3}
            /\ \A n \in 2 .. asked : /\ msgs[handled[n]].kind = "auth"
                                    /\ msgs[handled[n]].type # "insecure"
            /\ pc = "types" => asked = 1
            /\ pc = "challenge" => asked = 2
        BY <3>1 DEF Inv, PhaseInv, Awaiting
      <3>3. /\ \A n \in 2 .. 1 + asked : msgs'[handled'[n]].kind = "auth"
            /\ \A n \in 2 .. asked : msgs'[handled'[n]].type # "insecure"
            /\ msgs'[handled'[1 + asked]] = msgs[i]
            /\ Len(handled') = 1 + asked
        BY <1>1, <1>5, <1>6, <3>1, <3>2
      <3>4. CASE pc' = "ready"
        <4>1. asked' = asked /\ msgs[i].status = "ok"
          BY <1>7, <3>4
        <4>2. ServesWhenAccepted'
          BY <3>2, <3>3, <4>1 DEF ServesWhenAccepted
        <4> QED
          BY <3>4, <4>2 DEF PhaseInv, Awaiting
      <3>5. CASE pc' \in {"challenge", "verdict"}
        <4>1. /\ asked' = 1 + asked /\ msgs[i].type # "insecure"
              /\ pc' = "challenge" => asked' = 2
              /\ pc' = "verdict" => asked' \in {2, 3}
          BY <1>5, <1>7, <3>2, <3>5
        <4>2. \A n \in 2 .. asked' : /\ msgs'[handled'[n]].kind = "auth"
                                      /\ msgs'[handled'[n]].type # "insecure"
          BY <1>5, <3>2, <3>3, <4>1
        <4> QED
          BY <3>3, <3>5, <4>1, <4>2 DEF PhaseInv, Awaiting, Serving, ServesWhenAccepted
      <3> QED
        BY <2>3, <3>4, <3>5
    <2> QED
      BY <1>7, <2>1, <2>2, <2>3
  <1> QED
    BY <1>9, <1>10, <1>11 DEF Inv

---------------------------------------------------------------------------
(***************************************************************************)
(* The theorems.                                                           *)
(***************************************************************************)
\* connect() and the daemon's loop keep the inductive invariant.
THEOREM Invariance == Spec => []Inv
  <1>1. Init => Inv
    <2> SUFFICES ASSUME Init PROVE Inv
      OBVIOUS
    <2>1. TypeOK
      <3>1. owed \in BOOLEAN
        BY Zenon DEF Init
      <3> QED
        BY <3>1 DEF Init, TypeOK, Pcs
    <2>2. Laid /\ InOrder
      BY DEF Init, Laid, InOrder
    <2>3. Taken = 0 /\ Run(0, 0) = <<>>
      BY DEF Init, Taken, Run
    <2>4. Buffered
      BY <2>3 DEF Init, Buffered
    <2>5. PhaseInv
      BY DEF Init, PhaseInv, Awaiting, Serving, ServesWhenAccepted
    <2> QED
      BY <2>1, <2>2, <2>4, <2>5 DEF Inv, StreamInv
  <1>2. Inv /\ [Next]_vars => Inv'
    <2> SUFFICES ASSUME Inv, [Next]_vars PROVE Inv'
      OBVIOUS
    <2>1. CASE Reply \/ SendFrame
      BY <2>1, EndpointStep
    <2>2. CASE OpenSocket \/ StartSession
      BY <2>2, OpenStep
    <2>3. CASE Fill
      BY <2>3, FillStep
    <2>4. CASE TakeReply
      BY <2>4, ReplyStep
    <2>5. CASE Recv
      BY <2>5, RecvStep
    <2>6. CASE FillFails \/ Reject \/ LoopEnds \/ FeedUnknown
      <3>1. /\ pc' = "closed" /\ UNCHANGED <<endpoint, asked, received, buf, handled, owed>>
            /\ engine_buf' \in {engine_buf, <<>>}
        BY <2>6 DEF FillFails, Reject, LoopEnds, FeedUnknown, Raise
      <3>2. /\ buf' \in Seq(Nat) /\ engine_buf' \in Seq(Nat)
            /\ handled' \in Seq(Nat) /\ owed' \in BOOLEAN
        <4>1. /\ buf' = buf /\ engine_buf' \in {engine_buf, <<>>}
              /\ handled' = handled /\ owed' = owed
          BY <3>1, Zenon
        <4>2. /\ buf \in Seq(Nat) /\ engine_buf \in Seq(Nat) /\ <<>> \in Seq(Nat)
              /\ handled \in Seq(Nat) /\ owed \in BOOLEAN
          BY DEF Inv, TypeOK
        <4> QED
          BY <4>1, <4>2, Zenon
      <3> QED
        BY <3>1, <3>2, ClosedStep
    <2>7. CASE StartEngine \/ FeedReturns
      <3>1. CASE pc' = "closed"
        <4>1. /\ UNCHANGED <<endpoint, asked, received, handled, owed, engine_buf>>
              /\ buf' \in {buf, <<>>}
          BY <2>7, <3>1 DEF StartEngine, FeedReturns
        <4>2. /\ buf' \in Seq(Nat) /\ engine_buf' \in Seq(Nat)
              /\ handled' \in Seq(Nat) /\ owed' \in BOOLEAN
          <5>1. /\ buf' \in {buf, <<>>} /\ engine_buf' = engine_buf
                /\ handled' = handled /\ owed' = owed
            BY <4>1, Zenon
          <5>2. /\ buf \in Seq(Nat) /\ engine_buf \in Seq(Nat) /\ <<>> \in Seq(Nat)
                /\ handled \in Seq(Nat) /\ owed \in BOOLEAN
            BY DEF Inv, TypeOK
          <5> QED
            BY <5>1, <5>2, Zenon
        <4> QED
          BY <3>1, <4>1, <4>2, ClosedStep
      <3> QED
        BY <2>7, <3>1, HandOverStep
    <2>8. CASE FeedFrame
      <3>1. CASE pc' = "closed"
        <4>1. PICK i \in Heads(engine_buf) : /\ engine_buf' = Rest(engine_buf, i)
                                             /\ handled' = Append(handled, i)
                                             /\ Whole(engine_buf, i)
          BY <2>8 DEF FeedFrame
        <4>2. pc = "feeding" /\ UNCHANGED <<endpoint, asked, received, owed, buf>>
          BY <2>8 DEF FeedFrame
        <4>3. engine_buf' \in Seq(Nat) /\ handled' \in Seq(Nat)
          BY <4>1, <4>2, TakeNext DEF Inv, StreamInv, Buffered, endpoint
        <4> QED
          BY <3>1, <4>2, <4>3, ClosedStep DEF Inv, TypeOK
      <3> QED
        BY <2>8, <3>1, FeedStep
    <2>9. CASE UNCHANGED vars
      BY <2>9 DEF vars, Inv, TypeOK, StreamInv, Laid, InOrder, Buffered, Taken,
                  PhaseInv, ServesWhenAccepted
    <2> QED
      BY <2>1, <2>2, <2>3, <2>4, <2>5, <2>6, <2>7, <2>8, <2>9
         DEF Next, Handshake, Engine
  <1> QED
    BY <1>1, <1>2, PTL DEF Spec

\* The handshake sends at most three authentication requests, and every buffer
\* holds bytes.
THEOREM TypeCorrect == Spec => []TypeOK
  <1>1. Inv => TypeOK
    BY DEF Inv
  <1> QED
    BY <1>1, Invariance, PTL

\* No byte is lost, repeated or swapped between the handshake's buffer and the
\* engine's, for every way the stream is cut and messages of every size.
THEOREM NoByteIsLost == Spec => []StreamIntact
  <1>1. Inv => StreamIntact
    <2> SUFFICES ASSUME Inv, pc # "closed"
                 PROVE  /\ \A n \in DOMAIN handled : handled[n] = n
                        /\ buf \o engine_buf = Run(Taken, received - Taken)
      BY DEF StreamIntact
    <2>1. InOrder /\ Buffered /\ buf \in Seq(Nat) /\ engine_buf \in Seq(Nat)
      BY DEF Inv, StreamInv, TypeOK
    <2>2. buf \o engine_buf = Run(Taken, received - Taken)
      <3>1. CASE buf = <<>> /\ engine_buf = Run(Taken, received - Taken)
        BY <2>1, <3>1, EmptyConcat
      <3>2. CASE engine_buf = <<>> /\ buf = Run(Taken, received - Taken)
        BY <2>1, <3>2, EmptyConcat
      <3> QED
        BY <2>1, <3>1, <3>2 DEF Buffered
    <2> QED
      BY <2>1, <2>2 DEF InOrder
  <1> QED
    BY <1>1, Invariance, PTL

\* The daemon serves media only on a connection whose last handshake reply was a
\* success that no insecure authentication type led to.
THEOREM ServesOnlyAccepted == Spec => []ServesWhenAccepted
  <1>1. Inv => ServesWhenAccepted
    BY DEF Inv, PhaseInv
  <1> QED
    BY <1>1, Invariance, PTL
=============================================================================
