---------------------------- MODULE Redirection ----------------------------
(***************************************************************************)
(* RedirectionSession.connect and the hand-over of the connection to the   *)
(* IDE-R engine.  The endpoint's messages arrive as a stream of bytes that *)
(* the network cuts wherever it likes.  The handshake reads its replies    *)
(* from a buffer of its own; what is left in it belongs to the engine,     *)
(* whose feed() frames it together with everything received later.         *)
(*                                                                         *)
(* A byte is the number of its place in the stream.  A message is known by *)
(* its first byte, tells its length in its header, and carries what the    *)
(* handshake looks at.                                                     *)
(***************************************************************************)
EXTENDS Naturals, Sequences, FiniteSets

CONSTANTS
    Header,     \* bytes that tell the kind and the length of a message
    MaxSize,    \* bound: bytes of a message
    MaxFrames   \* bound: IDE-R frames the endpoint sends

ASSUME ConstantsAssumption ==
    /\ Header \in Nat \ {0}
    /\ MaxSize \in Nat
    /\ MaxFrames \in Nat

VARIABLES
    pc,         \* where the daemon is in connect() and its loop
    buf,        \* RedirectionSession._buf
    engine_buf, \* IderEngine._buf
    asked,      \* authentication requests sent
    handled,    \* the messages taken from the stream, in order
    received,   \* bytes the daemon has received
    written,    \* endpoint: bytes it has sent
    msgs,       \* endpoint: the messages it has sent
    owed        \* endpoint: it has a request to answer

vars == <<pc, buf, engine_buf, asked, handled, received, written, msgs, owed>>

endpoint == <<written, msgs>>

---------------------------------------------------------------------------
Kinds == {"start", "auth", "frame", "unknown"}

Statuses == {"ok", "challenge", "refused"}

\* What an AuthenticateSessionReply says: type 0 with a list that holds type 4
\* or does not, one of the types that are refused, or type 4.
Types == {"list", "list_without_digest", "insecure", "digest"}

Messages == [kind : Kinds, first : Nat \ {0}, size : Header .. MaxSize,
             status : Statuses, type : Types]

\* The stages of connect() that wait for a reply.
Awaiting == {"start", "types", "challenge", "verdict"}

\* connect() has succeeded.
Serving == {"ready", "feeding", "recv"}

Pcs == Awaiting \cup Serving \cup {"idle", "connected", "closed"}

\* Bytes a + 1 .. a + n of the stream.
Run(a, n) == [i \in 1 .. n |-> a + i]

\* The message a buffer starts with, once its header is there.
Heads(b) == {i \in DOMAIN msgs : Len(b) >= Header /\ msgs[i].first = b[1]}

Whole(b, i) == Len(b) >= msgs[i].size

Rest(b, i) == SubSeq(b, msgs[i].size + 1, Len(b))

---------------------------------------------------------------------------
(***************************************************************************)
(* The endpoint: at most one reply to each request, and IDE-R frames once  *)
(* it has accepted the session.  It may fall silent or hang up at any time.*)
(***************************************************************************)
Put(kind, status, type) ==
    \E size \in Header .. MaxSize :
        /\ msgs' = Append(msgs, [kind |-> kind, first |-> written + 1,
                                 size |-> size, status |-> status,
                                 type |-> type])
        /\ written' = written + size

Reply ==
    /\ owed
    /\ pc # "closed"
    /\ \/ \E status \in {"ok", "refused"} : Put("start", status, "list")
       \/ \E status \in Statuses, type \in Types : Put("auth", status, type)
    /\ owed' = FALSE
    /\ UNCHANGED <<pc, buf, engine_buf, asked, handled, received>>

OfEngine(m) == m.kind \in {"frame", "unknown"}

SendFrame ==
    /\ pc # "closed"
    /\ msgs # <<>>
    /\ LET latest == msgs[Len(msgs)]
       IN  OfEngine(latest) \/ (latest.kind = "auth" /\ latest.status = "ok")
    /\ Cardinality({i \in DOMAIN msgs : OfEngine(msgs[i])}) < MaxFrames
    /\ \E kind \in {"frame", "unknown"} : Put(kind, "ok", "list")
    /\ UNCHANGED <<pc, buf, engine_buf, asked, handled, received, owed>>

---------------------------------------------------------------------------
(***************************************************************************)
(* connect(): every way out but the last one raises, and _run_daemon then  *)
(* closes the session.                                                     *)
(***************************************************************************)
Raise ==
    /\ pc' = "closed"
    /\ UNCHANGED <<buf, engine_buf, asked, handled, received, owed>>

\* The socket, TLS and the pin, before anything is sent.
OpenSocket ==
    /\ pc = "idle"
    /\ \/ /\ pc' = "connected"
          /\ UNCHANGED <<buf, engine_buf, asked, handled, received, owed>>
       \/ Raise
    /\ UNCHANGED endpoint

\* _send raises.
SendFails ==
    /\ pc' = "closed"
    /\ UNCHANGED <<owed, asked>>

\* The start frame.
StartSession ==
    /\ pc = "connected"
    /\ \/ /\ pc' = "start"
          /\ owed' = TRUE
          /\ UNCHANGED asked
       \/ SendFails
    /\ UNCHANGED <<buf, engine_buf, handled, received>>
    /\ UNCHANGED endpoint

\* The reply is of another kind, or the session start was rejected: both are
\* seen in the header.
Unwanted(m) ==
    \/ m.kind # (IF pc = "start" THEN "start" ELSE "auth")
    \/ pc = "start" /\ m.status # "ok"

WantsMore ==
    /\ pc \in Awaiting
    /\ \A i \in Heads(buf) : ~Unwanted(msgs[i]) /\ ~Whole(buf, i)

\* recv in _fill: some of what is on its way.
Fill ==
    /\ WantsMore
    /\ \E k \in 1 .. written - received :
           /\ buf' = buf \o Run(received, k)
           /\ received' = received + k
    /\ UNCHANGED <<pc, engine_buf, asked, handled, owed>>
    /\ UNCHANGED endpoint

\* Mutant: recv has no timeout and the end of the stream is not looked at; only a
\* reset with data on its way is noticed.
FillBlocks ==
    /\ WantsMore
    /\ received < written
    /\ Raise
    /\ UNCHANGED endpoint

\* The timeout, the end of the stream, or a failure.
FillFails ==
    /\ WantsMore
    /\ Raise
    /\ UNCHANGED endpoint

Reject ==
    /\ pc \in Awaiting
    /\ \E i \in Heads(buf) : Unwanted(msgs[i])
    /\ Raise
    /\ UNCHANGED endpoint

\* A request is sent and its reply awaited at `stage`, unless it cannot be built
\* (from a challenge cut short) or sending fails.
Ask(stage) ==
    \/ /\ pc' = stage
       /\ owed' = TRUE
       /\ asked' = asked + 1
    \/ SendFails

Succeed ==
    /\ pc' = "ready"
    /\ UNCHANGED <<owed, asked>>

Fail ==
    /\ pc' = "closed"
    /\ UNCHANGED <<owed, asked>>

\* The end of _authenticate, from the check for insecure types on.
Judge(m) ==
    \/ m.type = "insecure" /\ Fail
    \/ m.type = "digest" /\ m.status = "challenge" /\ Ask("verdict")
    \/ /\ m.type # "insecure"
       /\ ~(m.type = "digest" /\ m.status = "challenge")
       /\ IF m.status = "ok" THEN Succeed ELSE Fail

\* Mutant: having sent the digest response is taken for success.
AuthenticateUnjudged(m) ==
    \/ pc = "start" /\ Ask("types")
    \/ pc = "types" /\ m.type = "list" /\ Ask("challenge")
    \/ pc = "types" /\ m.type = "list_without_digest" /\ Fail
    \/ pc = "types" /\ m.type \in {"insecure", "digest"} /\ Judge(m)
    \/ pc = "challenge" /\ Judge(m)
    \/ pc = "verdict" /\ Succeed

Authenticate(m) ==
    \/ pc = "start" /\ Ask("types")
    \/ pc = "types" /\ m.type = "list" /\ Ask("challenge")
    \/ pc = "types" /\ m.type = "list_without_digest" /\ Fail
    \/ pc = "types" /\ m.type \in {"insecure", "digest"} /\ Judge(m)
    \/ pc = "challenge" /\ Judge(m)
    \/ pc = "verdict" /\ (IF m.status = "ok" THEN Succeed ELSE Fail)

\* The whole reply is there: it is taken from the buffer.
TakeReply ==
    /\ pc \in Awaiting
    /\ \E i \in Heads(buf) :
           /\ ~Unwanted(msgs[i])
           /\ Whole(buf, i)
           /\ buf' = Rest(buf, i)
           /\ handled' = Append(handled, i)
           /\ Authenticate(msgs[i])
    /\ UNCHANGED <<engine_buf, received>>
    /\ UNCHANGED endpoint

---------------------------------------------------------------------------
(***************************************************************************)
(* _run_daemon with IderEngine.feed.                                       *)
(***************************************************************************)
\* Mutant: what connect() returns is dropped.
StartEngineAfresh ==
    /\ pc = "ready"
    /\ buf' = <<>>
    /\ pc' = "feeding"
    /\ UNCHANGED <<engine_buf, asked, handled, received, owed>>
    /\ UNCHANGED endpoint

\* connect() returns what its buffer holds; engine.start() sends, which may
\* fail; what was returned goes to the engine.
StartEngine ==
    /\ pc = "ready"
    /\ buf' = <<>>
    /\ \/ pc' = "feeding" /\ engine_buf' = buf
       \/ pc' = "closed" /\ UNCHANGED engine_buf
    /\ UNCHANGED <<asked, handled, received, owed>>
    /\ UNCHANGED endpoint

\* Mutant: feed() handles one message and returns.
FeedOne ==
    /\ pc = "feeding"
    /\ \E i \in Heads(engine_buf) :
           /\ msgs[i].kind = "frame"
           /\ Whole(engine_buf, i)
           /\ engine_buf' = Rest(engine_buf, i)
           /\ handled' = Append(handled, i)
    /\ pc' \in {"recv", "closed"}
    /\ UNCHANGED <<buf, asked, received, owed>>
    /\ UNCHANGED endpoint

\* One turn of feed()'s loop.  Handling a frame may end the session; so does a
\* sequence number out of step.
FeedFrame ==
    /\ pc = "feeding"
    /\ \E i \in Heads(engine_buf) :
           /\ msgs[i].kind = "frame"
           /\ Whole(engine_buf, i)
           /\ engine_buf' = Rest(engine_buf, i)
           /\ handled' = Append(handled, i)
    /\ pc' \in {"feeding", "closed"}
    /\ UNCHANGED <<buf, asked, received, owed>>
    /\ UNCHANGED endpoint

\* _peek_length does not know the command.
FeedUnknown ==
    /\ pc = "feeding"
    /\ \E i \in Heads(engine_buf) : msgs[i].kind = "unknown"
    /\ pc' = "closed"
    /\ engine_buf' = <<>>
    /\ UNCHANGED <<buf, asked, handled, received, owed>>
    /\ UNCHANGED endpoint

FeedReturns ==
    /\ pc = "feeding"
    /\ \A i \in Heads(engine_buf) :
           msgs[i].kind = "frame" /\ ~Whole(engine_buf, i)
    /\ pc' = "recv"
    /\ UNCHANGED <<buf, engine_buf, asked, handled, received, owed>>
    /\ UNCHANGED endpoint

\* session.recv() and the start of feed().
Recv ==
    /\ pc = "recv"
    /\ \E k \in 1 .. written - received :
           /\ engine_buf' = engine_buf \o Run(received, k)
           /\ received' = received + k
    /\ pc' = "feeding"
    /\ UNCHANGED <<buf, asked, handled, owed>>
    /\ UNCHANGED endpoint

\* The end of the stream, a failure, the stop flag or the toggle's verdict.
LoopEnds ==
    /\ pc = "recv"
    /\ Raise
    /\ UNCHANGED endpoint

---------------------------------------------------------------------------
Init ==
    /\ pc = "idle"
    /\ buf = <<>>
    /\ engine_buf = <<>>
    /\ asked = 0
    /\ handled = <<>>
    /\ received = 0
    /\ written = 0
    /\ msgs = <<>>
    /\ owed = FALSE

Handshake == OpenSocket \/ StartSession \/ Fill \/ FillFails \/ Reject \/ TakeReply

Engine == StartEngine \/ FeedFrame \/ FeedUnknown \/ FeedReturns \/ Recv

Next == Reply \/ SendFrame \/ Handshake \/ Engine \/ LoopEnds

Spec == Init /\ [][Next]_vars

\* connect() waits with a timeout, the daemon's loop goes on while there is
\* something to receive.  Nothing is assumed of the endpoint.
FairSpec == Spec /\ WF_vars(Handshake) /\ WF_vars(Engine)

---------------------------------------------------------------------------
\* The type invariant.  It bounds the handshake: three requests at most.
TypeOK ==
    /\ pc \in Pcs
    /\ buf \in Seq(Nat)
    /\ engine_buf \in Seq(Nat)
    /\ asked \in 0 .. 3
    /\ handled \in Seq(Nat)
    /\ received \in 0 .. written
    /\ written \in Nat
    /\ msgs \in Seq(Messages)
    /\ owed \in BOOLEAN

\* connect() and feed(): the bytes taken are the messages handled, complete and
\* in the order they were sent, and every byte received since is in one of the
\* two buffers, in order: none is lost, repeated or swapped in the hand-over.
Taken == IF handled = <<>> THEN 0
         ELSE LET m == msgs[Len(handled)] IN m.first + m.size - 1

StreamIntact ==
    pc # "closed" =>
        /\ \A n \in DOMAIN handled : handled[n] = n
        /\ buf \o engine_buf = Run(Taken, received - Taken)

\* _authenticate: the daemon serves only on a connection on which every request
\* was answered by a reply, the last reply said success, and no reply of an
\* insecure type led on to another request; what came after are frames.
ServesWhenAccepted ==
    pc \in Serving =>
        /\ asked > 0
        /\ Len(handled) > asked
        /\ msgs[handled[1 + asked]].status = "ok"
        /\ \A n \in 2 .. 1 + asked : msgs[handled[n]].kind = "auth"
        /\ \A n \in 2 .. asked : msgs[handled[n]].type # "insecure"
        /\ \A n \in 2 + asked .. Len(handled) : msgs[handled[n]].kind = "frame"

\* _fill: connect() ends, whatever the endpoint sends or withholds.
ConnectEnds == pc \in Awaiting ~> pc \notin Awaiting

\* feed(): a message is not left in a buffer until the endpoint happens to send
\* more: each one is handled unless the session ends.
FramesArrive == []<>(pc = "closed" \/ Len(handled) = Len(msgs))
=============================================================================
