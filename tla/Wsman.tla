------------------------------- MODULE Wsman -------------------------------
(***************************************************************************)
(* WsmanClient: built from the connection options and the TLS trust policy *)
(* they select, then one call at a time over HTTP.  A call is one request  *)
(* (Get, Put, a method) or an Enumerate followed by Pulls.  _execute sends *)
(* the request and classifies what comes of it; only reads are sent again, *)
(* and only when requests reports that there was no connection.            *)
(***************************************************************************)
EXTENDS Naturals, Sequences

CONSTANTS
    Instance,    \* instances of the class that is read
    Instances,   \* the order in which the endpoint enumerates them
    PageSize,    \* most instances in one PullResponse
    MaxRetries   \* WsmanClient(max_retries)

ASSUME ConstantsAssumption ==
    /\ Instances \in Seq(Instance)
    /\ PageSize \in Nat \ {0}
    /\ MaxRetries \in Nat

VARIABLES
    pc,        \* "new" | "idle" | "post" (inside _execute) | "done"
    options,   \* the connection options the client was built from
    peer,      \* history: what answered the connection a request last went to
    evidence,  \* last_peer_certificate
    op,        \* the public operation: get, put, enumerate, invoke
    verb,      \* the request in flight
    attempt,   \* _execute's attempt counter
    items,     \* enumerate's list so far
    result,    \* what the call returned or raised
    context,   \* endpoint: the enumeration context is still known
    cursor,    \* endpoint: how many instances the context has handed out
    applied,   \* endpoint: how often this call's mutation was carried out
    lost,      \* history: instances the client will not see: a Pull was executed
               \* and its page did not arrive, or a response gave no context to
               \* pull the rest with
    dry        \* history: the last response was a page of nothing and a context

vars == <<pc, options, peer, evidence, op, verb, attempt, items, result,
          context, cursor, applied, lost, dry>>

---------------------------------------------------------------------------
Operations == {"get", "put", "enumerate", "invoke"}

Verbs == {"Get", "Put", "Enumerate", "Pull", "Method"}

FirstVerb == [get |-> "Get", put |-> "Put", enumerate |-> "Enumerate",
              invoke |-> "Method"]

ErrorClasses == {"connection", "tls_validation", "authentication", "timeout",
                 "protocol", "remote_operation"}

Nothing == [kind |-> "none", cls |-> "none", indeterminate |-> FALSE]

Results == [kind : {"none", "value", "error"}, cls : ErrorClasses \cup {"none"},
            indeterminate : BOOLEAN]

---------------------------------------------------------------------------
(***************************************************************************)
(* tls.py: the trust policy.  A certificate is told by what would accept   *)
(* it: "pinned" is the leaf whose digest was recorded, "bundle" chains to  *)
(* ca_path, "system" to the CAs of the controller, "other" to nothing, and *)
(* several may turn up at one address over time.  "plain" is a peer that   *)
(* speaks HTTP.                                                            *)
(***************************************************************************)
Certificates == {"pinned", "bundle", "system", "other"}

Peers == Certificates \cup {"plain"}

\* The ways to write tls_fingerprint: not at all, as the recorded SHA-256 with
\* or without colons, as a digest of another length.
Fingerprints == {"none", "colons", "bare", "sha1"}

Options == [use_tls : BOOLEAN, allow_insecure_transport : BOOLEAN,
            validate_certs : BOOLEAN, ca_path : BOOLEAN,
            tls_fingerprint : Fingerprints]

\* Both spellings of the recorded digest name the same certificate; no other
\* length is a digest at all.
normalize_fingerprint(raw) ==
    IF raw \in {"colons", "bare"} THEN "pinned" ELSE "invalid"

\* TlsTrustPolicy.create raises otherwise.
create(o) ==
    /\ ~(o.ca_path /\ o.tls_fingerprint # "none")
    /\ o.tls_fingerprint # "none" =>
         normalize_fingerprint(o.tls_fingerprint) # "invalid"

\* enforce_transport_policy raises otherwise.
enforce_transport_policy(o) == o.use_tls \/ o.allow_insecure_transport

pinned(o) == o.tls_fingerprint # "none"

requests_verify(o) ==
    IF pinned(o) \/ ~o.validate_certs THEN "off"
    ELSE IF o.ca_path THEN "bundle" ELSE "system"

\* Mutant: the plain adapter is mounted whatever the policy says.
BuildPlainAdapter(o) == "none"

\* build_adapter: the assert_fingerprint of the mounted adapter.
build_adapter(o) ==
    IF pinned(o) THEN normalize_fingerprint(o.tls_fingerprint) ELSE "none"

\* urllib3's handshake under the adapter and session.verify.
Connects(p) ==
    IF ~options.use_tls THEN p = "plain"
    ELSE /\ p # "plain"
         /\ requests_verify(options) \in {"off", p}
         /\ build_adapter(options) \in {"none", p}

DefaultOptions ==
    [use_tls |-> TRUE, allow_insecure_transport |-> FALSE,
     validate_certs |-> TRUE, ca_path |-> FALSE, tls_fingerprint |-> "none"]

\* from_connection_options and __init__: a refusal leaves no client behind.
Construct(o) ==
    /\ pc = "new"
    /\ IF create(o) /\ enforce_transport_policy(o)
       THEN pc' = "idle" /\ options' = o /\ result' = Nothing
       ELSE /\ result' = [kind |-> "error", cls |-> "tls_validation",
                          indeterminate |-> FALSE]
            /\ UNCHANGED <<pc, options>>
    /\ UNCHANGED <<peer, evidence, op, verb, attempt, items, context, cursor,
                   applied, lost, dry>>

---------------------------------------------------------------------------
mutation == {"put", "invoke"}

\* The `retryable` argument of each caller of _execute.
retryable(v) == v \in {"Get", "Enumerate", "Pull"}

attempts_allowed == IF retryable(verb) THEN MaxRetries + 1 ELSE 1

Call(o) ==
    /\ pc = "idle"
    /\ pc' = "post"
    /\ op' = o
    /\ verb' = FirstVerb[o]
    /\ attempt' = 1
    /\ items' = <<>>
    /\ result' = Nothing
    /\ context' = FALSE
    /\ cursor' = 0
    /\ applied' = 0
    /\ lost' = FALSE
    /\ dry' = FALSE
    /\ UNCHANGED <<options, peer, evidence>>

---------------------------------------------------------------------------
(***************************************************************************)
(* The endpoint: a context hands each instance out once, in pages of any   *)
(* size up to the one asked for, and a Pull moves it forward whether or    *)
(* not its response arrives.  The Pull that ends the sequence closes it,   *)
(* with the last instance (as the repository's mock server does) or, with  *)
(* nothing more to hand out, later.                                        *)
(***************************************************************************)
Smaller(m, n) == IF m < n THEN m ELSE n

PageEnd == Smaller(cursor + PageSize, Len(Instances))

Page == SubSeq(Instances, cursor + 1, cursor')

Executed ==
    /\ CASE verb = "Enumerate" -> context' = TRUE /\ cursor' = 0
         [] verb = "Pull" /\ context ->
              /\ cursor' \in cursor .. PageEnd
              /\ context' \in BOOLEAN
              /\ context' \/ cursor' = Len(Instances)
         [] verb \in {"Get", "Put", "Method"} \/ (verb = "Pull" /\ ~context) ->
              UNCHANGED <<context, cursor>>
    /\ applied' = IF verb \in {"Put", "Method"} THEN applied + 1 ELSE applied

NotExecuted == UNCHANGED <<context, cursor, applied>>

---------------------------------------------------------------------------
(***************************************************************************)
(* _execute and _handle_response.                                          *)
(***************************************************************************)
\* The request goes out on a connection whose peer the handshake let through;
\* nothing else of what a response would tell is known yet.
Unread(p) == Connects(p) /\ peer' = p /\ UNCHANGED <<options, evidence>>

\* _handle_response takes the peer certificate off the connection, if it can.
Read(p) ==
    /\ Connects(p)
    /\ peer' = p
    /\ evidence' \in {"none"} \cup (Certificates \cap {p})
    /\ UNCHANGED options

Unsent == UNCHANGED <<options, peer, evidence>>

Return ==
    /\ pc' = "done"
    /\ result' = [Nothing EXCEPT !.kind = "value"]
    /\ dry' = FALSE
    /\ UNCHANGED <<op, verb, attempt>>

Raise(cls, indeterminate) ==
    /\ pc' = "done"
    /\ result' = [kind |-> "error", cls |-> cls, indeterminate |-> indeterminate]
    /\ dry' = FALSE
    /\ UNCHANGED <<op, verb, attempt, items>>

\* Mutant: the last attempt starts the count over instead of raising.
RetryForever(cls) ==
    IF attempt >= attempts_allowed /\ ~retryable(verb) THEN Raise(cls, FALSE)
    ELSE /\ attempt' = (attempt % attempts_allowed) + 1
         /\ dry' = FALSE
         /\ UNCHANGED <<pc, op, verb, items, result>>

RetryOrRaise(cls) ==
    IF attempt >= attempts_allowed THEN Raise(cls, FALSE)
    ELSE /\ attempt' = attempt + 1
         /\ dry' = FALSE
         /\ UNCHANGED <<pc, op, verb, items, result>>

\* ConnectTimeout, and a ConnectionError for want of a connection.
NotConnected ==
    /\ pc = "post"
    /\ \E cls \in {"timeout", "connection"} : RetryOrRaise(cls)
    /\ NotExecuted
    /\ Unsent
    /\ UNCHANGED lost

\* requests raises the same ConnectionError when an established connection
\* breaks before the response is in.
Dropped ==
    /\ pc = "post"
    /\ RetryOrRaise("connection")
    /\ Executed
    /\ \E p \in Peers : Unread(p)
    /\ lost' = (lost \/ verb = "Pull")

SslError ==
    /\ pc = "post"
    /\ options.use_tls
    /\ Raise("tls_validation", FALSE)
    /\ NotExecuted
    /\ Unsent
    /\ UNCHANGED lost

\* Mutant: a read timeout is not marked indeterminate.
ReadTimeoutUnmarked ==
    /\ pc = "post"
    /\ Raise("timeout", FALSE)
    /\ Executed \/ NotExecuted
    /\ \E p \in Peers : Unread(p)
    /\ UNCHANGED lost

\* Mutant: a read timeout is treated like a connect timeout.
ReadTimeoutRetried ==
    /\ pc = "post"
    /\ RetryOrRaise("timeout")
    /\ Executed \/ NotExecuted
    /\ \E p \in Peers : Unread(p)
    /\ UNCHANGED lost

\* The body was on the wire: executed or not, never sent again.
ReadTimeout ==
    /\ pc = "post"
    /\ Raise("timeout", TRUE)
    /\ Executed \/ NotExecuted
    /\ \E p \in Peers : Unread(p)
    /\ UNCHANGED lost

\* 401; another bad status or a SOAP Fault; a non-zero ReturnValue; and a
\* response that cannot be read although the request was carried out.
Rejected ==
    /\ pc = "post"
    /\ \/ Raise("authentication", FALSE) /\ NotExecuted
       \/ Raise("protocol", FALSE) /\ NotExecuted
       \/ verb = "Method" /\ Raise("remote_operation", FALSE) /\ NotExecuted
       \/ Raise("protocol", FALSE) /\ Executed
    /\ \E p \in Peers : Read(p)
    /\ UNCHANGED lost

\* The loop of enumerate goes on with the context a response carries.
PullNext(empty) ==
    /\ verb' = "Pull"
    /\ attempt' = 1
    /\ dry' = empty
    /\ UNCHANGED <<pc, op, result, lost>>

\* Where the response has none it ends, EndOfSequence or not, and returns what
\* it has.
NoContext == Return /\ lost' = (lost \/ cursor' < Len(Instances))

\* A response without Fault.
Answered ==
    /\ pc = "post"
    /\ verb = "Pull" => context
    /\ Executed
    /\ \E p \in Peers : Read(p)
    /\ \/ /\ verb \in {"Get", "Put", "Method"}
          /\ Return
          /\ UNCHANGED <<items, lost>>
       \/ /\ verb = "Enumerate"
          /\ PullNext(FALSE) \/ NoContext
          /\ UNCHANGED items
       \/ /\ verb = "Pull"
          /\ items' = items \o Page
          /\ (context' /\ PullNext(cursor' = cursor)) \/ NoContext

\* The caller takes the result and may make another call.
Finish ==
    /\ pc = "done"
    /\ pc' = "idle"
    /\ UNCHANGED <<options, peer, evidence, op, verb, attempt, items, result,
                   context, cursor, applied, lost, dry>>

\* close: the module is done with the client; the next one builds its own.
Close ==
    /\ pc = "idle"
    /\ pc' = "new"
    /\ options' = DefaultOptions
    /\ peer' = "none"
    /\ evidence' = "none"
    /\ UNCHANGED <<op, verb, attempt, items, result, context, cursor, applied,
                   lost, dry>>

Exchange ==
    \/ NotConnected \/ Dropped \/ SslError \/ ReadTimeout \/ Rejected \/ Answered

Next ==
    \/ \E o \in Options : Construct(o)
    \/ Close
    \/ \E o \in Operations : Call(o)
    \/ Exchange
    \/ Finish

Init ==
    /\ pc = "new"
    /\ options = DefaultOptions
    /\ peer = "none"
    /\ evidence = "none"
    /\ op = "get"
    /\ verb = "Get"
    /\ attempt = 0
    /\ items = <<>>
    /\ result = Nothing
    /\ context = FALSE
    /\ cursor = 0
    /\ applied = 0
    /\ lost = FALSE
    /\ dry = FALSE

Spec == Init /\ [][Next]_vars

\* Every exchange ends: connect_timeout and timeout bound the two waits.
FairSpec == Spec /\ WF_vars(Exchange)

---------------------------------------------------------------------------
(***************************************************************************)
(* Properties.                                                             *)
(***************************************************************************)
\* Type correctness; no request goes out more often than max_retries allows.
TypeOK ==
    /\ pc \in {"new", "idle", "post", "done"}
    /\ options \in Options
    /\ peer \in Peers \cup {"none"}
    /\ evidence \in Certificates \cup {"none"}
    /\ op \in Operations
    /\ verb \in Verbs
    /\ attempt \in 0 .. MaxRetries + 1
    /\ items \in Seq(Instance)
    /\ result \in Results
    /\ context \in BOOLEAN
    /\ cursor \in 0 .. Len(Instances)
    /\ applied \in Nat
    /\ lost \in BOOLEAN
    /\ dry \in BOOLEAN

\* _execute: a mutation is carried out at most once per call, whatever happens
\* to the connection.
MutationAtMostOnce == applied <= 1

\* TimeoutError_: "a timeout before the request was transmitted is a safe,
\* retryable failure", so a mutation that ends in a timeout not marked
\* indeterminate was never carried out; one that returned was.
VerdictIsTrue ==
    (pc = "done" /\ op \in mutation) =>
        /\ result.kind = "value" => applied = 1
        /\ (result.cls = "timeout" /\ ~result.indeterminate) => applied = 0

\* The connection options' promise: whatever happens to the connections, a
\* request reaches only a peer that the options name, and plaintext only where
\* it was asked for twice; a pinned client never reports another certificate.
PeerIsTrusted ==
    /\ peer = "plain" => ~options.use_tls /\ options.allow_insecure_transport
    /\ peer \in Certificates =>
         /\ options.use_tls
         /\ options.tls_fingerprint # "none" => peer = "pinned"
         /\ (options.tls_fingerprint = "none" /\ options.validate_certs) =>
              peer = IF options.ca_path THEN "bundle" ELSE "system"
    /\ (evidence # "none" /\ options.tls_fingerprint # "none") =>
         evidence = "pinned"

\* The contract the modules and the role are built on: see RemoteCall.
Told ==
    IF pc # "done" THEN "none"
    ELSE IF result.kind = "value" THEN "done"
    ELSE IF result.cls = "timeout" /\ ~result.indeterminate THEN "not_sent"
    ELSE "unsure"

Contract == INSTANCE RemoteCall WITH
    phase <- IF pc = "post" THEN "open" ELSE IF pc = "done" THEN "closed"
             ELSE "idle",
    mutating <- op \in mutation,
    effects <- applied,
    answer <- Told

ImplementsContract == Contract!Spec

\* enumerate: the list it returns is every instance of the class, once and in
\* order, however the endpoint pages it and however often a request was sent
\* again, unless a connection broke under a Pull that had already moved the
\* context on or a response gave neither a context nor EndOfSequence, which the
\* loop takes for the end.
EnumerateIsComplete ==
    (pc = "done" /\ op = "enumerate" /\ result.kind = "value" /\ ~lost)
        => items = Instances

\* _execute's and enumerate's loops end: every call returns or raises, unless
\* the endpoint goes on answering Pulls with nothing but a context, of which
\* enumerate never tires.
CallEnds == []<>(pc # "post") \/ []<>dry
============================================================================
