---------------------------- MODULE WsmanProofs ----------------------------
(***************************************************************************)
(* What WsmanClient guarantees for every number of retries, every class    *)
(* and every page size, connections that break after the request included: *)
(* it implements the contract its callers build on (RemoteCall), whoever   *)
(* answers is one the options accept, and an enumeration is whole.         *)
(***************************************************************************)
EXTENDS Wsman, SequenceTheorems, TLAPS

\* A mutation's request is the only one of its call and is sent once: while it
\* is in flight nothing has been carried out, and no mutation's verb is ever
\* in flight for a read.
OnceInv ==
    /\ applied \in {0, 1}
    /\ attempt \in Nat
    /\ verb \in Verbs
    /\ pc = "post" => attempt >= 1 /\ applied = 0
    /\ pc = "post" => (op \in mutation <=> ~retryable(verb))
    /\ op \notin mutation => applied = 0
    /\ VerdictIsTrue

LEMMA OnceInit == Init => OnceInv
  BY DEF Init, OnceInv, VerdictIsTrue, mutation, Verbs

\* What an exchange does to the count, whatever it does to the context.
LEMMA ExecutedCounts ==
    /\ Executed => applied' = IF verb \in {"Put", "Method"} THEN applied + 1
                              ELSE applied
    /\ NotExecuted => applied' = applied
  BY DEF Executed, NotExecuted

\* Building and closing a client make no call.
LEMMA OutsideCalls ==
    /\ \A o \in Options : Construct(o) => pc' \in {"new", "idle"} /\ UNCHANGED <<op, verb, attempt, items, context, cursor, applied, lost, dry>>
    /\ Close => pc' = "new" /\ UNCHANGED <<op, verb, attempt, items, result, context, cursor, applied, lost, dry>>
  BY DEF Construct, Close

LEMMA ExchangeFrame ==
    Exchange => pc = "post" /\ op' = op /\ pc' \in {"post", "done"}
<1> SUFFICES ASSUME Exchange
             PROVE  pc = "post" /\ op' = op /\ pc' \in {"post", "done"}
  OBVIOUS
<1>1. CASE NotConnected
  BY <1>1 DEF NotConnected, RetryOrRaise, Raise
<1>2. CASE Dropped
  BY <1>2 DEF Dropped, RetryOrRaise, Raise
<1>3. CASE SslError \/ ReadTimeout \/ Rejected
  BY <1>3 DEF SslError, ReadTimeout, Rejected, Raise
<1>4. CASE Answered
  <2>1. pc = "post" /\ op' = op
    BY <1>4 DEF Answered, PullNext, NoContext, Return
  <2>2. pc' \in {"post", "done"}
    BY <1>4 DEF Answered, PullNext, NoContext, Return
  <2> QED BY <2>1, <2>2
<1> QED BY <1>1, <1>2, <1>3, <1>4 DEF Exchange

LEMMA OnceStep == OnceInv /\ [Next]_vars => OnceInv'
<1> SUFFICES ASSUME OnceInv, [Next]_vars PROVE OnceInv'
  OBVIOUS
<1> USE DEF OnceInv, VerdictIsTrue, mutation, retryable, Verbs
<1>1. ASSUME NEW o \in Operations, Call(o)
      PROVE  OnceInv'
  BY <1>1 DEF Call, Operations, FirstVerb
<1>2. CASE NotConnected
  <2>1. PICK cls \in {"timeout", "connection"} : RetryOrRaise(cls)
    BY <1>2 DEF NotConnected
  <2>2. CASE Raise(cls, FALSE)
    BY <1>2, <2>1, <2>2, ExecutedCounts DEF NotConnected, Raise
  <2>3. CASE attempt' = attempt + 1 /\ UNCHANGED <<pc, op, verb, items, result>>
    BY <1>2, <2>3, ExecutedCounts DEF NotConnected
  <2> QED BY <2>1, <2>2, <2>3 DEF RetryOrRaise
<1>3. CASE Dropped
  <2>1. CASE Raise("connection", FALSE)
    BY <1>3, <2>1, ExecutedCounts DEF Dropped, Raise
  <2>2. CASE attempt' = attempt + 1 /\ UNCHANGED <<pc, op, verb, items, result>>
    <3>1. retryable(verb)
      BY <1>3, <2>2 DEF Dropped, RetryOrRaise, Raise, attempts_allowed
    <3>2. applied' = applied
      BY <1>3, <3>1, ExecutedCounts DEF Dropped
    <3> QED BY <1>3, <2>2, <3>2 DEF Dropped
  <2> QED BY <1>3, <2>1, <2>2 DEF Dropped, RetryOrRaise
<1>4. CASE SslError
  BY <1>4, ExecutedCounts DEF SslError, Raise
<1>5. CASE ReadTimeout
  BY <1>5, ExecutedCounts DEF ReadTimeout, Raise
<1>6. CASE Rejected
  <2>1. PICK cls \in {"authentication", "protocol", "remote_operation"} :
             pc = "post" /\ Raise(cls, FALSE)
    BY <1>6 DEF Rejected
  <2>2. Executed \/ NotExecuted
    BY <1>6 DEF Rejected
  <2>3. applied' \in {0, 1} /\ (op \notin mutation => applied' = 0)
    BY <2>1, <2>2, ExecutedCounts
  <2> QED BY <2>1, <2>3 DEF Raise
<1>7. CASE Answered
  <2>0. pc = "post" /\ op' = op
    BY <1>7 DEF Answered, PullNext, NoContext, Return
  <2>1. CASE verb \in {"Get", "Put", "Method"}
    <3>1. /\ pc' = "done" /\ result' = [Nothing EXCEPT !.kind = "value"]
          /\ UNCHANGED <<op, verb, attempt>>
      BY <1>7, <2>1 DEF Answered, Return
    <3>2. result'.cls = "none"
      BY <3>1 DEF Nothing
    <3>3. op \in mutation => applied' = 1
      BY <1>7, <2>0, <2>1, ExecutedCounts DEF Answered
    <3>4. applied' \in {0, 1} /\ (op \notin mutation => applied' = 0)
      BY <1>7, <2>0, ExecutedCounts DEF Answered
    <3> QED BY <3>1, <3>2, <3>3, <3>4
  <2>2. CASE verb = "Enumerate"
    <3>1. /\ applied' = applied /\ verb' \in {"Pull", verb}
          /\ attempt' \in {1, attempt} /\ pc' \in {pc, "done"}
      BY <1>7, <2>2, ExecutedCounts DEF Answered, PullNext, NoContext, Return
    <3>2. op \notin mutation
      BY <2>0, <2>2
    <3> QED BY <2>0, <2>2, <3>1, <3>2
  <2>3. CASE verb = "Pull"
    <3>1. applied' = applied /\ verb' = verb
      BY <1>7, <2>3, ExecutedCounts DEF Answered, PullNext, NoContext, Return
    <3>2. op \notin mutation
      BY <2>0, <2>3
    <3>3. attempt' \in {1, attempt} /\ pc' \in {pc, "done"}
      BY <1>7, <2>3 DEF Answered, PullNext, NoContext, Return
    <3> QED BY <2>0, <2>3, <3>1, <3>2, <3>3
  <2> QED BY <2>1, <2>2, <2>3
<1>8. CASE Finish
  BY <1>8 DEF Finish
<1>9. CASE UNCHANGED vars
  BY <1>9 DEF vars
<1>10. ASSUME NEW o \in Options, Construct(o)
       PROVE  OnceInv'
  BY <1>10, OutsideCalls
<1>11. CASE Close
  BY <1>11, OutsideCalls
<1> QED
  BY <1>1, <1>2, <1>3, <1>4, <1>5, <1>6, <1>7, <1>8, <1>9, <1>10, <1>11
  DEF Next, Exchange

LEMMA OnceInvariant == Spec => []OnceInv
  BY OnceInit, OnceStep, PTL DEF Spec

\* A Put or a method call is carried out at most once, for every max_retries
\* and although a broken connection is reported like a refused one (_execute).
THEOREM MutatesAtMostOnce == Spec => []MutationAtMostOnce
<1>1. OnceInv => MutationAtMostOnce
  BY DEF OnceInv, MutationAtMostOnce
<1> QED BY <1>1, OnceInvariant, PTL

\* A timeout not marked indeterminate is one from before the request was sent,
\* and a mutation that returned was carried out (TimeoutError_).
THEOREM TimeoutVerdicts == Spec => []VerdictIsTrue
<1>1. OnceInv => VerdictIsTrue
  BY DEF OnceInv
<1> QED BY <1>1, OnceInvariant, PTL

---------------------------------------------------------------------------
(***************************************************************************)
(* The contract.                                                           *)
(***************************************************************************)
LEMMA ContractInit == Init => Contract!Init
  BY DEF Init, Contract!Init, mutation, Told

LEMMA ContractStep == OnceInv /\ OnceInv' /\ [Next]_vars => [Contract!Next]_(Contract!vars)
<1> SUFFICES ASSUME OnceInv, OnceInv', [Next]_vars
             PROVE  [Contract!Next]_(Contract!vars)
  OBVIOUS
<1> USE DEF Contract!vars
<1>1. ASSUME NEW o \in Operations, Call(o)
      PROVE  Contract!Begin
  BY <1>1 DEF Call, Contract!Begin, Told
\* Within a call nothing shows; its end is an End of the contract.
<1>2. CASE pc = "post" /\ pc' = "post" /\ op' = op
  <2>1. applied = 0 /\ applied' = 0
    BY <1>2 DEF OnceInv
  <2> QED BY <1>2, <2>1 DEF Told
<1>3. CASE pc = "post" /\ pc' = "done" /\ op' = op
  <2>1. applied' \in {0, 1}
    BY DEF OnceInv
  <2>2. op \in mutation /\ result'.kind = "value" => applied' = 1
    BY <1>3 DEF OnceInv, VerdictIsTrue
  <2>3. op \in mutation /\ result'.cls = "timeout" /\ ~result'.indeterminate => applied' = 0
    BY <1>3 DEF OnceInv, VerdictIsTrue
  <2>4. op \notin mutation => applied' = 0
    BY <1>3 DEF OnceInv
  <2>5. Contract!End
    BY <1>3, <2>1, <2>2, <2>3, <2>4 DEF Contract!End, Told
  <2> QED BY <2>5 DEF Contract!Next
<1>4. CASE Exchange
  BY <1>2, <1>3, <1>4, ExchangeFrame
<1>5. CASE Finish
  <2>1. Contract!Release
    BY <1>5 DEF Finish, Contract!Release, Told
  <2> QED BY <2>1 DEF Contract!Next
<1>6. ASSUME NEW o \in Options, Construct(o)
      PROVE  UNCHANGED Contract!vars
  BY <1>6 DEF Construct, Told
<1>7. CASE Close
  BY <1>7 DEF Close, Told
<1>8. CASE UNCHANGED vars
  BY <1>8 DEF vars, Told
<1> QED
  BY <1>1, <1>4, <1>5, <1>6, <1>7, <1>8 DEF Next, Contract!Next

\* WsmanClient implements the contract that the modules and the role are built
\* on, for every max_retries and every class: however an exchange ends, what
\* the caller is told bounds what was done (_execute, TimeoutError_).
THEOREM MeetsContract == Spec => ImplementsContract
  BY ContractInit, ContractStep, OnceInvariant, PTL
  DEF Spec, ImplementsContract, Contract!Spec

---------------------------------------------------------------------------
(***************************************************************************)
(* The peer.                                                               *)
(***************************************************************************)
\* A client exists only under options that passed create and
\* enforce_transport_policy, and nothing has been reached before.
PeerInv ==
    /\ options \in Options
    /\ pc = "new" => peer = "none" /\ evidence = "none"
    /\ pc # "new" => create(options) /\ enforce_transport_policy(options)
    /\ PeerIsTrusted

\* What the handshake lets through under a policy that was accepted.
LEMMA ConnectsTrusted ==
    ASSUME options \in Options, create(options), enforce_transport_policy(options),
           NEW p \in Peers, Connects(p)
    PROVE  /\ p = "plain" => ~options.use_tls /\ options.allow_insecure_transport
           /\ p \in Certificates =>
                /\ options.use_tls
                /\ options.tls_fingerprint # "none" => p = "pinned"
                /\ (options.tls_fingerprint = "none" /\ options.validate_certs) =>
                     p = IF options.ca_path THEN "bundle" ELSE "system"
           /\ (p # "plain" /\ options.tls_fingerprint # "none") => p = "pinned"
  BY DEF Connects, create, enforce_transport_policy, requests_verify, pinned,
         build_adapter, normalize_fingerprint, Options, Fingerprints, Peers,
         Certificates

LEMMA PeerStep == PeerInv /\ [Next]_vars => PeerInv'
<1> SUFFICES ASSUME PeerInv, [Next]_vars PROVE PeerInv'
  OBVIOUS
<1> USE DEF PeerInv
<1>1. ASSUME NEW o \in Options, Construct(o)
      PROVE  PeerInv'
  <2>1. CASE create(o) /\ enforce_transport_policy(o)
    <3>1. pc' = "idle" /\ options' = o /\ peer' = "none" /\ evidence' = "none"
      BY <1>1, <2>1 DEF Construct
    <3> QED BY <1>1, <2>1, <3>1 DEF PeerIsTrusted, Certificates, create, enforce_transport_policy
  <2>2. CASE ~(create(o) /\ enforce_transport_policy(o))
    BY <1>1, <2>2 DEF Construct, PeerIsTrusted
  <2> QED BY <2>1, <2>2
<1>2. CASE Close
  BY <1>2 DEF Close, PeerIsTrusted, DefaultOptions, Options, Fingerprints, Certificates
<1>3. CASE Exchange
  <2>1. pc = "post" /\ pc' \in {"post", "done"}
    BY <1>3, ExchangeFrame
  <2>2. CASE UNCHANGED <<options, peer, evidence>>
    BY <2>1, <2>2 DEF PeerIsTrusted, create, enforce_transport_policy
  <2>3. ASSUME NEW p \in Peers, Connects(p), peer' = p, options' = options,
               evidence' \in {"none", evidence} \cup (Certificates \cap {p})
        PROVE  PeerInv'
    <3>1. create(options) /\ enforce_transport_policy(options)
      BY <2>1
    <3>2. PeerIsTrusted'
      BY <2>3, <3>1, ConnectsTrusted DEF PeerIsTrusted, Peers, Certificates
    <3> QED BY <2>1, <2>3, <3>1, <3>2 DEF create, enforce_transport_policy
  <2>4. NotConnected \/ SslError => UNCHANGED <<options, peer, evidence>>
    BY DEF NotConnected, SslError, Unsent
  <2>5. Dropped \/ ReadTimeout => \E p \in Peers : Unread(p)
    BY DEF Dropped, ReadTimeout
  <2>6. Rejected \/ Answered => \E p \in Peers : Read(p)
    BY DEF Rejected, Answered
  <2> QED BY <1>3, <2>2, <2>3, <2>4, <2>5, <2>6 DEF Exchange, Unread, Read
<1>4. CASE (\E o \in Operations : Call(o)) \/ Finish \/ UNCHANGED vars
  <2>1. UNCHANGED <<options, peer, evidence>> /\ (pc' = "new" <=> pc = "new")
    BY <1>4 DEF Call, Finish, vars
  <2> QED BY <2>1 DEF PeerIsTrusted, create, enforce_transport_policy
<1> QED BY <1>1, <1>2, <1>3, <1>4 DEF Next

\* No request goes to a peer that the connection options do not accept, under
\* every combination of them and whoever answers (from_connection_options,
\* TlsTrustPolicy, FingerprintPinningAdapter).
THEOREM TrustsOnlyItsPeer == Spec => []PeerIsTrusted
<1>1. Init => PeerInv
  BY DEF Init, PeerInv, PeerIsTrusted, DefaultOptions, Options, Fingerprints, Certificates
<1>2. PeerInv => PeerIsTrusted
  BY DEF PeerInv
<1> QED BY <1>1, <1>2, PeerStep, PTL DEF Spec

---------------------------------------------------------------------------
(***************************************************************************)
(* Types, and enumerations.                                                *)
(***************************************************************************)
LEMMA PageType ==
    ASSUME TypeOK, cursor' \in cursor .. PageEnd
    PROVE  /\ cursor' \in cursor .. Len(Instances)
           /\ Page \in Seq(Instance)
<1>1. Len(Instances) \in Nat /\ cursor \in Nat /\ cursor <= Len(Instances) /\ PageSize \in Nat
  BY ConstantsAssumption DEF TypeOK
<1>2. cursor' \in cursor .. Len(Instances)
  BY <1>1 DEF PageEnd, Smaller
<1>3. \A i \in cursor + 1 .. cursor' : Instances[i] \in Instance
  BY <1>1, <1>2, ConstantsAssumption
<1>4. Page \in Seq(Instance)
  BY <1>1, <1>2, <1>3, SubSeqProperties, ConstantsAssumption DEF Page
<1> QED BY <1>2, <1>4

\* A page continues the prefix that was handed out before it.
LEMMA PagesJoin ==
    ASSUME NEW m \in 0 .. Len(Instances), NEW n \in m .. Len(Instances)
    PROVE  SubSeq(Instances, 1, m) \o SubSeq(Instances, m + 1, n) = SubSeq(Instances, 1, n)
<1>1. Len(Instances) \in Nat /\ 1 \in 1 .. Len(Instances) + 1 /\ m \in 1 - 1 .. Len(Instances)
  BY ConstantsAssumption
<1> QED BY <1>1, ConcatAdjacentSubSeq, ConstantsAssumption

\* What an exchange leaves of the endpoint's side of a call.
LEMMA EndpointType ==
    ASSUME TypeOK, Executed \/ NotExecuted
    PROVE  context' \in BOOLEAN /\ cursor' \in 0 .. Len(Instances) /\ applied' \in Nat
<1>1. CASE NotExecuted
  BY <1>1 DEF NotExecuted, TypeOK
<1>2. CASE Executed
  <2>1. CASE verb = "Enumerate"
    BY <1>2, <2>1, ConstantsAssumption DEF Executed, TypeOK
  <2>2. CASE verb # "Enumerate"
    <3>1. CASE verb = "Pull" /\ context
      <4>1. cursor' \in cursor .. PageEnd /\ context' \in BOOLEAN
        BY <1>2, <3>1 DEF Executed
      <4>2. cursor' \in cursor .. Len(Instances)
        BY <4>1, PageType
      <4>3. cursor' \in 0 .. Len(Instances)
        BY <4>2, ConstantsAssumption DEF TypeOK
      <4>4. applied' \in Nat
        BY <1>2, <3>1 DEF Executed, TypeOK
      <4> QED BY <4>1, <4>3, <4>4
    <3>2. CASE ~(verb = "Pull" /\ context)
      <4>1. verb \in {"Get", "Put", "Method"} \/ (verb = "Pull" /\ ~context)
        BY <2>2, <3>2 DEF TypeOK, Verbs
      <4>2. UNCHANGED <<context, cursor>>
        BY <1>2, <4>1 DEF Executed
      <4> QED BY <1>2, <4>2 DEF Executed, TypeOK
    <3> QED BY <3>1, <3>2
  <2> QED BY <2>1, <2>2
<1> QED BY <1>1, <1>2

\* How an exchange ends: it raises, is sent again, or is answered.
Raises ==
    /\ pc' = "done"
    /\ result' \in Results
    /\ result'.kind = "error"
    /\ dry' = FALSE
    /\ UNCHANGED <<op, verb, attempt, items>>

Resends ==
    /\ attempt' = attempt + 1
    /\ attempt < MaxRetries + 1
    /\ dry' = FALSE
    /\ UNCHANGED <<pc, op, verb, items, result>>

LEMMA ExchangeForms ==
    ASSUME TypeOK, Exchange
    PROVE  /\ pc = "post"
           /\ Executed \/ NotExecuted
           /\ lost' \in BOOLEAN /\ dry' \in BOOLEAN
           /\ peer' \in Peers \cup {peer}
           /\ evidence' \in Certificates \cup {"none", evidence}
           /\ options' = options
           /\ Answered \/ Raises \/ Resends
<1>1. ASSUME NEW cls \in ErrorClasses, NEW b \in BOOLEAN, Raise(cls, b)
      PROVE  Raises
  BY <1>1 DEF Raise, Raises, Results
<1>2. ASSUME NEW cls \in ErrorClasses, RetryOrRaise(cls)
      PROVE  Raises \/ Resends
  <2>1. CASE attempt >= attempts_allowed
    BY <1>1, <1>2, <2>1 DEF RetryOrRaise
  <2>2. CASE ~(attempt >= attempts_allowed)
    <3>1. attempt < MaxRetries + 1
      BY <2>2, ConstantsAssumption DEF attempts_allowed, TypeOK
    <3> QED BY <1>2, <2>2, <3>1 DEF RetryOrRaise, Resends
  <2> QED BY <2>1, <2>2
<1>d. Raises \/ Resends => dry' \in BOOLEAN
  BY DEF Raises, Resends
<1>3. CASE NotConnected
  BY <1>2, <1>3, <1>d DEF NotConnected, Unsent, ErrorClasses, TypeOK
<1>4. CASE Dropped
  <2>1. Raises \/ Resends
    BY <1>2, <1>4 DEF Dropped, ErrorClasses
  <2>2. lost' \in BOOLEAN
    BY <1>4 DEF Dropped, TypeOK
  <2> QED BY <1>4, <1>d, <2>1, <2>2 DEF Dropped, Unread
<1>5. CASE SslError
  BY <1>1, <1>5, <1>d DEF SslError, Unsent, ErrorClasses, TypeOK
<1>6. CASE ReadTimeout
  BY <1>1, <1>6, <1>d DEF ReadTimeout, Unread, ErrorClasses, TypeOK
<1>7. CASE Rejected
  BY <1>1, <1>7, <1>d DEF Rejected, Read, ErrorClasses, TypeOK
<1>8. CASE Answered
  <2>1. lost' \in BOOLEAN /\ dry' \in BOOLEAN
    <3>1. CASE Return /\ lost' = lost
      BY <3>1 DEF Return, TypeOK
    <3>2. CASE PullNext(FALSE) \/ PullNext(cursor' = cursor)
      BY <3>2 DEF PullNext, TypeOK
    <3>3. CASE NoContext
      BY <3>3 DEF NoContext, Return, TypeOK
    <3> QED BY <1>8, <3>1, <3>2, <3>3 DEF Answered
  <2> QED BY <1>8, <2>1 DEF Answered, Read, TypeOK
<1> QED BY <1>3, <1>4, <1>5, <1>6, <1>7, <1>8 DEF Exchange

\* While a Pull is in flight the list so far is the prefix that the context
\* has handed out; before the first one it is empty.
EnumInv ==
    /\ pc = "post" => (op = "enumerate" <=> verb \in {"Enumerate", "Pull"})
    /\ (pc = "post" /\ verb = "Enumerate") => items = <<>>
    /\ (pc = "post" /\ verb = "Pull" /\ ~lost) =>
         items = SubSeq(Instances, 1, cursor)
    /\ EnumerateIsComplete

EnumTypeInv == TypeOK /\ EnumInv

LEMMA AnsweredStep ==
    ASSUME EnumTypeInv, Answered
    PROVE  EnumTypeInv'
<1> USE DEF EnumTypeInv
<1>1. Exchange
  BY DEF Exchange
<1>2. /\ context' \in BOOLEAN /\ cursor' \in 0 .. Len(Instances) /\ applied' \in Nat
      /\ pc = "post" /\ lost' \in BOOLEAN /\ dry' \in BOOLEAN /\ peer' \in Peers \cup {"none"}
      /\ evidence' \in Certificates \cup {"none"} /\ options' \in Options
  BY <1>1, ExchangeForms, EndpointType DEF TypeOK
<1>3. Return => /\ pc' = "done" /\ result' \in Results
                /\ UNCHANGED <<op, verb, attempt>>
  BY DEF Return, Nothing, Results
<1>4. CASE verb \in {"Get", "Put", "Method"}
  <2>1. Return /\ UNCHANGED items
    BY <1>4 DEF Answered
  <2>2. op # "enumerate"
    BY <1>2, <1>4 DEF EnumInv
  <2>3. TypeOK'
    BY <1>2, <1>3, <2>1 DEF TypeOK
  <2> QED BY <1>3, <2>1, <2>2, <2>3 DEF EnumInv, EnumerateIsComplete
\* What a response brings, and how the loop goes on.
<1>5. ASSUME verb \in {"Enumerate", "Pull"}, items' \in Seq(Instance),
             ~lost => items' = SubSeq(Instances, 1, cursor'),
             NoContext \/ \E empty \in BOOLEAN : PullNext(empty)
      PROVE  EnumTypeInv'
  <2>1. op = "enumerate"
    BY <1>2, <1>5 DEF EnumInv
  <2>2. CASE NoContext
    <3>1. Return /\ lost' = (lost \/ cursor' < Len(Instances))
      BY <2>2 DEF NoContext
    <3>2. TypeOK'
      BY <1>2, <1>3, <1>5, <3>1 DEF TypeOK
    <3>3. ASSUME ~lost' PROVE items' = Instances
      <4>1. ~lost /\ ~(cursor' < Len(Instances))
        BY <3>1, <3>3, Zenon
      <4>2. cursor' = Len(Instances)
        BY <1>2, <4>1, ConstantsAssumption
      <4> QED BY <1>5, <4>1, <4>2, SubSeqFull, ConstantsAssumption
    <3> QED BY <1>3, <3>1, <3>2, <3>3 DEF EnumInv, EnumerateIsComplete
  <2>3. ASSUME NEW empty \in BOOLEAN, PullNext(empty) PROVE EnumTypeInv'
    <3>1. verb' = "Pull" /\ attempt' = 1 /\ UNCHANGED <<pc, op, result, lost>>
      BY <2>3 DEF PullNext
    <3>2. TypeOK'
      BY <1>2, <1>5, <3>1, ConstantsAssumption DEF TypeOK, Verbs
    <3> QED BY <1>2, <1>5, <2>1, <3>1, <3>2 DEF EnumInv, EnumerateIsComplete
  <2> QED BY <1>5, <2>2, <2>3
<1>6. CASE verb = "Enumerate"
  <2>1. items' = items /\ items = <<>> /\ cursor' = 0
    BY <1>2, <1>6 DEF Answered, Executed, EnumInv
  <2>2. items' \in Seq(Instance) /\ items' = SubSeq(Instances, 1, cursor')
    BY <2>1, SubSeqEmpty, ConstantsAssumption
  <2>3. NoContext \/ \E empty \in BOOLEAN : PullNext(empty)
    BY <1>6 DEF Answered
  <2> QED BY <1>5, <1>6, <2>2, <2>3
<1>7. CASE verb = "Pull"
  <2>1. items' = items \o Page /\ cursor' \in cursor .. PageEnd
    BY <1>7 DEF Answered, Executed
  <2>2. items' \in Seq(Instance)
    BY <2>1, PageType, ConcatProperties DEF TypeOK
  <2>3. ASSUME ~lost
        PROVE  items' = SubSeq(Instances, 1, cursor')
    <3>1. items = SubSeq(Instances, 1, cursor)
      BY <1>2, <1>7, <2>3 DEF EnumInv
    <3>2. /\ cursor \in 0 .. Len(Instances) /\ cursor' \in cursor .. Len(Instances)
          /\ Len(Instances) \in Nat
      BY <2>1, PageType, ConstantsAssumption DEF TypeOK
    <3>3. SubSeq(Instances, 1, cursor) \o SubSeq(Instances, cursor + 1, cursor')
            = SubSeq(Instances, 1, cursor')
      BY <3>2, PagesJoin
    <3> QED BY <2>1, <3>1, <3>3 DEF Page
  <2>4. NoContext \/ \E empty \in BOOLEAN : PullNext(empty)
    BY <1>7 DEF Answered
  <2> QED BY <1>5, <1>7, <2>2, <2>3, <2>4
<1> QED BY <1>4, <1>6, <1>7 DEF Answered

LEMMA EnumTypeStep == EnumTypeInv /\ [Next]_vars => EnumTypeInv'
<1> SUFFICES ASSUME EnumTypeInv, [Next]_vars PROVE EnumTypeInv'
  OBVIOUS
<1> USE DEF EnumTypeInv
<1>1. ASSUME NEW o \in Operations, Call(o)
      PROVE  EnumTypeInv'
  <2>1. verb' \in Verbs /\ (o = "enumerate" <=> verb' = "Enumerate") /\ verb' # "Pull"
    BY <1>1 DEF Call, Operations, FirstVerb, Verbs
  <2>2. /\ items' = <<>> /\ result' = Nothing /\ pc' = "post" /\ op' = o
        /\ attempt' = 1 /\ cursor' = 0 /\ applied' = 0
        /\ UNCHANGED <<options, peer, evidence>>
    BY <1>1 DEF Call
  <2>3. context' \in BOOLEAN /\ lost' \in BOOLEAN /\ dry' \in BOOLEAN
    BY <1>1 DEF Call
  <2>4. TypeOK'
    BY <1>1, <2>1, <2>2, <2>3, ConstantsAssumption DEF TypeOK, Nothing, Results
  <2> QED BY <2>1, <2>2, <2>4 DEF EnumInv, EnumerateIsComplete
<1>2. CASE Exchange
  <2>0. /\ pc = "post"
        /\ context' \in BOOLEAN /\ cursor' \in 0 .. Len(Instances) /\ applied' \in Nat
        /\ lost' \in BOOLEAN /\ dry' \in BOOLEAN /\ peer' \in Peers \cup {"none"}
        /\ evidence' \in Certificates \cup {"none"} /\ options' \in Options
    BY <1>2, ExchangeForms, EndpointType DEF TypeOK
  <2>1. CASE Answered
    BY <2>1, AnsweredStep
  <2>2. CASE Raises
    <3>1. TypeOK'
      BY <2>0, <2>2 DEF TypeOK, Raises
    <3> QED BY <2>2, <3>1 DEF Raises, EnumInv, EnumerateIsComplete
  <2>3. CASE Resends
    <3>1. attempt' \in 0 .. MaxRetries + 1
      BY <2>3, ConstantsAssumption DEF Resends, TypeOK
    <3>2. TypeOK'
      BY <2>0, <2>3, <3>1 DEF TypeOK, Resends
    \* Only a broken connection moves the context under a Pull unseen.
    <3>3. CASE Dropped
      BY <2>0, <2>3, <3>2, <3>3 DEF Dropped, Resends, EnumInv, EnumerateIsComplete
    <3>4. CASE NotConnected
      BY <2>0, <2>3, <3>2, <3>4 DEF NotConnected, NotExecuted, Resends, EnumInv, EnumerateIsComplete
    <3>5. CASE SslError \/ ReadTimeout \/ Rejected
      BY <2>0, <2>3, <3>5 DEF SslError, ReadTimeout, Rejected, Raise, Resends
    <3>6. CASE Answered
      BY <3>6, AnsweredStep
    <3> QED BY <1>2, <3>3, <3>4, <3>5, <3>6 DEF Exchange
  <2> QED BY <1>2, <2>1, <2>2, <2>3, ExchangeForms
<1>3. ASSUME NEW o \in Options, Construct(o)
      PROVE  EnumTypeInv'
  <2>0. result' \in Results
    <3>1. \/ result' = Nothing
          \/ result' = [kind |-> "error", cls |-> "tls_validation", indeterminate |-> FALSE]
      BY <1>3 DEF Construct
    <3>2. Nothing \in Results
      BY DEF Nothing, Results
    <3>3. [kind |-> "error", cls |-> "tls_validation", indeterminate |-> FALSE] \in Results
      BY DEF Results, ErrorClasses
    <3> QED BY <3>1, <3>2, <3>3
  <2>2. pc' \in {"new", "idle"}
    BY <1>3, OutsideCalls
  <2>3. options' \in Options
    <3>1. options' = o \/ options' = options
      BY <1>3 DEF Construct
    <3> QED BY <1>3, <3>1 DEF TypeOK
  <2>4. UNCHANGED <<peer, evidence, op, verb, attempt, items, context, cursor, applied, lost, dry>>
    BY <1>3 DEF Construct
  <2>1. TypeOK'
    BY <2>0, <2>2, <2>3, <2>4 DEF TypeOK
  <2> QED BY <2>1, <2>2 DEF EnumInv, EnumerateIsComplete
<1>4. CASE Close
  <2>1. TypeOK'
    BY <1>4 DEF Close, TypeOK, DefaultOptions, Options, Fingerprints
  <2> QED BY <1>4, <2>1 DEF Close, EnumInv, EnumerateIsComplete
<1>5. CASE Finish
  BY <1>5 DEF Finish, TypeOK, EnumInv, EnumerateIsComplete
<1>6. CASE UNCHANGED vars
  <2>1. TypeOK'
    BY <1>6 DEF vars, TypeOK
  <2> QED BY <1>6, <2>1 DEF vars, EnumInv, EnumerateIsComplete
<1> QED BY <1>1, <1>2, <1>3, <1>4, <1>5, <1>6 DEF Next

LEMMA EnumTypeInvariant == Spec => []EnumTypeInv
<1>1. Init => EnumTypeInv
  <2> SUFFICES ASSUME Init PROVE EnumTypeInv
    OBVIOUS
  <2>1. options \in Options
    BY DEF Init, DefaultOptions, Options, Fingerprints
  <2>2. context \in BOOLEAN /\ lost \in BOOLEAN /\ dry \in BOOLEAN
    BY DEF Init
  <2>3. result \in Results
    BY DEF Init, Nothing, Results
  <2>4. TypeOK
    BY <2>1, <2>2, <2>3, ConstantsAssumption DEF Init, TypeOK, Operations, Verbs
  <2> QED BY <2>4 DEF Init, EnumTypeInv, EnumInv, EnumerateIsComplete
<1> QED BY <1>1, EnumTypeStep, PTL DEF Spec

\* Type correctness; no request is sent more often than max_retries allows.
THEOREM TypeCorrect == Spec => []TypeOK
<1>1. EnumTypeInv => TypeOK
  BY DEF EnumTypeInv
<1> QED BY <1>1, EnumTypeInvariant, PTL

\* An enumeration that returns holds every instance of the class, once and in
\* order, for every class, way to page it and number of retries, unless a
\* connection broke under a Pull or a response gave neither a context nor
\* EndOfSequence (enumerate).
THEOREM EnumeratesWhole == Spec => []EnumerateIsComplete
<1>1. EnumTypeInv => EnumerateIsComplete
  BY DEF EnumTypeInv, EnumInv
<1> QED BY <1>1, EnumTypeInvariant, PTL
============================================================================
