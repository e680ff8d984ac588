------------------------ MODULE MediaSessionProofs ------------------------
(***************************************************************************)
(* Theorems about MediaSession, for every set of pids and callers and every *)
(* choice of the environment's switches.                                   *)
(***************************************************************************)
EXTENDS MediaSession, TLAPS

---------------------------------------------------------------------------
(***************************************************************************)
(* Type correctness.                                                       *)
(***************************************************************************)

\* The records the code builds are records of the file's type.
LEMMA RecordTypes ==
    /\ NoRecord \in Records
    /\ \A p \in Pids : /\ _initial_state(p) \in Records
                       /\ Record("torn", p, "none") \in Records
    /\ read_state \in Records \/ file \notin Records
    /\ \A r \in Records : _error_class_of(r) \in ErrorClasses
  BY DEF NoRecord, Records, Record, _initial_state, read_state, _error_class_of,
         ErrorClasses, ServeErrors, SessionStates, TERMINAL_STATES

\* The states and classes a daemon can decide on.
DaemonRecords == [state : SessionStates, pid : Pids, cls : ErrorClasses]

\* What a daemon keeps in memory can be written to the file.
LEMMA DaemonRecordTypes ==
    /\ DaemonRecords \subseteq Records
    /\ \A p \in Pids : _initial_state(p) \in DaemonRecords
    /\ \A s \in SessionStates, p \in Pids, c \in ErrorClasses :
            Record(s, p, c) \in DaemonRecords
  BY DEF DaemonRecords, Records, Record, _initial_state, ErrorClasses,
         SessionStates, TERMINAL_STATES

\* What the module's processes return.
LEMMA OutcomeTypes ==
    /\ NoOutcome \in Outcomes
    /\ \A kind \in {"none", "already", "attached", "failed", "indeterminate",
                    "stopped", "overrun", "unchanged", "refused"},
          about \in Records, c \in ErrorClasses :
            Outcome(kind, about, c) \in Outcomes
  BY DEF NoOutcome, Outcomes, Outcome, Records, NoRecord, Record, ErrorClasses, ServeErrors

\* The constant members of the small sets.
LEMMA ClassTypes ==
    /\ ConnectErrors \cup ServeErrors \cup {"none", "unsupported_capability"}
         \subseteq ErrorClasses
    /\ {"protocol", "timeout"} \subseteq ServeErrors
    /\ {"starting", "connecting", "attached", "detached", "error"} \subseteq SessionStates
  BY DEF ErrorClasses, ServeErrors, SessionStates, TERMINAL_STATES

\* A daemon that ends leaves well-typed memory behind.
LEMMA ExitTypes ==
    ASSUME TypeOK, NEW p \in Pids, Exit(p)
    PROVE  /\ dpc' \in [Pids -> DaemonPcs]
           /\ stop' \in [Pids -> BOOLEAN]
           /\ open' \in [Pids -> BOOLEAN]
           /\ toggle' \in [Pids -> {"none", "ok", "refused"}]
           /\ halted' \in [Pids -> BOOLEAN]
           /\ timer' \in [Pids -> {"off", "running", "expired"}]
           /\ rec' \in [Pids -> DaemonRecords]
  BY DaemonRecordTypes DEF TypeOK, Exit, DaemonPcs, DaemonRecords

\* Deciding on a state, and a chunk fed to the engine, keep theirs well typed.
LEMMA DecideTypes ==
    ASSUME TypeOK, NEW p \in Pids, NEW s \in SessionStates, NEW c \in ErrorClasses,
           NEW pc \in DaemonPcs, Decide(p, s, c, pc)
    PROVE  rec' \in [Pids -> DaemonRecords] /\ dpc' \in [Pids -> DaemonPcs]
  BY DaemonRecordTypes DEF TypeOK, Decide, DaemonRecords

LEMMA FailTypes ==
    ASSUME TypeOK, NEW p \in Pids, NEW c \in ErrorClasses, _fail(p, c)
    PROVE  rec' \in [Pids -> DaemonRecords] /\ dpc' \in [Pids -> DaemonPcs]
  BY DecideTypes, ClassTypes DEF _fail, DaemonPcs, ActivePcs

LEMMA FeedTypes ==
    ASSUME TypeOK, NEW p \in Pids, Feed(p)
    PROVE  /\ open' \in [Pids -> BOOLEAN]
           /\ toggle' \in [Pids -> {"none", "ok", "refused"}]
           /\ halted' \in [Pids -> BOOLEAN]
           /\ confirmed' \in [Pids -> BOOLEAN]
<1>1. PICK o \in {open[p], TRUE}, t \in {toggle[p], "ok", "refused"}, h \in BOOLEAN :
            /\ open' = [open EXCEPT ![p] = o]
            /\ toggle' = [toggle EXCEPT ![p] = t]
            /\ halted' = [halted EXCEPT ![p] = h]
            /\ confirmed' = [confirmed EXCEPT ![p] = @ \/ (o /\ t = "ok")]
  BY DEF Feed
<1>2. o \in BOOLEAN /\ t \in {"none", "ok", "refused"}
  BY DEF TypeOK
<1>3. (confirmed[p] \/ (o /\ t = "ok")) \in BOOLEAN
  OBVIOUS
<1>4. /\ open' \in [Pids -> BOOLEAN]
      /\ toggle' \in [Pids -> {"none", "ok", "refused"}]
      /\ halted' \in [Pids -> BOOLEAN]
  BY <1>1, <1>2 DEF TypeOK
<1>5. confirmed' \in [Pids -> BOOLEAN]
  BY <1>1, <1>3 DEF TypeOK
<1> QED
  BY <1>4, <1>5

\* Returning keeps the module's variables well typed.
LEMMA ReturnTypes ==
    ASSUME TypeOK, NEW c \in Callers, NEW o \in Outcomes, Return(c, o)
    PROVE  /\ cpc' \in [Callers -> CallPcs]
           /\ check' \in [Callers -> BOOLEAN]
           /\ existing' \in [Callers -> Records]
           /\ observed' \in [Callers -> Records]
           /\ result' \in [Callers -> Outcomes]
  BY RecordTypes DEF TypeOK, Return, Goto, CallPcs

\* Every step of _run_daemon preserves the type invariant.
LEMMA DaemonTypes ==
    ASSUME TypeOK, NEW p \in Pids,
           DaemonStep(p) \/ ToggleTimer(p) \/ Crash(p) \/ ReusePid(p)
    PROVE  TypeOK'
<1>1. CASE InstallHandler(p)
  BY <1>1 DEF TypeOK, InstallHandler, callVars, DaemonPcs, ActivePcs
<1>2. CASE Claim(p)
  BY <1>2, DaemonRecordTypes DEF TypeOK, Claim, _persist, callVars, DaemonPcs, ActivePcs, DaemonRecords
<1>3. CASE OpenImages(p)
  <2>1. CASE Decide(p, "connecting", "none", "announcing")
    BY <1>3, <2>1, DecideTypes, ClassTypes
       DEF TypeOK, OpenImages, callVars, DaemonPcs, ActivePcs, DaemonRecords
  <2>2. CASE _fail(p, "protocol")
    BY <1>3, <2>2, FailTypes, ClassTypes DEF TypeOK, OpenImages, callVars, DaemonRecords
  <2> QED
    BY <1>3, <2>1, <2>2 DEF OpenImages
<1>4. CASE Announce(p)
  BY <1>4, DaemonRecordTypes DEF TypeOK, Announce, _persist, callVars, DaemonPcs, ActivePcs, DaemonRecords
<1>5. CASE Connect(p)
  <2>1. CASE Feed(p) /\ dpc' = [dpc EXCEPT ![p] = "loop"] /\ UNCHANGED rec
    BY <1>5, <2>1, FeedTypes DEF TypeOK, Connect, callVars, DaemonPcs, ActivePcs
  <2>2. ASSUME NEW c \in ConnectErrors \cup ServeErrors, _fail(p, c),
               UNCHANGED <<open, toggle, halted, confirmed>>
        PROVE  TypeOK'
    BY <1>5, <2>2, FailTypes, ClassTypes DEF TypeOK, Connect, callVars, DaemonRecords
  <2> QED
    BY <1>5, <2>1, <2>2 DEF Connect
<1>6. CASE Loop(p)
  <2>1. rec' \in [Pids -> DaemonRecords] /\ dpc' \in [Pids -> DaemonPcs]
    <3>1. CASE Decide(p, "detached", "none", "reporting")
      BY <3>1, DecideTypes, ClassTypes DEF DaemonPcs, ActivePcs
    <3>2. CASE Decide(p, "attached", "none", "heartbeat")
      BY <3>2, DecideTypes, ClassTypes DEF DaemonPcs, ActivePcs
    <3>3. CASE _fail(p, "protocol") \/ _fail(p, "timeout") \/ _fail(p, "unsupported_capability")
      BY <3>3, FailTypes, ClassTypes
    <3>4. CASE dpc' = [dpc EXCEPT ![p] = "heartbeat"] /\ UNCHANGED rec
      BY <3>4 DEF TypeOK, DaemonPcs, ActivePcs, DaemonRecords
    <3> QED
      BY <1>6, <3>1, <3>2, <3>3, <3>4 DEF Loop, LeaveLoop, Gate
  <2>2. timer' \in [Pids -> {"off", "running", "expired"}]
    BY <1>6 DEF TypeOK, Loop, LeaveLoop, Gate
  <2> QED
    BY <1>6, <2>1, <2>2 DEF TypeOK, Loop, callVars, DaemonRecords
<1>7. CASE Heartbeat(p)
  BY <1>7, DaemonRecordTypes DEF TypeOK, Heartbeat, _persist, callVars, DaemonPcs, ActivePcs, DaemonRecords
<1>8. CASE Receive(p)
  <2>1. rec' \in [Pids -> DaemonRecords] /\ dpc' \in [Pids -> DaemonPcs]
    <3>1. CASE dpc' = [dpc EXCEPT ![p] = "loop"] /\ UNCHANGED rec
      BY <3>1 DEF TypeOK, DaemonPcs, ActivePcs, DaemonRecords
    <3>2. CASE Decide(p, "detached", rec[p].cls, "reporting")
      BY <3>2, DecideTypes, ClassTypes DEF TypeOK, DaemonPcs, ActivePcs
    <3>3. CASE \E c \in ServeErrors : _fail(p, c)
      BY <3>3, FailTypes, ClassTypes
    <3> QED
      BY <1>8, <3>1, <3>2, <3>3 DEF Receive
  <2>2. /\ open' \in [Pids -> BOOLEAN]
        /\ toggle' \in [Pids -> {"none", "ok", "refused"}]
        /\ halted' \in [Pids -> BOOLEAN]
        /\ confirmed' \in [Pids -> BOOLEAN]
    BY <1>8, FeedTypes DEF TypeOK, Receive
  <2> QED
    BY <1>8, <2>1, <2>2 DEF TypeOK, Receive, callVars, DaemonRecords
<1>9. CASE Report(p)
  BY <1>9, DaemonRecordTypes DEF TypeOK, Report, _persist, callVars, DaemonPcs, ActivePcs, DaemonRecords
<1>10. CASE Close(p)
  BY <1>10, ExitTypes DEF TypeOK, Close, callVars, DaemonRecords
<1>11. CASE ToggleTimer(p)
  BY <1>11 DEF TypeOK, ToggleTimer, callVars
<1>12. CASE Crash(p)
  BY <1>12, ExitTypes DEF TypeOK, Crash, callVars, DaemonRecords
<1>13. CASE ReusePid(p)
  BY <1>13 DEF TypeOK, ReusePid, callVars, DaemonPcs
<1> QED
  BY <1>1, <1>2, <1>3, <1>4, <1>5, <1>6, <1>7, <1>8, <1>9, <1>10, <1>11, <1>12, <1>13
     DEF DaemonStep

\* Every step of _attach preserves the type invariant.
LEMMA AttachTypes ==
    ASSUME TypeOK, NEW c \in Callers,
           \/ StartAttach(c) \/ AttachRead(c) \/ AttachProbe(c) \/ AttachRemove(c)
           \/ AttachValidate(c) \/ AttachFork(c) \/ AttachCreate(c) \/ AttachFill(c)
           \/ AttachWait(c) \/ AttachVerdict(c) \/ AttachReread(c)
    PROVE  TypeOK'
<1> USE DEF daemonVars
<1>1. CASE StartAttach(c)
  <2>1. CASE Return(c, Outcome("refused", NoRecord, "none"))
    BY <1>1, <2>1, ReturnTypes, OutcomeTypes, RecordTypes, ClassTypes DEF TypeOK, StartAttach
  <2>2. CASE ~Return(c, Outcome("refused", NoRecord, "none"))
    <3>1. PICK checkMode \in BOOLEAN : check' = [check EXCEPT ![c] = checkMode]
      BY <1>1, <2>2 DEF StartAttach
    <3>2. check' \in [Callers -> BOOLEAN]
      BY <3>1 DEF TypeOK
    <3>3. /\ cpc' \in [Callers -> CallPcs]
          /\ result' \in [Callers -> Outcomes]
      <4>1. /\ cpc' = [cpc EXCEPT ![c] = "attach_read"]
            /\ result' = [result EXCEPT ![c] = NoOutcome]
        BY <1>1, <2>2 DEF StartAttach, Goto
      <4>2. "attach_read" \in CallPcs /\ NoOutcome \in Outcomes
        BY OutcomeTypes DEF CallPcs
      <4> QED BY <4>1, <4>2 DEF TypeOK
    <3>4. /\ UNCHANGED <<existing, observed, file, daemonVars>>
          /\ spawned' \in [Callers -> Pids \cup {NoPid}]
      BY <1>1, <2>2 DEF TypeOK, StartAttach
    <3> QED
      BY <3>2, <3>3, <3>4 DEF TypeOK
  <2> QED
    BY <2>1, <2>2
<1>2. CASE AttachRead(c)
  BY <1>2, RecordTypes DEF TypeOK, AttachRead, Goto, CallPcs
<1>3. CASE AttachProbe(c)
  <2>1. CASE Return(c, Outcome("already", existing[c], "none"))
    <3>1. Outcome("already", existing[c], "none") \in Outcomes
      BY OutcomeTypes, ClassTypes DEF TypeOK
    <3> QED
      BY <1>3, <2>1, <3>1, ReturnTypes DEF TypeOK, AttachProbe
  <2>2. CASE ~Return(c, Outcome("already", existing[c], "none"))
    BY <1>3, <2>2 DEF TypeOK, AttachProbe, Goto, CallPcs
  <2> QED
    BY <2>1, <2>2
<1>4. CASE AttachRemove(c)
  BY <1>4, RecordTypes DEF TypeOK, AttachRemove, Goto, CallPcs
<1>5. CASE AttachValidate(c)
  <2>1. CASE \E kind \in {"refused", "unchanged"} : Return(c, Outcome(kind, NoRecord, "none"))
    BY <1>5, <2>1, ReturnTypes, OutcomeTypes, RecordTypes, ClassTypes DEF TypeOK, AttachValidate
  <2>2. CASE Goto(c, "attach_fork") /\ UNCHANGED <<check, existing, observed, result>>
    BY <1>5, <2>2 DEF TypeOK, AttachValidate, Goto, CallPcs
  <2> QED
    BY <1>5, <2>1, <2>2 DEF AttachValidate
<1>6. CASE AttachFork(c)
  <2>1. ASSUME NEW p \in Pids,
               dpc' = [dpc EXCEPT ![p] = "forked"], spawned' = [spawned EXCEPT ![c] = p],
               Goto(c, "attach_create"), UNCHANGED <<check, existing, observed, result>>
        PROVE  TypeOK'
    BY <1>6, <2>1 DEF TypeOK, AttachFork, Goto, CallPcs, DaemonPcs, ActivePcs
  <2>2. CASE Return(c, Outcome("refused", NoRecord, "none")) /\ UNCHANGED <<dpc, spawned>>
    BY <1>6, <2>2, ReturnTypes, OutcomeTypes, RecordTypes, ClassTypes DEF TypeOK, AttachFork
  <2> QED
    BY <1>6, <2>1, <2>2 DEF AttachFork
<1>7. CASE AttachCreate(c)
  <2>1. Record("torn", spawned[c], "none") \in Records
    BY ClassTypes DEF TypeOK, Record, Records
  <2> QED
    BY <1>7, <2>1 DEF TypeOK, AttachCreate, Goto, CallPcs
<1>8. CASE AttachFill(c)
  <2>1. _initial_state(spawned[c]) \in Records
    BY ClassTypes DEF TypeOK, _initial_state, Record, Records
  <2> QED
    BY <1>8, <2>1 DEF TypeOK, AttachFill, Goto, CallPcs
<1>9. CASE AttachWait(c)
  BY <1>9, RecordTypes DEF TypeOK, AttachWait, Goto, CallPcs
<1>10. CASE AttachVerdict(c)
  <2>1. /\ Outcome("failed", NoRecord, _error_class_of(observed[c])) \in Outcomes
        /\ Outcome("attached", observed[c], "none") \in Outcomes
        /\ Outcome("indeterminate", NoRecord, "timeout") \in Outcomes
    BY OutcomeTypes, RecordTypes, ClassTypes DEF TypeOK
  <2>2. CASE \E o \in Outcomes : Return(c, o)
    BY <1>10, <2>2, ReturnTypes DEF TypeOK, AttachVerdict
  <2>3. CASE Goto(c, "attach_reread") /\ UNCHANGED <<check, existing, observed, result>>
    BY <1>10, <2>3 DEF TypeOK, AttachVerdict, Goto, CallPcs
  <2> QED
    BY <1>10, <2>1, <2>2, <2>3 DEF AttachVerdict
<1>11. CASE AttachReread(c)
  <2> DEFINE final == IF read_state = NoRecord THEN observed[c] ELSE read_state
  <2>1. Outcome("failed", NoRecord, _error_class_of(final)) \in Outcomes
    BY OutcomeTypes, RecordTypes DEF TypeOK
  <2> QED
    BY <1>11, <2>1, ReturnTypes DEF TypeOK, AttachReread
<1> QED
  BY <1>1, <1>2, <1>3, <1>4, <1>5, <1>6, <1>7, <1>8, <1>9, <1>10, <1>11

\* Every step of _detach preserves the type invariant, and so does an
\* invocation that is killed.
LEMMA DetachTypes ==
    ASSUME TypeOK, NEW c \in Callers,
           \/ StartDetach(c) \/ DetachRead(c) \/ DetachProbe(c) \/ DetachClean(c)
           \/ DetachSignal(c) \/ DetachWait(c) \/ DetachRemove(c) \/ Interrupt(c)
    PROVE  TypeOK'
<1> USE DEF daemonVars
<1>1. CASE StartDetach(c)
  BY <1>1, OutcomeTypes DEF TypeOK, StartDetach, Goto, CallPcs
<1>2. CASE DetachRead(c)
  <2>1. CASE Return(c, Outcome("unchanged", NoRecord, "none"))
    BY <1>2, <2>1, ReturnTypes, OutcomeTypes, RecordTypes, ClassTypes DEF TypeOK, DetachRead
  <2>2. CASE ~Return(c, Outcome("unchanged", NoRecord, "none"))
    BY <1>2, <2>2, RecordTypes DEF TypeOK, DetachRead, Goto, CallPcs
  <2> QED
    BY <2>1, <2>2
<1>3. CASE DetachProbe(c)
  <2>1. CASE Return(c, Outcome("unchanged", NoRecord, "none"))
    BY <1>3, <2>1, ReturnTypes, OutcomeTypes, RecordTypes, ClassTypes DEF TypeOK, DetachProbe
  <2>2. CASE ~Return(c, Outcome("unchanged", NoRecord, "none"))
    BY <1>3, <2>2 DEF TypeOK, DetachProbe, Goto, CallPcs
  <2> QED
    BY <2>1, <2>2
<1>4. CASE DetachClean(c)
  BY <1>4, ReturnTypes, OutcomeTypes, RecordTypes, ClassTypes DEF TypeOK, DetachClean
<1>5. CASE DetachSignal(c)
  <2> DEFINE p == existing[c].pid
  <2>1. CASE p \in Pids /\ Exit(p) /\ Goto(c, "detach_wait")
              /\ UNCHANGED <<check, existing, observed, result>>
    BY <1>5, <2>1, ExitTypes DEF TypeOK, DetachSignal, Goto, CallPcs, DaemonRecords
  <2>2. CASE /\ Return(c, Outcome("refused", NoRecord, "none"))
             /\ UNCHANGED <<dpc, stop, open, toggle, halted, timer, rec>>
    BY <1>5, <2>2, ReturnTypes, OutcomeTypes, RecordTypes, ClassTypes DEF TypeOK, DetachSignal
  <2>3. CASE /\ Goto(c, "detach_wait")
             /\ stop' = [stop EXCEPT ![p] = TRUE] \/ UNCHANGED stop
             /\ UNCHANGED <<dpc, open, toggle, halted, timer, rec, check, existing, observed, result>>
    BY <1>5, <2>3 DEF TypeOK, DetachSignal, Goto, CallPcs
  <2> QED
    BY <1>5, <2>1, <2>2, <2>3 DEF DetachSignal
<1>6. CASE DetachWait(c)
  BY <1>6 DEF TypeOK, DetachWait, Goto, CallPcs
<1>7. CASE DetachRemove(c)
  <2>1. PICK kind \in {"stopped", "overrun"} : Return(c, Outcome(kind, NoRecord, "none"))
    BY <1>7 DEF DetachRemove
  <2> QED
    BY <1>7, <2>1, ReturnTypes, OutcomeTypes, RecordTypes, ClassTypes DEF TypeOK, DetachRemove
<1>8. CASE Interrupt(c)
  BY <1>8, ReturnTypes, OutcomeTypes DEF TypeOK, Interrupt
<1> QED
  BY <1>1, <1>2, <1>3, <1>4, <1>5, <1>6, <1>7, <1>8

\* The type invariant is inductive.
LEMMA TypeStep == TypeOK /\ [Next]_vars => TypeOK'
<1> SUFFICES ASSUME TypeOK, [Next]_vars PROVE TypeOK'
  OBVIOUS
<1>1. CASE UNCHANGED vars
  BY <1>1 DEF TypeOK, vars
<1>2. ASSUME NEW p \in Pids, DaemonStep(p) \/ ToggleTimer(p) \/ Crash(p) \/ ReusePid(p)
      PROVE  TypeOK'
  BY <1>2, DaemonTypes
<1>3. ASSUME NEW c \in Callers, StartAttach(c) \/ StartDetach(c) \/ CallStep(c) \/ Interrupt(c)
      PROVE  TypeOK'
  BY <1>3, AttachTypes, DetachTypes DEF CallStep
<1> QED
  BY <1>1, <1>2, <1>3 DEF Next

LEMMA TypeInit == Init => TypeOK
  BY RecordTypes, DaemonRecordTypes, OutcomeTypes
     DEF Init, TypeOK, DaemonPcs, CallPcs, DaemonRecords

\* Every variable of the daemon, of the module's processes and of the state file
\* keeps its type, whatever the environment does.
THEOREM TypeCorrect == Spec => []TypeOK
  BY TypeInit, TypeStep, PTL DEF Spec

---------------------------------------------------------------------------
(***************************************************************************)
(* One daemon at a time.  Liveness probes and the record on file are all   *)
(* that keeps a second daemon from being forked, so the invariant says     *)
(* where the record of a running daemon is at every step of every call.    *)
(***************************************************************************)
LiveStates == {"starting", "connecting", "attached"}

\* The record on file leads to p, and does not say that p has ended.
Known(p) == file.pid = p /\ file.state \in LiveStates

\* p has been forked and its parent is still writing the fallback record.
Pending(p) ==
    /\ dpc[p] \in {"forked", "claiming"}
    /\ \E c \in Callers :
         /\ spawned[c] = p
         /\ \/ cpc[c] = "attach_create" /\ file.state = "absent"
            \/ cpc[c] = "attach_fill" /\ file = Record("torn", p, "none")

OneCaller == \A c, d \in Callers : cpc[c] # "idle" /\ cpc[d] # "idle" => c = d

\* A daemon's memory names itself, and holds a verdict only on the way out.
MemoryInv ==
    \A p \in Pids :
        /\ rec[p].pid = p
        /\ dpc[p] \notin {"reporting", "closing"} => rec[p].state \in LiveStates

FileInv ==
    /\ \A p \in Pids : Active(p) => Known(p) \/ Pending(p)
    /\ file.state = "torn" =>
         \E c \in Callers : cpc[c] = "attach_fill" /\ file = Record("torn", spawned[c], "none")

\* What a call that has read the record may rely on.
CallInv ==
    \A c \in Callers :
        /\ cpc[c] = "attach_probe" =>
             /\ existing[c] = NoRecord => file.state = "absent"
             /\ \A p \in Pids : Active(p) => existing[c].pid = p /\ existing[c].state \in LiveStates
        /\ cpc[c] \in {"attach_validate", "attach_fork"} => file.state = "absent"
        /\ cpc[c] \in {"attach_remove", "attach_validate", "attach_fork", "detach_clean",
                       "detach_remove", "detach_abandon"} => \A p \in Pids : ~Active(p)
        /\ cpc[c] \in {"detach_probe", "detach_signal", "detach_wait"} =>
             \A p \in Pids : Active(p) => existing[c].pid = p

SoloInv == TypeOK /\ OneCaller /\ MemoryInv /\ FileInv /\ CallInv

\* Calls come one after the other, a signalled daemon exits within
\* detach_timeout and no call is killed half way.
Orderly == Serial /\ PromptStop /\ ~Interrupts

LEMMA SoloSingle == SoloInv => SingleDaemon
<1> SUFFICES ASSUME SoloInv, NEW p \in Pids, NEW q \in Pids, Active(p), Active(q)
             PROVE  p = q
  BY DEF SingleDaemon
<1>1. CASE Known(p) /\ Known(q)
  BY <1>1 DEF Known
<1>2. ASSUME NEW a \in Pids, Known(a), NEW b \in Pids, Pending(b) PROVE FALSE
  BY <1>2 DEF Known, Pending, LiveStates, Record
<1>3. CASE Pending(p) /\ Pending(q)
  BY <1>3 DEF Pending, SoloInv, OneCaller
<1> QED
  BY <1>1, <1>2, <1>3 DEF SoloInv, FileInv

\* An active daemon whose parent is not writing the fallback record is on file.
LEMMA KnownUnlessSpawning ==
    ASSUME SoloInv, NEW c \in Callers, cpc[c] \notin {"idle", "attach_create", "attach_fill"},
           NEW p \in Pids, Active(p)
    PROVE  Known(p)
<1>1. ~Pending(p)
  BY DEF Pending, SoloInv, OneCaller
<1> QED
  BY <1>1 DEF SoloInv, FileInv

\* No daemon step makes a daemon active, or moves an active one back.
LEMMA DaemonPcStep ==
    ASSUME TypeOK, NEW p \in Pids,
           DaemonStep(p) \/ ToggleTimer(p) \/ Crash(p) \/ ReusePid(p)
    PROVE  /\ UNCHANGED callVars
           /\ \A q \in Pids : /\ Active(q)' => Active(q)
                              /\ q # p => dpc'[q] = dpc[q]
           /\ Active(p)' /\ dpc[p] \in {"forked", "claiming"}
                => dpc'[p] \in {"forked", "claiming"} \/ Claim(p)
<1>1. PICK pc : dpc' = [dpc EXCEPT ![p] = pc] \/ dpc' = dpc
  BY DEF DaemonStep, InstallHandler, Claim, OpenImages, Announce, Connect, Loop, LeaveLoop, Gate,
         Heartbeat, Receive, Report, Close, ToggleTimer, Crash, ReusePid, Exit, Decide, _fail
<1>2. UNCHANGED callVars
  BY DEF DaemonStep, InstallHandler, Claim, OpenImages, Announce, Connect, Loop,
         Heartbeat, Receive, Report, Close, ToggleTimer, Crash, ReusePid
<1>3. Active(p)' => Active(p)
  BY DEF TypeOK, DaemonStep, InstallHandler, Claim, OpenImages, Announce, Connect, Loop,
         Heartbeat, Receive, Report, Close, ToggleTimer, Crash, ReusePid, Exit, Active, ActivePcs
<1>4. Active(p)' /\ dpc[p] \in {"forked", "claiming"} => dpc'[p] \in {"forked", "claiming"} \/ Claim(p)
  BY DEF TypeOK, DaemonStep, InstallHandler, OpenImages, Announce, Connect, Loop,
         Heartbeat, Receive, Report, Close, ToggleTimer, Crash, ReusePid, Exit, Active, ActivePcs
<1> QED
  BY <1>1, <1>2, <1>3, <1>4 DEF TypeOK, Active

\* Only the four writing steps touch the file, and they write the record.
LEMMA DaemonFileStep ==
    ASSUME TypeOK, NEW p \in Pids,
           DaemonStep(p) \/ ToggleTimer(p) \/ Crash(p) \/ ReusePid(p)
    PROVE  \/ file' = file /\ ~Claim(p)
           \/ Active(p) /\ file' = rec[p] /\ dpc[p] # "reporting"
           \/ dpc[p] = "reporting" /\ ~Active(p)' /\ file' = rec[p]
  BY DEF TypeOK, DaemonStep, InstallHandler, Claim, OpenImages, Announce, Connect, Loop,
         Heartbeat, Receive, Report, Close, ToggleTimer, Crash, ReusePid, _persist, Active, ActivePcs

\* The memory of a daemon that ends is that of one that never ran.
LEMMA ExitMemory ==
    ASSUME TypeOK, MemoryInv, NEW p \in Pids, Exit(p) PROVE MemoryInv'
<1>1. /\ rec' = [rec EXCEPT ![p] = [state |-> "starting", pid |-> p, cls |-> "none"]]
      /\ dpc' = [dpc EXCEPT ![p] = "dead"]
  BY DEF Exit, _initial_state, Record
<1> QED
  BY <1>1 DEF TypeOK, MemoryInv, LiveStates

\* A daemon's memory invariant survives every step.
LEMMA MemoryStep == TypeOK /\ MemoryInv /\ [Next]_vars => MemoryInv'
<1> SUFFICES ASSUME TypeOK, MemoryInv, [Next]_vars PROVE MemoryInv'
  OBVIOUS
<1> USE DEF MemoryInv, LiveStates
<1>1. CASE UNCHANGED vars
  BY <1>1 DEF vars
<1>2. ASSUME NEW p \in Pids, DaemonStep(p) \/ ToggleTimer(p) \/ Crash(p) \/ ReusePid(p)
      PROVE  MemoryInv'
  <2>1. CASE InstallHandler(p) \/ Claim(p) \/ Announce(p) \/ Heartbeat(p) \/ Report(p)
    BY <2>1 DEF TypeOK, InstallHandler, Claim, Announce, Heartbeat, Report
  <2>2. CASE OpenImages(p)
    BY <2>2 DEF TypeOK, OpenImages, Decide, _fail, Record
  <2>3. CASE Connect(p)
    BY <2>3 DEF TypeOK, Connect, Decide, _fail, Record
  <2>4. CASE Loop(p)
    BY <2>4 DEF TypeOK, Loop, LeaveLoop, Gate, Decide, _fail, Record
  <2>5. CASE Receive(p)
    BY <2>5 DEF TypeOK, Receive, Decide, _fail, Record
  <2>6. CASE Close(p) \/ Crash(p)
    BY <2>6, ExitMemory DEF Close, Crash
  <2>7. CASE ToggleTimer(p) \/ ReusePid(p)
    BY <2>7 DEF TypeOK, ToggleTimer, ReusePid
  <2> QED
    BY <1>2, <2>1, <2>2, <2>3, <2>4, <2>5, <2>6, <2>7 DEF DaemonStep
<1>3. ASSUME NEW c \in Callers, StartAttach(c) \/ StartDetach(c) \/ CallStep(c) \/ Interrupt(c)
      PROVE  MemoryInv'
  <2>1. CASE AttachFork(c)
    BY <2>1 DEF TypeOK, AttachFork
  <2>2. CASE DetachSignal(c)
    <3>1. CASE existing[c].pid \in Pids /\ Exit(existing[c].pid)
      BY <3>1, ExitMemory
    <3> QED
      BY <2>2, <3>1 DEF DetachSignal
  <2>3. CASE UNCHANGED daemonVars
    BY <2>3 DEF daemonVars
  <2> QED
    BY <1>3, <2>1, <2>2, <2>3
       DEF CallStep, StartAttach, StartDetach, Interrupt, AttachRead, AttachProbe, AttachRemove,
           AttachValidate, AttachCreate, AttachFill, AttachWait, AttachVerdict, AttachReread,
           DetachRead, DetachProbe, DetachClean, DetachWait, DetachRemove
<1> QED
  BY <1>1, <1>2, <1>3 DEF Next

\* A daemon step keeps the record of every running daemon where calls find it.
LEMMA DaemonSolo ==
    ASSUME SoloInv, NEW p \in Pids,
           DaemonStep(p) \/ ToggleTimer(p) \/ Crash(p) \/ ReusePid(p)
    PROVE  OneCaller' /\ FileInv' /\ CallInv'
<1>1. TypeOK /\ SingleDaemon
  BY SoloSingle DEF SoloInv
<1>2. /\ UNCHANGED callVars
      /\ \A q \in Pids : (Active(q)' => Active(q)) /\ (q # p => dpc'[q] = dpc[q])
      /\ Active(p)' /\ dpc[p] \in {"forked", "claiming"}
           => dpc'[p] \in {"forked", "claiming"} \/ Claim(p)
  BY <1>1, DaemonPcStep
<1>3. OneCaller'
  BY <1>2 DEF SoloInv, OneCaller, callVars
<1>4. CASE file' = file /\ ~Claim(p)
  <2>1. \A q \in Pids : Active(q)' /\ Pending(q) => Pending(q)'
    BY <1>2, <1>4 DEF Pending, callVars
  <2>2. \A q \in Pids : Known(q) => Known(q)'
    BY <1>4 DEF Known
  <2>3. FileInv'
    BY <1>2, <1>4, <2>1, <2>2 DEF SoloInv, FileInv, callVars
  <2>4. CallInv'
    BY <1>2, <1>4 DEF SoloInv, CallInv, callVars
  <2> QED
    BY <1>3, <2>3, <2>4
<1>5. CASE Active(p) /\ file' = rec[p] /\ dpc[p] # "reporting"
  <2>1. Known(p)' /\ file'.state \in LiveStates
    BY <1>5 DEF SoloInv, MemoryInv, Known, Active, ActivePcs
  <2>2. FileInv'
    BY <1>1, <1>2, <1>5, <2>1 DEF SoloInv, FileInv, SingleDaemon, LiveStates
  <2>3. CallInv'
    BY <1>2, <1>5 DEF SoloInv, CallInv, callVars, NoRecord, Record, LiveStates
  <2> QED
    BY <1>3, <2>2, <2>3
<1>6. CASE dpc[p] = "reporting" /\ ~Active(p)' /\ file' = rec[p]
  <2>1. \A q \in Pids : ~Active(q)'
    BY <1>1, <1>2, <1>6 DEF SingleDaemon, Active, ActivePcs
  <2>2. file'.state # "torn"
    BY <1>1, <1>6 DEF TypeOK, SessionStates, TERMINAL_STATES
  <2>3. Active(p)
    BY <1>6 DEF Active, ActivePcs
  <2>4. CallInv'
    BY <1>2, <1>6, <2>1, <2>3 DEF SoloInv, CallInv, callVars, NoRecord, Record, LiveStates
  <2> QED
    BY <1>3, <2>1, <2>2, <2>4 DEF FileInv
<1> QED
  BY <1>1, <1>4, <1>5, <1>6, DaemonFileStep

\* A call that goes on without touching the file, the daemons or the record it
\* read keeps the first two parts of the invariant.
LEMMA QuietCall ==
    ASSUME SoloInv, NEW c \in Callers, cpc[c] \notin {"idle", "attach_create", "attach_fill"},
           NEW pc, cpc' = [cpc EXCEPT ![c] = pc], UNCHANGED <<file, dpc>>
    PROVE  OneCaller' /\ FileInv'
<1>1. OneCaller'
  BY DEF SoloInv, OneCaller, TypeOK
<1>2. \A p \in Pids : Active(p)' => Known(p)'
  BY KnownUnlessSpawning DEF Active, Known
<1>3. file.state # "torn"
  BY DEF SoloInv, FileInv, OneCaller
<1> QED
  BY <1>1, <1>2, <1>3 DEF FileInv

\* A call that returns having left the file and the daemons alone.
LEMMA QuietReturn ==
    ASSUME SoloInv, NEW c \in Callers, cpc[c] \notin {"idle", "attach_create", "attach_fill"},
           NEW o, Return(c, o), UNCHANGED <<file, dpc>>
    PROVE  OneCaller' /\ FileInv' /\ CallInv'
<1>1. OneCaller' /\ FileInv'
  BY QuietCall DEF Return, Goto
<1>2. \A d \in Callers : cpc'[d] = "idle"
  BY DEF SoloInv, OneCaller, TypeOK, Return, Goto
<1> QED
  BY <1>1, <1>2 DEF CallInv

\* Every step of _attach keeps the invariant.
LEMMA AttachSolo ==
    ASSUME SoloInv, Orderly, NEW c \in Callers,
           \/ StartAttach(c) \/ AttachRead(c) \/ AttachProbe(c) \/ AttachRemove(c)
           \/ AttachValidate(c) \/ AttachFork(c) \/ AttachCreate(c) \/ AttachFill(c)
           \/ AttachWait(c) \/ AttachVerdict(c) \/ AttachReread(c)
    PROVE  OneCaller' /\ FileInv' /\ CallInv'
<1> USE DEF daemonVars
<1>0. TypeOK
  BY DEF SoloInv
<1>a. \A d \in Callers : d # c /\ cpc[c] # "idle" => cpc[d] = "idle"
  BY DEF SoloInv, OneCaller
<1>1. CASE StartAttach(c)
  <2>1. \A d \in Callers : cpc[d] = "idle"
    BY <1>1 DEF StartAttach, MayStart, Orderly
  <2>2. /\ \A p \in Pids : Active(p) => Known(p)
        /\ file.state # "torn"
    BY <2>1 DEF SoloInv, FileInv, Pending
  <2>3. \A d \in Callers : (d # c => cpc'[d] = "idle") /\ (cpc'[c] \in {"idle", "attach_read"})
    BY <1>0, <1>1, <2>1 DEF StartAttach, Return, Goto, TypeOK
  <2>4. UNCHANGED <<file, dpc>>
    BY <1>1 DEF StartAttach
  <2>5. OneCaller'
    BY <2>3 DEF OneCaller
  <2>6. FileInv'
    BY <2>2, <2>4 DEF FileInv, Active, Known
  <2>7. CallInv'
    BY <2>3 DEF CallInv
  <2> QED
    BY <2>5, <2>6, <2>7
<1>2. CASE AttachRead(c)
  <2>1. OneCaller' /\ FileInv'
    BY <1>2, QuietCall DEF AttachRead, Goto
  <2>2. \A p \in Pids : Active(p) => Known(p)
    BY <1>2, KnownUnlessSpawning DEF AttachRead
  <2>3. file.state # "torn"
    BY <1>2, <1>a DEF AttachRead, SoloInv, FileInv
  <2>4. read_state = NoRecord => file.state = "absent"
    BY <2>3 DEF read_state, NoRecord, Record
  <2>5. \A p \in Pids : Active(p) => read_state.pid = p /\ read_state.state \in LiveStates
    BY <2>2 DEF read_state, Known, LiveStates
  <2>6. /\ cpc' = [cpc EXCEPT ![c] = "attach_probe"]
        /\ existing' = [existing EXCEPT ![c] = read_state]
        /\ UNCHANGED <<file, dpc>>
    BY <1>2 DEF AttachRead, Goto
  <2>7. CallInv'
    BY <1>0, <1>2, <1>a, <2>4, <2>5, <2>6 DEF AttachRead, CallInv, TypeOK, Active
  <2> QED
    BY <2>1, <2>7
<1>3. CASE AttachProbe(c)
  <2>1. CASE Return(c, Outcome("already", existing[c], "none"))
    BY <1>3, <2>1, QuietReturn DEF AttachProbe
  <2>2. CASE ~Return(c, Outcome("already", existing[c], "none"))
    <3>1. /\ cpc[c] = "attach_probe"
          /\ UNCHANGED <<file, dpc, existing>>
          /\ cpc' = [cpc EXCEPT ![c] = IF existing[c] = NoRecord THEN "attach_validate" ELSE "attach_remove"]
      BY <1>3, <2>2 DEF AttachProbe, Goto
    <3>2. \A p \in Pids : ~Active(p)
      <4> SUFFICES ASSUME NEW p \in Pids, Active(p) PROVE FALSE
        OBVIOUS
      <4>1. existing[c].pid = p /\ existing[c].state \in LiveStates
        BY <3>1 DEF SoloInv, CallInv
      <4>2. existing[c] # NoRecord
        BY <4>1 DEF LiveStates, NoRecord, Record
      <4>3. is_pid_alive(p) /\ existing[c].state \notin TERMINAL_STATES
        BY <4>1 DEF is_pid_alive, Active, ActivePcs, LiveStates, TERMINAL_STATES
      <4> QED
        BY <1>3, <2>2, <4>1, <4>2, <4>3 DEF AttachProbe
    <3>3. existing[c] = NoRecord => file.state = "absent"
      BY <3>1 DEF SoloInv, CallInv
    <3>4. OneCaller' /\ FileInv'
      BY <3>1, QuietCall
    <3>5. CallInv'
      BY <1>0, <1>a, <3>1, <3>2, <3>3 DEF CallInv, TypeOK, Active
    <3> QED
      BY <3>4, <3>5
  <2> QED
    BY <2>1, <2>2
<1>4. CASE AttachRemove(c)
  <2>1. /\ cpc[c] = "attach_remove" /\ cpc' = [cpc EXCEPT ![c] = "attach_validate"]
        /\ file' = NoRecord /\ dpc' = dpc
    BY <1>4 DEF AttachRemove, Goto
  <2>2. \A p \in Pids : ~Active(p)
    BY <2>1 DEF SoloInv, CallInv
  <2>3. file'.state = "absent"
    BY <2>1 DEF NoRecord, Record
  <2>4. FileInv'
    BY <2>1, <2>2, <2>3 DEF FileInv, Active
  <2>5. OneCaller' /\ CallInv'
    BY <1>0, <1>a, <2>1, <2>2, <2>3 DEF CallInv, OneCaller, TypeOK, Active
  <2> QED
    BY <2>4, <2>5
<1>5. CASE AttachValidate(c)
  <2>1. CASE \E o : Return(c, o)
    BY <1>5, <2>1, QuietReturn DEF AttachValidate
  <2>2. CASE Goto(c, "attach_fork")
    <3>1. /\ cpc[c] = "attach_validate" /\ cpc' = [cpc EXCEPT ![c] = "attach_fork"]
          /\ UNCHANGED <<file, dpc>>
      BY <1>5, <2>2 DEF AttachValidate, Goto
    <3>2. OneCaller' /\ FileInv'
      BY <3>1, QuietCall
    <3>3. file.state = "absent" /\ \A p \in Pids : ~Active(p)
      BY <3>1 DEF SoloInv, CallInv
    <3>4. CallInv'
      BY <1>0, <1>a, <3>1, <3>3 DEF CallInv, TypeOK, Active
    <3> QED
      BY <3>2, <3>4
  <2> QED
    BY <1>5, <2>1, <2>2 DEF AttachValidate
<1>6. CASE AttachFork(c)
  <2>1. CASE Return(c, Outcome("refused", NoRecord, "none")) /\ UNCHANGED <<dpc, spawned>>
    BY <1>6, <2>1, QuietReturn DEF AttachFork
  <2>2. ASSUME NEW p \in Pids, dpc' = [dpc EXCEPT ![p] = "forked"],
               spawned' = [spawned EXCEPT ![c] = p], Goto(c, "attach_create")
        PROVE  OneCaller' /\ FileInv' /\ CallInv'
    <3>1. /\ cpc[c] = "attach_fork" /\ cpc' = [cpc EXCEPT ![c] = "attach_create"]
          /\ file' = file
      BY <1>6, <2>2 DEF AttachFork, Goto
    <3>2. file.state = "absent" /\ \A q \in Pids : ~Active(q)
      BY <3>1 DEF SoloInv, CallInv
    <3>3. \A q \in Pids : Active(q)' => q = p
      BY <1>0, <2>2, <3>2 DEF Active, TypeOK
    <3>4. Pending(p)'
      BY <1>0, <2>2, <3>1, <3>2 DEF Pending, TypeOK
    <3>5. OneCaller' /\ CallInv'
      BY <1>0, <1>a, <3>1 DEF CallInv, OneCaller, TypeOK
    <3> QED
      BY <3>1, <3>2, <3>3, <3>4, <3>5 DEF FileInv
  <2> QED
    BY <1>6, <2>1, <2>2 DEF AttachFork
<1>7. CASE AttachCreate(c)
  <2>1. cpc[c] = "attach_create" /\ dpc' = dpc /\ spawned' = spawned
    BY <1>7 DEF AttachCreate
  <2>2. CASE file.state = "absent"
    <3>1. file' = Record("torn", spawned[c], "none") /\ cpc' = [cpc EXCEPT ![c] = "attach_fill"]
      BY <1>7, <2>2 DEF AttachCreate, Goto
    <3>2. \A p \in Pids : Active(p) => Pending(p)
      BY <2>2 DEF SoloInv, FileInv, Known, LiveStates
    <3>3. \A p \in Pids : Pending(p) => spawned[c] = p /\ dpc[p] \in {"forked", "claiming"}
      BY <1>a, <2>1 DEF Pending
    <3>4. \A p \in Pids : Active(p)' => Pending(p)'
      BY <1>0, <2>1, <3>1, <3>2, <3>3 DEF Pending, Active, TypeOK
    <3>5. OneCaller' /\ CallInv'
      BY <1>0, <1>a, <2>1, <3>1 DEF CallInv, OneCaller, TypeOK
    <3>6. cpc'[c] = "attach_fill"
      BY <1>0, <3>1 DEF TypeOK
    <3> QED
      BY <2>1, <3>1, <3>4, <3>5, <3>6 DEF FileInv
  <2>3. CASE file.state # "absent"
    <3>1. file' = file /\ cpc' = [cpc EXCEPT ![c] = "attach_wait"]
      BY <1>7, <2>3 DEF AttachCreate, Goto
    <3>2. \A p \in Pids : ~Pending(p)
      BY <1>a, <2>1, <2>3 DEF Pending
    <3>3. file.state # "torn"
      BY <1>a, <2>1 DEF SoloInv, FileInv
    <3>4. \A p \in Pids : Active(p)' => Known(p)'
      BY <2>1, <3>1, <3>2 DEF SoloInv, FileInv, Known, Active
    <3>5. OneCaller' /\ CallInv'
      BY <1>0, <1>a, <2>1, <3>1 DEF CallInv, OneCaller, TypeOK
    <3> QED
      BY <3>1, <3>3, <3>4, <3>5 DEF FileInv
  <2> QED
    BY <2>2, <2>3
<1>8. CASE AttachFill(c)
  <2>1. /\ cpc[c] = "attach_fill" /\ cpc' = [cpc EXCEPT ![c] = "attach_wait"] /\ dpc' = dpc
        /\ file' = IF file = Record("torn", spawned[c], "none") THEN _initial_state(spawned[c]) ELSE file
    BY <1>8 DEF AttachFill, Goto
  <2>2. OneCaller' /\ CallInv'
    BY <1>0, <1>a, <2>1 DEF CallInv, OneCaller, TypeOK
  <2>3. \A p \in Pids : Pending(p) => spawned[c] = p /\ file = Record("torn", p, "none")
    BY <1>a, <2>1 DEF Pending
  <2>4. CASE file = Record("torn", spawned[c], "none")
    <3>1. file' = Record("starting", spawned[c], "none")
      BY <2>1, <2>4 DEF _initial_state
    <3>2. \A p \in Pids : Active(p) => spawned[c] = p
      BY <2>3, <2>4 DEF SoloInv, FileInv, Known, LiveStates, Record
    <3>3. \A p \in Pids : Active(p)' => Known(p)'
      BY <2>1, <3>1, <3>2 DEF Active, Known, LiveStates, Record
    <3>4. file'.state # "torn"
      BY <3>1 DEF Record
    <3> QED
      BY <2>2, <3>3, <3>4 DEF FileInv
  <2>5. CASE file # Record("torn", spawned[c], "none")
    <3>1. file' = file
      BY <2>1, <2>5
    <3>2. \A p \in Pids : Active(p)' => Known(p)'
      BY <2>1, <2>3, <2>5, <3>1 DEF SoloInv, FileInv, Active, Known
    <3>3. file.state # "torn"
      BY <1>a, <2>1, <2>5 DEF SoloInv, FileInv
    <3> QED
      BY <2>2, <3>1, <3>2, <3>3 DEF FileInv
  <2> QED
    BY <2>4, <2>5
<1>9. CASE AttachWait(c)
  <2>1. /\ cpc[c] = "attach_wait" /\ cpc' = [cpc EXCEPT ![c] = "attach_verdict"]
        /\ UNCHANGED <<file, dpc>>
    BY <1>9 DEF AttachWait, Goto
  <2>2. OneCaller' /\ FileInv'
    BY <2>1, QuietCall
  <2>3. CallInv'
    BY <1>0, <1>a, <2>1 DEF CallInv, TypeOK
  <2> QED
    BY <2>2, <2>3
<1>10. CASE AttachVerdict(c)
  <2>1. CASE \E o : Return(c, o)
    BY <1>10, <2>1, QuietReturn DEF AttachVerdict
  <2>2. CASE Goto(c, "attach_reread")
    <3>1. /\ cpc[c] = "attach_verdict" /\ cpc' = [cpc EXCEPT ![c] = "attach_reread"]
          /\ UNCHANGED <<file, dpc>>
      BY <1>10, <2>2 DEF AttachVerdict, Goto
    <3>2. OneCaller' /\ FileInv'
      BY <3>1, QuietCall
    <3>3. CallInv'
      BY <1>0, <1>a, <3>1 DEF CallInv, TypeOK
    <3> QED
      BY <3>2, <3>3
  <2> QED
    BY <1>10, <2>1, <2>2 DEF AttachVerdict
<1>11. CASE AttachReread(c)
  BY <1>11, QuietReturn DEF AttachReread
<1> QED
  BY <1>1, <1>2, <1>3, <1>4, <1>5, <1>6, <1>7, <1>8, <1>9, <1>10, <1>11

\* Every step of _detach keeps the invariant: a record is removed only when no
\* daemon is left that it would have led to.
LEMMA DetachSolo ==
    ASSUME SoloInv, Orderly, NEW c \in Callers,
           \/ StartDetach(c) \/ DetachRead(c) \/ DetachProbe(c) \/ DetachClean(c)
           \/ DetachSignal(c) \/ DetachWait(c) \/ DetachRemove(c) \/ Interrupt(c)
    PROVE  OneCaller' /\ FileInv' /\ CallInv'
<1> USE DEF daemonVars
<1>0. TypeOK
  BY DEF SoloInv
<1>a. \A d \in Callers : d # c /\ cpc[c] # "idle" => cpc[d] = "idle"
  BY DEF SoloInv, OneCaller
<1>1. CASE StartDetach(c)
  <2>1. \A d \in Callers : cpc[d] = "idle"
    BY <1>1 DEF StartDetach, MayStart, Orderly
  <2>2. /\ \A p \in Pids : Active(p) => Known(p)
        /\ file.state # "torn"
    BY <2>1 DEF SoloInv, FileInv, Pending
  <2>3. cpc' = [cpc EXCEPT ![c] = "detach_read"] /\ UNCHANGED <<file, dpc>>
    BY <1>1 DEF StartDetach, Goto
  <2>4. OneCaller' /\ CallInv'
    BY <1>0, <2>1, <2>3 DEF OneCaller, CallInv, TypeOK
  <2>5. FileInv'
    BY <2>2, <2>3 DEF FileInv, Active, Known
  <2> QED
    BY <2>4, <2>5
<1>2. CASE DetachRead(c)
  <2>1. CASE \E o : Return(c, o)
    BY <1>2, <2>1, QuietReturn DEF DetachRead
  <2>2. CASE Goto(c, "detach_probe") /\ existing' = [existing EXCEPT ![c] = read_state]
    <3>1. /\ cpc[c] = "detach_read" /\ cpc' = [cpc EXCEPT ![c] = "detach_probe"]
          /\ UNCHANGED <<file, dpc>>
      BY <1>2, <2>2 DEF DetachRead, Goto
    <3>2. OneCaller' /\ FileInv'
      BY <3>1, QuietCall
    <3>3. \A p \in Pids : Active(p) => read_state.pid = p
      BY <3>1, KnownUnlessSpawning DEF read_state, Known, LiveStates
    <3>4. CallInv'
      BY <1>0, <1>a, <2>2, <3>1, <3>3 DEF CallInv, TypeOK, Active
    <3> QED
      BY <3>2, <3>4
  <2> QED
    BY <1>2, <2>1, <2>2 DEF DetachRead
<1>3. CASE DetachProbe(c)
  <2>1. CASE \E o : Return(c, o)
    BY <1>3, <2>1, QuietReturn DEF DetachProbe
  <2>2. CASE ~\E o : Return(c, o)
    <3>1. /\ cpc[c] = "detach_probe" /\ UNCHANGED <<file, dpc, existing>>
          /\ cpc' = [cpc EXCEPT ![c] = IF is_pid_alive(existing[c].pid) THEN "detach_signal" ELSE "detach_clean"]
      BY <1>3, <2>2 DEF DetachProbe, Goto
    <3>2. \A p \in Pids : Active(p) => existing[c].pid = p
      BY <3>1 DEF SoloInv, CallInv
    <3>3. ~is_pid_alive(existing[c].pid) => \A p \in Pids : ~Active(p)
      BY <3>2 DEF is_pid_alive, Active, ActivePcs
    <3>4. OneCaller' /\ FileInv'
      BY <3>1, QuietCall
    <3>5. CallInv'
      BY <1>0, <1>a, <3>1, <3>2, <3>3 DEF CallInv, TypeOK, Active
    <3> QED
      BY <3>4, <3>5
  <2> QED
    BY <2>1, <2>2
<1>4. CASE DetachClean(c) \/ DetachRemove(c)
  <2>1. /\ cpc[c] \in {"detach_clean", "detach_remove", "detach_abandon"}
        /\ cpc' = [cpc EXCEPT ![c] = "idle"] /\ file' = NoRecord /\ dpc' = dpc
    BY <1>4 DEF DetachClean, DetachRemove, Return, Goto
  <2>2. \A p \in Pids : ~Active(p)
    BY <2>1 DEF SoloInv, CallInv
  <2>3. FileInv'
    BY <2>1, <2>2 DEF FileInv, Active, NoRecord, Record
  <2>4. OneCaller' /\ CallInv'
    BY <1>0, <1>a, <2>1 DEF CallInv, OneCaller, TypeOK
  <2> QED
    BY <2>3, <2>4
<1>5. CASE DetachSignal(c)
  <2> DEFINE p == existing[c].pid
  <2>1. cpc[c] = "detach_signal" /\ file' = file /\ spawned' = spawned
    BY <1>5 DEF DetachSignal
  <2>2. \A q \in Pids : Active(q) => existing[c].pid = q
    BY <2>1 DEF SoloInv, CallInv
  <2>3. CASE UNCHANGED dpc /\ \E o : Return(c, o)
    BY <2>1, <2>3, QuietReturn
  <2>4. CASE UNCHANGED <<dpc, existing>> /\ Goto(c, "detach_wait")
    <3>1. OneCaller' /\ FileInv'
      BY <2>1, <2>4, QuietCall DEF Goto
    <3>2. CallInv'
      BY <1>0, <1>a, <2>1, <2>2, <2>4 DEF CallInv, TypeOK, Active, Goto
    <3> QED
      BY <3>1, <3>2
  <2>5. CASE p \in Pids /\ Exit(p) /\ Goto(c, "detach_wait") /\ UNCHANGED existing
    <3>1. \A q \in Pids : ~Active(q)'
      BY <1>0, <2>2, <2>5 DEF Exit, Active, ActivePcs, TypeOK
    <3>2. file.state # "torn"
      BY <1>a, <2>1 DEF SoloInv, FileInv
    <3>3. cpc' = [cpc EXCEPT ![c] = "detach_wait"]
      BY <2>5 DEF Goto
    <3>4. OneCaller' /\ CallInv'
      BY <1>0, <1>a, <2>1, <3>1, <3>3 DEF CallInv, OneCaller, TypeOK
    <3> QED
      BY <2>1, <3>1, <3>2, <3>4 DEF FileInv
  <2> QED
    BY <1>5, <2>3, <2>4, <2>5 DEF DetachSignal
<1>6. CASE DetachWait(c)
  <2> DEFINE p == existing[c].pid
  <2>1. /\ cpc[c] = "detach_wait" /\ UNCHANGED <<file, dpc, existing>>
        /\ cpc' = [cpc EXCEPT ![c] = IF is_pid_alive(p) THEN "detach_abandon" ELSE "detach_remove"]
    BY <1>6 DEF DetachWait, Goto
  <2>2. \A q \in Pids : ~Active(q)
    <3>1. \A q \in Pids : Active(q) => p = q
      BY <2>1 DEF SoloInv, CallInv
    <3>2. ~is_pid_alive(p) \/ dpc[p] = "stranger"
      BY <1>6 DEF DetachWait, Orderly
    <3> QED
      BY <3>1, <3>2 DEF is_pid_alive, Active, ActivePcs
  <2>3. OneCaller' /\ FileInv'
    BY <2>1, QuietCall
  <2>4. CallInv'
    BY <1>0, <1>a, <2>1, <2>2 DEF CallInv, TypeOK, Active
  <2> QED
    BY <2>3, <2>4
<1>7. CASE Interrupt(c)
  BY <1>7 DEF Interrupt, Orderly
<1> QED
  BY <1>1, <1>2, <1>3, <1>4, <1>5, <1>6, <1>7

LEMMA SoloInit == Init => SoloInv
<1> SUFFICES ASSUME Init PROVE SoloInv
  OBVIOUS
<1>1. TypeOK
  BY TypeInit
<1>2. OneCaller /\ CallInv
  BY DEF Init, OneCaller, CallInv
<1>3. MemoryInv
  BY DEF Init, MemoryInv, _initial_state, Record, LiveStates
<1>4. FileInv
  BY DEF Init, FileInv, Active, ActivePcs, NoRecord, Record
<1> QED
  BY <1>1, <1>2, <1>3, <1>4 DEF SoloInv

LEMMA SoloStep == ASSUME Orderly PROVE SoloInv /\ [Next]_vars => SoloInv'
<1> SUFFICES ASSUME SoloInv, [Next]_vars PROVE SoloInv'
  OBVIOUS
<1>1. TypeOK' /\ MemoryInv'
  BY TypeStep, MemoryStep DEF SoloInv
<1>2. OneCaller' /\ FileInv' /\ CallInv'
  <2>1. CASE UNCHANGED vars
    BY <2>1 DEF vars, SoloInv, OneCaller, FileInv, CallInv, Known, Pending, Active
  <2>2. ASSUME NEW p \in Pids, DaemonStep(p) \/ ToggleTimer(p) \/ Crash(p) \/ ReusePid(p)
        PROVE  OneCaller' /\ FileInv' /\ CallInv'
    BY <2>2, DaemonSolo
  <2>3. ASSUME NEW c \in Callers, StartAttach(c) \/ StartDetach(c) \/ CallStep(c) \/ Interrupt(c)
        PROVE  OneCaller' /\ FileInv' /\ CallInv'
    BY <2>3, AttachSolo, DetachSolo DEF CallStep
  <2> QED
    BY <2>1, <2>2, <2>3 DEF Next
<1> QED
  BY <1>1, <1>2 DEF SoloInv

\* "Never start a second one": while calls come one after the other, none is
\* killed half way and a signalled daemon exits within detach_timeout, no two
\* daemons of a session are ever active, for any number of pids and callers and
\* whatever crashes and pid reuse do.
THEOREM OneDaemon == ASSUME Orderly PROVE Spec => []SingleDaemon
<1>1. Init => SoloInv
  BY SoloInit
<1>2. SoloInv /\ [Next]_vars => SoloInv'
  BY SoloStep
<1>3. SoloInv => SingleDaemon
  BY SoloSingle
<1> QED
  BY <1>1, <1>2, <1>3, PTL DEF Spec

\* Under the same conditions a detach that reports a clean stop leaves nothing
\* behind: no record, and no daemon that could write one.
THEOREM DetachIsClean == ASSUME Orderly PROVE Spec => CleanDetach
<1> DEFINE Clean == \A c \in Callers :
         result[c].kind # "stopped" /\ result'[c].kind = "stopped"
           => file' = NoRecord /\ \A p \in Pids : dpc'[p] \notin ActivePcs
<1>1. Init => SoloInv
  BY SoloInit
<1>2. SoloInv /\ [Next]_vars => SoloInv'
  BY SoloStep
<1>3. SoloInv /\ [Next]_vars => [Clean]_vars
  <2> SUFFICES ASSUME SoloInv, Next, NEW c \in Callers,
                      result[c].kind # "stopped", result'[c].kind = "stopped"
               PROVE  file' = NoRecord /\ \A p \in Pids : dpc'[p] \notin ActivePcs
    OBVIOUS
  <2>1. PICK d \in Callers : StartAttach(d) \/ StartDetach(d) \/ CallStep(d) \/ Interrupt(d)
    <3>1. ASSUME NEW p \in Pids, DaemonStep(p) \/ ToggleTimer(p) \/ Crash(p) \/ ReusePid(p)
          PROVE  FALSE
      BY <3>1, DaemonPcStep DEF SoloInv, callVars
    <3> QED
      BY <3>1 DEF Next
  <2>2. \A o : Return(d, o) => o.kind = "stopped"
    BY DEF Return, SoloInv, TypeOK
  <2>3. DetachRemove(d) /\ cpc[d] = "detach_remove"
    <3> USE DEF Outcome, NoOutcome
    <3>1. ~(StartAttach(d) \/ StartDetach(d) \/ Interrupt(d))
      BY <2>2 DEF StartAttach, StartDetach, Interrupt, SoloInv, TypeOK
    <3>2. ~(AttachRead(d) \/ AttachRemove(d) \/ AttachCreate(d) \/ AttachFill(d) \/ AttachWait(d) \/ DetachWait(d))
      BY DEF AttachRead, AttachRemove, AttachCreate, AttachFill, AttachWait, DetachWait
    <3>3. ~(AttachProbe(d) \/ AttachValidate(d) \/ AttachFork(d))
      BY <2>2 DEF AttachProbe, AttachValidate, AttachFork
    <3>4. ~(AttachVerdict(d) \/ AttachReread(d))
      BY <2>2 DEF AttachVerdict, AttachReread
    <3>5. ~(DetachRead(d) \/ DetachProbe(d) \/ DetachClean(d) \/ DetachSignal(d))
      BY <2>2 DEF DetachRead, DetachProbe, DetachClean, DetachSignal
    <3>6. DetachRemove(d)
      BY <2>1, <3>1, <3>2, <3>3, <3>4, <3>5 DEF CallStep
    <3> QED
      BY <2>2, <3>6 DEF DetachRemove
  <2> QED
    BY <2>3 DEF DetachRemove, SoloInv, CallInv, Active, daemonVars
<1> QED
  BY <1>1, <1>2, <1>3, PTL DEF Spec, CleanDetach

\* The steps an invocation in check mode gets to.
Preview == {"attach_read", "attach_probe", "attach_remove", "attach_validate",
            "detach_read", "detach_probe"}

CheckInv == \A c \in Callers : check[c] => cpc[c] \in Preview

\* An invocation's step, seen from itself and from the others.
LEMMA PreviewSteps ==
    ASSUME TypeOK, CheckInv, NEW c \in Callers,
           StartAttach(c) \/ StartDetach(c) \/ CallStep(c) \/ Interrupt(c)
    PROVE  CheckInv'
<1> USE DEF CheckInv, Preview, TypeOK
<1>1. ASSUME NEW o, Return(c, o) PROVE CheckInv'
  BY <1>1 DEF Return, Goto
<1>2. ASSUME NEW pc, Goto(c, pc), UNCHANGED check, check[c] => pc \in Preview
      PROVE  CheckInv'
  BY <1>2 DEF Goto
<1>3. CASE StartAttach(c)
  BY <1>1, <1>3 DEF StartAttach, Goto
<1>4. CASE StartDetach(c)
  BY <1>4 DEF StartDetach, Goto
<1>5. CASE Interrupt(c)
  BY <1>1, <1>5 DEF Interrupt
<1>6. CASE AttachRead(c) \/ AttachProbe(c) \/ AttachRemove(c)
  BY <1>1, <1>2, <1>6 DEF AttachRead, AttachProbe, AttachRemove
<1>7. CASE AttachValidate(c) \/ AttachFork(c)
  BY <1>1, <1>2, <1>7 DEF AttachValidate, AttachFork
<1>8. CASE AttachCreate(c) \/ AttachFill(c) \/ AttachWait(c)
  BY <1>2, <1>8 DEF AttachCreate, AttachFill, AttachWait
<1>9. CASE AttachVerdict(c) \/ AttachReread(c)
  BY <1>1, <1>2, <1>9 DEF AttachVerdict, AttachReread
<1>10. CASE DetachRead(c) \/ DetachProbe(c)
  BY <1>1, <1>2, <1>10 DEF DetachRead, DetachProbe
<1>11. CASE DetachClean(c) \/ DetachSignal(c) \/ DetachWait(c) \/ DetachRemove(c)
  BY <1>1, <1>2, <1>11 DEF DetachClean, DetachSignal, DetachWait, DetachRemove
<1> QED
  BY <1>3, <1>4, <1>5, <1>6, <1>7, <1>8, <1>9, <1>10, <1>11 DEF CallStep

\* Under the same conditions check mode leaves daemons alone, and removes a
\* record only when no daemon is left behind it.
THEOREM CheckModeIsHarmless == ASSUME Orderly PROVE Spec => CheckModeHarmless
<1> DEFINE Harmless == \A c \in Callers :
         check[c] /\ cpc'[c] # cpc[c] =>
           /\ UNCHANGED daemonVars
           /\ file' # file => file' = NoRecord /\ \A p \in Pids : ~Active(p)
<1> DEFINE Inv == SoloInv /\ CheckInv
<1>1. Init => Inv
  BY SoloInit DEF Init, CheckInv
<1>2. Inv /\ [Next]_vars => Inv'
  <2> SUFFICES ASSUME Inv, [Next]_vars PROVE CheckInv'
    BY SoloStep
  <2>1. CASE UNCHANGED vars
    BY <2>1 DEF vars, CheckInv
  <2>2. ASSUME NEW p \in Pids, DaemonStep(p) \/ ToggleTimer(p) \/ Crash(p) \/ ReusePid(p)
        PROVE  CheckInv'
    BY <2>2, DaemonPcStep DEF SoloInv, callVars, CheckInv
  <2>3. ASSUME NEW c \in Callers, StartAttach(c) \/ StartDetach(c) \/ CallStep(c) \/ Interrupt(c)
        PROVE  CheckInv'
    BY <2>3, PreviewSteps DEF SoloInv
  <2> QED BY <2>1, <2>2, <2>3 DEF Next
<1>3. Inv /\ [Next]_vars => [Harmless]_vars
  <2> SUFFICES ASSUME Inv, Next, NEW c \in Callers, check[c], cpc'[c] # cpc[c]
               PROVE  /\ UNCHANGED daemonVars
                      /\ file' # file => file' = NoRecord /\ \A p \in Pids : ~Active(p)
    OBVIOUS
  <2>t. cpc[c] \in Preview /\ cpc \in [Callers -> CallPcs]
    BY DEF CheckInv, SoloInv, TypeOK
  <2>1. StartAttach(c) \/ StartDetach(c) \/ CallStep(c) \/ Interrupt(c)
    <3>1. ASSUME NEW p \in Pids, DaemonStep(p) \/ ToggleTimer(p) \/ Crash(p) \/ ReusePid(p)
          PROVE  FALSE
      BY <3>1, DaemonPcStep DEF SoloInv, callVars
    <3>2. PICK d \in Callers : StartAttach(d) \/ StartDetach(d) \/ CallStep(d) \/ Interrupt(d)
      BY <3>1 DEF Next
    <3>3. PICK pc : cpc' = [cpc EXCEPT ![d] = pc]
      BY <3>2 DEF StartAttach, StartDetach, CallStep, Interrupt, Return, Goto,
         AttachRead, AttachProbe, AttachRemove, AttachValidate, AttachFork,
         AttachCreate, AttachFill, AttachWait, AttachVerdict, AttachReread,
         DetachRead, DetachProbe, DetachClean, DetachSignal, DetachWait, DetachRemove
    <3> QED BY <3>2, <3>3, <2>t
  <2>2. ~Interrupt(c) /\ ~StartAttach(c) /\ ~StartDetach(c)
    BY <2>t DEF Orderly, Interrupt, StartAttach, StartDetach, MayStart, Preview
  <2>3. \/ AttachRead(c) \/ AttachProbe(c) \/ AttachRemove(c) \/ AttachValidate(c)
        \/ DetachRead(c) \/ DetachProbe(c)
    BY <2>1, <2>2, <2>t DEF CallStep, Preview, AttachFork, AttachCreate, AttachFill,
       AttachWait, AttachVerdict, AttachReread, DetachClean, DetachSignal, DetachWait,
       DetachRemove
  <2>4. CASE AttachRemove(c)
    BY <2>4 DEF AttachRemove, SoloInv, CallInv
  <2>5. CASE ~AttachRemove(c)
    BY <2>3, <2>5 DEF AttachRead, AttachProbe, AttachValidate, DetachRead, DetachProbe
  <2> QED BY <2>4, <2>5
<1> QED
  BY <1>1, <1>2, <1>3, PTL DEF Spec, CheckModeHarmless

---------------------------------------------------------------------------
(***************************************************************************)
(* What a call reports of its daemon.  The daemon's verdict travels through *)
(* the file alone, which the parent also writes, so the invariant ties the *)
(* file to the history of each daemon's writes, what a waiting call has    *)
(* read to the daemon it forked, and every receipt to that daemon for ever *)
(* after.                                                                  *)
(***************************************************************************)

\* What the history of a daemon's writes says of the file: a record that names
\* the daemon is the one it wrote last, or its parent's while it has written none.
HistoryInv ==
    \A p \in Pids :
        /\ last[p] = NoRecord \/ (last[p].pid = p /\ last[p].state \in SessionStates)
        /\ dpc[p] \in {"unused", "forked", "claiming"} => last[p] = NoRecord
        /\ last[p].state \in TERMINAL_STATES => ~Active(p)
        /\ file.pid = p =>
             \/ file = last[p]
             \/ /\ last[p] = NoRecord
                /\ file.state \in {"torn", "starting"} /\ file.cls = "none"

\* The steps of _attach between the fork and the receipt.
Awaiting == {"attach_create", "attach_fill", "attach_wait", "attach_verdict", "attach_reread"}

\* The daemon p that the call waiting at pc forked, and the record o it has read:
\* nothing but that daemon and that call touches the file meanwhile.
Waiting(p, pc, o) ==
    /\ p \in Pids /\ dpc[p] # "unused"
    /\ \A q \in Pids : Active(q) => q = p
    /\ file.state # "absent" => file.pid = p
    /\ file.state = "absent" => pc = "attach_create" /\ last[p] = NoRecord
    /\ pc \in {"attach_verdict", "attach_reread"} =>
         /\ o.pid = p /\ o.state \in SessionStates
         /\ o.state \in TERMINAL_STATES => o = last[p]
    /\ pc = "attach_reread" => ~Active(p)

WaitInv == \A c \in Callers : cpc[c] \in Awaiting => Waiting(spawned[c], cpc[c], observed[c])

\* A receipt r of a call that forked p.
Settled(p, r) ==
    /\ r.kind = "attached" => r.pid = p
    /\ r.kind = "failed" /\ p # NoPid =>
         /\ p \in Pids /\ dpc[p] # "unused" /\ ~Active(p)
         /\ r.cls = _error_class_of(last[p])

SettledInv == \A c \in Callers : /\ cpc[c] # "idle" => result[c].kind = "none"
                                 /\ Settled(spawned[c], result[c])

VerdictInv == SoloInv /\ HistoryInv /\ WaitInv /\ SettledInv

\* What a daemon step does to the history: the four writing steps put the record
\* from memory both on file and into the history, the others touch neither.
LEMMA DaemonHistoryStep ==
    ASSUME TypeOK, MemoryInv, NEW p \in Pids,
           DaemonStep(p) \/ ToggleTimer(p) \/ Crash(p) \/ ReusePid(p)
    PROVE  /\ dpc' = dpc \/ (dpc[p] # "unused" /\ dpc'[p] \notin {"unused", "forked"})
           /\ \/ /\ UNCHANGED <<file, last>>
                 /\ dpc'[p] = "claiming" => dpc[p] \in {"forked", "claiming"}
              \/ /\ Active(p) /\ file' = rec[p] /\ last' = [last EXCEPT ![p] = rec[p]]
                 /\ dpc'[p] \notin {"unused", "forked", "claiming"}
                 /\ rec[p].state \in TERMINAL_STATES => ~Active(p)'
<1>1. CASE InstallHandler(p) \/ ToggleTimer(p) \/ ReusePid(p)
  BY <1>1 DEF TypeOK, InstallHandler, ToggleTimer, ReusePid
<1>2. CASE Claim(p) \/ Announce(p) \/ Heartbeat(p)
  BY <1>2 DEF TypeOK, MemoryInv, LiveStates, TERMINAL_STATES, Claim, Announce, Heartbeat,
              _persist, Active, ActivePcs
<1>3. CASE Report(p)
  BY <1>3 DEF TypeOK, Report, _persist, Active, ActivePcs
<1>4. CASE OpenImages(p) \/ Connect(p) \/ Receive(p)
  BY <1>4 DEF TypeOK, OpenImages, Connect, Receive, Decide, _fail
<1>5. CASE Loop(p)
  BY <1>5 DEF TypeOK, Loop, LeaveLoop, Gate, Decide, _fail
<1>6. CASE Close(p) \/ Crash(p)
  BY <1>6 DEF TypeOK, Close, Crash, Exit, ActivePcs
<1> QED
  BY <1>1, <1>2, <1>3, <1>4, <1>5, <1>6 DEF DaemonStep

\* A daemon step keeps the file and the history together.
LEMMA DaemonHistory ==
    ASSUME VerdictInv, NEW p \in Pids,
           DaemonStep(p) \/ ToggleTimer(p) \/ Crash(p) \/ ReusePid(p)
    PROVE  HistoryInv'
<1>1. TypeOK /\ MemoryInv /\ HistoryInv
  BY DEF VerdictInv, SoloInv
<1>2. \A q \in Pids : /\ Active(q)' => Active(q)
                      /\ q # p => dpc'[q] = dpc[q]
  BY <1>1, DaemonPcStep
<1>3. /\ dpc' = dpc \/ (dpc[p] # "unused" /\ dpc'[p] \notin {"unused", "forked"})
      /\ \/ /\ UNCHANGED <<file, last>>
            /\ dpc'[p] = "claiming" => dpc[p] \in {"forked", "claiming"}
         \/ /\ Active(p) /\ file' = rec[p] /\ last' = [last EXCEPT ![p] = rec[p]]
            /\ dpc'[p] \notin {"unused", "forked", "claiming"}
            /\ rec[p].state \in TERMINAL_STATES => ~Active(p)'
  BY <1>1, DaemonHistoryStep
<1>4. CASE UNCHANGED <<file, last>>
  <2>1. \A q \in Pids : dpc'[q] \in {"unused", "forked", "claiming"}
                          => dpc[q] \in {"unused", "forked", "claiming"}
    BY <1>2, <1>3, <1>4 DEF TypeOK
  <2> QED
    BY <1>1, <1>2, <1>4, <2>1 DEF HistoryInv
<1>5. CASE ~UNCHANGED <<file, last>>
  <2>1. /\ Active(p) /\ file' = rec[p] /\ last' = [last EXCEPT ![p] = rec[p]]
        /\ dpc'[p] \notin {"unused", "forked", "claiming"}
        /\ rec[p].state \in TERMINAL_STATES => ~Active(p)'
    BY <1>3, <1>5
  <2>2. /\ last'[p] = rec[p] /\ rec[p].pid = p /\ rec[p].state \in SessionStates
        /\ \A q \in Pids : q # p => last'[q] = last[q]
    BY <1>1, <2>1 DEF TypeOK, MemoryInv
  <2> QED
    BY <1>1, <1>2, <2>1, <2>2 DEF HistoryInv
<1> QED
  BY <1>4, <1>5

\* A daemon step changes nothing a waiting call relies on, and no settled receipt.
LEMMA DaemonWaits ==
    ASSUME VerdictInv, NEW p \in Pids,
           DaemonStep(p) \/ ToggleTimer(p) \/ Crash(p) \/ ReusePid(p)
    PROVE  WaitInv' /\ SettledInv'
<1>1. TypeOK /\ MemoryInv /\ HistoryInv
  BY DEF VerdictInv, SoloInv
<1>2. /\ UNCHANGED callVars
      /\ \A q \in Pids : /\ Active(q)' => Active(q)
                         /\ q # p => dpc'[q] = dpc[q]
  BY <1>1, DaemonPcStep
<1>3. /\ dpc' = dpc \/ (dpc[p] # "unused" /\ dpc'[p] # "unused")
      /\ \/ UNCHANGED <<file, last>>
         \/ Active(p) /\ file' = rec[p] /\ last' = [last EXCEPT ![p] = rec[p]]
  BY <1>1, DaemonHistoryStep
<1>4. \A q \in Pids : dpc[q] # "unused" => dpc'[q] # "unused"
  BY <1>2, <1>3
<1>5. \A q \in Pids : ~Active(q) => last'[q] = last[q]
  BY <1>1, <1>3 DEF TypeOK
<1>6. WaitInv'
  <2> SUFFICES ASSUME NEW c \in Callers, cpc[c] \in Awaiting
               PROVE  Waiting(spawned[c], cpc[c], observed[c])'
    BY <1>2 DEF WaitInv, callVars
  <2>1. Waiting(spawned[c], cpc[c], observed[c]) /\ spawned[c] \in Pids
    BY DEF VerdictInv, WaitInv, Waiting
  <2>2. \A q \in Pids : Active(q)' => q = spawned[c]
    BY <1>2, <2>1 DEF Waiting
  <2>3. \/ UNCHANGED <<file, last>>
        \/ p = spawned[c] /\ file'.pid = p /\ file'.state # "absent"
    BY <1>1, <1>3, <2>1 DEF Waiting, MemoryInv, TypeOK, SessionStates, TERMINAL_STATES
  <2>4. observed[c].state \in TERMINAL_STATES /\ observed[c] = last[spawned[c]]
          => last'[spawned[c]] = last[spawned[c]]
    BY <1>1, <1>5, <2>1 DEF HistoryInv
  <2> QED
    BY <1>2, <1>4, <2>1, <2>2, <2>3, <2>4 DEF Waiting, callVars
<1>7. SettledInv'
  BY <1>2, <1>4, <1>5 DEF VerdictInv, SettledInv, Settled, callVars, _error_class_of
<1> QED
  BY <1>6, <1>7

\* A call that moves on, or away, without touching the daemons keeps the history
\* when it leaves the file alone or removes it.
LEMMA HistoryKept ==
    ASSUME HistoryInv, ConstantsAssumption, UNCHANGED last,
           \A q \in Pids : dpc'[q] = dpc[q] \/ (~Active(q)' /\ dpc'[q] # "unused"),
           file' = file \/ file' = NoRecord
    PROVE  HistoryInv'
<1>1. NoRecord.pid \notin Pids
  BY DEF NoRecord, Record, ConstantsAssumption
<1>2. \A q \in Pids : dpc'[q] \in {"unused", "forked", "claiming"} => dpc'[q] = dpc[q]
  BY DEF Active, ActivePcs
<1>3. \A q \in Pids : Active(q)' => Active(q)
  BY DEF Active
<1> QED
  BY <1>1, <1>2, <1>3 DEF HistoryInv

\* The receipts of the other callers are settled for good: their daemons are gone
\* or, once forked, never forked again.
LEMMA SettledKept ==
    ASSUME NEW d \in Callers, Settled(spawned[d], result[d]), UNCHANGED last,
           \A q \in Pids : dpc[q] # "unused" => dpc'[q] # "unused" /\ (Active(q)' => Active(q)),
           spawned'[d] = spawned[d], result'[d] = result[d]
    PROVE  Settled(spawned[d], result[d])'
  BY DEF Settled, _error_class_of

\* A call that is not waiting for a daemon returns with a receipt that is not
\* about one.
LEMMA PlainReturn ==
    ASSUME VerdictInv, NEW c \in Callers, NEW o, Return(c, o),
           o.kind \notin {"attached", "failed"}, UNCHANGED last,
           cpc[c] # "idle" \/ \A d \in Callers : cpc[d] = "idle",
           \A q \in Pids : dpc[q] # "unused" => dpc'[q] # "unused" /\ (Active(q)' => Active(q)),
           \A d \in Callers \ {c} : spawned'[d] = spawned[d]
    PROVE  WaitInv' /\ SettledInv'
<1>1. TypeOK /\ OneCaller
  BY DEF VerdictInv, SoloInv
<1>2. \A d \in Callers : cpc'[d] = "idle"
  BY <1>1 DEF Return, Goto, TypeOK, OneCaller
<1>3. result'[c] = o /\ \A d \in Callers \ {c} : result'[d] = result[d]
  BY <1>1 DEF Return, TypeOK
<1>4. WaitInv'
  BY <1>2 DEF WaitInv, Awaiting
<1>5. Settled(spawned[c], result[c])'
  BY <1>3 DEF Settled
<1>6. \A d \in Callers \ {c} : Settled(spawned[d], result[d])'
  BY <1>3, SettledKept DEF VerdictInv, SettledInv
<1> QED
  BY <1>2, <1>4, <1>5, <1>6 DEF SettledInv

\* A call that moves on without returning leaves every receipt as it is.
LEMMA MovesOn ==
    ASSUME VerdictInv, NEW c \in Callers, NEW pc, Goto(c, pc), cpc[c] # "idle",
           UNCHANGED <<last, result, spawned>>,
           \A q \in Pids : dpc[q] # "unused" => dpc'[q] # "unused" /\ (Active(q)' => Active(q))
    PROVE  /\ SettledInv'
           /\ \A d \in Callers : d # c => cpc'[d] = "idle"
           /\ cpc'[c] = pc
<1>1. TypeOK /\ OneCaller /\ SettledInv
  BY DEF VerdictInv, SoloInv
<1>2. cpc'[c] = pc /\ \A d \in Callers : d # c => cpc'[d] = "idle" /\ cpc[d] = "idle"
  BY <1>1 DEF Goto, TypeOK, OneCaller
<1>3. \A d \in Callers : Settled(spawned[d], result[d])'
  BY <1>1, SettledKept DEF SettledInv
<1> QED
  BY <1>1, <1>2, <1>3 DEF SettledInv

\* The calls' steps away from a fork: no daemon is started or waited for.
LEMMA PlainCalls ==
    ASSUME VerdictInv, Orderly, NEW c \in Callers,
           \/ StartAttach(c) \/ AttachRead(c) \/ AttachProbe(c) \/ AttachRemove(c)
           \/ AttachValidate(c) \/ StartDetach(c) \/ DetachRead(c) \/ DetachProbe(c)
           \/ DetachClean(c) \/ DetachSignal(c) \/ DetachWait(c) \/ DetachRemove(c)
           \/ Interrupt(c)
    PROVE  HistoryInv' /\ WaitInv' /\ SettledInv'
<1> USE DEF daemonVars
<1>0. TypeOK /\ OneCaller /\ HistoryInv
  BY DEF VerdictInv, SoloInv
<1>1. last' = last /\ (file' = file \/ file' = NoRecord)
  BY DEF StartAttach, StartDetach, Interrupt, AttachRead, AttachProbe, AttachRemove,
         AttachValidate, DetachRead, DetachProbe, DetachClean, DetachSignal, DetachWait, DetachRemove
<1>2. \A q \in Pids : dpc'[q] = dpc[q] \/ (~Active(q)' /\ dpc'[q] # "unused")
  <2>1. CASE existing[c].pid \in Pids /\ Exit(existing[c].pid)
    BY <1>0, <2>1 DEF Exit, TypeOK, Active, ActivePcs
  <2>2. CASE UNCHANGED dpc
    BY <2>2
  <2> QED
    BY <2>1, <2>2
       DEF StartAttach, StartDetach, Interrupt, AttachRead, AttachProbe, AttachRemove,
           AttachValidate, DetachRead, DetachProbe, DetachClean, DetachSignal, DetachWait, DetachRemove
<1>3. HistoryInv'
  BY <1>0, <1>1, <1>2, HistoryKept, ConstantsAssumption
<1> SUFFICES WaitInv' /\ SettledInv'
  BY <1>3
<1>4. \A q \in Pids : dpc[q] # "unused" => dpc'[q] # "unused" /\ (Active(q)' => Active(q))
  BY <1>2 DEF Active
<1>5. CASE StartAttach(c) \/ StartDetach(c)
  <2>1. \A d \in Callers : cpc[d] = "idle"
    BY <1>5 DEF StartAttach, StartDetach, MayStart, Orderly
  <2>2. \A d \in Callers \ {c} : spawned'[d] = spawned[d]
    BY <1>0, <1>5 DEF StartAttach, StartDetach, TypeOK
  <2>3. CASE Return(c, Outcome("refused", NoRecord, "none"))
    BY <1>1, <1>4, <2>1, <2>2, <2>3, PlainReturn DEF Outcome
  <2>4. CASE \E pc \in {"attach_read", "detach_read"} :
               Goto(c, pc) /\ result' = [result EXCEPT ![c] = NoOutcome]
    <3>1. /\ cpc'[c] \in {"attach_read", "detach_read"} /\ result'[c] = NoOutcome
          /\ \A d \in Callers \ {c} : cpc'[d] = "idle" /\ result'[d] = result[d]
      BY <1>0, <2>1, <2>4 DEF Goto, TypeOK
    <3>2. NoOutcome.kind = "none"
      BY DEF NoOutcome, Outcome
    <3>3. \A d \in Callers \ {c} : Settled(spawned[d], result[d])'
      BY <1>1, <1>4, <2>2, <3>1, SettledKept DEF VerdictInv, SettledInv
    <3>4. SettledInv'
      BY <3>1, <3>2, <3>3 DEF SettledInv, Settled
    <3>5. WaitInv'
      BY <3>1 DEF WaitInv, Awaiting
    <3> QED
      BY <3>4, <3>5
  <2> QED
    BY <1>5, <2>3, <2>4 DEF StartAttach, StartDetach
<1>6. CASE ~(StartAttach(c) \/ StartDetach(c))
  <2>1. cpc[c] # "idle" /\ spawned' = spawned
    BY <1>6 DEF AttachRead, AttachProbe, AttachRemove, AttachValidate, DetachRead, DetachProbe,
           DetachClean, DetachSignal, DetachWait, DetachRemove, Interrupt
  <2>2. CASE \E o : Return(c, o) /\ o.kind \notin {"attached", "failed"}
    BY <1>1, <1>4, <2>1, <2>2, PlainReturn
  <2>3. CASE \E pc : Goto(c, pc) /\ pc \notin Awaiting /\ result' = result
    BY <1>1, <1>4, <2>1, <2>3, MovesOn DEF WaitInv, Awaiting
  <2>4. CASE AttachRead(c) \/ AttachRemove(c) \/ DetachWait(c)
    BY <2>3, <2>4 DEF AttachRead, AttachRemove, DetachWait, Awaiting
  <2>5. CASE AttachProbe(c) \/ AttachValidate(c)
    BY <2>2, <2>3, <2>5 DEF AttachProbe, AttachValidate, Awaiting, Outcome
  <2>6. CASE DetachRead(c) \/ DetachProbe(c) \/ DetachSignal(c)
    BY <2>2, <2>3, <2>6 DEF DetachRead, DetachProbe, DetachSignal, Awaiting, Outcome
  <2>7. CASE DetachClean(c) \/ DetachRemove(c) \/ Interrupt(c)
    BY <2>2, <2>7 DEF DetachClean, DetachRemove, Interrupt, Orderly, Outcome
  <2> QED
    BY <1>6, <2>4, <2>5, <2>6, <2>7
<1> QED
  BY <1>5, <1>6

\* The fork: the daemon is new, has written nothing, and is the only one.
LEMMA ForkWaits ==
    ASSUME VerdictInv, NEW c \in Callers, AttachFork(c)
    PROVE  HistoryInv' /\ WaitInv' /\ SettledInv'
<1>0. TypeOK /\ OneCaller /\ HistoryInv /\ CallInv
  BY DEF VerdictInv, SoloInv
<1>1. cpc[c] = "attach_fork" /\ UNCHANGED <<file, last>>
  BY DEF AttachFork
<1>2. file.state = "absent" /\ \A q \in Pids : ~Active(q)
  BY <1>0, <1>1 DEF CallInv
<1>3. CASE Return(c, Outcome("refused", NoRecord, "none")) /\ UNCHANGED <<dpc, spawned>>
  <2>1. HistoryInv'
    BY <1>0, <1>1, <1>3, HistoryKept, ConstantsAssumption
  <2>2. WaitInv' /\ SettledInv'
    BY <1>1, <1>3, PlainReturn DEF Outcome, Active
  <2> QED
    BY <2>1, <2>2
<1>4. ASSUME NEW p \in Pids, dpc[p] = "unused", dpc' = [dpc EXCEPT ![p] = "forked"],
             spawned' = [spawned EXCEPT ![c] = p], Goto(c, "attach_create"),
             UNCHANGED <<observed, result>>
      PROVE  HistoryInv' /\ WaitInv' /\ SettledInv'
  <2>1. /\ dpc'[p] = "forked" /\ spawned'[c] = p /\ cpc'[c] = "attach_create"
        /\ \A q \in Pids \ {p} : dpc'[q] = dpc[q]
        /\ \A d \in Callers \ {c} : spawned'[d] = spawned[d] /\ cpc'[d] = "idle"
    BY <1>0, <1>1, <1>4 DEF TypeOK, OneCaller, Goto
  <2>2. last[p] = NoRecord
    BY <1>0, <1>4 DEF HistoryInv
  <2>3. NoRecord.state = "absent"
    BY DEF NoRecord, Record
  <2>4. \A q \in Pids \ {p} : ~Active(q)'
    BY <1>2, <2>1 DEF Active
  <2>5. HistoryInv'
    BY <1>0, <1>1, <2>1, <2>2, <2>3, <2>4 DEF HistoryInv, TERMINAL_STATES
  <2>6. Waiting(spawned[c], cpc[c], observed[c])'
    BY <1>1, <1>2, <2>1, <2>2, <2>4 DEF Waiting
  <2>7. WaitInv'
    BY <2>1, <2>6 DEF WaitInv, Awaiting
  <2>8. result[c].kind = "none" /\ result' = result
    BY <1>1, <1>4 DEF VerdictInv, SettledInv
  <2>9. \A d \in Callers \ {c} : Settled(spawned[d], result[d])'
    BY <1>1, <1>4, <2>1, <2>8, SettledKept DEF VerdictInv, SettledInv, Active
  <2>10. SettledInv'
    BY <2>1, <2>8, <2>9 DEF SettledInv, Settled
  <2> QED
    BY <2>5, <2>7, <2>10
<1> QED
  BY <1>3, <1>4 DEF AttachFork

\* The parent's fallback record, written in two steps and only where there is none.
LEMMA FallbackWaits ==
    ASSUME VerdictInv, NEW c \in Callers, AttachCreate(c) \/ AttachFill(c)
    PROVE  HistoryInv' /\ WaitInv' /\ SettledInv'
<1> DEFINE p == spawned[c]
<1>0. TypeOK /\ HistoryInv /\ FileInv
  BY DEF VerdictInv, SoloInv
<1>1. /\ cpc[c] \in {"attach_create", "attach_fill"}
      /\ UNCHANGED <<dpc, last, spawned, observed, result>>
      /\ \E pc \in {"attach_fill", "attach_wait"} : Goto(c, pc)
  BY DEF AttachCreate, AttachFill, daemonVars
<1>2. Waiting(p, cpc[c], observed[c]) /\ p \in Pids
  BY <1>1 DEF VerdictInv, WaitInv, Awaiting, Waiting
<1>3. /\ SettledInv'
      /\ cpc'[c] \in {"attach_fill", "attach_wait"}
      /\ \A d \in Callers : d # c => cpc'[d] = "idle"
  BY <1>1, MovesOn DEF Active
<1>4. \/ file' = file /\ file.state # "absent"
      \/ /\ file'.pid = p /\ file'.state \in {"torn", "starting"} /\ file'.cls = "none"
         /\ last[p] = NoRecord
  <2>1. CASE AttachCreate(c) /\ file.state = "absent"
    BY <1>2, <2>1 DEF AttachCreate, Record, Waiting
  <2>2. CASE AttachCreate(c) /\ file.state # "absent"
    BY <2>2 DEF AttachCreate
  <2>3. CASE AttachFill(c) /\ file = Record("torn", p, "none")
    <3>1. file.pid = p /\ file.state = "torn"
      BY <2>3 DEF Record
    <3>2. last[p] = NoRecord
      BY <1>0, <1>2, <3>1 DEF HistoryInv, SessionStates, TERMINAL_STATES
    <3> QED
      BY <2>3, <3>2 DEF AttachFill, _initial_state, Record
  <2>4. CASE AttachFill(c) /\ file # Record("torn", p, "none")
    <3>1. file.state # "absent"
      BY <1>2, <2>4 DEF AttachFill, Waiting
    <3> QED
      BY <2>4, <3>1 DEF AttachFill
  <2> QED
    BY <2>1, <2>2, <2>3, <2>4
<1>5. HistoryInv'
  BY <1>0, <1>1, <1>2, <1>4 DEF HistoryInv, Active
<1>6. file'.pid = p /\ file'.state # "absent"
  BY <1>2, <1>4 DEF Waiting
<1>7. Waiting(spawned[c], cpc[c], observed[c])'
  BY <1>1, <1>2, <1>3, <1>6 DEF Waiting, Active
<1>8. WaitInv'
  BY <1>3, <1>7 DEF WaitInv, Awaiting
<1> QED
  BY <1>3, <1>5, <1>8

\* The polls and the verdict: what is read is what the daemon wrote last, and a
\* verdict is final.
LEMMA VerdictWaits ==
    ASSUME VerdictInv, NEW c \in Callers, AttachWait(c) \/ AttachVerdict(c) \/ AttachReread(c)
    PROVE  HistoryInv' /\ WaitInv' /\ SettledInv'
<1> DEFINE p == spawned[c]
<1>0. TypeOK /\ OneCaller /\ HistoryInv /\ FileInv
  BY DEF VerdictInv, SoloInv
<1>1. /\ cpc[c] \in {"attach_wait", "attach_verdict", "attach_reread"}
      /\ UNCHANGED <<file, dpc, last, spawned>>
  BY DEF AttachWait, AttachVerdict, AttachReread, daemonVars
<1>2. HistoryInv'
  BY <1>0, <1>1, HistoryKept, ConstantsAssumption
<1>3. Waiting(p, cpc[c], observed[c]) /\ p \in Pids /\ p # NoPid
  BY <1>1, ConstantsAssumption DEF VerdictInv, WaitInv, Awaiting, Waiting
<1>4. /\ read_state = file /\ file.pid = p /\ file # NoRecord
      /\ file.state \in SessionStates
  <2>1. file.state # "torn"
    BY <1>0, <1>1 DEF FileInv, OneCaller
  <2>2. file.state # "absent" /\ file.pid = p
    BY <1>1, <1>3 DEF Waiting
  <2> QED
    BY <1>0, <2>1, <2>2 DEF read_state, TypeOK, Records, NoRecord, Record
<1>5. file = last[p] \/ (last[p] = NoRecord /\ file.state = "starting" /\ file.cls = "none")
  BY <1>0, <1>3, <1>4 DEF HistoryInv, SessionStates, TERMINAL_STATES
<1>6. _error_class_of(file) = _error_class_of(last[p])
  BY <1>5 DEF _error_class_of, NoRecord, Record
<1>7. ASSUME NEW o, Return(c, o), o.kind = "attached" => o.pid = p,
             o.kind = "failed" => ~Active(p) /\ o.cls = _error_class_of(last[p])
      PROVE  WaitInv' /\ SettledInv'
  <2>1. \A d \in Callers : cpc'[d] = "idle"
    BY <1>0, <1>1, <1>7 DEF Return, Goto, TypeOK, OneCaller
  <2>2. result'[c] = o /\ \A d \in Callers \ {c} : result'[d] = result[d]
    BY <1>0, <1>7 DEF Return, TypeOK
  <2>3. WaitInv'
    BY <2>1 DEF WaitInv, Awaiting
  <2>4. Settled(spawned[c], result[c])'
    BY <1>1, <1>3, <1>7, <2>2 DEF Settled, Waiting, Active, _error_class_of
  <2>5. \A d \in Callers \ {c} : Settled(spawned[d], result[d])'
    BY <1>1, <2>2, SettledKept DEF VerdictInv, SettledInv, Active
  <2> QED
    BY <2>1, <2>3, <2>4, <2>5 DEF SettledInv
<1>8. ASSUME NEW pc, Goto(c, pc), UNCHANGED result,
             Waiting(spawned[c], pc, observed[c])'
      PROVE  WaitInv' /\ SettledInv'
  <2>1. /\ SettledInv'
        /\ \A d \in Callers : d # c => cpc'[d] = "idle"
        /\ cpc'[c] = pc
    BY <1>1, <1>8, MovesOn DEF Active
  <2> QED
    BY <1>8, <2>1 DEF WaitInv, Awaiting, Waiting
<1>9. CASE AttachWait(c)
  <2>1. observed'[c] = file
    BY <1>0, <1>4, <1>9 DEF AttachWait, TypeOK
  <2>2. file.state \in TERMINAL_STATES => file = last[p]
    BY <1>5 DEF TERMINAL_STATES
  <2>3. Waiting(spawned[c], "attach_verdict", observed[c])'
    BY <1>1, <1>3, <1>4, <2>1, <2>2 DEF Waiting, Active
  <2> QED
    BY <1>2, <1>8, <1>9, <2>3 DEF AttachWait
<1>10. CASE AttachVerdict(c)
  <2> DEFINE o == observed[c]
  <2>1. /\ cpc[c] = "attach_verdict" /\ o.pid = p
        /\ o.state \in TERMINAL_STATES => o = last[p] /\ ~Active(p)
    BY <1>0, <1>3, <1>10 DEF AttachVerdict, Waiting, HistoryInv
  <2>2. CASE Return(c, Outcome("failed", NoRecord, _error_class_of(o))) /\ o.state \in TERMINAL_STATES
    BY <1>2, <1>7, <2>1, <2>2 DEF Outcome
  <2>3. CASE Return(c, Outcome("attached", o, "none"))
    BY <1>2, <1>7, <2>1, <2>3 DEF Outcome
  <2>4. CASE Return(c, Outcome("indeterminate", NoRecord, "timeout"))
    BY <1>2, <1>7, <2>4 DEF Outcome
  <2>5. CASE Goto(c, "attach_reread") /\ UNCHANGED <<observed, result>> /\ ~is_pid_alive(o.pid)
    <3>1. ~Active(p)
      BY <1>3, <2>1, <2>5 DEF is_pid_alive, Active, ActivePcs
    <3>2. Waiting(spawned[c], "attach_reread", observed[c])'
      BY <1>1, <1>3, <2>1, <2>5, <3>1 DEF Waiting, Active
    <3> QED
      BY <1>2, <1>8, <2>5, <3>2
  <2> QED
    BY <1>10, <2>2, <2>3, <2>4, <2>5 DEF AttachVerdict, TERMINAL_STATES
<1>11. CASE AttachReread(c)
  <2>1. Return(c, Outcome("failed", NoRecord, _error_class_of(file)))
    BY <1>4, <1>11 DEF AttachReread
  <2>2. ~Active(p)
    BY <1>3, <1>11 DEF AttachReread, Waiting
  <2> QED
    BY <1>2, <1>6, <1>7, <2>1, <2>2 DEF Outcome
<1> QED
  BY <1>9, <1>10, <1>11

LEMMA VerdictInit == Init => VerdictInv
<1> SUFFICES ASSUME Init PROVE VerdictInv
  OBVIOUS
<1>1. SoloInv
  BY SoloInit
<1>2. NoRecord.state = "absent" /\ NoRecord.pid = NoPid /\ NoOutcome.kind = "none"
  BY DEF NoRecord, NoOutcome, Outcome, Record
<1>3. HistoryInv
  BY <1>2, ConstantsAssumption DEF Init, HistoryInv, TERMINAL_STATES
<1>4. WaitInv /\ SettledInv
  BY <1>2 DEF Init, WaitInv, Awaiting, SettledInv, Settled
<1> QED
  BY <1>1, <1>3, <1>4 DEF VerdictInv

LEMMA VerdictStep == ASSUME Orderly PROVE VerdictInv /\ [Next]_vars => VerdictInv'
<1> SUFFICES ASSUME VerdictInv, [Next]_vars PROVE VerdictInv'
  OBVIOUS
<1>1. SoloInv'
  BY SoloStep DEF VerdictInv
<1>2. HistoryInv' /\ WaitInv' /\ SettledInv'
  <2>1. CASE UNCHANGED vars
    BY <2>1 DEF vars, VerdictInv, HistoryInv, WaitInv, Waiting, SettledInv, Settled, Active,
       _error_class_of
  <2>2. ASSUME NEW p \in Pids, DaemonStep(p) \/ ToggleTimer(p) \/ Crash(p) \/ ReusePid(p)
        PROVE  HistoryInv' /\ WaitInv' /\ SettledInv'
    BY <2>2, DaemonHistory, DaemonWaits
  <2>3. ASSUME NEW c \in Callers, StartAttach(c) \/ StartDetach(c) \/ CallStep(c) \/ Interrupt(c)
        PROVE  HistoryInv' /\ WaitInv' /\ SettledInv'
    BY <2>3, PlainCalls, ForkWaits, FallbackWaits, VerdictWaits DEF CallStep
  <2> QED
    BY <2>1, <2>2, <2>3 DEF Next
<1> QED
  BY <1>1, <1>2 DEF VerdictInv

\* Under the same conditions a changed=true receipt of _attach is about the
\* daemon this very call forked: wait_for_state reads a file no other daemon
\* writes, whatever crashes and pid reuse do.
THEOREM ReceiptsAreOwn == ASSUME Orderly PROVE Spec => []ReceiptIsOwn
<1>1. VerdictInv => ReceiptIsOwn
  BY DEF VerdictInv, SettledInv, Settled, ReceiptIsOwn
<1>2. VerdictInv /\ [Next]_vars => VerdictInv'
  BY VerdictStep
<1> QED
  BY <1>1, <1>2, VerdictInit, PTL DEF Spec

\* spawn_session's fallback record never hides what a daemon has reported: from
\* its "detached" or "error" on, a record that names the daemon is that verdict.
THEOREM VerdictsStick == ASSUME Orderly PROVE Spec => []VerdictSticks
<1>1. VerdictInv => VerdictSticks
  <2> SUFFICES ASSUME VerdictInv, NEW p \in Pids, last[p].state \in TERMINAL_STATES, file.pid = p
               PROVE  file = last[p]
    BY DEF VerdictSticks
  <2> QED
    BY DEF VerdictInv, HistoryInv, NoRecord, Record, TERMINAL_STATES
<1>2. VerdictInv /\ [Next]_vars => VerdictInv'
  BY VerdictStep
<1> QED
  BY <1>1, <1>2, VerdictInit, PTL DEF Spec

\* A failed attach carries the class its daemon wrote last: the daemon's exit, its
\* last write, the poll and the second read may come in any order, and a receipt
\* once given stays true, for no daemon writes after it.
THEOREM FailuresAreTheDaemons == ASSUME Orderly PROVE Spec => []FailureClassIsDaemons
<1>1. VerdictInv => FailureClassIsDaemons
  BY DEF VerdictInv, SettledInv, Settled, FailureClassIsDaemons
<1>2. VerdictInv /\ [Next]_vars => VerdictInv'
  BY VerdictStep
<1> QED
  BY <1>1, <1>2, VerdictInit, PTL DEF Spec

---------------------------------------------------------------------------
(***************************************************************************)
(* "attached" is never claimed for a session firmware did not confirm.     *)
(* No condition on the environment: two callers, abandoned daemons, killed *)
(* calls and reused pids included.                                         *)
(***************************************************************************)

\* A record that says "attached" names a daemon whose session was confirmed.
Backed(state, pid) == state = "attached" => pid \in Pids /\ confirmed[pid]

EngineInv ==
    \A p \in Pids : /\ rec[p].pid = p
                    /\ Backed(rec[p].state, p)
                    /\ open[p] /\ toggle[p] = "ok" => confirmed[p]

ReceiptInv ==
    /\ Backed(file.state, file.pid)
    /\ \A c \in Callers : /\ Backed(existing[c].state, existing[c].pid)
                          /\ Backed(observed[c].state, observed[c].pid)
                          /\ Backed(result[c].state, result[c].pid)

ConfirmedInv == TypeOK /\ EngineInv /\ ReceiptInv

\* A chunk only ever adds confirmations, and marks the one it brings.
LEMMA FeedConfirms ==
    ASSUME ConfirmedInv, NEW p \in Pids, Feed(p)
    PROVE  /\ \A q \in Pids : confirmed[q] => confirmed'[q]
           /\ \A q \in Pids : open'[q] /\ toggle'[q] = "ok" => confirmed'[q]
<1>1. PICK o \in {open[p], TRUE}, t \in {toggle[p], "ok", "refused"}, h \in BOOLEAN :
            /\ open' = [open EXCEPT ![p] = o]
            /\ toggle' = [toggle EXCEPT ![p] = t]
            /\ halted' = [halted EXCEPT ![p] = h]
            /\ confirmed' = [confirmed EXCEPT ![p] = @ \/ (o /\ t = "ok")]
  BY DEF Feed
<1>2. confirmed'[p] = (confirmed[p] \/ (o /\ t = "ok")) /\ open'[p] = o /\ toggle'[p] = t
  BY <1>1 DEF ConfirmedInv, TypeOK
<1>3. \A q \in Pids : q # p => /\ confirmed'[q] = confirmed[q]
                               /\ open'[q] = open[q] /\ toggle'[q] = toggle[q]
  BY <1>1 DEF ConfirmedInv, TypeOK
<1> QED
  BY <1>2, <1>3 DEF ConfirmedInv, EngineInv

\* Steps that take nothing back: confirmations stay, and every record that is
\* new in memory or on file is backed.
LEMMA BackedStays ==
    ASSUME ConfirmedInv, UNCHANGED callVars,
           \A q \in Pids : confirmed[q] => confirmed'[q],
           file' = file \/ \E p \in Pids : file' = rec[p]
    PROVE  ReceiptInv'
<1>1. Backed(file.state, file.pid)'
  BY DEF ConfirmedInv, ReceiptInv, EngineInv, Backed
<1> QED
  BY <1>1 DEF ConfirmedInv, ReceiptInv, Backed, callVars

LEMMA ExitConfirmed ==
    ASSUME ConfirmedInv, NEW p \in Pids, Exit(p), UNCHANGED confirmed
    PROVE  EngineInv'
<1>1. /\ rec' = [rec EXCEPT ![p] = [state |-> "starting", pid |-> p, cls |-> "none"]]
      /\ open' = [open EXCEPT ![p] = FALSE]
      /\ toggle' = [toggle EXCEPT ![p] = "none"]
  BY DEF Exit, _initial_state, Record
<1> QED
  BY <1>1 DEF ConfirmedInv, TypeOK, EngineInv, Backed

\* The daemon says "attached" only behind the gate.
LEMMA DaemonConfirmed ==
    ASSUME ConfirmedInv, NEW p \in Pids,
           DaemonStep(p) \/ ToggleTimer(p) \/ Crash(p) \/ ReusePid(p)
    PROVE  EngineInv' /\ ReceiptInv'
<1>0. TypeOK /\ UNCHANGED callVars
  BY DaemonPcStep DEF ConfirmedInv
<1>1. CASE InstallHandler(p) \/ ToggleTimer(p) \/ ReusePid(p)
  <2>1. UNCHANGED <<file, rec, open, toggle, confirmed>>
    BY <1>1 DEF InstallHandler, ToggleTimer, ReusePid
  <2> QED
    BY <1>0, <2>1, BackedStays DEF ConfirmedInv, EngineInv, Backed
<1>2. CASE Claim(p) \/ Announce(p) \/ Heartbeat(p) \/ Report(p)
  <2>1. file' = rec[p] /\ UNCHANGED <<rec, open, toggle, confirmed>>
    BY <1>2 DEF Claim, Announce, Heartbeat, Report, _persist
  <2> QED
    BY <1>0, <2>1, BackedStays DEF ConfirmedInv, EngineInv, Backed
<1>3. CASE OpenImages(p)
  <2>1. /\ UNCHANGED <<file, open, toggle, confirmed>>
        /\ \E s \in {"connecting", "error"}, e \in {"none", "protocol"} :
               rec' = [rec EXCEPT ![p] = [state |-> s, pid |-> p, cls |-> e]]
    BY <1>3 DEF OpenImages, Decide, _fail, Record
  <2> QED
    BY <1>0, <2>1, BackedStays DEF ConfirmedInv, TypeOK, EngineInv, Backed
<1>4. CASE Connect(p)
  <2>1. CASE Feed(p) /\ UNCHANGED rec
    BY <1>0, <1>4, <2>1, FeedConfirms, BackedStays DEF Connect, ConfirmedInv, EngineInv, Backed
  <2>2. CASE /\ UNCHANGED <<open, toggle, confirmed>>
             /\ \E e \in ConnectErrors \cup ServeErrors : _fail(p, e)
    <3>1. \E e : rec' = [rec EXCEPT ![p] = [state |-> "error", pid |-> p, cls |-> e]]
      BY <2>2 DEF _fail, Decide, Record
    <3>2. EngineInv'
      BY <2>2, <3>1 DEF ConfirmedInv, TypeOK, EngineInv, Backed
    <3> QED
      BY <1>0, <1>4, <2>2, <3>2, BackedStays DEF Connect
  <2> QED
    BY <1>4, <2>1, <2>2 DEF Connect
<1>5. CASE Loop(p)
  <2>1. UNCHANGED <<file, open, toggle, confirmed>>
    BY <1>5 DEF Loop
  <2>2. CASE rec' = rec
    BY <1>0, <2>1, <2>2, BackedStays DEF ConfirmedInv, EngineInv, Backed
  <2>3. CASE \E e : \E s \in {"detached", "error"} :
               rec' = [rec EXCEPT ![p] = [state |-> s, pid |-> p, cls |-> e]]
    BY <1>0, <2>1, <2>3, BackedStays DEF ConfirmedInv, TypeOK, EngineInv, Backed
  <2>4. CASE /\ open[p] /\ toggle[p] = "ok"
             /\ rec' = [rec EXCEPT ![p] = [state |-> "attached", pid |-> p, cls |-> "none"]]
    <3>1. confirmed[p]
      BY <2>4 DEF ConfirmedInv, EngineInv
    <3>2. EngineInv'
      BY <2>1, <2>4, <3>1 DEF ConfirmedInv, TypeOK, EngineInv, Backed
    <3> QED
      BY <1>0, <2>1, <3>2, BackedStays
  <2> QED
    BY <1>5, <2>2, <2>3, <2>4 DEF Loop, LeaveLoop, Gate, Decide, _fail, Record
<1>6. CASE Receive(p)
  <2>1. file' = file
    BY <1>6 DEF Receive
  <2>2. CASE Feed(p) /\ UNCHANGED rec
    BY <1>0, <2>1, <2>2, FeedConfirms, BackedStays DEF ConfirmedInv, EngineInv, Backed
  <2>3. CASE UNCHANGED <<open, toggle, confirmed, rec>>
    BY <1>0, <2>1, <2>3, BackedStays DEF ConfirmedInv, EngineInv, Backed
  <2>4. CASE /\ UNCHANGED <<open, toggle, confirmed>>
             /\ \E e : \E s \in {"detached", "error"} :
                    rec' = [rec EXCEPT ![p] = [state |-> s, pid |-> p, cls |-> e]]
    BY <1>0, <2>1, <2>4, BackedStays DEF ConfirmedInv, TypeOK, EngineInv, Backed
  <2> QED
    BY <1>6, <2>2, <2>3, <2>4 DEF Receive, Decide, _fail, Record
<1>7. CASE Close(p) \/ Crash(p)
  <2>1. file' = file /\ confirmed' = confirmed /\ Exit(p)
    BY <1>7 DEF Close, Crash
  <2> QED
    BY <1>0, <2>1, ExitConfirmed, BackedStays
<1> QED
  BY <1>1, <1>2, <1>3, <1>4, <1>5, <1>6, <1>7 DEF DaemonStep

\* A returning call hands on only what it had read.
LEMMA ReturnConfirmed ==
    ASSUME ConfirmedInv, NEW c \in Callers, NEW o, Return(c, o), Backed(o.state, o.pid),
           file' = file \/ file' = NoRecord, UNCHANGED confirmed
    PROVE  ReceiptInv'
<1>1. /\ existing' = [existing EXCEPT ![c] = NoRecord]
      /\ observed' = [observed EXCEPT ![c] = NoRecord]
      /\ result' = [result EXCEPT ![c] = o]
  BY DEF Return
<1>2. NoRecord.state = "absent"
  BY DEF NoRecord, Record
<1> QED
  BY <1>1, <1>2 DEF ConfirmedInv, TypeOK, ReceiptInv, Backed

\* Nothing the module writes or returns adds an "attached" of its own.
LEMMA CallConfirmed ==
    ASSUME ConfirmedInv, NEW c \in Callers,
           StartAttach(c) \/ StartDetach(c) \/ CallStep(c) \/ Interrupt(c)
    PROVE  EngineInv' /\ ReceiptInv'
<1> USE DEF daemonVars
<1>0. TypeOK
  BY DEF ConfirmedInv
<1>1. confirmed' = confirmed
  BY DEF CallStep, StartAttach, StartDetach, Interrupt, AttachRead, AttachProbe, AttachRemove,
         AttachValidate, AttachFork, AttachCreate, AttachFill, AttachWait, AttachVerdict,
         AttachReread, DetachRead, DetachProbe, DetachClean, DetachSignal, DetachWait, DetachRemove
<1>2. EngineInv'
  <2>1. CASE UNCHANGED <<rec, open, toggle, confirmed>>
    BY <2>1 DEF ConfirmedInv, EngineInv, Backed
  <2>2. CASE existing[c].pid \in Pids /\ Exit(existing[c].pid)
    BY <1>1, <2>2, ExitConfirmed
  <2> QED
    BY <1>1, <2>1, <2>2
       DEF CallStep, StartAttach, StartDetach, Interrupt, AttachRead, AttachProbe, AttachRemove,
           AttachValidate, AttachFork, AttachCreate, AttachFill, AttachWait, AttachVerdict,
           AttachReread, DetachRead, DetachProbe, DetachClean, DetachSignal, DetachWait, DetachRemove
<1>3. ReceiptInv'
  <2> USE DEF ReceiptInv, Backed
  <2>a. NoRecord.state = "absent" /\ NoOutcome.state = "absent"
    BY DEF NoOutcome, Outcome, NoRecord, Record
  <2>b. \A kind, cls : Outcome(kind, NoRecord, cls).state = "absent"
    BY DEF Outcome, NoRecord, Record
  <2>c. Backed(read_state.state, read_state.pid)
    BY <2>a DEF ConfirmedInv, read_state
  <2>1. CASE file' = file /\ UNCHANGED <<existing, observed, result>>
    BY <1>1, <2>1 DEF ConfirmedInv
  <2>2. ASSUME NEW o, Return(c, o), o.state # "attached", file' = file \/ file' = NoRecord
        PROVE  ReceiptInv'
    BY <1>1, <2>2, ReturnConfirmed
  <2>3. CASE StartAttach(c) \/ StartDetach(c)
    <3>1. CASE Return(c, Outcome("refused", NoRecord, "none"))
      BY <2>3, <2>b, <2>2, <3>1 DEF StartAttach, StartDetach
    <3>2. CASE ~Return(c, Outcome("refused", NoRecord, "none"))
      BY <1>0, <1>1, <2>3, <2>a, <3>2 DEF StartAttach, StartDetach, ConfirmedInv, TypeOK
    <3> QED
      BY <3>1, <3>2
  <2>4. CASE AttachRead(c) \/ DetachRead(c)
    <3>1. CASE Return(c, Outcome("unchanged", NoRecord, "none"))
      BY <2>4, <2>b, <2>2, <3>1 DEF AttachRead, DetachRead
    <3>2. CASE ~Return(c, Outcome("unchanged", NoRecord, "none"))
      BY <1>0, <1>1, <2>4, <2>c, <3>2 DEF AttachRead, DetachRead, ConfirmedInv, TypeOK
    <3> QED
      BY <3>1, <3>2
  <2>5. CASE AttachProbe(c)
    <3>1. CASE Return(c, Outcome("already", existing[c], "none"))
      <4>1. Backed(Outcome("already", existing[c], "none").state, Outcome("already", existing[c], "none").pid)
        BY DEF Outcome, ConfirmedInv
      <4> QED
        BY <1>1, <2>5, <3>1, <4>1, ReturnConfirmed DEF AttachProbe
    <3> QED
      BY <2>5, <2>1, <3>1 DEF AttachProbe
  <2>6. CASE AttachRemove(c)
    BY <1>0, <1>1, <2>6, <2>a DEF AttachRemove, ConfirmedInv, TypeOK
  <2>7. CASE AttachValidate(c) \/ AttachFork(c)
    BY <2>7, <2>b, <2>1, <2>2 DEF AttachValidate, AttachFork
  <2>8. CASE AttachCreate(c) \/ AttachFill(c)
    <3>1. file' = file \/ file'.state \in {"torn", "starting"}
      BY <2>8 DEF AttachCreate, AttachFill, _initial_state, Record
    <3>2. UNCHANGED <<existing, observed, result>>
      BY <2>8 DEF AttachCreate, AttachFill
    <3> QED
      BY <1>1, <3>1, <3>2 DEF ConfirmedInv
  <2>9. CASE AttachWait(c)
    BY <1>0, <1>1, <2>9, <2>c DEF AttachWait, ConfirmedInv, TypeOK
  <2>10. CASE AttachVerdict(c) \/ AttachReread(c)
    <3>1. CASE Return(c, Outcome("attached", observed[c], "none"))
      <4>1. Backed(Outcome("attached", observed[c], "none").state, Outcome("attached", observed[c], "none").pid)
        BY DEF Outcome, ConfirmedInv
      <4> QED
        BY <1>1, <2>10, <3>1, <4>1, ReturnConfirmed DEF AttachVerdict, AttachReread
    <3> QED
      BY <2>10, <2>b, <2>1, <2>2, <3>1 DEF AttachVerdict, AttachReread
  <2>11. CASE DetachProbe(c) \/ DetachClean(c) \/ DetachWait(c) \/ DetachRemove(c) \/ Interrupt(c)
    BY <2>11, <2>a, <2>b, <2>1, <2>2 DEF DetachProbe, DetachClean, DetachWait, DetachRemove, Interrupt
  <2>12. CASE DetachSignal(c)
    BY <2>12, <2>b, <2>1, <2>2 DEF DetachSignal
  <2> QED
    BY <2>3, <2>4, <2>5, <2>6, <2>7, <2>8, <2>9, <2>10, <2>11, <2>12 DEF CallStep
<1> QED
  BY <1>2, <1>3

LEMMA ConfirmedStep == ConfirmedInv /\ [Next]_vars => ConfirmedInv'
<1> SUFFICES ASSUME ConfirmedInv, [Next]_vars PROVE ConfirmedInv'
  OBVIOUS
<1>1. TypeOK'
  BY TypeStep DEF ConfirmedInv
<1>2. CASE UNCHANGED vars
  BY <1>1, <1>2 DEF vars, ConfirmedInv, EngineInv, ReceiptInv, Backed
<1>3. ASSUME NEW p \in Pids, DaemonStep(p) \/ ToggleTimer(p) \/ Crash(p) \/ ReusePid(p)
      PROVE  EngineInv' /\ ReceiptInv'
  BY <1>3, DaemonConfirmed
<1>4. ASSUME NEW c \in Callers, StartAttach(c) \/ StartDetach(c) \/ CallStep(c) \/ Interrupt(c)
      PROVE  EngineInv' /\ ReceiptInv'
  BY <1>4, CallConfirmed
<1> QED
  BY <1>1, <1>2, <1>3, <1>4 DEF Next, ConfirmedInv

LEMMA ConfirmedInit == Init => ConfirmedInv
  BY TypeInit DEF Init, ConfirmedInv, EngineInv, ReceiptInv, Backed, _initial_state, NoOutcome,
                  Outcome, NoRecord, Record

\* The attach gate of _run_daemon holds for the whole system: no state file, no
\* record a call works from and no receipt says "attached" of a session whose
\* IDE-R toggle firmware did not confirm, whatever the environment does.
THEOREM AttachedConfirmed == Spec => []AttachedIsConfirmed
<1>1. ConfirmedInv => AttachedIsConfirmed
  BY DEF ConfirmedInv, ReceiptInv, Backed, AttachedIsConfirmed
<1> QED
  BY <1>1, ConfirmedInit, ConfirmedStep, PTL DEF Spec

=============================================================================
