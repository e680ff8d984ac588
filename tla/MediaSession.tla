--------------------------- MODULE MediaSession ---------------------------
(***************************************************************************)
(* The life of one IDE-R media session: the detached daemon that owns the  *)
(* redirection connection (media_session._run_daemon), the amt_media       *)
(* module processes that start and stop it (_attach, _detach), and the     *)
(* state file that is the only channel between them.                       *)
(*                                                                         *)
(* Every step below is a point at which another process can run: a read or *)
(* a write of the state file, a liveness probe, a signal, a fork, a        *)
(* blocking call.  Local computation is merged into the step before it.    *)
(* One session_id is modelled: two ids share no file and no process.       *)
(***************************************************************************)
EXTENDS Naturals, FiniteSets

CONSTANTS
    Pids,          \* process ids the controller can hand to daemons
    NoPid,         \* "pid": null, and the pid of an unreadable record
    Callers,       \* concurrent invocations of the amt_media module
    ConnectErrors, \* error classes RedirectionSession.connect can raise
    Serial,        \* TRUE: at most one invocation runs at a time
    PromptStop,    \* TRUE: a signalled daemon exits within detach_timeout
    Crashes,       \* TRUE: SIGKILL / OOM can end a daemon at any step
    Interrupts,    \* TRUE: an invocation itself can be killed half way
    PidReuse       \* TRUE: the kernel can give a dead daemon's pid away

ASSUME ConstantsAssumption ==
    /\ NoPid \notin Pids
    /\ "none" \notin ConnectErrors
    /\ Serial \in BOOLEAN
    /\ PromptStop \in BOOLEAN
    /\ Crashes \in BOOLEAN
    /\ Interrupts \in BOOLEAN
    /\ PidReuse \in BOOLEAN

VARIABLES
    file,      \* the state file <session_id>.json
    dpc,       \* where each daemon process is in _run_daemon
    stop,      \* _stop_flag of each daemon
    open,      \* engine.session_open
    toggle,    \* engine.feature_toggle_ok: "none" | "ok" | "refused"
    halted,    \* engine.stopped
    timer,     \* toggle_deadline: "off" | "running" | "expired"
    rec,       \* the daemon's in-memory `state` record
    cpc,       \* where each invocation is in _attach / _detach
    check,     \* module.check_mode of the invocation
    existing,  \* the record the invocation read first
    observed,  \* the record wait_for_state returned
    spawned,   \* the pid spawn_session returned
    result,    \* what the invocation's last call returned
    last,      \* history: the record each daemon wrote last
    confirmed  \* history: firmware had opened the session and agreed to
               \* engage IDE-R at some point of the daemon's life

daemonVars == <<dpc, stop, open, toggle, halted, timer, rec, last, confirmed>>
callVars == <<cpc, check, existing, observed, spawned, result>>
vars == <<file, dpc, stop, open, toggle, halted, timer, rec, cpc, check,
          existing, observed, spawned, result, last, confirmed>>

---------------------------------------------------------------------------
(***************************************************************************)
(* Records and the state file.                                             *)
(***************************************************************************)
TERMINAL_STATES == {"detached", "error"}

SessionStates == {"starting", "connecting", "attached"} \cup TERMINAL_STATES

\* What ends a session that is being served: RedirectionSession.send raises
\* `timeout` and `connection`, which keep their class; a frame the engine cannot
\* take, an image that cannot be read and a socket error out of recv are
\* `protocol`, the last two by way of the last-resort handler.
ServeErrors == {"protocol", "connection", "timeout"}

ErrorClasses == ConnectErrors \cup ServeErrors \cup {"none", "unsupported_capability"}

\* One record of the file.  "absent" is a file that does not exist, "torn" one
\* that _write_state_if_absent has created and not filled yet.
Record(state, pid, cls) == [state |-> state, pid |-> pid, cls |-> cls]

Records == [state : SessionStates \cup {"absent", "torn"},
            pid : Pids \cup {NoPid}, cls : ErrorClasses]

NoRecord == Record("absent", NoPid, "none")

_initial_state(pid) == Record("starting", pid, "none")

\* read_state: a missing or unparsable file is "no session".
read_state == IF file.state \in {"absent", "torn"} THEN NoRecord ELSE file

\* _error_class_of: the generic class when the record carries none.
_error_class_of(r) == IF r.cls = "none" THEN "protocol" ELSE r.cls

\* os.kill(pid, 0): any process answers, the daemon or a stranger that was
\* given its pid.
is_pid_alive(pid) == pid \in Pids /\ dpc[pid] \notin {"unused", "dead"}

\* A daemon that can still write the state file.
ActivePcs == {"forked", "claiming", "opening", "announcing", "connecting",
              "loop", "heartbeat", "receiving", "reporting"}

DaemonPcs == ActivePcs \cup {"unused", "closing", "dead", "stranger"}

CallPcs == {"idle", "attach_read", "attach_probe", "attach_remove",
            "attach_validate", "attach_fork", "attach_create", "attach_fill",
            "attach_wait", "attach_verdict", "attach_reread",
            "detach_read", "detach_probe", "detach_clean", "detach_signal",
            "detach_wait", "detach_remove", "detach_abandon"}

\* What a call returns, kept to what a caller acts on: the kind of the result,
\* and the record a success or the error class a failure is about.
\*   already    success, changed=false, a live session was found
\*   attached   success, changed=true, the daemon forked here was confirmed
\*   failed     attach failed with a class; indeterminate: with no verdict
\*   stopped    detach, changed=true, the daemon exited; overrun: it did not yet
\*   unchanged  detach with nothing live to stop, and every check-mode receipt
\*   refused    rejected arguments or media, no fork, no right to signal
Outcome(kind, about, cls) ==
    [kind |-> kind, state |-> about.state, pid |-> about.pid, cls |-> cls]

NoOutcome == Outcome("none", NoRecord, "none")

Outcomes ==
    [kind : {"none", "already", "attached", "failed", "indeterminate",
             "stopped", "overrun", "unchanged", "refused"},
     state : SessionStates \cup {"absent", "torn"},
     pid : Pids \cup {NoPid},
     cls : ErrorClasses]

TypeOK ==
    /\ file \in Records
    /\ dpc \in [Pids -> DaemonPcs]
    /\ stop \in [Pids -> BOOLEAN]
    /\ open \in [Pids -> BOOLEAN]
    /\ toggle \in [Pids -> {"none", "ok", "refused"}]
    /\ halted \in [Pids -> BOOLEAN]
    /\ timer \in [Pids -> {"off", "running", "expired"}]
    /\ rec \in [Pids -> [state : SessionStates, pid : Pids, cls : ErrorClasses]]
    /\ cpc \in [Callers -> CallPcs]
    /\ check \in [Callers -> BOOLEAN]
    /\ existing \in [Callers -> Records]
    /\ observed \in [Callers -> Records]
    /\ spawned \in [Callers -> Pids \cup {NoPid}]
    /\ result \in [Callers -> Outcomes]
    /\ last \in [Pids -> Records]
    /\ confirmed \in [Pids -> BOOLEAN]

Init ==
    /\ file = NoRecord
    /\ dpc = [p \in Pids |-> "unused"]
    /\ stop = [p \in Pids |-> FALSE]
    /\ open = [p \in Pids |-> FALSE]
    /\ toggle = [p \in Pids |-> "none"]
    /\ halted = [p \in Pids |-> FALSE]
    /\ timer = [p \in Pids |-> "off"]
    /\ rec = [p \in Pids |-> _initial_state(p)]
    /\ cpc = [c \in Callers |-> "idle"]
    /\ check = [c \in Callers |-> FALSE]
    /\ existing = [c \in Callers |-> NoRecord]
    /\ observed = [c \in Callers |-> NoRecord]
    /\ spawned = [c \in Callers |-> NoPid]
    /\ result = [c \in Callers |-> NoOutcome]
    /\ last = [p \in Pids |-> NoRecord]
    /\ confirmed = [p \in Pids |-> FALSE]

---------------------------------------------------------------------------
(***************************************************************************)
(* The daemon: _run_daemon.                                                *)
(***************************************************************************)

\* _persist: os.replace() puts the record in place atomically, and recreates
\* the file when somebody removed it.
_persist(p, r) ==
    /\ file' = r
    /\ last' = [last EXCEPT ![p] = r]

\* The daemon's record gets state s and error class c; the write follows.
Decide(p, s, c, next) ==
    /\ rec' = [rec EXCEPT ![p] = Record(s, p, c)]
    /\ dpc' = [dpc EXCEPT ![p] = next]

\* _fail: classified error, then the report is written and the session ends.
_fail(p, c) == Decide(p, "error", c, "reporting")

\* From here on SIGTERM sets a flag instead of killing the process.
InstallHandler(p) ==
    /\ dpc[p] = "forked"
    /\ dpc' = [dpc EXCEPT ![p] = "claiming"]
    /\ UNCHANGED <<file, stop, open, toggle, halted, timer, rec, last, confirmed>>
    /\ UNCHANGED callVars

\* The first write, before a single image is opened.
Claim(p) ==
    /\ dpc[p] = "claiming"
    /\ _persist(p, rec[p])
    /\ dpc' = [dpc EXCEPT ![p] = "opening"]
    /\ UNCHANGED <<stop, open, toggle, halted, timer, rec, confirmed>>
    /\ UNCHANGED callVars

\* Opening the images: a file that vanished since validate_media_specs raises
\* ValueError or OSError, which the last-resort handler reports as protocol.
OpenImages(p) ==
    /\ dpc[p] = "opening"
    /\ \/ Decide(p, "connecting", "none", "announcing")
       \/ _fail(p, "protocol")
    /\ UNCHANGED <<file, stop, open, toggle, halted, timer, last, confirmed>>
    /\ UNCHANGED callVars

Announce(p) ==
    /\ dpc[p] = "announcing"
    /\ _persist(p, rec[p])
    /\ dpc' = [dpc EXCEPT ![p] = "connecting"]
    /\ UNCHANGED <<stop, open, toggle, halted, timer, rec, confirmed>>
    /\ UNCHANGED callVars

\* engine.feed: a chunk holds any number of frames, so after it the session may
\* have been opened, a toggle verdict may have arrived and replaced an earlier
\* one, and the engine may have stopped itself.
Feed(p) ==
    \E o \in {open[p], TRUE}, t \in {toggle[p], "ok", "refused"}, h \in BOOLEAN :
        /\ open' = [open EXCEPT ![p] = o]
        /\ toggle' = [toggle EXCEPT ![p] = t]
        /\ halted' = [halted EXCEPT ![p] = h]
        /\ confirmed' = [confirmed EXCEPT ![p] = @ \/ (o /\ t = "ok")]

\* session.connect(), engine.start() and the bytes left over from the handshake.
\* SIGTERM does not interrupt it: the flag is only looked at by the main loop.
Connect(p) ==
    /\ dpc[p] = "connecting"
    /\ \/ /\ Feed(p)
          /\ dpc' = [dpc EXCEPT ![p] = "loop"]
          /\ UNCHANGED rec
       \/ /\ \E c \in ConnectErrors \cup ServeErrors : _fail(p, c)
          /\ UNCHANGED <<open, toggle, halted, confirmed>>
    /\ UNCHANGED <<file, stop, timer, last>>
    /\ UNCHANGED callVars

\* Mutant: the loop only asks the engine, SIGTERM is never noticed.
DeafRunning(p) == ~halted[p]

\* The while test of the main loop.
Running(p) == ~halted[p] /\ ~stop[p]

\* After the loop: a stop request wins over a torn-down engine.
LeaveLoop(p) ==
    /\ ~Running(p)
    /\ \/ stop[p] /\ Decide(p, "detached", "none", "reporting")
       \/ ~stop[p] /\ _fail(p, "protocol")
    /\ UNCHANGED timer

\* Mutant: an open session is enough to be attached, whatever the toggle says.
GateOnOpenOnly(p) ==
    /\ Running(p)
    /\ \/ /\ open[p]
          /\ Decide(p, "attached", "none", "heartbeat")
       \/ /\ ~open[p]
          /\ dpc' = [dpc EXCEPT ![p] = "heartbeat"]
          /\ UNCHANGED rec
    /\ UNCHANGED timer

\* Mutant: the deadline is armed anew on every turn of the loop.
GateRearming(p) ==
    /\ Running(p)
    /\ \/ /\ toggle[p] = "refused"
          /\ _fail(p, "unsupported_capability")
          /\ UNCHANGED timer
       \/ /\ toggle[p] = "ok" /\ open[p]
          /\ Decide(p, "attached", "none", "heartbeat")
          /\ UNCHANGED timer
       \/ /\ toggle[p] = "none" \/ (toggle[p] = "ok" /\ ~open[p])
          /\ dpc' = [dpc EXCEPT ![p] = "heartbeat"]
          /\ timer' = [timer EXCEPT ![p] = IF open[p] THEN "running" ELSE @]
          /\ UNCHANGED rec

\* Mutant: the refusal is looked for only until the session is attached.
GateAttachedOnce(p) ==
    /\ Running(p)
    /\ \/ /\ toggle[p] = "refused" /\ rec[p].state # "attached"
          /\ _fail(p, "unsupported_capability")
       \/ /\ open[p] /\ toggle[p] = "ok"
          /\ Decide(p, "attached", "none", "heartbeat")
       \/ /\ rec[p].state = "attached" \/ toggle[p] = "none" \/ ~open[p]
          /\ dpc' = [dpc EXCEPT ![p] = "heartbeat"]
          /\ UNCHANGED rec
    /\ UNCHANGED timer

\* The attach gate: only an open session whose toggle firmware confirmed is
\* attached.  A refusal ends the session even after it was attached.
Gate(p) ==
    /\ Running(p)
    /\ \/ /\ toggle[p] = "refused"
          /\ _fail(p, "unsupported_capability")
          /\ UNCHANGED timer
       \/ /\ toggle[p] # "refused" /\ ~open[p]
          /\ dpc' = [dpc EXCEPT ![p] = "heartbeat"]
          /\ UNCHANGED <<rec, timer>>
       \/ /\ toggle[p] = "ok" /\ open[p]
          /\ Decide(p, "attached", "none", "heartbeat")
          /\ UNCHANGED timer
       \/ /\ toggle[p] = "none" /\ open[p] /\ timer[p] # "expired"
          /\ dpc' = [dpc EXCEPT ![p] = "heartbeat"]
          /\ timer' = [timer EXCEPT ![p] = "running"]
          /\ UNCHANGED rec
       \/ /\ toggle[p] = "none" /\ open[p] /\ timer[p] = "expired"
          /\ _fail(p, "timeout")
          /\ UNCHANGED timer

Loop(p) ==
    /\ dpc[p] = "loop"
    /\ LeaveLoop(p) \/ Gate(p)
    /\ UNCHANGED <<file, stop, open, toggle, halted, last, confirmed>>
    /\ UNCHANGED callVars

Heartbeat(p) ==
    /\ dpc[p] = "heartbeat"
    /\ _persist(p, rec[p])
    /\ dpc' = [dpc EXCEPT ![p] = "receiving"]
    /\ UNCHANGED <<stop, open, toggle, halted, timer, rec, confirmed>>
    /\ UNCHANGED callVars

\* session.recv(): a quiet connection times out after _RECV_POLL_TIMEOUT, the
\* peer may close, the socket may raise, or a chunk arrives, and the engine or
\* the answers it sends may raise too.
Receive(p) ==
    /\ dpc[p] = "receiving"
    /\ \/ /\ dpc' = [dpc EXCEPT ![p] = "loop"]
          /\ UNCHANGED <<open, toggle, halted, confirmed, rec>>
       \/ /\ Decide(p, "detached", rec[p].cls, "reporting")
          /\ UNCHANGED <<open, toggle, halted, confirmed>>
       \/ /\ \E c \in ServeErrors : _fail(p, c)
          /\ UNCHANGED <<open, toggle, halted, confirmed>>
       \/ /\ Feed(p)
          /\ dpc' = [dpc EXCEPT ![p] = "loop"]
          /\ UNCHANGED rec
    /\ UNCHANGED <<file, stop, timer, last>>
    /\ UNCHANGED callVars

\* The last write; what remains is closing the images and the socket.
Report(p) ==
    /\ dpc[p] = "reporting"
    /\ _persist(p, rec[p])
    /\ dpc' = [dpc EXCEPT ![p] = "closing"]
    /\ UNCHANGED <<stop, open, toggle, halted, timer, rec, confirmed>>
    /\ UNCHANGED callVars

\* The end of a process: its memory goes with it, its records stay.
Exit(p) ==
    /\ dpc' = [dpc EXCEPT ![p] = "dead"]
    /\ stop' = [stop EXCEPT ![p] = FALSE]
    /\ open' = [open EXCEPT ![p] = FALSE]
    /\ toggle' = [toggle EXCEPT ![p] = "none"]
    /\ halted' = [halted EXCEPT ![p] = FALSE]
    /\ timer' = [timer EXCEPT ![p] = "off"]
    /\ rec' = [rec EXCEPT ![p] = _initial_state(p)]

Close(p) ==
    /\ dpc[p] = "closing"
    /\ Exit(p)
    /\ UNCHANGED <<file, last, confirmed>>
    /\ UNCHANGED callVars

DaemonStep(p) ==
    \/ InstallHandler(p) \/ Claim(p) \/ OpenImages(p) \/ Announce(p)
    \/ Connect(p) \/ Loop(p) \/ Heartbeat(p) \/ Receive(p) \/ Report(p)
    \/ Close(p)

\* _FEATURE_TOGGLE_TIMEOUT passes; after a verdict nobody looks at the deadline.
ToggleTimer(p) ==
    /\ timer[p] = "running"
    /\ toggle[p] = "none"
    /\ timer' = [timer EXCEPT ![p] = "expired"]
    /\ UNCHANGED <<file, dpc, stop, open, toggle, halted, rec, last, confirmed>>
    /\ UNCHANGED callVars

\* SIGKILL, OOM, a controller reboot, or an exception before the first write.
Crash(p) ==
    /\ Crashes
    /\ dpc[p] \in ActivePcs \cup {"closing"}
    /\ Exit(p)
    /\ UNCHANGED <<file, last, confirmed>>
    /\ UNCHANGED callVars

\* An unrelated process is given the pid of a dead daemon.
ReusePid(p) ==
    /\ PidReuse
    /\ dpc[p] = "dead"
    /\ dpc' = [dpc EXCEPT ![p] = "stranger"]
    /\ UNCHANGED <<file, stop, open, toggle, halted, timer, rec, last, confirmed>>
    /\ UNCHANGED callVars

---------------------------------------------------------------------------
(***************************************************************************)
(* The module: _attach.                                                    *)
(***************************************************************************)
Goto(c, pc) == cpc' = [cpc EXCEPT ![c] = pc]

\* exit_json or fail_json: the process ends and forgets what it read.
Return(c, outcome) ==
    /\ Goto(c, "idle")
    /\ result' = [result EXCEPT ![c] = outcome]
    /\ existing' = [existing EXCEPT ![c] = NoRecord]
    /\ observed' = [observed EXCEPT ![c] = NoRecord]
    /\ check' = [check EXCEPT ![c] = FALSE]

MayStart(c) ==
    /\ cpc[c] = "idle"
    /\ Serial => \A d \in Callers : cpc[d] = "idle"

\* main: the transport and trust policies gate an attach, never a detach.
StartAttach(c) ==
    /\ MayStart(c)
    /\ \/ /\ \E checkMode \in BOOLEAN : check' = [check EXCEPT ![c] = checkMode]
          /\ Goto(c, "attach_read")
          /\ result' = [result EXCEPT ![c] = NoOutcome]
          /\ UNCHANGED <<existing, observed>>
       \/ Return(c, Outcome("refused", NoRecord, "none"))
    /\ spawned' = [spawned EXCEPT ![c] = NoPid]
    /\ UNCHANGED file
    /\ UNCHANGED daemonVars

AttachRead(c) ==
    /\ cpc[c] = "attach_read"
    /\ existing' = [existing EXCEPT ![c] = read_state]
    /\ Goto(c, "attach_probe")
    /\ UNCHANGED <<file, check, observed, spawned, result>>
    /\ UNCHANGED daemonVars

\* Mutant: only an attached session counts as live, one still connecting is
\* taken for a leftover.
AttachProbeAttachedOnly(c) ==
    LET live == is_pid_alive(existing[c].pid) /\ existing[c].state = "attached"
    IN  /\ cpc[c] = "attach_probe"
        /\ \/ /\ live
              /\ Return(c, Outcome("already", existing[c], "none"))
           \/ /\ ~live
              /\ Goto(c, IF existing[c] = NoRecord THEN "attach_validate" ELSE "attach_remove")
              /\ UNCHANGED <<check, existing, observed, result>>
        /\ UNCHANGED <<file, spawned>>
        /\ UNCHANGED daemonVars

\* A live session that has not ended answers to this id: never start a second.
AttachProbe(c) ==
    LET live == /\ existing[c] # NoRecord
                /\ is_pid_alive(existing[c].pid)
                /\ existing[c].state \notin TERMINAL_STATES
    IN  /\ cpc[c] = "attach_probe"
        /\ \/ /\ live
              /\ Return(c, Outcome("already", existing[c], "none"))
           \/ /\ ~live
              /\ Goto(c, IF existing[c] = NoRecord THEN "attach_validate" ELSE "attach_remove")
              /\ UNCHANGED <<check, existing, observed, result>>
        /\ UNCHANGED <<file, spawned>>
        /\ UNCHANGED daemonVars

\* Mutant: the stale record stays.
AttachKeepsStale(c) ==
    /\ cpc[c] = "attach_remove"
    /\ existing' = [existing EXCEPT ![c] = NoRecord]
    /\ Goto(c, "attach_validate")
    /\ UNCHANGED <<file, check, observed, spawned, result>>
    /\ UNCHANGED daemonVars

\* remove_state: the stale record and its log, in check mode too.  What was read
\* is not looked at again, except to be shown as `previous` in the receipt.
AttachRemove(c) ==
    /\ cpc[c] = "attach_remove"
    /\ file' = NoRecord
    /\ existing' = [existing EXCEPT ![c] = NoRecord]
    /\ Goto(c, "attach_validate")
    /\ UNCHANGED <<check, observed, spawned, result>>
    /\ UNCHANGED daemonVars

\* build_media_specs and validate_media_specs, then the check-mode return.
AttachValidate(c) ==
    /\ cpc[c] = "attach_validate"
    /\ \/ Return(c, Outcome("refused", NoRecord, "none"))
       \/ check[c] /\ Return(c, Outcome("unchanged", NoRecord, "none"))
       \/ ~check[c] /\ Goto(c, "attach_fork") /\ UNCHANGED <<check, existing, observed, result>>
    /\ UNCHANGED <<file, spawned>>
    /\ UNCHANGED daemonVars

\* spawn_session: the double fork and the pid read back from the pipe.
AttachFork(c) ==
    /\ cpc[c] = "attach_fork"
    /\ \/ \E p \in Pids :
            /\ dpc[p] = "unused"
            /\ dpc' = [dpc EXCEPT ![p] = "forked"]
            /\ spawned' = [spawned EXCEPT ![c] = p]
            /\ Goto(c, "attach_create")
            /\ UNCHANGED <<check, existing, observed, result>>
       \/ /\ Return(c, Outcome("refused", NoRecord, "none"))
          /\ UNCHANGED <<dpc, spawned>>
    /\ UNCHANGED <<file, stop, open, toggle, halted, timer, rec, last, confirmed>>

\* Mutant: the parent's record overwrites whatever the daemon has reported.
AttachClobbers(c) ==
    /\ cpc[c] = "attach_create"
    /\ file' = _initial_state(spawned[c])
    /\ Goto(c, "attach_wait")
    /\ UNCHANGED <<check, existing, observed, spawned, result>>
    /\ UNCHANGED daemonVars

\* _write_state_if_absent: O_CREAT | O_EXCL decides who creates the file ...
AttachCreate(c) ==
    /\ cpc[c] = "attach_create"
    /\ \/ /\ file.state = "absent"
          /\ file' = Record("torn", spawned[c], "none")
          /\ Goto(c, "attach_fill")
       \/ /\ file.state # "absent"
          /\ Goto(c, "attach_wait")
          /\ UNCHANGED file
    /\ UNCHANGED <<check, existing, observed, spawned, result>>
    /\ UNCHANGED daemonVars

\* ... and the bytes reach the file only while it is still the one created: a
\* record that os.replace() put there meanwhile, or a removal, wins.
AttachFill(c) ==
    /\ cpc[c] = "attach_fill"
    /\ file' = IF file = Record("torn", spawned[c], "none")
                 THEN _initial_state(spawned[c]) ELSE file
    /\ Goto(c, "attach_wait")
    /\ UNCHANGED <<check, existing, observed, spawned, result>>
    /\ UNCHANGED daemonVars

\* wait_for_state: returns the record it read last, be it a verdict or, once
\* attach_timeout has passed, whatever is on file.
AttachWait(c) ==
    /\ cpc[c] = "attach_wait"
    /\ observed' = [observed EXCEPT ![c] = read_state]
    /\ Goto(c, "attach_verdict")
    /\ UNCHANGED <<file, check, existing, spawned, result>>
    /\ UNCHANGED daemonVars

\* Only "attached" is a success; what kind of failure the rest is depends on the
\* record and on whether the recorded process still answers.
AttachVerdict(c) ==
    LET o == observed[c] IN
    /\ cpc[c] = "attach_verdict"
    /\ \/ /\ o.state = "error"
          /\ Return(c, Outcome("failed", NoRecord, _error_class_of(o)))
       \/ /\ o.state = "attached"
          /\ Return(c, Outcome("attached", o, "none"))
       \/ /\ o.state \notin {"error", "attached"} /\ ~is_pid_alive(o.pid)
          /\ Goto(c, "attach_reread")
          /\ UNCHANGED <<check, existing, observed, result>>
       \/ /\ o.state = "detached" /\ is_pid_alive(o.pid)
          /\ Return(c, Outcome("failed", NoRecord, _error_class_of(o)))
       \/ /\ o.state \in {"starting", "connecting"} /\ is_pid_alive(o.pid)
          /\ Return(c, Outcome("indeterminate", NoRecord, "timeout"))
    /\ UNCHANGED <<file, spawned>>
    /\ UNCHANGED daemonVars

\* Mutant: no second read, the last poll has the final word.
AttachTrustsPoll(c) ==
    /\ cpc[c] = "attach_reread"
    /\ Return(c, Outcome("failed", NoRecord, _error_class_of(observed[c])))
    /\ UNCHANGED <<file, spawned>>
    /\ UNCHANGED daemonVars

\* The daemon is gone: read once more, for the class it may have written last.
AttachReread(c) ==
    LET final == IF read_state = NoRecord THEN observed[c] ELSE read_state IN
    /\ cpc[c] = "attach_reread"
    /\ Return(c, Outcome("failed", NoRecord, _error_class_of(final)))
    /\ UNCHANGED <<file, spawned>>
    /\ UNCHANGED daemonVars

---------------------------------------------------------------------------
(***************************************************************************)
(* The module: _detach.                                                    *)
(***************************************************************************)
StartDetach(c) ==
    /\ MayStart(c)
    /\ \E checkMode \in BOOLEAN : check' = [check EXCEPT ![c] = checkMode]
    /\ Goto(c, "detach_read")
    /\ result' = [result EXCEPT ![c] = NoOutcome]
    /\ spawned' = [spawned EXCEPT ![c] = NoPid]
    /\ UNCHANGED <<file, existing, observed>>
    /\ UNCHANGED daemonVars

DetachRead(c) ==
    /\ cpc[c] = "detach_read"
    /\ \/ /\ read_state = NoRecord
          /\ Return(c, Outcome("unchanged", NoRecord, "none"))
       \/ /\ read_state # NoRecord
          /\ existing' = [existing EXCEPT ![c] = read_state]
          /\ Goto(c, "detach_probe")
          /\ UNCHANGED <<check, observed, result>>
    /\ UNCHANGED <<file, spawned>>
    /\ UNCHANGED daemonVars

\* Mutant: only the receipt knows of check mode.
DetachProbeUnchecked(c) ==
    /\ cpc[c] = "detach_probe"
    /\ Goto(c, IF is_pid_alive(existing[c].pid) THEN "detach_signal" ELSE "detach_clean")
    /\ UNCHANGED <<file, check, existing, observed, spawned, result>>
    /\ UNCHANGED daemonVars

DetachProbe(c) ==
    /\ cpc[c] = "detach_probe"
    /\ \/ check[c] /\ Return(c, Outcome("unchanged", NoRecord, "none"))
       \/ /\ ~check[c]
          /\ Goto(c, IF is_pid_alive(existing[c].pid) THEN "detach_signal" ELSE "detach_clean")
          /\ UNCHANGED <<check, existing, observed, result>>
    /\ UNCHANGED <<file, spawned>>
    /\ UNCHANGED daemonVars

DetachClean(c) ==
    /\ cpc[c] = "detach_clean"
    /\ file' = NoRecord
    /\ Return(c, Outcome("unchanged", NoRecord, "none"))
    /\ UNCHANGED spawned
    /\ UNCHANGED daemonVars

\* request_stop: SIGTERM.  It kills a daemon that has not installed its handler
\* and a stranger of the same user; a stranger of another user raises
\* PermissionError, which nothing catches.  A pid that is gone, or none at all,
\* is not signalled.
DetachSignal(c) ==
    LET p == existing[c].pid IN
    /\ cpc[c] = "detach_signal"
    /\ \/ /\ p \in Pids /\ dpc[p] \in {"forked", "stranger"}
          /\ Exit(p)
          /\ Goto(c, "detach_wait")
          /\ UNCHANGED <<check, existing, observed, result>>
       \/ /\ p \in Pids /\ dpc[p] = "stranger"
          /\ Return(c, Outcome("refused", NoRecord, "none"))
          /\ UNCHANGED <<dpc, stop, open, toggle, halted, timer, rec>>
       \/ /\ p \in Pids /\ dpc[p] \in (ActivePcs \cup {"closing"}) \ {"forked"}
          /\ stop' = [stop EXCEPT ![p] = TRUE]
          /\ Goto(c, "detach_wait")
          /\ UNCHANGED <<dpc, open, toggle, halted, timer, rec, check, existing, observed, result>>
       \/ /\ ~is_pid_alive(p)
          /\ Goto(c, "detach_wait")
          /\ UNCHANGED <<dpc, stop, open, toggle, halted, timer, rec, check, existing, observed, result>>
    /\ UNCHANGED <<file, spawned, last, confirmed>>

\* Mutant: the daemon is taken to be gone as soon as it was signalled.
DetachDoesNotWait(c) ==
    /\ cpc[c] = "detach_wait"
    /\ Goto(c, "detach_remove")
    /\ UNCHANGED <<file, check, existing, observed, spawned, result>>
    /\ UNCHANGED daemonVars

\* Mutant: wait_for_exit has no deadline.
DetachWaitsForExit(c) ==
    /\ cpc[c] = "detach_wait"
    /\ ~is_pid_alive(existing[c].pid)
    /\ Goto(c, "detach_remove")
    /\ UNCHANGED <<file, check, existing, observed, spawned, result>>
    /\ UNCHANGED daemonVars

\* wait_for_exit: the pid stops answering, or detach_timeout passes.
DetachWait(c) ==
    LET p == existing[c].pid IN
    /\ cpc[c] = "detach_wait"
    /\ ~is_pid_alive(p) \/ ~PromptStop \/ dpc[p] = "stranger"
    /\ Goto(c, IF is_pid_alive(p) THEN "detach_abandon" ELSE "detach_remove")
    /\ UNCHANGED <<file, check, existing, observed, spawned, result>>
    /\ UNCHANGED daemonVars

\* The record goes whether the daemon exited or not; the second case only warns.
DetachRemove(c) ==
    LET kind == IF cpc[c] = "detach_remove" THEN "stopped" ELSE "overrun" IN
    /\ cpc[c] \in {"detach_remove", "detach_abandon"}
    /\ file' = NoRecord
    /\ Return(c, Outcome(kind, NoRecord, "none"))
    /\ UNCHANGED spawned
    /\ UNCHANGED daemonVars

CallStep(c) ==
    \/ AttachRead(c) \/ AttachProbe(c) \/ AttachRemove(c) \/ AttachValidate(c)
    \/ AttachFork(c) \/ AttachCreate(c) \/ AttachFill(c) \/ AttachWait(c)
    \/ AttachVerdict(c) \/ AttachReread(c)
    \/ DetachRead(c) \/ DetachProbe(c) \/ DetachClean(c) \/ DetachSignal(c)
    \/ DetachWait(c) \/ DetachRemove(c)

\* The playbook is interrupted: the invocation dies, a forked daemon lives on.
Interrupt(c) ==
    /\ Interrupts
    /\ cpc[c] # "idle"
    /\ Return(c, NoOutcome)
    /\ UNCHANGED <<file, spawned>>
    /\ UNCHANGED daemonVars

Next ==
    \/ \E p \in Pids : DaemonStep(p) \/ ToggleTimer(p) \/ Crash(p) \/ ReusePid(p)
    \/ \E c \in Callers : StartAttach(c) \/ StartDetach(c) \/ CallStep(c) \/ Interrupt(c)

\* Every daemon step is bounded by a socket or poll timeout and every module
\* step by attach_timeout or detach_timeout, so both keep going; nobody has to
\* start a call, crash or reuse a pid.
Fairness ==
    /\ \A p \in Pids : WF_vars(DaemonStep(p)) /\ WF_vars(ToggleTimer(p))
    /\ \A c \in Callers : WF_vars(CallStep(c))

Spec == Init /\ [][Next]_vars
FairSpec == Spec /\ Fairness

---------------------------------------------------------------------------
(***************************************************************************)
(* Safety.                                                                 *)
(***************************************************************************)
Active(p) == dpc[p] \in ActivePcs

\* IDE-R is single-session and firmware has one connection to give: at no time
\* can two daemons of one session_id still write its state file.
SingleDaemon == \A p, q \in Pids : Active(p) /\ Active(q) => p = q

\* Whatever _attach reports, "attached" is never said of a daemon whose session
\* firmware did not open and whose IDE-R toggle it did not confirm: not in the
\* state file, not in a record an invocation holds, not in a receipt.
AttachedIsConfirmed ==
    /\ file.state = "attached" => confirmed[file.pid]
    /\ \A c \in Callers :
        /\ existing[c].state = "attached" => confirmed[existing[c].pid]
        /\ observed[c].state = "attached" => confirmed[observed[c].pid]
        /\ result[c].kind \in {"attached", "already"} /\ result[c].state = "attached"
             => confirmed[result[c].pid]

\* A changed=true receipt is about the daemon this very call forked, not about
\* one an earlier call left behind.
ReceiptIsOwn ==
    \A c \in Callers : result[c].kind = "attached" => result[c].pid = spawned[c]

\* spawn_session's fallback record never hides a verdict: once a daemon has
\* written "detached" or "error", a record of that daemon is that verdict.
VerdictSticks ==
    \A p \in Pids : last[p].state \in TERMINAL_STATES /\ file.pid = p => file = last[p]

\* A failed attach carries the error class its daemon wrote last, whoever won
\* the races between the daemon's exit, its last write and the module's reads.
FailureClassIsDaemons ==
    \A c \in Callers :
        result[c].kind = "failed" /\ spawned[c] # NoPid
            => result[c].cls = _error_class_of(last[spawned[c]])

\* A detach that saw its daemon exit leaves neither a record nor a daemon that
\* could write one again.
CleanDetach ==
    [][\A c \in Callers :
         result[c].kind # "stopped" /\ result'[c].kind = "stopped"
           => file' = NoRecord /\ \A p \in Pids : dpc'[p] \notin ActivePcs]_vars

\* An invocation in check mode forks, signals and writes nothing, and the one
\* record it may remove, a stale one, is removed with no daemon behind it, also
\* when what made it stale was read before the daemon's last writes.
CheckModeHarmless ==
    [][\A c \in Callers :
         check[c] /\ cpc'[c] # cpc[c] =>
           /\ UNCHANGED daemonVars
           /\ file' # file => file' = NoRecord /\ \A p \in Pids : ~Active(p)]_vars

(***************************************************************************)
(* Liveness.                                                               *)
(***************************************************************************)

\* Every invocation returns: also the detach whose daemon is still connecting
\* when detach_timeout passes, and the one that watches a pid which a stranger
\* was given the moment the daemon let go of it.
CallReturns == \A c \in Callers : cpc[c] # "idle" ~> cpc[c] = "idle"

\* A daemon that was asked to stop is eventually gone.
StopObeyed == \A p \in Pids : stop[p] ~> dpc[p] \in {"dead", "stranger"}

\* A refusal of the toggle ends the session whenever it comes: before the
\* OPEN_SESSION_REPLY, after it, or when the toggle was sent again to a session
\* that had long been attached and reported as such.
RefusalEnds ==
    \A p \in Pids : (Active(p) /\ toggle[p] = "refused") ~> ~Active(p)

\* Firmware that opens the session and never answers the toggle does not leave
\* the daemon "connecting" for ever.
ToggleDecided ==
    \A p \in Pids : (open[p] /\ toggle[p] = "none" /\ dpc[p] = "loop")
                        ~> (toggle[p] # "none" \/ ~Active(p))
=============================================================================
