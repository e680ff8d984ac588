# A verification model of the intel_amt Ansible collection

TLA+ models of the parts of this collection that are hard to test: the detached
process that serves virtual media, the install role that arms a boot and resets a
machine, the transport that decides whether a failed request may be sent again,
the redirection handshake, the IDE-R engine, the event log modules, the modules that
read and change one endpoint side by side, and the gathering of facts. TLC checks
them on small instances, TLAPS proves the most important properties for every value
of the constants.

    tlc -workers 2 -config MediaSession_orderly.cfg MCMediaSession
    tlapm MediaSessionProofs.tla

`PROJECT.json` lists every run with its properties, the mutant that shows that a
property can fail, the source lines behind every definition, the hazards and the
theorems.

## 1. Inventory

The collection runs on an Ansible controller and manages machines through Intel
AMT. Two planes lead to the firmware: WS-Man over HTTP (16992/16993) and the
binary redirection protocol (16994/16995).

| Part | State it keeps | Operations | What is hard about it |
|---|---|---|---|
| `media_session.py`, `amt_media.py` | a state file per session id, a detached daemon with its in-memory record, a stop flag, the toggle deadline | attach, detach, daemon loop | processes that share only a file, a fork, signals, pids, two timeouts; a crash leaves a record that looks alive |
| `ider.py` | sequence counters, the pending write, the read in flight, image files | feed, read pump, writes | the payload of a write arrives apart from the command that was checked; files change underneath; counters wrap |
| role `amt_baremetal_install` | the run-state file, facts of the run; at the endpoint boot order, UseIDER, single-use role, power | probe, attach, arm, reset, observe, hand off, detach, resume | killed runs, lost answers, a destructive step that must not repeat, cleanup on every path |
| `boot.py`, `amt_boot.py` | none (endpoint state) | discover, then five calls that arm a one-time boot | a sequence that stops half way on leftovers of an earlier one, or runs beside another |
| `client.py` power, `amt_power.py` | none (endpoint state) | read state, decide, request, poll | a decision from a state read earlier; a transition that is accepted and made later |
| `wsman.py` | session, attempt counter, list of an enumeration | get, put, enumerate/pull, invoke | which failures may be retried, and what a timeout says |
| `message_log.py`, `amt_event_log.py`, `amt_log_clear.py` | budget, identifier, list | read by iteration, clear and re-read | the log changes during the iteration; the firmware chooses the identifiers |
| `redirection.py` | a byte buffer | handshake, send, receive | segments that straddle messages |
| `redirection_service.py`, `amt_redirection.py` | none (endpoint state) | read three signals, request a state | a read-check-write on shared firmware state |
| `tls.py` | none | trust policy, pinning, certificate evidence | combinations of options |
| `client.py` facts, `hardware.py`, `models.py`, `amt_info.py` | the facts and class reads of one gather | resolve gather_subset, read up to sixteen classes, fall back, convert, publish | classes that firmware lacks, refuses or fills oddly, each of which must fail alone |
| `errors.py` | none | error classes, redaction | - |

How they meet: the role calls the modules as tasks; `amt_media` forks the daemon
and afterwards talks to it through the state file and SIGTERM only; the daemon
runs `redirection.py` and then feeds `ider.py`; every other module goes through
`wsman.py`, and what they rely on there is stated once, as `RemoteCall`.

What makes each part correct:

* media session: one daemon per session id; "attached" only after the firmware
  confirmed the feature toggle; a refusal ends the session whenever it comes; a
  verdict, once written, stays; a detach leaves nothing behind; every call returns.
* IDE-R: acknowledged means stored; completed means whole; nothing outside an
  accepted write changes; the pump ends.
* role: no second reset nobody confirmed or acknowledged; the host comes up on what
  the run chose, however late it follows the request; no daemon without an id on file; cleanup on every path.
* redirection: the engine receives exactly the bytes the endpoint sent after the
  handshake; the handshake ends, and media is served on an accepted session only.
* WS-Man and TLS: a mutation is carried out at most once, and how the call ends says
  truthfully whether it may have been; a request reaches only a peer the options name.
* amt_power, amt_redirection, amt_boot: check mode writes nothing; `changed` and the
  receipt are true of what was done; an arm that succeeds is the one asked for.
* facts: what is read and published is what was asked for; the class read of a class
  fits the answer behind its fact; one class's trouble costs only its own facts.
* event log: complete means whole; cleared means destroyed and the reverse.

`PROJECT.json` "hazards" lists what could break these, line by line.

## 2. Modules

`X.tla` is the component, `MCX.tla` instantiates it for TLC, `XProofs.tla` holds
its theorems. In the components a definition marked "Mutant" is a plausible bug;
nothing uses it, it only shows that a property would notice.

### MediaSession

Daemons are pids with a program counter through `_run_daemon` (`dpc`), their flag,
the engine's three verdicts (`open`, `toggle`, `halted`), the deadline and their
in-memory record; invocations (`Callers`) have a program counter through
`_attach`/`_detach` (`cpc`) and what they have read. `file` is the state file;
"torn" is the moment between `O_CREAT|O_EXCL` and the write of
`_write_state_if_absent`. A step is one point where another process can run.
Constants choose how rough the world is: `Serial` (one invocation at a time),
`PromptStop` (a signalled daemon exits within detach_timeout), `Crashes`,
`Interrupts`, `PidReuse`. One session id is enough: two ids share no file and no
process. The engine is reduced to what the daemon reads of it; `Ider` is the
engine. While it serves, the daemon may fail with every class its except clauses tell
apart (`ServeErrors`): `timeout` and `connection` from a send, `protocol` for a frame
the engine cannot take and for whatever the last-resort handler catches.

### Install

The role's tasks as a program counter with `rs` (the facts) and `file` (the saved
run state), the five calls of `boot.arm_one_time_boot`, the power request, and the
endpoint (`order`, `useIder`, `oneShot`, `power`, `pending`). A call that changes the
endpoint is applied and answered, applied with the answer lost, or not applied. A power
request that the firmware accepts becomes `pending`, and the host follows it when it
likes (`HostFollows`), after the query of observe.yml or after the run too. The probe
reports the power state or, where amt_info degraded, `unknown`, which reset.yml turns
into `reset` also for a host that is off. A run can be killed at every step; the next
run starts from the file. `amt_media` is abstracted to the set `live` of sessions whose
daemon runs, and `serving`, those of them that have connected: a live session that is
found is returned as a success whether or not it has (`adopted`). `faults` remembers
which faults have happened, at most `MaxFaults` of them; `late` is a run that starts
while the request of an earlier one is still pending. `arms` and `resets` count since
the last confirmation or acknowledgement and stop at `HistoryBound` = 2, one more than
any property allows.

### Wsman and RemoteCall

A client is built from the connection options: `create`, `enforce_transport_policy`,
`requests_verify` and `build_adapter` are the trust policy of `tls.py`, and a
certificate is told apart by what would accept it. Then one call at a time: the
request in flight, the attempt, the result; at the endpoint the enumeration context
with its cursor and how often the mutation was carried out. The endpoint pages as it
likes: up to `PageSize` instances or none at a time, EndOfSequence with the last
instance or later, a response without EndOfSequence and without a context at any time
(`NoContext`). `lost` and `dry` are histories of what an enumeration suffers from it. An
exchange can fail before the request was sent, break after it was executed, time out, fail in TLS, or be
answered by a value, a fault or an HTTP error. `peer` is a history of what answered
the connection a request went to; a different peer may answer every connection.

`RemoteCall` is the abstract specification: a call is idle, open or closed; when it
closes its answer is `done` (it returned), `not_sent` (a timeout that is not marked
indeterminate) or `unsure` (every other error), and the answer bounds how often the
change was made. `Wsman` implements it under the mapping of `Contract`
(`ImplementsContract`). `Endpoint` and `Install` take their calls to be what RemoteCall
promises: a write is carried out and answered, carried out with the answer lost, or
not carried out.

### Endpoint

Any number of invocations of `amt_power`, `amt_redirection` and `amt_boot`, interleaved
call by call, on one endpoint: its capabilities, power state and pending transition,
EnabledState and the one that was accepted and is not in force yet (`requested`), boot
order, settings and single-use role. An invocation is a record with
a program counter through its module's `main()`, what it has read, what it reports and
two histories: `writes`, how many of its calls were carried out, and `disturbed`,
whether somebody else has since written what it works on. The host makes an accepted
transition when it likes, may be read in the middle of a power cycle (`Cycles`), and is
switched by hand. `PowerStates` has every code of `_POWER_STATE_TABLE` and one it does
not know, and `Normalized` is the table: three codes that read off and are, two sleep
depths that read the same, and the two power cycles, which both end on and of which
one reads on and one off. "reboot" and "reset" are the same request and one member of
`PowerActions`. AMT_BootSettingData is the three fields that a target tells apart; the
rest of the Put is constants. The capability fields that read true and the boot sources
that are named exactly once stand for AMT_BootCapabilities and CIM_BootSourceSetting.

### Facts

One invocation of `amt_info`: `gather_subset` resolved to subsets, the classes still to
be read, what each was answered (`heard`), the facts and the class reads, and the
report. A step is one call of WsmanClient, get or enumerate, and what came of it after
whatever retries and Pulls it took; requests are not counted. The firmware may refuse a
class, answer without an instance, with one that is sparse, off every table or nested
where a scalar is expected, or fail in transport. A class's properties are told apart
by how they are coerced: one of each kind stands for all of them, and each of the
dataclasses is the record of the coercions its `from_instance` applies. A table is the
set of codes it knows. The items of an answer are addressed by their place: the
instances are the places that hold a mapping (`Mappings`), the one a plate's fact is built
from is the first of them, and a list of facts has the places of its instances.

### MessageLog

`log` is the sequence of slots that GetRecords serves, newest first, freed slots as
padding. Events are logged and the log is cleared by others at any moment.
`standing` is the set of events that were in the log ever since the module first
looked. The firmware chooses every identifier: PositionToFirstRecord returns one in
front of which there is no record, GetRecords one that may stay, go back or go on up to
the first record not served, also with a batch that is empty (`NothingServed`). A
ClearLog that is accepted is taken as carried out.

### Ider

`Frame`/`Accept` are `feed()`; one action per kind of frame; `Pump` is one iteration
of `_pump_read`. `Truncate` is another process shortening an image file; `ReadFails`
and `WriteFails` are an OSError of the file or a failed send in the middle of a
transfer, which leaves feed() and ends the session, a part of the payload possibly
stored. The endpoint's own view (`command`, `got`, `verdict`, `sent`, `acked`, `host_seq`,
`fault`) is there to state the properties. `_read_queue` and `_reset_pending` have
no counterpart: `_pump_read` runs to its end inside the call that sets
`_read_state`, so both stay unused. The outbound sequence number has no reader in
this code and is left out. A block is the unit of data; zero-length data frames
are not enumerated.

### Redirection

The bytes of the connection are numbered by their place in the stream; `msgs` says
where each message starts, how long it is and what the handshake reads in it. `buf` is
`RedirectionSession._buf`, `engine_buf` is `IderEngine._buf`. A receive takes any part
of what has been sent, so that every segmentation occurs. The stages of `_authenticate`
are program counters named after the reply they wait for; the firmware answers with
any status and type. Headers of 8 to 30 bytes become one constant `Header`. Sequence
numbers and the handling of a frame are in `Ider`; here a frame is handled or ends
the session. An endpoint that hangs up and one that falls silent end `_fill` alike.

## 3. Runs

| Run | Instance | Distinct states | Shows |
|---|---|---|---|
| media_orderly | 2 pids, 1 caller, crashes, pid reuse | 628,671 | SingleDaemon, ReceiptIsOwn, VerdictSticks, FailureClassIsDaemons, CleanDetach, CheckModeHarmless |
| media_hostile | 1 pid, 1 caller, overrun detaches, crashes, killed calls, pid reuse | 17,970 | AttachedIsConfirmed, CallReturns, RefusalEnds, ToggleDecided, StopObeyed |
| install | 2 session ids, at most 2 kinds of fault of 5 | 754,502 | NoSilentReset, SourceNeverOverridesIder, DaemonIsOnFile, ConfirmedMeansBooted, ResetBootsWhatWasChosen, MediaReleased |
| install_rearm | nothing goes wrong but answers | violation | NoSilentRearm fails |
| wsman_calls | all 64 option combinations, 3 instances on pages of 0 to 2, 2 retries | 104,777 | PeerIsTrusted, EnumerateIsComplete, CallEnds, ImplementsContract |
| event_log | 3 events, budget 3, padded and full logs | 54,579 | CompleteIsWhole, ClearVerdict, ClearConverges, ModuleEnds |
| ider_transfers | images of 2 and 3 blocks, 2 values, read buffers 1 and 2 | 263,190 | TornDownForCause, AckedIsStored, CompletedReadIsWhole, WritesStayInTheirCommand, PumpEnds |
| ider_long_write | length field of 2 blocks | violation | AsksForAll fails |
| redirection | messages of 2 or 3 bytes, header of 2, 2 frames | 281,321 | StreamIntact, ServesWhenAccepted, ConnectEnds, FramesArrive |
| facts | 9 gather_subsets, up to 2 unusual answers, 3 unusual instances, 5 enumerations | 122,799 | ReportsWhatWasAsked, ReadFitsAnswer, DegradesAlone |
| facts_setup | the same gather_subsets, ordinary answers | violation | FollowsSetup fails |
| endpoint | 2 invocations, 2 endpoints, 2 polls | 1,742,502 | LedgerMatches, ReceiptIsReal, ArmedAsPlanned |

Why the bounds are enough to see the interesting cases. Media: two pids are a
daemon and the one that is wrongly started beside it or after it. The single-daemon
properties assume serial calls, which Ansible's task order gives for one play, and
daemons that stop in time. The hostile run assumes neither of the daemons nor of the
calls' own lives, and so meets the branch in which detach_timeout passes; it keeps one
pid and one caller because its properties are about one daemon or one call at a time.
That AttachedIsConfirmed holds for concurrent callers and several daemons as well is
shown by the theorem alone. Install: two ids are a run and its successor, which is as
far as a leftover reaches; two kinds of fault, each as often as it likes, are a fault
and another one in its recovery. `faults` remembers which have happened, so that a
property excepts exactly the ones it has to. Wsman: three instances on pages of none,
one or two are a first, a middle and a last page, each of which can be lost, and the
empty one. MessageLog: a budget equal to the number
of events meets every order of cutting and padding. Ider: writes of one and two
blocks in frames of one and two; `SequenceMod` = 2 makes the counter wrap on every
other frame and `SixLimit` = 2 makes the zero length of a 6-byte CDB meet the
image's end. Redirection: a header of two bytes and a third byte of data let a cut fall
inside a header, behind it and between messages; two frames let one segment hold the
end of the handshake, a frame and a piece of the next. Facts: two unusual answers are a
Get and the Enumerate it falls back to, or two classes in trouble at once. Endpoint: a
sequence and the one that gets in its way, or the unfinished one underneath it; the
tasks are chosen so that each meets one that writes the same part of the endpoint.

Symmetry is used for the pids and callers of the safety run of MediaSession and for
the invocations of Endpoint and nowhere with
liveness. Deadlock is not checked in the Install runs (the bound on ids can leave
no run to start) and in the Ider and Redirection runs (a session that was torn down
stops).

Fairness, each time weak and on the code's own steps only: daemon and module steps
and the toggle timer (MediaSession: processes are scheduled, receives wake up every
two seconds, the deadlines are monotonic time and end the waits of attach and detach), `RoleStep` (Install: every task ends by an
answer or by its timeout; killing a run is not fair, and MediaReleased excepts it),
`Exchange` (Wsman: connect and read timeouts bound every wait), `ModuleStep`
(MessageLog, for the same reason), `Pump` (Ider: a loop over local file reads),
`Handshake` and `Engine` (Redirection: the connect timeout stays on the socket during the
handshake, and feed() is a loop over a buffer; the end of the daemon's loop is not fair).
Nothing is assumed of the firmware, of other stations or of the operator.

## 4. Findings

Three runs end in a violation, each of a sentence the repository says about itself.

* **install_rearm**. `state.yml:63` says that the role never silently re-arms; an arm
  whose answer is lost is not recorded, and the next run arms again.
* **ider_long_write**. `docs/protocol-notes.md:1323` asks for 512 * len bytes; the
  field is 16 bits, so a write of 128 sectors announces none.
* **facts_setup**. `amt_info.py:72` says that gather_subset is resolved exactly as by
  `ansible.builtin.setup`, where a subset that is named survives an exclusion; the code
  subtracts every exclusion, so `['!all', 'storage']` gathers no storage.
  (ReportsWhatWasAsked is about the other seven rules of `docs/amt_info.md:289-305`,
  with exclusions that win.)

Observed while modelling; where a constant or an exception of a property is named, TLC
shows it once that is changed:

* `MediaSession`, `PromptStop = FALSE` with two pids: SingleDaemon fails. `amt_media.py:793` removes
  the record when detach_timeout expires; a daemon still connecting lives on and
  the next attach starts a second one, which the comment at 574 rules out.
* `MediaSession`, `PidReuse = TRUE`: `media_session.py:35` promises that a stale file with
  a reused pid "is always recoverable"; `is_pid_alive` cannot tell a stranger from the
  daemon, so attach reports the dead session as live and unchanged.
* `MediaSession`: no deadline covers the time before OPEN_SESSION_REPLY, and check
  mode removes a stale record (`amt_media.py:590`).
* `Install`, without `closed` in DaemonIsOnFile: a run killed in the hand-off wait has
  confirmed its reset and not detached; the next clean slate (`state.yml:47`) forgets
  an id whose daemon still runs, although `vars/main.yml:19` calls it detached.
* `Install`, without `probed = "off"` in ConfirmedMeansBooted: a ReturnValue of 0 means
  accepted, not done (`client.py:726-730`), and the query of `observe.yml:30-38` may see
  the `on` of a host that has yet to go down. The role then confirms the reset, and the
  next run starts from a clean slate while the request is pending. For a host that was
  running, reset_confirmed therefore says nothing about a boot, although the role's
  README (92-94) calls it an observed postcondition.
* `Install`, without the exceptions `power` and `late`: `reset.yml:25-31` decides between
  `on` and `reset` from the probe; a power button pressed meanwhile makes the role confirm
  a reset that did not use the armed boot, and a request still pending when the next run
  arms boots what that run is setting up. A power state that amt_info could not read
  (`client.py:298-304`) makes the role send `reset` to a host that may be off.
* `Install`, without `adopted` in ResetBootsWhatWasChosen: a session of an earlier run
  that is found still connecting counts as attached (`amt_media.py:573-586`), and the
  host may come up before it serves anything.
* `MediaSession`: `amt_media.py:627` says that nothing short of attached is a success;
  the idempotency branch (573-586) returns one for a session still starting or
  connecting. Its receipt says so truthfully, which is why AttachedIsConfirmed holds.
* `Endpoint`: `amt_power` reads the state, plans, and `request_power_state` reads it
  again without planning again (`client.py:740`): the receipt's `previous` can be the
  state that was asked for, beside `changed: true`. Nothing locks an endpoint: without
  `disturbed` in ArmedAsPlanned two `amt_boot` sequences can leave UseIDER armed together
  with a named source, which each alone rules out.
* `Endpoint`, without `Cycling` in ReceiptIsReal: code 9, a power cycle under way, reads as
  off (`models.py:48-57` concedes the weak spot), so `state: off` reports no change of a
  host that ends powered on. `amt_redirection.py:232-241` reads the state back after its
  request and never compares it: a change can be reported that is accepted and not yet in
  force, with the old state as the observed one.
* `amt_boot` and `amt_redirection` build the client outside their `try`
  (`amt_boot.py:226`, `amt_redirection.py:209`): a refused trust policy is a traceback
  there and a structured failure in `amt_power`.
* `Facts`: `amt_info.py:28-33`, `client.py:255-285` and `hardware.py:337` give config ten
  requests, the Pull of CIM_SoftwareIdentity included; it sends nine Gets, an Enumerate
  and at least one Pull. Retries and further Pulls add to every count, which is why the
  model counts none. When a Get is answered without content and the Enumerate after it
  is refused, the class read says `absent` and `Enumerate`, although `hardware.py:151`
  calls absent "every verb tried was refused" and `hardware.py:1350` and `client.py:442`
  take the verb Enumerate for a Get that was refused; ReadFitsAnswer is stated of the
  last answer for that reason. `optional_bool` makes false, not null, of a nested
  element, although `hardware.py:169-170` says every coercer gives null; `_canonical_uuid` of a nested
  PlatformGUID is the text of the mapping.
* `Wsman`: a connection broken after a mutation was executed is reported as
  `connection`, not as indeterminate (`wsman.py:526`); a Pull retried after its page
  was lost skips that page (`wsman.py:355`, `:377`), and a response with neither a
  context nor EndOfSequence ends an enumeration, "until exhausted", as if it were whole
  (`wsman.py:366-390`): the exceptions of EnumerateIsComplete. Pulls that bring nothing
  but a context are followed for ever, the exception of CallEnds.
* `MessageLog`, without the second disjunct of ModuleEnds: `message_log.py:741` says that
  read_records "never loops forever". Its bound is on the elements consumed and only an
  identifier equal to the previous one counts as stalled; a firmware that serves empty
  batches under an identifier that moves to and fro keeps it going.
* `MessageLog`, without `~cut`: a firmware that serves more than MaxReadRecords in
  its last batch is cut to the budget and the read still called complete. A read
  may hold duplicates when events arrive during it. A failed re-read after an
  accepted ClearLog is a plain failure.
* `Ider`: the refusals of an out-of-bounds read and write use the error form of the
  reply, which drops the sense; RESET_OCCURRED leaves a pending write in place; a
  truncated floppy file grows again, up to its size at open. An OSError of an image is
  not answered with sense: it leaves feed() and ends the whole session as `protocol`
  (`media_session.py:709`).
* `Redirection`: only `ssl.SSLError` is translated around the TLS handshake
  (`redirection.py:281`); a timeout or a reset there reaches the daemon's last-resort
  handler instead of being classified.
* `amt_redirection` with `state: ider`, as the role calls it, turns SOL off on an
  endpoint where both were enabled.

## 5. Proofs

All theorems hold for every value of the constants under the named assumptions of
the component (`ConstantsAssumption`: types, and a `None`/`NoPid`/`Empty` outside the
sets it is added to; for Facts `FirmwareAssumption`, types again, and `TypicalAssumption`,
what an instance without gaps is). Every safety property that a run checks and that holds
is also a theorem.

| Theorem | States | By |
|---|---|---|
| MediaSession TypeCorrect | TypeOK | inductive as it stands |
| OneDaemon, DetachIsClean, CheckModeIsHarmless | SingleDaemon, CleanDetach, CheckModeHarmless | `SoloInv`, under `Orderly`: serial, prompt, uninterrupted calls |
| ReceiptsAreOwn, VerdictsStick, FailuresAreTheDaemons | ReceiptIsOwn, VerdictSticks, FailureClassIsDaemons | `VerdictInv`, under `Orderly` |
| AttachedConfirmed | AttachedIsConfirmed | `ConfirmedInv`, with no restriction |
| Install TypeCorrect, NeverResetsSilently, SourceAndIderExclude, DaemonsAreOnFile, ConfirmsOnlyBoots, ResetsIntoItsChoice | TypeOK, NoSilentReset, SourceNeverOverridesIder, DaemonIsOnFile, ConfirmedMeansBooted, ResetBootsWhatWasChosen | `InstallInv` |
| MutatesAtMostOnce, TimeoutVerdicts | MutationAtMostOnce, VerdictIsTrue | `OnceInv` |
| MeetsContract | Wsman implements RemoteCall | `OnceInv`, one step at a time |
| TrustsOnlyItsPeer | PeerIsTrusted | `PeerInv` |
| Wsman TypeCorrect, EnumeratesWhole | TypeOK, EnumerateIsComplete | `EnumTypeInv` |
| ClearTellsTheTruth, ClearIsConvergent | ClearVerdict, ClearConverges | `LogInv`, `VerdictInv` |
| CompleteReadsAreWhole | CompleteIsWhole | `ReadInv` |
| MessageLog TypeCorrect | TypeOK: the budget is never overdrawn | `LogInv`, `TypeInv` |
| AckedWritesAreStored, WritesAreConfined | AckedIsStored, WritesStayInTheirCommand | `WriteInv` |
| TeardownHasCause | TornDownForCause | `InStep` with `WriteInv` |
| CompletedReadsAreWhole | CompletedReadIsWhole | `ReadInv` |
| Ider TypeCorrect | TypeOK: widths, and no file grows beyond its size at opening | `SessionOK`, `SizeOK`, `EndpointOK` with `WriteInv`, `ReadInv` |
| Redirection TypeCorrect, NoByteIsLost, ServesOnlyAccepted | TypeOK, StreamIntact, ServesWhenAccepted | `Inv` |
| ReportsAsAsked | ReportsWhatWasAsked | `FactsInv` |
| ReadsFitAnswers, EachDegradesAlone | ReadFitsAnswer, DegradesAlone | `HeardInv` |
| Facts TypeCorrect | TypeOK | `HeardInv`, `FactsInv`, `RunOK` |
| Endpoint TypeCorrect, LedgersMatch, ReceiptsAreReal, ArmsAsPlanned | TypeOK, LedgerMatches, ReceiptIsReal, ArmedAsPlanned | `EndpointInv` |

The arguments in short:

* `SoloInv` says, for each point of a call, who can still write the file: before the
  fork nobody, after it the forked daemon only, whose pid is either in the caller's
  memory or in the file. SingleDaemon alone is not inductive because a stale record
  could hide a daemon; `MemoryInv`, `FileInv` and `CallInv` exclude that. Each of the
  three assumptions of `Orderly` is needed: without any one TLC finds two daemons.
* `VerdictInv` adds to `SoloInv` what the copies of a daemon's record say of each other.
  `HistoryInv`: the file, where it names a daemon, holds that daemon's last record, or
  the fallback record of `spawn_session` while the daemon has written nothing; and a
  daemon that wrote a verdict is not active any more. `WaitInv`: at each program point of
  a waiting attach, what it has read of its daemon is what the daemon had written by
  then, and once it has seen the daemon gone nothing can be written after its second
  read. `SettledInv`: the result of an attach keeps agreeing with its daemon's last
  record, because the daemon it is about has ended.
* `ConfirmedInv` follows the confirmation from the engine into the daemon's record,
  from there into the file and into what a caller has read, so that no stale copy
  can claim more than was confirmed.
* `InstallInv` relates file, facts and histories at every task: `ResetInv` says that a
  reset that reached the firmware is on file, or the run is between the request and
  its record, whose rescue saves it; `SourceInv` follows the boot order through the
  five calls; `DaemonInv` ties each live daemon to the id on file; `PendingInv` says at
  which tasks a request can be pending and that the endpoint is set up for its run while
  it is; `HostInv`, while nobody else works the power, that a probe which found the host
  off still tells its state and at which tasks the one-shot is armed; `ServedInv` that
  the run's media is served from the attach on and as long as its request is pending,
  unless it was adopted or its daemon died.
* `OnceInv` counts: a mutation has one attempt, and an attempt ends the call. That is
  all RemoteCall needs: every exchange that leaves a call open maps to a stutter,
  because a mutation is not retried and a read has no effect.
* `PeerInv` says that a client exists only under options that passed both refusals;
  what the handshake then lets through is decided by `requests_verify` and
  `build_adapter` together, of which pinning turns the first off.
* `EnumInv` says that while nothing was lost the list is the prefix of the instances
  that the context has handed out, however it was paged.
* `EndpointInv` says of each invocation, at each call, how many writes it has made and
  (`Sees`) which parts of the endpoint are as it wrote them, unless it was disturbed. A
  write of one invocation disturbs every other of the same module, and no module writes
  another's part, so each `Sees` survives the steps of the others.
* `FactsInv` says that `todo` and the class reads partition the classes the subsets ask
  for. That `resolve_gather_subset` computes the documented rules is a lemma about sets,
  for every combination of entries.
* `HeardInv` makes the facts and the receipts a function of the history: each class that
  has been read was settled by exactly one answer, from which its fact and its ClassRead
  are computed, a class whose Get was not enough is the current one and waits for its
  Enumerate, and of the others nothing has been heard. What remains are lemmas about the
  conversions, one class at a time: what `GetFact`, `EnumerateFact` and `ClassRead` make
  of an answer as expected, of a refused and of an empty one.
* MessageLog's `ReadInv` says that every standing event is either in the list or at a
  position at or after the identifier; insertions in front and refilled slots move
  events up only, towards positions still to be read.
* Ider's `WriteInv` says that a pending write lies in the image, is not complete, that
  what arrived for it is in the file unless storing it ended the session, and that
  nothing below it counts as acknowledged; with it the last check of `MediaImage.write` is never reached.
  `ReadInv` says that what has been sent is exactly the run of blocks up to the
  offset.
* Redirection's `Inv` says that the messages lie one after the other in the stream
  (`Laid`), that what was received and not taken is in exactly one of the two buffers
  (`Buffered`), and how far the handshake is (`PhaseInv`). `HeadIsNext` is the heart: a buffer
  that starts where the messages taken end can only start with the next one.

Only model-checked: the liveness properties CallReturns, RefusalEnds, ToggleDecided, StopObeyed,
MediaReleased, CallEnds, ModuleEnds, PumpEnds, ConnectEnds and FramesArrive, for the
prover handles neither fairness nor ENABLED. The three properties the code violates
(section 4) are refuted by TLC and have no theorem.

## 6. Not modelled, and the plan

Not modelled on purpose: option parsing, documentation, SOAP and XML, digest
computation, the DER parser behind the certificate evidence, the bytes of SCSI answers,
record decoding, redaction, the names in the fact tables. They are conversions of data
without state; unit tests reach them. The CI scripts, the tests and the mock servers are
not part of the running system.

Order in which the models were written: MediaSession (the part with the most
concurrency), Install (the part with the most to lose), Wsman (under both),
MessageLog, Ider, Redirection, then RemoteCall, Facts and Endpoint. Left:

1. Compose Redirection with Ider: the frames that feed() takes are the ones Ider
   handles.
2. An abstract specification of a media session (off, starting, serving, ended) that
   MediaSession implements and that Install's `live` is an instance of, so that the
   two are joined by a refinement, as Wsman and its callers are by RemoteCall.
3. Proofs: what a refinement between the two media models needs, and, of the liveness
   properties, the part without fairness: that each step of a loop makes its measure
   smaller.
