------------------------------ MODULE Install ------------------------------
(***************************************************************************)
(* The amt_baremetal_install role against one target: the phases of        *)
(* tasks/main.yml, the run-state file that carries what one ansible run    *)
(* learned to the next, the five WS-Man calls of boot.arm_one_time_boot,   *)
(* the power transition of amt_power, and the endpoint they change.        *)
(*                                                                         *)
(* A step ends where the controller can be interrupted with something      *)
(* outside it already changed: after a call that reached the endpoint,     *)
(* after a fork, after a save.  A call that changes the endpoint has three *)
(* outcomes: applied and answered, applied with the answer lost, and not   *)
(* applied; the caller cannot tell the last two apart.                     *)
(***************************************************************************)
EXTENDS Naturals, FiniteSets

CONSTANTS
    MaxSessions,    \* bound: media session ids the runs can generate
    Faults,         \* what can go wrong around the role
    MaxFaults       \* bound: how many of these in one behaviour

\* "crash": a run is killed at some step; "detach": amt_media state=detached
\* itself fails; "daemon": a media daemon that was serving ends on its own;
\* "power": somebody else works the power button; "late": a run starts while the
\* firmware has yet to carry out the power request of an earlier one.
ASSUME ConstantsAssumption ==
    /\ MaxSessions \in Nat
    /\ MaxFaults \in Nat
    /\ Faults \subseteq {"crash", "detach", "daemon", "power", "late"}

VARIABLES
    file,      \* the run-state file; an absent file loads as the default
    rs,        \* amt_baremetal_install_run_state; the default between runs
    pc,        \* the task the run is at; "idle" between runs
    provider,  \* amt_baremetal_install_boot_provider
    probed,    \* power state amt_info reported in the probe, if it did
    adopted,   \* history: the run took a session still connecting for attached
    order,     \* firmware: source named by the boot order, or "null"
    useIder,   \* firmware: AMT_BootSettingData.UseIDER
    oneShot,   \* firmware: the boot configuration is IsNextSingleUse
    power,     \* firmware: power state of the host
    pending,   \* firmware: power requests accepted and not yet carried out
    live,      \* media sessions whose daemon runs and was not told to stop
    serving,   \* those of them that have the firmware's IDE-R connection
    ids,       \* how many session ids have been generated
    arms,      \* history: arms since the last settled or acknowledged one
    resets,    \* history: power requests that reached the firmware since then
    closed,    \* history: session ids of runs that recorded reset_confirmed
    faults     \* history: the faults that have happened

fwVars == <<order, useIder, oneShot, power, pending>>
runVars == <<provider, probed, adopted>>
daemons == <<live, serving>>
history == <<arms, resets, closed, faults>>
vars == <<file, rs, pc, provider, probed, adopted, order, useIder, oneShot,
          power, pending, live, serving, ids, arms, resets, closed, faults>>

---------------------------------------------------------------------------
Providers == {"ider_cdrom", "pxe"}

\* "off" stands for off and hibernate, the two states reset.yml starts from
\* with `on`; any other state is treated like "on".
PowerStates == {"on", "off"}

\* The requests the role sends.
Transitions == {"on", "reset"}

Ids == 1 .. MaxSessions

NoSession == 0

\* The fields of the run state that a task of this or a later run reads back, or
\* reports to the operator when it refuses to go on; media_attached, detached and
\* the timestamps are written only.
RunStates == [session_id : Ids \cup {NoSession}, boot_armed : BOOLEAN,
              reset_issued : BOOLEAN, reset_confirmed : BOOLEAN]

default_state ==
    [session_id |-> NoSession, boot_armed |-> FALSE, reset_issued |-> FALSE,
     reset_confirmed |-> FALSE]

Pcs == {"idle", "probe", "redirect", "claim", "attach", "attach_wait",
        "discover", "clear", "put", "role", "order", "verify",
        "power_read", "power_send", "power_accepted", "power_rescue",
        "observe", "handoff", "rescue", "detach"}

\* Histories count to two: one is legitimate, two is the defect.
HistoryBound == 2

Bump(n) == IF n = HistoryBound THEN n ELSE n + 1

Happens(fault) ==
    /\ fault \in Faults
    /\ faults' = faults \cup {fault}
    /\ Cardinality(faults') <= MaxFaults

---------------------------------------------------------------------------
(***************************************************************************)
(* state.yml: what a new run makes of the file an earlier one left.        *)
(***************************************************************************)
CleanSlate(prior) ==
    IF prior.reset_confirmed THEN default_state ELSE prior

Uncertain(r) == r.boot_armed /\ ~r.reset_confirmed

Reconciled(r) ==
    IF Uncertain(r) THEN [r EXCEPT !.boot_armed = FALSE, !.reset_issued = FALSE]
    ELSE r

\* The bound on ids: a run that will need a new one starts while one is left.
SessionLeft(r, p) ==
    p = "ider_cdrom" /\ r.session_id = NoSession => ids < MaxSessions

\* validate.yml and state.yml.  The assertion that refuses an uncertain prior
\* run without force_resume fails before anything is written, outside the
\* block, so a refused run changes nothing.  Giving force_resume is the
\* operator's word that the machine has been looked at.
Start(f, p) ==
    /\ pc = "idle"
    /\ Uncertain(CleanSlate(file)) => f
    /\ SessionLeft(CleanSlate(file), p)
    /\ rs' = Reconciled(CleanSlate(file))
    /\ file' = rs'
    /\ pc' = "probe"
    /\ provider' = p
    /\ arms' = IF f THEN 0 ELSE arms
    /\ resets' = IF f THEN 0 ELSE resets
    /\ probed' = "unknown"
    /\ adopted' = FALSE
    /\ IF pending = {} THEN UNCHANGED faults ELSE Happens("late")
    /\ UNCHANGED <<fwVars, daemons, ids, closed>>

\* A task that fails inside the block: its rescue section comes next.
Fail == pc' = "rescue" /\ UNCHANGED <<file, rs>>

\* set_fact followed by save_state.yml.
Record(r, next) == rs' = r /\ file' = r /\ pc' = next

\* The run is over, and its facts with it.
Over == pc' = "idle" /\ rs' = default_state

\* amt_info may leave the power state out (a class it could not read) or not
\* know the code; the probe goes on either way.
Probe ==
    /\ pc = "probe"
    /\ \/ /\ probed' \in {power, "unknown"}
          /\ pc' = IF provider = "ider_cdrom" THEN "redirect" ELSE "discover"
          /\ UNCHANGED <<file, rs>>
       \/ Fail /\ UNCHANGED probed
    /\ UNCHANGED <<provider, adopted, fwVars, daemons, ids, history>>

---------------------------------------------------------------------------
(***************************************************************************)
(* attach_media.yml and detach_media.yml.  amt_media's promise is the one  *)
(* MediaSession states: an id with a live daemon is confirmed, not started *)
(* twice; a new daemon outlives a failed attach; the firmware gives out    *)
(* one IDE-R connection.                                                   *)
(***************************************************************************)
Redirect ==
    /\ pc = "redirect"
    /\ \/ pc' = "claim" /\ UNCHANGED <<file, rs>>
       \/ Fail
    /\ UNCHANGED <<runVars, fwVars, daemons, ids, history>>

\* Mutant: the id is kept in memory only, until the attach has succeeded.
ClaimUnsaved ==
    /\ pc = "claim"
    /\ ids' = IF rs.session_id = NoSession THEN ids + 1 ELSE ids
    /\ rs' = [rs EXCEPT !.session_id =
                 IF @ = NoSession THEN ids + 1 ELSE @]
    /\ pc' = "attach"
    /\ UNCHANGED <<file, runVars, fwVars, daemons, history>>

Claim ==
    /\ pc = "claim"
    /\ ids' = IF rs.session_id = NoSession THEN ids + 1 ELSE ids
    /\ Record([rs EXCEPT !.session_id =
                  IF @ = NoSession THEN ids + 1 ELSE @], "attach")
    /\ UNCHANGED <<runVars, fwVars, daemons, history>>

MediaAttached == Record(rs, "discover")

\* A live session is taken as attached, even one that is still connecting.
Attach ==
    /\ pc = "attach"
    /\ \/ /\ rs.session_id \in live
          /\ MediaAttached
          /\ adopted' = (rs.session_id \notin serving)
          /\ UNCHANGED live
       \/ /\ rs.session_id \notin live
          /\ live' = live \cup {rs.session_id}
          /\ pc' = "attach_wait"
          /\ UNCHANGED <<file, rs, adopted>>
       \/ Fail /\ UNCHANGED <<live, adopted>>
    /\ UNCHANGED <<provider, probed, fwVars, serving, ids, history>>

\* The daemon's verdict: attached, or a failure, or none in time; a daemon that
\* gave none goes on connecting.
AttachVerdict ==
    /\ pc = "attach_wait"
    /\ \/ rs.session_id \in serving /\ MediaAttached
       \/ Fail
    /\ UNCHANGED <<runVars, fwVars, daemons, ids, history>>

DetachMedia ==
    /\ pc = "detach"
    /\ \/ /\ live' = live \ {rs.session_id}
          /\ serving' = serving \ {rs.session_id}
          /\ file' = rs
          /\ UNCHANGED faults
       \/ /\ rs.session_id # NoSession
          /\ Happens("detach")
          /\ UNCHANGED <<file, daemons>>
    /\ Over
    /\ UNCHANGED <<runVars, fwVars, ids, arms, resets, closed>>

---------------------------------------------------------------------------
(***************************************************************************)
(* arm_boot.yml: amt_boot, hence boot.arm_one_time_boot.                   *)
(***************************************************************************)
\* token, plan, discover_and_validate and the first Get: reads only.
Discover ==
    /\ pc = "discover"
    /\ \/ pc' = "clear" /\ UNCHANGED <<file, rs>>
       \/ Fail
    /\ UNCHANGED <<runVars, fwVars, daemons, ids, history>>

\* A mutating call that was applied: answered, or its answer was lost.
Applied(next) == pc' \in {next, "rescue"} /\ UNCHANGED <<file, rs>>

\* Mutant: the order is not cleared before the Put.
ChangeBootOrderNullSkipped ==
    /\ pc = "clear"
    /\ pc' = "put"
    /\ UNCHANGED <<file, rs, order, runVars, useIder, oneShot, power, pending, daemons, ids, history>>

ChangeBootOrderNull ==
    /\ pc = "clear"
    /\ \/ Applied("put") /\ order' = "null"
       \/ Fail /\ UNCHANGED order
    /\ UNCHANGED <<runVars, useIder, oneShot, power, pending, daemons, ids, history>>

\* Mutant: the Put body keeps the UseIDER the Get returned.
PutKeepsUseIder ==
    /\ pc = "put"
    /\ \/ Applied("role") /\ useIder' = useIder
       \/ Fail /\ UNCHANGED useIder
    /\ UNCHANGED <<runVars, order, oneShot, power, pending, daemons, ids, history>>

PutBootSettingData ==
    /\ pc = "put"
    /\ \/ Applied("role") /\ useIder' = (provider = "ider_cdrom")
       \/ Fail /\ UNCHANGED useIder
    /\ UNCHANGED <<runVars, order, oneShot, power, pending, daemons, ids, history>>

SetBootConfigRole ==
    /\ pc = "role"
    /\ \/ Applied("order") /\ oneShot' = TRUE /\ arms' = Bump(arms)
       \/ Fail /\ UNCHANGED <<oneShot, arms>>
    /\ UNCHANGED <<runVars, order, useIder, power, pending, daemons, ids, resets, closed,
                   faults>>

BootSource == IF provider = "pxe" THEN "pxe" ELSE "null"

ChangeBootOrderSource ==
    /\ pc = "order"
    /\ \/ Applied("verify") /\ order' = BootSource
       \/ Fail /\ UNCHANGED order
    /\ UNCHANGED <<runVars, useIder, oneShot, power, pending, daemons, ids, history>>

\* Mutant: boot_armed is set and not saved before the reset.
ArmedUnsaved ==
    /\ pc = "verify"
    /\ \/ /\ rs' = [rs EXCEPT !.boot_armed = TRUE]
          /\ pc' = "power_read"
          /\ UNCHANGED file
       \/ Fail
    /\ UNCHANGED <<runVars, fwVars, daemons, ids, history>>

\* The final Get, and boot_armed recorded once amt_boot has returned.
Armed ==
    /\ pc = "verify"
    /\ \/ Record([rs EXCEPT !.boot_armed = TRUE], "power_read")
       \/ Fail
    /\ UNCHANGED <<runVars, fwVars, daemons, ids, history>>

---------------------------------------------------------------------------
(***************************************************************************)
(* reset.yml: the transition, through amt_power.                           *)
(***************************************************************************)
power_action == IF probed = "off" THEN "on" ELSE "reset"

\* amt_power.plan: `on` is convergent, `reset` is imperative.
plan(state, previous) == state = "on" => previous # "on"

PowerRescue == pc' = "power_rescue" /\ UNCHANGED <<file, rs>>

PowerRead ==
    /\ pc = "power_read"
    /\ \/ /\ \E seen \in {power, "unknown"} :
                pc' = IF plan(power_action, seen) THEN "power_send"
                      ELSE "power_accepted"
          /\ UNCHANGED <<file, rs>>
       \/ PowerRescue
    /\ UNCHANGED <<runVars, fwVars, daemons, ids, history>>

\* ReturnValue 0 says that the request is accepted, not that it is done.
PowerSend ==
    /\ pc = "power_send"
    /\ \/ /\ pending' = pending \cup {power_action}
          /\ resets' = Bump(resets)
          /\ pc' \in {"power_accepted", "power_rescue"}
          /\ UNCHANGED <<file, rs>>
       \/ PowerRescue /\ UNCHANGED <<pending, resets>>
    /\ UNCHANGED <<runVars, order, useIder, oneShot, power, daemons, ids, arms,
                   closed, faults>>

\* Both endings of the inner block record that the request may have landed.
PowerRecorded ==
    /\ \/ /\ pc = "power_accepted"
          /\ Record([rs EXCEPT !.reset_issued = TRUE], "observe")
       \/ /\ pc = "power_rescue"
          /\ Record([rs EXCEPT !.reset_issued = TRUE], "rescue")
    /\ UNCHANGED <<runVars, fwVars, daemons, ids, history>>

---------------------------------------------------------------------------
(***************************************************************************)
(* observe.yml, wait_for_handoff.yml, record_failure.yml.                  *)
(***************************************************************************)
\* Mutant: the run is settled whatever the query saw.
ObserveAnything ==
    /\ pc = "observe"
    /\ Record([rs EXCEPT !.reset_confirmed = TRUE], "handoff")
    /\ arms' = 0
    /\ resets' = 0
    /\ closed' = closed \cup {rs.session_id}
    /\ UNCHANGED <<runVars, fwVars, daemons, ids, faults>>

\* A query that saw `on` confirms, be it the `on` of a host that has yet to
\* follow the request; one that never did leaves the flag alone and lets the
\* run go on; one without a power state in its result may also fail the `until`
\* condition.
Observe ==
    /\ pc = "observe"
    /\ \/ /\ power = "on"
          /\ Record([rs EXCEPT !.reset_confirmed = TRUE], "handoff")
          /\ arms' = 0
          /\ resets' = 0
          /\ closed' = closed \cup {rs.session_id}
          /\ UNCHANGED faults
       \/ Record(rs, "handoff") /\ UNCHANGED history
       \/ Fail /\ UNCHANGED history
    /\ UNCHANGED <<runVars, fwVars, daemons, ids>>

Handoff ==
    /\ pc = "handoff"
    /\ \/ pc' = "detach" /\ UNCHANGED <<file, rs>>
       \/ Fail
    /\ UNCHANGED <<runVars, fwVars, daemons, ids, history>>

\* Mutant: the rescue section ends the run, there is no always section.
RescueEndsRun ==
    /\ pc = "rescue"
    /\ file' = rs
    /\ Over
    /\ UNCHANGED <<runVars, fwVars, daemons, ids, history>>

\* record_failure.yml saves, the re-raise falls through to `always`.
Rescue ==
    /\ pc = "rescue"
    /\ Record(rs, "detach")
    /\ UNCHANGED <<runVars, fwVars, daemons, ids, history>>

---------------------------------------------------------------------------
(***************************************************************************)
(* What happens around the role.                                           *)
(***************************************************************************)
\* ansible-playbook is killed: neither rescue nor always runs.
Crash ==
    /\ pc # "idle"
    /\ Happens("crash")
    /\ Over
    /\ UNCHANGED <<file, runVars, fwVars, daemons, ids, arms, resets, closed>>

\* The firmware has one IDE-R connection to give.
DaemonConnects ==
    /\ serving = {}
    /\ \E id \in live : serving' = {id}
    /\ UNCHANGED <<file, rs, pc, runVars, fwVars, live, ids, history>>

\* A daemon ends: one that was serving on its own account, one that was not
\* because it did not get its connection.
DaemonEnds ==
    /\ \E id \in live :
          /\ live' = live \ {id}
          /\ serving' = serving \ {id}
          /\ IF id \in serving THEN Happens("daemon") ELSE UNCHANGED faults
    /\ UNCHANGED <<file, rs, pc, runVars, fwVars, ids, arms, resets, closed>>

\* The host starts: a single-use boot configuration is used up.
Boots == power' = "on" /\ oneShot' = FALSE

\* A reset starts only a running host, `on` only one that is off.
Starts(action) == (action = "on") = (power = "off")

\* The host follows a request the firmware had accepted.
HostFollows(action) ==
    /\ action \in pending
    /\ pending' = pending \ {action}
    /\ IF Starts(action) THEN Boots ELSE UNCHANGED <<power, oneShot>>
    /\ UNCHANGED <<file, rs, pc, runVars, order, useIder, daemons, ids, history>>

PowerButton ==
    /\ Happens("power")
    /\ \/ power = "on" /\ power' = "off" /\ UNCHANGED oneShot
       \/ power = "off" /\ Boots
    /\ UNCHANGED <<file, rs, pc, runVars, order, useIder, pending, daemons, ids,
                   arms, resets, closed>>

RoleStep ==
    \/ Probe \/ Redirect \/ Claim \/ Attach \/ AttachVerdict
    \/ Discover \/ ChangeBootOrderNull \/ PutBootSettingData
    \/ SetBootConfigRole \/ ChangeBootOrderSource \/ Armed
    \/ PowerRead \/ PowerSend \/ PowerRecorded
    \/ Observe \/ Handoff \/ Rescue \/ DetachMedia

Next ==
    \/ \E f \in BOOLEAN, p \in Providers : Start(f, p)
    \/ RoleStep
    \/ Crash
    \/ DaemonConnects \/ DaemonEnds
    \/ \E action \in Transitions : HostFollows(action)
    \/ PowerButton

Init ==
    /\ file = default_state
    /\ rs = default_state
    /\ pc = "idle"
    /\ provider \in Providers
    /\ probed = "unknown"
    /\ adopted = FALSE
    /\ power \in PowerStates
    /\ pending = {}
    \* Whatever an earlier tool left in the endpoint, not armed.
    /\ order \in {"null", "pxe"}
    /\ useIder \in BOOLEAN
    /\ oneShot = FALSE
    /\ live = {}
    /\ serving = {}
    /\ ids = 0
    /\ arms = 0
    /\ resets = 0
    /\ closed = {}
    /\ faults = {}

Spec == Init /\ [][Next]_vars

\* A run in progress goes on: every task ends by an answer or a timeout.
FairSpec == Spec /\ WF_vars(RoleStep)

---------------------------------------------------------------------------
(***************************************************************************)
(* Properties.                                                             *)
(***************************************************************************)
\* Type correctness; session_id is set wherever a media step is about to use
\* it, and a run that is past the arm carries boot_armed.
TypeOK ==
    /\ file \in RunStates
    /\ rs \in RunStates
    /\ pc \in Pcs
    /\ provider \in Providers
    /\ probed \in PowerStates \cup {"unknown"}
    /\ adopted \in BOOLEAN
    /\ order \in {"null", "pxe"}
    /\ useIder \in BOOLEAN
    /\ oneShot \in BOOLEAN
    /\ power \in PowerStates
    /\ pending \subseteq Transitions
    /\ live \subseteq Ids
    /\ serving \subseteq live
    /\ ids \in 0 .. MaxSessions
    /\ arms \in 0 .. HistoryBound
    /\ resets \in 0 .. HistoryBound
    /\ closed \subseteq Ids \cup {NoSession}
    /\ faults \subseteq Faults

\* state.yml: a second power request never reaches a machine whose earlier one
\* is neither confirmed by the postcondition probe nor acknowledged by an
\* operator, whatever call fails and wherever a run is killed.
NoSilentReset == resets <= 1

\* state.yml's and the README's claim about the other half: one-time boot is
\* never armed a second time without a confirmation or an acknowledgement in
\* between.
NoSilentRearm == arms <= 1

\* boot.py's reason for its call order: an armed single-use boot never names a
\* boot source while it asks for IDE-R, not even between two calls or after a
\* sequence that stopped half way on top of another provider's leftovers.
SourceNeverOverridesIder == oneShot => ~(useIder /\ order # "null")

\* reset.yml's destructive boundary: when the host starts upon the role's
\* request, however long after its acceptance and whatever the probe took it
\* for, it starts on what that run chose: the configuration is set up for the
\* run's provider and armed, unless somebody else used it up, and, while the run
\* lasts, its media is being served, unless a daemon ended on its own or an
\* earlier run's daemon was taken for attached before it was.  A later run that
\* starts before the host has followed is excepted: it arms on its own account.
ResetBootsWhatWasChosen ==
    [][\A action \in Transitions :
         (HostFollows(action) /\ Starts(action) /\ "late" \notin faults) =>
           /\ useIder = (provider = "ider_cdrom")
           /\ order = BootSource
           /\ "power" \notin faults => oneShot
           /\ (/\ provider = "ider_cdrom" /\ pc # "idle"
               /\ "daemon" \notin faults /\ ~adopted) => rs.session_id \in serving]_vars

\* observe.yml: the record that lets the next run start from a clean slate means
\* that the armed boot has been used, if the probe found the host off and neither
\* an earlier run's request nor another hand moved it.  Of a host that was
\* running it means nothing: the query may see it before it is reset.
ConfirmedMeansBooted ==
    (file.reset_confirmed /\ probed = "off" /\ faults \cap {"power", "late"} = {})
        => ~oneShot

\* attach_media.yml: a media daemon can be found by the next run, or by the
\* operator, through the id in the run-state file, wherever the run that
\* started it was killed, until that run's reset is confirmed.
DaemonIsOnFile == live \subseteq {file.session_id} \cup closed

\* main.yml's always-detach: every daemon a run started is stopped by the end
\* of that run, whichever task of the block failed, whatever happens to the
\* host's power and to daemons meanwhile; only a killed run or a detach that
\* fails leaves one.
MediaReleased ==
    \A id \in Ids :
        id \in live ~> (id \notin live \/ faults \cap {"crash", "detach"} # {})
============================================================================
