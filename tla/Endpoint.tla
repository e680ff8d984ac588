------------------------------ MODULE Endpoint ------------------------------
(***************************************************************************)
(* amt_power, amt_redirection and amt_boot, any number of invocations of   *)
(* them at a time, against one endpoint whose host is also switched by     *)
(* hand.  No module takes a lock: each reads, decides and writes, and what *)
(* it read may be out of date when it writes.                              *)
(*                                                                         *)
(* A step is one WS-Man call, as RemoteCall promises it: a write that      *)
(* returned was carried out once, one that timed out before it was sent    *)
(* was not, and any other error leaves that open.                          *)
(***************************************************************************)
EXTENDS Naturals

CONSTANTS
    Callers,     \* module invocations, each at most once, at any time
    Tasks,       \* what they may be asked to do
    Endpoints,   \* the endpoints to begin with
    PollCount    \* AmtClient(poll_count)

VARIABLES
    caps,        \* firmware: AMT_BootCapabilities and the boot sources
    power,       \* firmware: power state of the host
    pending,     \* firmware: transition accepted and not yet made, or "none"
    enabled,     \* firmware: AMT_RedirectionService.EnabledState
    requested,   \* firmware: EnabledState accepted and not yet in force, or "none"
    order,       \* firmware: source named by the boot order
    settings,    \* firmware: AMT_BootSettingData
    oneShot,     \* firmware: the boot configuration is IsNextSingleUse
    call         \* [Callers -> the invocation's state]

fwVars == <<power, pending, enabled, requested, order, settings, oneShot>>
vars == <<caps, fwVars, call>>

---------------------------------------------------------------------------
(***************************************************************************)
(* The tables.                                                             *)
(***************************************************************************)
\* The codes of _POWER_STATE_TABLE: 2, 3, 4, 7; 6, 8 and 13; 5 and 9, which are
\* power cycles under way; and a value the table does not have.
Off == {"off_hard", "off_soft", "off_graceful"}

Cycling == {"cycle_soft", "cycle_hard"}

PowerStates ==
    {"on", "light", "deep", "hibernate", "unknown"} \cup Off \cup Cycling

\* What they read as: the two sleep depths the same, and of the two cycles, both
\* of which end powered on, one on and one off.
Normalized ==
    [p \in PowerStates |->
        IF p \in Off \cup {"cycle_hard"} THEN "off"
        ELSE IF p = "cycle_soft" THEN "on"
        ELSE IF p \in {"light", "deep"} THEN "sleep" ELSE p]

PowerActions == {"on", "off", "reset", "cycle", "sleep-light", "sleep-deep",
                 "hibernate"}

\* _STATE_TO_ACTION and _ACTION_EXPECTED_STATE; "reboot" is "reset".
ExpectedState(a) ==
    IF a \in {"on", "reset", "cycle"} THEN "on"
    ELSE IF a \in {"sleep-light", "sleep-deep"} THEN "sleep" ELSE a

\* The states of the host that an action asks for.
Asked(a) ==
    IF a = "sleep-light" THEN {"light"} ELSE IF a = "sleep-deep" THEN {"deep"}
    ELSE IF a = "off" THEN Off ELSE {ExpectedState(a)}

CONVERGENT_STATES == {"on", "off", "hibernate"}

\* Mutant: sleep is convergent too.
PlanSleeps(state, previous) ==
    /\ state # "query"
    /\ state \notin {"reset", "cycle"} => previous # ExpectedState(state)

\* plan: is a request needed?
plan(state, previous) ==
    /\ state # "query"
    /\ state \in CONVERGENT_STATES => previous # ExpectedState(state)

\* STATE_NAME_TO_ENABLED_STATE, and a value without a name.
RedirectionStates == {"disabled", "ider", "sol", "all"}

EnabledStates == RedirectionStates \cup {"other"}

\* _CAPABILITY_FIELD_BY_TARGET: what AMT_BootCapabilities must say of a target.
CapabilityField ==
    [pxe |-> "ForcePXEBoot", hdd |-> "ForceHardDriveBoot",
     cd |-> "ForceCDorDVDBoot", bios |-> "BIOSSetup", ider_floppy |-> "IDER",
     ider_cdrom |-> "IDER"]

BootTargets == {"pxe", "hdd", "cd", "bios", "ider_floppy", "ider_cdrom"}

\* The targets with a CIM_BootSourceSetting.
NativeSources == {"pxe", "hdd", "cd"}

\* The capability fields that read true, and the sources named exactly once.
Capabilities ==
    [fields : SUBSET {"IDER", "SOL", "BIOSSetup", "ForcePXEBoot",
                      "ForceHardDriveBoot", "ForceCDorDVDBoot"},
     sources : SUBSET NativeSources]

\* _TARGET_SPECS: the settings and the boot source of a target.
Settings == [useIder : BOOLEAN, iderBootDevice : {0, 1}, biosSetup : BOOLEAN]

BootSettings(target) ==
    [useIder |-> target \in {"ider_floppy", "ider_cdrom"},
     iderBootDevice |-> IF target = "ider_cdrom" THEN 1 ELSE 0,
     biosSetup |-> target = "bios"]

BootSource(target) == IF target \in NativeSources THEN target ELSE "null"

TaskSet ==
    [module : {"amt_power"}, want : PowerActions \cup {"query"}, check : BOOLEAN]
      \cup [module : {"amt_redirection"}, want : RedirectionStates \cup {"none"},
            check : BOOLEAN]
      \cup [module : {"amt_boot"}, want : BootTargets, check : BOOLEAN]

ASSUME ConstantsAssumption ==
    /\ Tasks \subseteq TaskSet
    /\ Endpoints \subseteq [caps : Capabilities, power : PowerStates,
                            enabled : EnabledStates]
    /\ PollCount \in Nat

---------------------------------------------------------------------------
(***************************************************************************)
(* Invocations.                                                            *)
(***************************************************************************)
Pcs == {"idle", "power_read", "power_reread", "power_send", "power_poll",
        "redirection_read", "redirection_send", "redirection_reread",
        "boot_discover", "boot_get", "boot_clear", "boot_put", "boot_role",
        "boot_order", "boot_verify"}

FirstStep ==
    [amt_power |-> "power_read", amt_redirection |-> "redirection_read",
     amt_boot |-> "boot_discover"]

NoTask == [module |-> "none", want |-> "none", check |-> FALSE]

Endings == {"none", "ok", "read_failed", "not_sent", "unsure",
            "unsupported_capability", "invalid_state"}

\* seen is what the module reports to have read last; writes and disturbed are
\* histories: the calls that were carried out, and whether somebody else has
\* since changed what this invocation works on.
Calls ==
    [pc : Pcs, task : Tasks \cup {NoTask}, changed : BOOLEAN, polls : 0 .. PollCount,
     seen : PowerStates \cup EnabledStates \cup {"none"}, ending : Endings,
     writes : 0 .. 4, disturbed : BOOLEAN]

Unused ==
    [pc |-> "idle", task |-> NoTask, changed |-> FALSE, polls |-> 0, seen |-> "none",
     ending |-> "none", writes |-> 0, disturbed |-> FALSE]

Fresh(t) == [Unused EXCEPT !.pc = FirstStep[t.module], !.task = t]

Invoke(k, t) ==
    /\ call[k].task = NoTask
    /\ call' = [call EXCEPT ![k] = Fresh(t)]
    /\ UNCHANGED <<caps, fwVars>>

\* One invocation goes on; the others that work with the same part of the
\* endpoint are disturbed when that part was written.
Goes(k, c) == call' = [call EXCEPT ![k] = c]

Writes(k, m, c) ==
    call' = [j \in Callers |->
                IF j = k THEN [c EXCEPT !.writes = @ + 1]
                ELSE IF call[j].task.module = m
                THEN [call[j] EXCEPT !.disturbed = TRUE] ELSE call[j]]

At(k, pc) == call[k].pc = pc

\* exit_json and fail_json.
Exit(c) == [c EXCEPT !.pc = "idle", !.ending = "ok"]

FailWith(c, cls) == [c EXCEPT !.pc = "idle", !.ending = cls]

\* A read that raises, or finds no or several AMT_BootCapabilities: the module
\* fails and nothing has changed.
ReadFails(k) ==
    /\ Goes(k, FailWith(call[k], "read_failed"))
    /\ UNCHANGED <<caps, fwVars>>

\* A write that was refused or not sent, or whose answer was lost although it
\* was not carried out.
WriteFails(k) ==
    /\ \E cls \in {"not_sent", "unsure"} : Goes(k, FailWith(call[k], cls))
    /\ UNCHANGED <<caps, fwVars>>

\* A write that was carried out: the module goes on with c, or the answer was
\* lost.
Done(k, m, c) ==
    \/ Writes(k, m, c)
    \/ Writes(k, m, FailWith(call[k], "unsure"))

---------------------------------------------------------------------------
(***************************************************************************)
(* amt_power.                                                              *)
(***************************************************************************)
\* get_power_state and plan; check mode and a state already reached end here.
PowerRead(k) ==
    /\ At(k, "power_read")
    /\ \/ LET t == call[k].task
              changed == plan(t.want, Normalized[power])
              c == [call[k] EXCEPT !.changed = changed, !.seen = power]
          IN  /\ Goes(k, IF ~changed \/ t.check THEN Exit(c)
                         ELSE [c EXCEPT !.pc = "power_reread"])
              /\ UNCHANGED <<caps, fwVars>>
       \/ ReadFails(k)

\* request_power_state reads `previous` again, and does not plan again.
PowerReread(k) ==
    /\ At(k, "power_reread")
    /\ \/ /\ Goes(k, [call[k] EXCEPT !.pc = "power_send", !.seen = power])
          /\ UNCHANGED <<caps, fwVars>>
       \/ ReadFails(k)

\* ReturnValue 0 says accepted; the host follows when it does.
PowerSend(k) ==
    /\ At(k, "power_send")
    /\ \/ /\ pending' = call[k].task.want
          /\ Done(k, "amt_power", [call[k] EXCEPT !.pc = "power_poll", !.seen = "none"])
          /\ UNCHANGED <<caps, power, enabled, requested, order, settings, oneShot>>
       \/ WriteFails(k)

\* One of poll_count probes; one that raises is passed over.
Poll(k) ==
    /\ At(k, "power_poll")
    /\ LET c == [call[k] EXCEPT !.polls = @ + 1]
           read == [c EXCEPT !.seen = power]
       IN  \/ call[k].polls >= PollCount /\ Goes(k, Exit(call[k]))
           \/ /\ call[k].polls < PollCount
              /\ Goes(k, IF Normalized[power] = ExpectedState(call[k].task.want)
                         THEN Exit(read) ELSE read)
           \/ call[k].polls < PollCount /\ Goes(k, c)
    /\ UNCHANGED <<caps, fwVars>>

---------------------------------------------------------------------------
(***************************************************************************)
(* amt_redirection.                                                        *)
(***************************************************************************)
\* validate_state_change
Supported(want) ==
    /\ want \in {"ider", "all"} => "IDER" \in caps.fields
    /\ want \in {"sol", "all"} => "SOL" \in caps.fields

\* get_status: capabilities, state, and two connects that change nothing.
RedirectionRead(k) ==
    /\ At(k, "redirection_read")
    /\ \/ LET t == call[k].task
              changed == t.want \notin {"none", enabled}
              c == [call[k] EXCEPT !.changed = changed, !.seen = enabled]
          IN  /\ Goes(k, IF changed /\ ~Supported(t.want)
                         THEN FailWith(c, "unsupported_capability")
                         ELSE IF ~changed \/ t.check THEN Exit(c)
                         ELSE [c EXCEPT !.pc = "redirection_send"])
              /\ UNCHANGED <<caps, fwVars>>
       \/ ReadFails(k)

\* As with power, what is accepted need not be in force yet.
RequestStateChange(k) ==
    /\ At(k, "redirection_send")
    /\ \/ /\ requested' = call[k].task.want
          /\ Done(k, "amt_redirection",
                  [call[k] EXCEPT !.pc = "redirection_reread"])
          /\ UNCHANGED <<caps, power, pending, enabled, order, settings, oneShot>>
       \/ WriteFails(k)

\* get_status again; what it finds is reported, and compared with nothing.
RedirectionReread(k) ==
    /\ At(k, "redirection_reread")
    /\ \/ /\ Goes(k, Exit([call[k] EXCEPT !.seen = enabled]))
          /\ UNCHANGED <<caps, fwVars>>
       \/ ReadFails(k)

---------------------------------------------------------------------------
(***************************************************************************)
(* amt_boot.                                                               *)
(***************************************************************************)
\* discover_and_validate, before anything is written.
Bootable(target) ==
    /\ CapabilityField[target] \in caps.fields
    /\ target \in NativeSources => target \in caps.sources

\* An empty action_token is refused first.
Discover(k) ==
    /\ At(k, "boot_discover")
    /\ \/ /\ Goes(k, IF Bootable(call[k].task.want)
                     THEN [call[k] EXCEPT !.pc = "boot_get"]
                     ELSE FailWith(call[k], "unsupported_capability"))
          /\ UNCHANGED <<caps, fwVars>>
       \/ /\ Goes(k, FailWith(call[k], "invalid_state"))
          /\ UNCHANGED <<caps, fwVars>>
       \/ ReadFails(k)

\* Mutant: check mode is consulted after the first write.
GetThenClear(k) ==
    /\ At(k, "boot_get")
    /\ \/ /\ Goes(k, [call[k] EXCEPT !.pc = "boot_clear", !.changed = TRUE])
          /\ UNCHANGED <<caps, fwVars>>
       \/ ReadFails(k)

\* Step 1.  amt_boot reports changed in either mode.
GetBootSettingData(k) ==
    /\ At(k, "boot_get")
    /\ \/ LET c == [call[k] EXCEPT !.changed = TRUE]
          IN  /\ Goes(k, IF c.task.check THEN Exit(c)
                         ELSE [c EXCEPT !.pc = "boot_clear"])
              /\ UNCHANGED <<caps, fwVars>>
       \/ ReadFails(k)

ClearBootOrder(k) ==
    /\ At(k, "boot_clear")
    /\ \/ /\ order' = "null"
          /\ Done(k, "amt_boot", [call[k] EXCEPT !.pc = "boot_put"])
          /\ UNCHANGED <<caps, power, pending, enabled, requested, settings, oneShot>>
       \/ WriteFails(k)

\* Mutant: BIOSSetup is carried over from what the Get returned.
PutKeepsBiosSetup(k) ==
    /\ At(k, "boot_put")
    /\ \/ /\ settings' = [BootSettings(call[k].task.want)
                            EXCEPT !.biosSetup = @ \/ settings.biosSetup]
          /\ Done(k, "amt_boot", [call[k] EXCEPT !.pc = "boot_role"])
          /\ UNCHANGED <<caps, power, pending, enabled, requested, order, oneShot>>
       \/ WriteFails(k)

PutBootSettingData(k) ==
    /\ At(k, "boot_put")
    /\ \/ /\ settings' = BootSettings(call[k].task.want)
          /\ Done(k, "amt_boot", [call[k] EXCEPT !.pc = "boot_role"])
          /\ UNCHANGED <<caps, power, pending, enabled, requested, order, oneShot>>
       \/ WriteFails(k)

SetBootConfigRole(k) ==
    /\ At(k, "boot_role")
    /\ \/ /\ oneShot' = TRUE
          /\ Done(k, "amt_boot", [call[k] EXCEPT !.pc = "boot_order"])
          /\ UNCHANGED <<caps, power, pending, enabled, requested, order, settings>>
       \/ WriteFails(k)

SetBootOrder(k) ==
    /\ At(k, "boot_order")
    /\ \/ /\ order' = BootSource(call[k].task.want)
          /\ Done(k, "amt_boot", [call[k] EXCEPT !.pc = "boot_verify"])
          /\ UNCHANGED <<caps, power, pending, enabled, requested, settings, oneShot>>
       \/ WriteFails(k)

VerifyBootSettingData(k) ==
    /\ At(k, "boot_verify")
    /\ \/ Goes(k, Exit(call[k])) /\ UNCHANGED <<caps, fwVars>>
       \/ ReadFails(k)

---------------------------------------------------------------------------
(***************************************************************************)
(* The host.                                                               *)
(***************************************************************************)
\* A host that starts uses up a single-use boot configuration, and with it the
\* work of an invocation that was arming or had armed it.
Boots ==
    /\ oneShot' = FALSE
    /\ call' = [j \in Callers |->
                  IF call[j].task.module = "amt_boot"
                  THEN [call[j] EXCEPT !.disturbed = TRUE] ELSE call[j]]

Goto(action) ==
    /\ power' \in IF action \in {"reset", "cycle"} /\ power \in Off THEN {power}
                 ELSE Asked(action)
    /\ IF power' = "on" /\ (power \in Off \cup Cycling \cup {"hibernate"}
                            \/ action \in {"reset", "cycle"})
       THEN Boots ELSE UNCHANGED <<oneShot, call>>

\* A host that is power-cycled may be seen at it.
Cycles ==
    /\ pending \in {"reset", "cycle"}
    /\ power \notin Off \cup Cycling
    /\ power' \in Cycling
    /\ UNCHANGED <<caps, pending, enabled, requested, order, settings, oneShot, call>>

\* The accepted transition is made, at a time of the firmware's choosing.
Settle ==
    /\ pending # "none"
    /\ Goto(pending)
    /\ pending' = "none"
    /\ UNCHANGED <<caps, enabled, requested, order, settings>>

\* Somebody at the machine, or its operating system.
PowerButton ==
    /\ \E a \in {"on", "off", "sleep-light"} : power \notin Asked(a) /\ Goto(a)
    /\ UNCHANGED <<caps, pending, enabled, requested, order, settings>>

\* The accepted EnabledState comes into force.
Switch ==
    /\ requested # "none"
    /\ enabled' = requested
    /\ requested' = "none"
    /\ UNCHANGED <<caps, power, pending, order, settings, oneShot, call>>

Step(k) ==
    \/ PowerRead(k) \/ PowerReread(k) \/ PowerSend(k) \/ Poll(k)
    \/ RedirectionRead(k) \/ RequestStateChange(k) \/ RedirectionReread(k)
    \/ Discover(k) \/ GetBootSettingData(k) \/ ClearBootOrder(k)
    \/ PutBootSettingData(k) \/ SetBootConfigRole(k) \/ SetBootOrder(k)
    \/ VerifyBootSettingData(k)

Next ==
    \/ \E k \in Callers : (\E t \in Tasks : Invoke(k, t)) \/ Step(k)
    \/ Cycles
    \/ Settle
    \/ PowerButton
    \/ Switch

Init ==
    /\ \E e \in Endpoints : caps = e.caps /\ power = e.power /\ enabled = e.enabled
    /\ pending = "none"
    /\ requested = "none"
    /\ order = "null"
    /\ settings = BootSettings("hdd")
    /\ oneShot = FALSE
    /\ call = [k \in Callers |-> Unused]

Spec == Init /\ [][Next]_vars

---------------------------------------------------------------------------
(***************************************************************************)
(* Properties.                                                             *)
(***************************************************************************)
Ended(k) == call[k].pc = "idle" /\ call[k].task.module # "none"

Ok(k) == Ended(k) /\ call[k].ending = "ok"

\* Type correctness.
TypeOK ==
    /\ caps \in Capabilities
    /\ power \in PowerStates
    /\ pending \in PowerActions \cup {"none"}
    /\ enabled \in EnabledStates
    /\ requested \in RedirectionStates \cup {"none"}
    /\ order \in NativeSources \cup {"null"}
    /\ settings \in Settings
    /\ oneShot \in BOOLEAN
    /\ call \in [Callers -> Calls]

\* `changed` and check mode: a preview, a state already reached and a refusal
\* of the firmware's write nothing; a change that is reported as made was made
\* in full and once; and a failure before the first write left nothing behind.
LedgerMatches ==
    \A k \in Callers : Ended(k) =>
        LET c == call[k]
        IN  /\ c.task.check => c.writes = 0
            /\ c.ending = "ok" =>
                 c.writes = IF ~c.changed \/ c.task.check THEN 0
                            ELSE IF c.task.module = "amt_boot" THEN 4 ELSE 1
            /\ c.ending \in {"unsupported_capability", "invalid_state"} =>
                 c.writes = 0
            /\ c.ending = "not_sent" =>
                 c.writes < IF c.task.module = "amt_boot" THEN 4 ELSE 1

\* The receipts.  amt_power says "no change" of a host it read in a state that
\* was asked for, or in the middle of a power cycle, which the table counts as
\* off or on although it ends on (models.py:48-57) -- never of one settled in
\* another state that merely reads the same.  When amt_redirection reports a
\* change, the state it was to establish is in force, or accepted and still to
\* come, until somebody asks for another; and it is in force if the module says
\* to have observed it.
ReceiptIsReal ==
    \A k \in Callers : (Ok(k) /\ call[k].task.want \notin {"query", "none"}) =>
        LET c == call[k]
        IN  /\ (c.task.module = "amt_power" /\ ~c.changed) =>
                 c.seen \in Asked(c.task.want) \cup Cycling
            /\ (c.task.module = "amt_redirection" /\ c.changed /\ ~c.task.check
                  /\ ~c.disturbed) =>
                 /\ requested = c.task.want
                      \/ (requested = "none" /\ enabled = c.task.want)
                 /\ c.seen = c.task.want => enabled = c.task.want

\* arm_one_time_boot: after a success the next start of the host is the one that
\* was asked for, whatever unfinished sequences lie underneath, until the host
\* starts or somebody else arms it.
ArmedAsPlanned ==
    \A k \in Callers :
        (Ok(k) /\ call[k].task.module = "amt_boot" /\ ~call[k].task.check
           /\ ~call[k].disturbed) =>
        /\ oneShot
        /\ settings = BootSettings(call[k].task.want)
        /\ order = BootSource(call[k].task.want)
=============================================================================
