--------------------------- MODULE InstallProofs ---------------------------
(***************************************************************************)
(* What Install guarantees for every bound on session ids and every        *)
(* combination of crashes, failing detaches, dying daemons and hands on    *)
(* the power button.                                                       *)
(***************************************************************************)
EXTENDS Install, TLAPS

\* The media steps run for the IDE-R provider, with an id left to claim and,
\* once claimed, an id at hand.
MediaInv ==
    /\ pc \in {"redirect", "claim"} => provider = "ider_cdrom"
    /\ pc \in {"probe", "redirect", "claim"} => SessionLeft(rs, provider)
    /\ pc \in {"attach", "attach_wait"} => rs.session_id \in Ids

\* Memory and file agree while a run is in progress: every set_fact is saved
\* before the next call that matters.
SavedInv == pc # "idle" => rs = file

\* Tasks before the power request, with and without the arm recorded.
BeforeArm == {"probe", "redirect", "claim", "attach", "attach_wait",
              "discover", "clear", "put", "role", "order", "verify"}

BeforeReset == {"power_read", "power_send"}

AfterReset == {"power_accepted", "power_rescue", "observe"}

\* The file tells of every request that is not settled, and a request is only
\* sent by a run that has no unsettled one behind it.
ResetInv ==
    /\ resets <= 1
    /\ resets > 0 => file.boot_armed /\ ~file.reset_confirmed
    /\ pc \in BeforeArm \cup BeforeReset => resets = 0
    /\ pc \in BeforeArm \cup BeforeReset \cup AfterReset => ~file.reset_confirmed
    /\ pc \in BeforeReset \cup AfterReset => file.boot_armed

\* What the boot sequence has done to the endpoint by each of its calls.
SourceInv ==
    /\ SourceNeverOverridesIder
    /\ pc \in {"put", "role", "order"} => order = "null"
    /\ pc \in {"verify", "power_read", "power_send"} => order = BootSource
    /\ pc \in {"role", "order", "verify", "power_read", "power_send"} =>
         useIder = (provider = "ider_cdrom")

\* A confirmed run's session id is among the closed ones.
DaemonInv ==
    /\ DaemonIsOnFile
    /\ file.reset_confirmed => file.session_id \in closed

\* Between the probe and the power request.
Probed == {"redirect", "claim", "attach", "attach_wait", "discover", "clear",
           "put", "role", "order", "verify", "power_read", "power_send"}

Serving == {"discover", "clear", "put", "role", "order", "verify",
            "power_read", "power_send"}

\* A request the host has yet to follow is the last run's only one, and what
\* that run set up still stands.
PendingInv ==
    "late" \notin faults =>
        /\ pc \in {"probe"} \cup Probed => pending = {}
        /\ pending \subseteq {power_action}
        /\ pending # {} => useIder = (provider = "ider_cdrom") /\ order = BootSource

\* What the host is between the probe and the confirmation, if nobody else moves
\* it.
HostInv ==
    faults \cap {"power", "late"} = {} =>
        /\ (file.reset_confirmed /\ probed = "off") => ~oneShot
        /\ (pc \in Probed /\ probed = "off") => power = "off"
        /\ pc \in {"order", "verify", "power_read", "power_send"} => oneShot
        /\ pending # {} => oneShot
        /\ (pc \in {"power_accepted", "observe"} /\ probed = "off") =>
             (power = "on" => ~oneShot)

\* The run's media is served from the attach on and as long as its request is
\* pending.
ServedInv ==
    (/\ pc \in Serving \/ (pc # "idle" /\ pending # {} /\ "late" \notin faults)
     /\ provider = "ider_cdrom" /\ "daemon" \notin faults /\ ~adopted) =>
        rs.session_id \in serving

TypeInv == TypeOK /\ MediaInv

InstallInv ==
    /\ TypeInv
    /\ SavedInv
    /\ ResetInv
    /\ SourceInv
    /\ DaemonInv
    /\ PendingInv
    /\ HostInv
    /\ ServedInv

---------------------------------------------------------------------------
LEMMA SlateTyped ==
    ASSUME NEW r \in RunStates
    PROVE  /\ CleanSlate(r) \in RunStates
           /\ Reconciled(r) \in RunStates
           /\ Reconciled(r).session_id = r.session_id
           /\ Reconciled(r).reset_confirmed = r.reset_confirmed
           /\ CleanSlate(r).reset_confirmed = FALSE
<1>1. default_state \in RunStates /\ default_state.reset_confirmed = FALSE
  BY DEF default_state, RunStates, NoSession
<1>2. CleanSlate(r) \in RunStates /\ CleanSlate(r).reset_confirmed = FALSE
  BY <1>1 DEF CleanSlate, RunStates
<1>3. CASE Uncertain(r)
  <2> DEFINE s == [session_id |-> r.session_id, boot_armed |-> FALSE,
                   reset_issued |-> FALSE,
                   reset_confirmed |-> r.reset_confirmed]
  <2>1. Reconciled(r) = s
    BY <1>3 DEF Reconciled, RunStates
  <2>2. s \in RunStates
    BY DEF RunStates
  <2> QED BY <1>2, <2>1, <2>2
<1>4. CASE ~Uncertain(r)
  BY <1>2, <1>4 DEF Reconciled
<1> QED BY <1>3, <1>4

LEMMA BumpTyped ==
    ASSUME NEW n \in 0 .. HistoryBound
    PROVE  Bump(n) \in 0 .. HistoryBound /\ (n = 0 => Bump(n) = 1)
  BY DEF Bump, HistoryBound

LEMMA InitInstall == Init => InstallInv
<1> SUFFICES ASSUME Init PROVE InstallInv
  OBVIOUS
<1>1. default_state \in RunStates
  BY DEF default_state, RunStates, NoSession
<1>2. TypeOK
  <2>1. {} \subseteq Ids /\ {} \subseteq Ids \cup {NoSession}
    OBVIOUS
  <2>2. 0 \in 0 .. MaxSessions /\ 0 \in 0 .. HistoryBound
    BY ConstantsAssumption DEF HistoryBound
  <2> QED BY <1>1, <2>1, <2>2 DEF Init, TypeOK, Pcs
<1>3. MediaInv /\ SavedInv
  BY DEF Init, MediaInv, SavedInv
<1>4. ResetInv
  BY DEF Init, ResetInv, BeforeArm, BeforeReset, AfterReset
<1>5. SourceInv
  BY DEF Init, SourceInv, SourceNeverOverridesIder
<1>6. DaemonInv
  BY DEF Init, DaemonInv, DaemonIsOnFile, default_state
<1>7. PendingInv /\ HostInv /\ ServedInv
  BY DEF Init, PendingInv, HostInv, ServedInv, default_state, Probed, Serving
<1> QED BY <1>2, <1>3, <1>4, <1>5, <1>6, <1>7 DEF InstallInv, TypeInv

LEMMA TypeStep == TypeInv /\ [Next]_vars => TypeInv'
<1> SUFFICES ASSUME TypeInv, [Next]_vars PROVE TypeInv'
  OBVIOUS
<1> USE ConstantsAssumption DEF TypeInv, TypeOK, MediaInv, SessionLeft, Ids, NoSession,
        Pcs, fwVars, runVars, daemons, history
<1>d. default_state \in RunStates
  BY DEF default_state, RunStates
<1>1. ASSUME NEW f \in BOOLEAN, NEW p \in Providers, Start(f, p)
      PROVE  TypeInv'
  <2>1. rs' \in RunStates /\ rs'.session_id = CleanSlate(file).session_id
    BY <1>1, SlateTyped DEF Start
  <2>2. faults' \subseteq Faults
    BY <1>1 DEF Start, Happens
  <2>3. /\ pc' = "probe" /\ provider' = p /\ file' = rs' /\ probed' = "unknown"
        /\ adopted' = FALSE /\ UNCHANGED <<fwVars, daemons, ids, closed>>
    BY <1>1 DEF Start
  <2>4. arms' \in 0 .. HistoryBound /\ resets' \in 0 .. HistoryBound
    BY <1>1 DEF Start, HistoryBound
  <2>5. SessionLeft(CleanSlate(file), p)
    BY <1>1 DEF Start
  <2>6. MediaInv'
    BY <2>1, <2>3, <2>5
  <2>7. adopted' \in BOOLEAN
    BY <2>3, Zenon
  <2> QED BY <2>1, <2>2, <2>3, <2>4, <2>6, <2>7
<1>2. CASE Probe
  BY <1>2 DEF Probe, Fail
<1>3. CASE Redirect
  BY <1>3 DEF Redirect, Fail
<1>4. CASE Claim
  <2> DEFINE id == IF rs.session_id = NoSession THEN ids + 1 ELSE rs.session_id
  <2>1. id \in Ids /\ ids' \in 0 .. MaxSessions
    BY <1>4 DEF Claim, RunStates
  <2>2. rs' = [rs EXCEPT !.session_id = id] /\ file' = rs' /\ pc' = "attach"
    BY <1>4 DEF Claim, Record
  <2>3. rs' \in RunStates /\ rs'.session_id = id
    BY <2>1, <2>2 DEF RunStates
  <2> QED BY <1>4, <2>1, <2>2, <2>3 DEF Claim
<1>5. CASE Attach
  BY <1>5 DEF Attach, Fail, MediaAttached, Record, RunStates
<1>6. CASE AttachVerdict
  BY <1>6 DEF AttachVerdict, Fail, MediaAttached, Record, RunStates
<1>7. CASE Discover
  BY <1>7 DEF Discover, Fail
<1>8. CASE ChangeBootOrderNull
  BY <1>8 DEF ChangeBootOrderNull, Applied, Fail
<1>9. CASE PutBootSettingData
  BY <1>9 DEF PutBootSettingData, Applied, Fail
<1>10. CASE SetBootConfigRole
  BY <1>10, BumpTyped DEF SetBootConfigRole, Applied, Fail
<1>11. CASE ChangeBootOrderSource
  BY <1>11 DEF ChangeBootOrderSource, BootSource, Applied, Fail
<1>12. CASE Armed
  BY <1>12 DEF Armed, Record, Fail, RunStates
<1>13. CASE PowerRead
  BY <1>13 DEF PowerRead, PowerRescue
<1>14. CASE PowerSend
  BY <1>14, BumpTyped DEF PowerSend, PowerRescue, power_action, Transitions
<1>15. CASE PowerRecorded
  BY <1>15 DEF PowerRecorded, Record, RunStates
<1>16. CASE Observe
  <2>1. CASE rs' = [rs EXCEPT !.reset_confirmed = TRUE] /\ file' = rs'
             /\ pc' = "handoff" /\ arms' = 0 /\ resets' = 0
             /\ closed' = closed \cup {rs.session_id}
    <3>1. rs' \in RunStates /\ closed' \subseteq Ids \cup {NoSession}
      BY <2>1 DEF RunStates
    <3> QED BY <1>16, <2>1, <3>1 DEF Observe, HistoryBound
  <2>2. CASE Record(rs, "handoff") /\ UNCHANGED history
    BY <1>16, <2>2 DEF Observe, Record
  <2>3. CASE Fail /\ UNCHANGED history
    BY <1>16, <2>3 DEF Observe, Fail
  <2> QED BY <1>16, <2>1, <2>2, <2>3 DEF Observe, Record
<1>17. CASE Handoff
  BY <1>17 DEF Handoff, Fail
<1>18. CASE Rescue
  BY <1>18 DEF Rescue, Record
<1>19. CASE DetachMedia
  BY <1>19, <1>d DEF DetachMedia, Over, Happens
<1>20. CASE Crash
  BY <1>20, <1>d DEF Crash, Over, Happens
<1>21. CASE DaemonEnds
  BY <1>21 DEF DaemonEnds, Happens
<1>22. CASE PowerButton
  <2>1. UNCHANGED <<file, rs, pc, runVars, order, useIder, pending, daemons, ids,
                    arms, resets, closed>>
    BY <1>22 DEF PowerButton
  <2>2. power' \in PowerStates /\ oneShot' \in BOOLEAN /\ faults' \subseteq Faults
    BY <1>22 DEF PowerButton, Boots, PowerStates, Happens
  <2> QED BY <2>1, <2>2
<1>23. CASE DaemonConnects
  BY <1>23 DEF DaemonConnects
<1>24. ASSUME NEW action \in Transitions, HostFollows(action) PROVE TypeInv'
  <2>1. UNCHANGED <<file, rs, pc, runVars, order, useIder, daemons, ids, history>>
    BY <1>24 DEF HostFollows
  <2>2. power' \in PowerStates /\ oneShot' \in BOOLEAN /\ pending' \subseteq Transitions
    BY <1>24 DEF HostFollows, Boots, PowerStates
  <2> QED BY <2>1, <2>2
<1>25. CASE UNCHANGED vars
  BY <1>25 DEF vars
<1> QED
  BY <1>1, <1>2, <1>3, <1>4, <1>5, <1>6, <1>7, <1>8, <1>9, <1>10, <1>11, <1>12,
     <1>13, <1>14, <1>15, <1>16, <1>17, <1>18, <1>19, <1>20, <1>21, <1>22, <1>23,
     <1>24, <1>25
  DEF Next, RoleStep

---------------------------------------------------------------------------
\* The file, memory and the two histories after each task.
LEMMA LedgerStep ==
    TypeInv /\ SavedInv /\ ResetInv /\ [Next]_vars => SavedInv' /\ ResetInv'
<1> SUFFICES ASSUME TypeInv, SavedInv, ResetInv, [Next]_vars
             PROVE  SavedInv' /\ ResetInv'
  OBVIOUS
<1>t. /\ file \in RunStates
      /\ rs \in RunStates
      /\ resets \in 0 .. HistoryBound
      /\ pc \in Pcs
  BY DEF TypeInv, TypeOK
<1> USE DEF SavedInv, ResetInv, BeforeArm, BeforeReset, AfterReset, runVars,
        fwVars, history
<1>1. ASSUME NEW f \in BOOLEAN, NEW p \in Providers, Start(f, p)
      PROVE  SavedInv' /\ ResetInv'
  <2>1. file' = Reconciled(CleanSlate(file)) /\ rs' = file' /\ pc' = "probe"
    BY <1>1 DEF Start
  <2>2. file'.reset_confirmed = FALSE
    BY <1>t, <2>1, SlateTyped
  <2>3. resets > 0 => Uncertain(CleanSlate(file))
    BY <1>t DEF CleanSlate, Uncertain
  <2>4. resets' = 0
    BY <1>t, <1>1, <2>3 DEF Start
  <2> QED BY <2>1, <2>2, <2>4
<1>2. CASE Probe
  BY <1>2 DEF Probe, Fail
<1>3. CASE Redirect
  BY <1>3 DEF Redirect, Fail
<1>4. CASE Claim
  <2>1. PICK id : rs' = [rs EXCEPT !.session_id = id] /\ file' = rs'
    BY <1>4 DEF Claim, Record
  <2>2. file'.reset_confirmed = rs.reset_confirmed
    BY <1>t, <2>1 DEF RunStates
  <2> QED BY <1>4, <2>1, <2>2 DEF Claim, Record
<1>5. CASE Attach
  BY <1>t, <1>5 DEF Attach, Fail, MediaAttached, Record, RunStates
<1>6. CASE AttachVerdict
  BY <1>t, <1>6 DEF AttachVerdict, Fail, MediaAttached, Record, RunStates
<1>7. CASE Discover
  BY <1>7 DEF Discover, Fail
<1>8. CASE ChangeBootOrderNull
  BY <1>8 DEF ChangeBootOrderNull, Applied, Fail
<1>9. CASE PutBootSettingData
  BY <1>9 DEF PutBootSettingData, Applied, Fail
<1>10. CASE SetBootConfigRole
  BY <1>10 DEF SetBootConfigRole, Applied, Fail
<1>11. CASE ChangeBootOrderSource
  BY <1>11 DEF ChangeBootOrderSource, Applied, Fail
<1>12. CASE Armed
  BY <1>t, <1>12 DEF Armed, Record, Fail, RunStates
<1>13. CASE PowerRead
  BY <1>13 DEF PowerRead, PowerRescue
<1>14. CASE PowerSend
  <2>1. resets = 0
    BY <1>14 DEF PowerSend
  <2>2. Bump(resets) = 1
    BY <2>1 DEF Bump, HistoryBound
  <2> QED BY <1>14, <2>1, <2>2 DEF PowerSend, PowerRescue
<1>15. CASE PowerRecorded
  BY <1>t, <1>15 DEF PowerRecorded, Record, RunStates
<1>16. CASE Observe
  <2>1. CASE UNCHANGED <<rs, file, resets>> /\ pc' \in {"handoff", "rescue"}
    BY <1>16, <2>1 DEF Observe
  <2>2. CASE resets' = 0 /\ rs' = file' /\ pc' = "handoff"
    BY <2>2
  <2> QED BY <1>16, <2>1, <2>2 DEF Observe, Record, Fail
<1>17. CASE Handoff
  BY <1>17 DEF Handoff, Fail
<1>18. CASE Rescue
  BY <1>18 DEF Rescue, Record
<1>19. CASE DetachMedia
  BY <1>t, <1>19 DEF DetachMedia, Over
<1>20. CASE Crash
  BY <1>20 DEF Crash, Over
<1>21. CASE DaemonEnds
  BY <1>21 DEF DaemonEnds
<1>22. CASE PowerButton \/ DaemonConnects \/ \E action \in Transitions : HostFollows(action)
  BY <1>22 DEF PowerButton, DaemonConnects, HostFollows
<1>23. CASE UNCHANGED vars
  BY <1>23 DEF vars
<1> QED
  BY <1>1, <1>2, <1>3, <1>4, <1>5, <1>6, <1>7, <1>8, <1>9, <1>10, <1>11, <1>12,
     <1>13, <1>14, <1>15, <1>16, <1>17, <1>18, <1>19, <1>20, <1>21, <1>22, <1>23
  DEF Next, RoleStep

\* The endpoint's boot configuration after each call.
LEMMA SourceStep == TypeInv /\ SourceInv /\ [Next]_vars => SourceInv'
<1> SUFFICES ASSUME TypeInv, SourceInv, [Next]_vars PROVE SourceInv'
  OBVIOUS
<1>t. pc \in Pcs /\ oneShot \in BOOLEAN /\ useIder \in BOOLEAN
  BY DEF TypeInv, TypeOK
<1> DEFINE Sequence == {"put", "role", "order", "verify", "power_read", "power_send"}
<1> USE DEF SourceInv, SourceNeverOverridesIder, BootSource, runVars, fwVars
<1>1. CASE ChangeBootOrderNull
  BY <1>1 DEF ChangeBootOrderNull, Applied, Fail
<1>2. CASE PutBootSettingData
  BY <1>2 DEF PutBootSettingData, Applied, Fail
<1>3. CASE SetBootConfigRole
  BY <1>3 DEF SetBootConfigRole, Applied, Fail
<1>4. CASE ChangeBootOrderSource
  BY <1>4 DEF ChangeBootOrderSource, Applied, Fail
<1>5. CASE PowerSend
  BY <1>5 DEF PowerSend, PowerRescue
<1>6. CASE PowerButton \/ \E action \in Transitions : HostFollows(action)
  BY <1>6 DEF PowerButton, HostFollows, Boots
<1>7. CASE UNCHANGED vars
  BY <1>7 DEF vars
<1>8. ASSUME UNCHANGED <<order, useIder, oneShot>>, pc' \notin Sequence
      PROVE  SourceInv'
  BY <1>8
<1>9. CASE UNCHANGED <<pc, runVars, fwVars>>
  BY <1>9
<1>10. CASE \E f \in BOOLEAN, p \in Providers : Start(f, p)
  BY <1>8, <1>10 DEF Start
<1>11. CASE Probe \/ Redirect \/ Discover \/ Handoff
  <2>1. UNCHANGED <<order, useIder, oneShot>> /\ pc' \notin Sequence
    BY <1>11 DEF Probe, Redirect, Discover, Handoff, Fail
  <2> QED BY <1>8, <2>1
<1>12. CASE Claim \/ Attach \/ AttachVerdict \/ DetachMedia
  <2>1. UNCHANGED <<order, useIder, oneShot>> /\ pc' \notin Sequence
    BY <1>12 DEF Claim, Attach, AttachVerdict, DetachMedia, MediaAttached,
                 Record, Over, Fail
  <2> QED BY <1>8, <2>1
<1>13. CASE PowerRecorded \/ Observe \/ Rescue \/ Crash
  <2>1. UNCHANGED <<order, useIder, oneShot>> /\ pc' \notin Sequence
    BY <1>13 DEF PowerRecorded, Observe, Rescue, Crash, Over, Record, Fail
  <2> QED BY <1>8, <2>1
<1>14. CASE DaemonEnds \/ DaemonConnects
  BY <1>9, <1>14 DEF DaemonEnds, DaemonConnects
<1>15. CASE Armed
  BY <1>15 DEF Armed, Record, Fail
<1>16. CASE PowerRead
  BY <1>16 DEF PowerRead, PowerRescue
<1> QED
  BY <1>1, <1>2, <1>3, <1>4, <1>5, <1>6, <1>7, <1>10, <1>11, <1>12, <1>13, <1>14,
     <1>15, <1>16
  DEF Next, RoleStep

LEMMA FaultsStay == [Next]_vars => faults \subseteq faults'
  BY DEF Next, RoleStep, Start, Probe, Redirect, Claim, Attach, AttachVerdict,
         Discover, ChangeBootOrderNull, PutBootSettingData, SetBootConfigRole,
         ChangeBootOrderSource, Armed, PowerRead, PowerSend, PowerRecorded,
         Observe, Handoff, Rescue, DetachMedia, Crash, DaemonConnects, DaemonEnds,
         HostFollows, PowerButton, Happens, history, vars

\* What a pending request finds.
LEMMA PendingStep == TypeInv /\ SourceInv /\ PendingInv /\ [Next]_vars => PendingInv'
<1> SUFFICES ASSUME TypeInv, SourceInv, PendingInv, [Next]_vars,
                    "late" \notin faults'
             PROVE  PendingInv'
  BY DEF PendingInv
<1>f. "late" \notin faults
  BY FaultsStay
<1> USE DEF PendingInv, Probed, BootSource, power_action, runVars, fwVars
<1>e. ASSUME pending' = {} PROVE PendingInv'
  BY <1>e
<1>0. ASSUME pending' \subseteq pending,
             UNCHANGED <<useIder, order, provider, probed>>,
             pc' = pc \/ pc' \notin {"probe"} \cup Probed
      PROVE  PendingInv'
  BY <1>0, <1>f
<1>1. CASE \E f \in BOOLEAN, p \in Providers : Start(f, p)
  BY <1>1, <1>e DEF Start, Happens
<1>2. CASE Probe \/ Redirect \/ Claim \/ Attach \/ AttachVerdict \/ Discover
  <2>1. pc \in {"probe"} \cup Probed /\ pending' = pending
    BY <1>2 DEF Probe, Redirect, Claim, Attach, AttachVerdict, Discover
  <2> QED BY <1>e, <1>f, <2>1
<1>3. CASE \/ ChangeBootOrderNull \/ PutBootSettingData \/ SetBootConfigRole
           \/ ChangeBootOrderSource \/ Armed \/ PowerRead
  <2>1. pc \in {"probe"} \cup Probed /\ pending' = pending
    BY <1>3 DEF ChangeBootOrderNull, PutBootSettingData, SetBootConfigRole,
                ChangeBootOrderSource, Armed, PowerRead
  <2> QED BY <1>e, <1>f, <2>1
<1>4. CASE PowerSend
  <2>1. pending = {} /\ useIder = (provider = "ider_cdrom") /\ order = BootSource
    BY <1>4, <1>f DEF PowerSend, SourceInv
  <2> QED BY <1>4, <2>1 DEF PowerSend, PowerRescue
<1>5. CASE PowerRecorded \/ Observe \/ Handoff \/ Rescue \/ DetachMedia \/ Crash
  BY <1>0, <1>5 DEF PowerRecorded, Observe, Handoff, Rescue, DetachMedia, Crash,
                    Record, Over, Fail
<1>6. CASE \/ DaemonConnects \/ DaemonEnds \/ PowerButton \/ UNCHANGED vars
           \/ \E action \in Transitions : HostFollows(action)
  <2>1. pending' \subseteq pending /\ UNCHANGED <<useIder, order, provider, probed, pc>>
    BY <1>6 DEF DaemonConnects, DaemonEnds, PowerButton, HostFollows, vars
  <2> QED BY <1>0, <2>1
<1> QED
  BY <1>1, <1>2, <1>3, <1>4, <1>5, <1>6 DEF Next, RoleStep

\* The host between the probe and the confirmation.
LEMMA HostStep ==
    TypeInv /\ SavedInv /\ ResetInv /\ PendingInv /\ HostInv /\ [Next]_vars => HostInv'
<1> SUFFICES ASSUME TypeInv, SavedInv, ResetInv, PendingInv, HostInv, [Next]_vars,
                    faults' \cap {"power", "late"} = {}
             PROVE  HostInv'
  BY DEF HostInv
<1>t. /\ file \in RunStates
      /\ rs \in RunStates
      /\ power \in PowerStates
      /\ pc \in Pcs
      /\ pc # "idle" => rs = file
  BY DEF TypeInv, TypeOK, SavedInv
<1>f. faults \cap {"power", "late"} = {}
  BY FaultsStay
<1>p. pc \in {"probe"} \cup Probed => pending = {}
  BY <1>f DEF PendingInv
<1> USE DEF HostInv, Probed, runVars, fwVars
<1>0. ASSUME file'.reset_confirmed = file.reset_confirmed, oneShot' = oneShot,
             power' = power, probed' = probed, pending' = pending,
             pc' = pc \/ pc' \in {"idle", "handoff", "rescue", "detach", "probe"}
      PROVE  HostInv'
  BY <1>0, <1>f
<1>1. CASE \E f \in BOOLEAN, p \in Providers : Start(f, p)
  <2>1. file' = Reconciled(CleanSlate(file)) /\ pc' = "probe"
    BY <1>1 DEF Start
  <2>2. file'.reset_confirmed = FALSE
    BY <1>t, <2>1, SlateTyped
  <2>3. pending' = {}
    BY <1>1 DEF Start, Happens
  <2> QED BY <2>1, <2>2, <2>3
<1>2. CASE Probe
  <2>1. file' = file /\ ~file.reset_confirmed
    BY <1>2 DEF Probe, Fail, ResetInv, BeforeArm
  <2> QED BY <1>2, <1>f, <1>p, <2>1 DEF Probe, Fail
<1>3. CASE Redirect
  BY <1>3, <1>f DEF Redirect, Fail
<1>4. CASE Claim
  <2>1. PICK id : rs' = [rs EXCEPT !.session_id = id] /\ file' = rs'
    BY <1>4 DEF Claim, Record
  <2>2. file'.reset_confirmed = file.reset_confirmed
    BY <1>t, <1>4, <2>1 DEF RunStates, Claim
  <2> QED BY <1>4, <1>f, <2>2 DEF Claim, Record
<1>5. CASE Attach \/ AttachVerdict
  <2>1. file'.reset_confirmed = file.reset_confirmed
    BY <1>t, <1>5 DEF Attach, AttachVerdict, Fail, MediaAttached, Record
  <2> QED BY <1>5, <1>f, <2>1 DEF Attach, AttachVerdict, Fail, MediaAttached, Record
<1>6. CASE Discover
  BY <1>6, <1>f DEF Discover, Fail
<1>7. CASE ChangeBootOrderNull
  BY <1>7, <1>f DEF ChangeBootOrderNull, Applied, Fail
<1>8. CASE PutBootSettingData
  BY <1>8, <1>f DEF PutBootSettingData, Applied, Fail
<1>9. CASE SetBootConfigRole
  <2>1. file' = file /\ ~file.reset_confirmed /\ pending' = {}
    BY <1>9, <1>p DEF SetBootConfigRole, Applied, Fail, ResetInv, BeforeArm
  <2> QED BY <1>9, <1>f, <2>1 DEF SetBootConfigRole, Applied, Fail
<1>10. CASE ChangeBootOrderSource
  BY <1>10, <1>f DEF ChangeBootOrderSource, Applied, Fail
<1>11. CASE Armed
  <2>1. file'.reset_confirmed = file.reset_confirmed
    BY <1>t, <1>11 DEF Armed, Fail, Record, RunStates
  <2> QED BY <1>11, <1>f, <2>1 DEF Armed, Fail, Record
<1>12. CASE PowerRead
  <2>1. UNCHANGED <<file, oneShot, power, probed, pending>>
    BY <1>12 DEF PowerRead, PowerRescue
  <2>2. probed = "off" => power = "off"
    BY <1>12, <1>f DEF PowerRead
  <2>3. probed = "off" => pc' # "power_accepted"
    BY <1>12, <2>2 DEF PowerRead, PowerRescue, plan, power_action
  <2>4. pc' \in {"power_send", "power_accepted", "power_rescue"} /\ pc = "power_read"
    BY <1>12 DEF PowerRead, PowerRescue
  <2> QED BY <1>f, <2>1, <2>2, <2>3, <2>4
<1>13. CASE PowerSend
  <2>1. oneShot /\ (probed = "off" => power = "off") /\ ~file.reset_confirmed
    BY <1>13, <1>f DEF PowerSend, ResetInv, BeforeReset
  <2>2. UNCHANGED <<file, oneShot, power, probed>>
        /\ pc' \in {"power_accepted", "power_rescue"}
    BY <1>13 DEF PowerSend, PowerRescue
  <2> QED BY <2>1, <2>2
<1>14. CASE PowerRecorded
  <2>1. file'.reset_confirmed = file.reset_confirmed
    BY <1>t, <1>14 DEF PowerRecorded, Record, RunStates
  <2> QED BY <1>14, <1>f, <2>1 DEF PowerRecorded, Record
<1>15. CASE Observe
  <2>1. UNCHANGED <<oneShot, power, probed, pending>> /\ pc' \in {"handoff", "rescue"}
    BY <1>15 DEF Observe, Record, Fail
  <2>2. CASE power = "on"
    BY <1>15, <1>f, <2>1, <2>2 DEF Observe
  <2>3. CASE power # "on"
    BY <1>0, <1>t, <1>15, <2>1, <2>3 DEF Observe, Record, Fail
  <2> QED BY <2>2, <2>3
<1>16. CASE Handoff \/ Rescue \/ DetachMedia
  <2>1. file'.reset_confirmed = file.reset_confirmed
    BY <1>t, <1>16 DEF Handoff, Rescue, DetachMedia, Fail, Record
  <2> QED BY <1>0, <1>16, <2>1 DEF Handoff, Rescue, DetachMedia, Fail, Record, Over
<1>17. CASE Crash \/ DaemonEnds \/ DaemonConnects \/ UNCHANGED vars
  BY <1>0, <1>17 DEF Crash, DaemonEnds, DaemonConnects, Over, vars
<1>18. CASE PowerButton
  BY <1>18 DEF PowerButton, Happens
<1>19. ASSUME NEW action \in Transitions, HostFollows(action) PROVE HostInv'
  <2>1. pending' = {} /\ action = power_action /\ pc \notin Probed
    BY <1>19, <1>f, <1>p DEF HostFollows, PendingInv
  <2>2. UNCHANGED <<file, pc, probed>>
    BY <1>19 DEF HostFollows
  <2>3. CASE Starts(action)
    BY <1>19, <2>1, <2>2, <2>3 DEF HostFollows, Boots
  <2>4. CASE ~Starts(action)
    BY <1>19, <1>f, <2>1, <2>2, <2>4 DEF HostFollows
  <2> QED BY <2>3, <2>4
<1> QED
  BY <1>1, <1>2, <1>3, <1>4, <1>5, <1>6, <1>7, <1>8, <1>9, <1>10, <1>11, <1>12,
     <1>13, <1>14, <1>15, <1>16, <1>17, <1>18, <1>19
  DEF Next, RoleStep

\* The daemon from the attach on, as long as the request is pending.
LEMMA ServedStep ==
    TypeInv /\ PendingInv /\ ServedInv /\ [Next]_vars => ServedInv'
<1> SUFFICES ASSUME TypeInv, PendingInv, ServedInv, [Next]_vars,
                    \/ pc' \in Serving
                    \/ pc' # "idle" /\ pending' # {} /\ "late" \notin faults',
                    provider' = "ider_cdrom", "daemon" \notin faults', ~adopted'
             PROVE  rs'.session_id \in serving'
  BY DEF ServedInv
<1>t. rs \in RunStates
  BY DEF TypeInv, TypeOK
<1>f. "daemon" \notin faults /\ ("late" \notin faults' => "late" \notin faults)
  BY FaultsStay
<1>p. ("late" \notin faults /\ pc \in {"probe"} \cup Probed) => pending = {}
  BY DEF PendingInv
<1> USE DEF ServedInv, Serving, Probed, runVars, fwVars, daemons
<1>0. ASSUME pc \in Serving \/ (pc # "idle" /\ pending # {} /\ "late" \notin faults),
             UNCHANGED <<provider, adopted>>,
             rs'.session_id = rs.session_id, serving \subseteq serving'
      PROVE  rs'.session_id \in serving'
  BY <1>0, <1>f
<1>1. CASE \E f \in BOOLEAN, p \in Providers : Start(f, p)
  BY <1>1 DEF Start, Happens
<1>2. CASE Probe \/ Redirect \/ Claim
  <2>1. pending' = pending /\ pc \in {"probe"} \cup Probed
    BY <1>2 DEF Probe, Redirect, Claim
  <2>2. pc' \in Serving
    BY <1>f, <1>p, <2>1
  <2> QED BY <1>2, <2>2 DEF Probe, Redirect, Claim, Fail, Record
<1>3. CASE Attach
  <2>1. pending' = pending /\ pc \in Probed
    BY <1>3 DEF Attach
  <2>2. pc' \in Serving
    BY <1>f, <1>p, <2>1
  <2> QED BY <1>3, <2>2 DEF Attach, Fail, MediaAttached, Record
<1>4. CASE AttachVerdict
  <2>1. pending' = pending /\ pc \in Probed
    BY <1>4 DEF AttachVerdict
  <2>2. pc' \in Serving
    BY <1>f, <1>p, <2>1
  <2> QED BY <1>4, <2>2 DEF AttachVerdict, Fail, MediaAttached, Record
<1>5. CASE Discover \/ ChangeBootOrderNull \/ PutBootSettingData
           \/ SetBootConfigRole \/ ChangeBootOrderSource \/ PowerRead \/ PowerSend
  <2>1. /\ pc \in Serving /\ rs' = rs /\ UNCHANGED <<provider, adopted, serving>>
    BY <1>5 DEF Discover, ChangeBootOrderNull, PutBootSettingData,
                SetBootConfigRole, ChangeBootOrderSource, PowerRead, PowerSend,
                Applied, Fail, PowerRescue
  <2> QED BY <1>0, <2>1
<1>6. CASE Armed
  <2>1. rs' \in {rs, [rs EXCEPT !.boot_armed = TRUE]}
    BY <1>6 DEF Armed, Fail, Record
  <2>2. rs'.session_id = rs.session_id
    BY <1>t, <2>1 DEF RunStates
  <2> QED BY <1>0, <1>6, <2>2 DEF Armed
<1>7. CASE PowerRecorded \/ Observe
  <2>1. rs' \in {rs, [rs EXCEPT !.reset_issued = TRUE], [rs EXCEPT !.reset_confirmed = TRUE]}
    BY <1>7 DEF PowerRecorded, Observe, Fail, Record
  <2>2. rs'.session_id = rs.session_id
    BY <1>t, <2>1 DEF RunStates
  <2>3. pc' \notin Serving /\ pc # "idle" /\ UNCHANGED <<provider, adopted, serving, pending>>
    BY <1>7 DEF PowerRecorded, Observe, Fail, Record
  <2> QED BY <1>0, <1>f, <2>2, <2>3
<1>8. CASE Handoff \/ Rescue
  <2>1. rs' = rs /\ pc' \notin Serving /\ pc # "idle"
        /\ UNCHANGED <<provider, adopted, serving, pending>>
    BY <1>8 DEF Handoff, Rescue, Fail, Record
  <2> QED BY <1>0, <1>f, <2>1
<1>9. CASE DetachMedia \/ Crash
  BY <1>9 DEF DetachMedia, Crash, Over
<1>10. CASE DaemonEnds
  <2>1. /\ serving' = serving /\ rs' = rs
        /\ UNCHANGED <<pc, pending, provider, adopted>>
    BY <1>10 DEF DaemonEnds, Happens
  <2> QED BY <1>0, <1>f, <2>1
<1>11. CASE PowerButton \/ DaemonConnects \/ UNCHANGED vars
            \/ \E action \in Transitions : HostFollows(action)
  <2>1. /\ serving \subseteq serving' /\ rs' = rs /\ pending' \subseteq pending
        /\ UNCHANGED <<pc, provider, adopted>>
    BY <1>11 DEF PowerButton, DaemonConnects, HostFollows, vars
  <2> QED BY <1>0, <1>f, <2>1
<1> QED
  BY <1>1, <1>2, <1>3, <1>4, <1>5, <1>6, <1>7, <1>8, <1>9, <1>10, <1>11
  DEF Next, RoleStep

\* Which daemons run, and what the file and the closed ids say of them.
LEMMA DaemonStep ==
    TypeInv /\ SavedInv /\ ResetInv /\ DaemonInv /\ [Next]_vars => DaemonInv'
<1> SUFFICES ASSUME TypeInv, SavedInv, ResetInv, DaemonInv, [Next]_vars
             PROVE  DaemonInv'
  OBVIOUS
<1>t. /\ file \in RunStates
      /\ rs \in RunStates
      /\ pc # "idle" => rs = file
      /\ live \subseteq Ids
      /\ NoSession \notin Ids
  BY ConstantsAssumption DEF TypeInv, TypeOK, SavedInv, Ids, NoSession
<1> USE DEF DaemonInv, DaemonIsOnFile, runVars, fwVars, daemons, history
<1>0. ASSUME live' \subseteq live, closed' = closed,
             file'.session_id = file.session_id,
             file'.reset_confirmed = file.reset_confirmed
      PROVE  DaemonInv'
  BY <1>0
<1>1. ASSUME NEW f \in BOOLEAN, NEW p \in Providers, Start(f, p)
      PROVE  DaemonInv'
  <2>1. /\ file'.session_id = CleanSlate(file).session_id
        /\ file'.reset_confirmed = FALSE
        /\ live' = live /\ closed' = closed
    BY <1>t, <1>1, SlateTyped DEF Start
  <2>2. CASE file.reset_confirmed
    BY <2>1, <2>2
  <2>3. CASE ~file.reset_confirmed
    BY <2>1, <2>3 DEF CleanSlate
  <2> QED BY <2>2, <2>3
<1>2. CASE Claim
  <2>1. CASE rs.session_id = NoSession
    <3>1. live \subseteq closed /\ live' = live /\ closed' = closed
      BY <1>t, <1>2, <2>1 DEF Claim
    <3>2. file'.reset_confirmed = FALSE
      BY <1>t, <1>2 DEF Claim, Record, RunStates, ResetInv, BeforeArm
    <3> QED BY <3>1, <3>2
  <2>2. CASE rs.session_id # NoSession
    <3>1. file' = [rs EXCEPT !.session_id = rs.session_id]
      BY <1>2, <2>2 DEF Claim, Record
    <3>2. file' = file
      BY <1>t, <1>2, <3>1 DEF Claim, RunStates
    <3> QED BY <1>0, <1>2, <3>2 DEF Claim
  <2> QED BY <2>1, <2>2
<1>3. CASE Attach
  <2>1. /\ live' \subseteq live \cup {file.session_id}
        /\ closed' = closed
    BY <1>t, <1>3 DEF Attach
  <2>2. /\ file'.session_id = file.session_id
        /\ file'.reset_confirmed = file.reset_confirmed
    BY <1>t, <1>3 DEF Attach, MediaAttached, Record, Fail, RunStates
  <2> QED BY <2>1, <2>2
<1>4. CASE AttachVerdict
  <2>1. live' \subseteq live /\ closed' = closed
    BY <1>4 DEF AttachVerdict
  <2>2. /\ file'.session_id = file.session_id
        /\ file'.reset_confirmed = file.reset_confirmed
    BY <1>t, <1>4 DEF AttachVerdict, MediaAttached, Record, Fail, RunStates
  <2> QED BY <1>0, <2>1, <2>2
<1>5. CASE DetachMedia
  <2>1. live' \subseteq live /\ closed' = closed
    BY <1>5 DEF DetachMedia
  <2>2. /\ file'.session_id = file.session_id
        /\ file'.reset_confirmed = file.reset_confirmed
    BY <1>t, <1>5 DEF DetachMedia
  <2> QED BY <1>0, <2>1, <2>2
<1>6. CASE Observe
  <2>1. CASE UNCHANGED history
    <3>1. file' \in {file, [rs EXCEPT !.reset_confirmed = TRUE]}
      BY <1>t, <1>6 DEF Observe, Record, Fail
    <3>2. file'.session_id = file.session_id /\ live' = live
      BY <1>t, <1>6, <3>1 DEF Observe, RunStates
    <3>3. CASE file' = file
      BY <1>0, <2>1, <3>2, <3>3
    <3>4. CASE file' # file
      BY <1>t, <1>6, <2>1, <3>2, <3>4 DEF Observe, Record, Fail
    <3> QED BY <3>3, <3>4
  <2>2. CASE /\ file' = [rs EXCEPT !.reset_confirmed = TRUE]
             /\ closed' = closed \cup {rs.session_id}
    <3>1. file'.session_id = file.session_id /\ live' = live
      BY <1>t, <1>6, <2>2 DEF Observe, RunStates
    <3> QED BY <1>t, <1>6, <2>2, <3>1 DEF Observe
  <2> QED BY <1>6, <2>1, <2>2 DEF Observe, Record
<1>7. CASE Armed \/ PowerRecorded
  <2>1. live' = live /\ closed' = closed
    BY <1>7 DEF Armed, PowerRecorded
  <2>2. /\ file'.session_id = file.session_id
        /\ file'.reset_confirmed = file.reset_confirmed
    BY <1>t, <1>7 DEF Armed, PowerRecorded, Record, Fail, RunStates
  <2> QED BY <1>0, <2>1, <2>2
<1>8. CASE file' = file /\ live' \subseteq live /\ closed' = closed
  BY <1>0, <1>8
<1>9. CASE Probe \/ Redirect \/ Discover \/ Handoff \/ Rescue \/ Crash
           \/ DaemonConnects \/ \E action \in Transitions : HostFollows(action)
  <2>1. file' = file /\ live' = live /\ closed' = closed
    BY <1>t, <1>9 DEF Probe, Redirect, Discover, Handoff, Rescue, Crash,
                      DaemonConnects, HostFollows, Fail, Record
  <2> QED BY <1>8, <2>1
<1>10. CASE ChangeBootOrderNull \/ PutBootSettingData \/ SetBootConfigRole
            \/ ChangeBootOrderSource
  <2>1. file' = file /\ live' = live /\ closed' = closed
    BY <1>10 DEF ChangeBootOrderNull, PutBootSettingData, SetBootConfigRole,
                 ChangeBootOrderSource, Applied, Fail
  <2> QED BY <1>8, <2>1
<1>11. CASE PowerRead \/ PowerSend \/ DaemonEnds \/ PowerButton \/ UNCHANGED vars
  <2>1. file' = file /\ live' \subseteq live /\ closed' = closed
    BY <1>11 DEF PowerRead, PowerSend, DaemonEnds, PowerButton, PowerRescue, vars
  <2> QED BY <1>8, <2>1
<1> QED
  BY <1>1, <1>2, <1>3, <1>4, <1>5, <1>6, <1>7, <1>9, <1>10, <1>11
  DEF Next, RoleStep

---------------------------------------------------------------------------
LEMMA InstallInvariant == Spec => []InstallInv
<1>1. Init => InstallInv
  BY InitInstall
<1>2. InstallInv /\ [Next]_vars => InstallInv'
  BY TypeStep, LedgerStep, SourceStep, DaemonStep, PendingStep, HostStep, ServedStep
  DEF InstallInv
<1> QED BY <1>1, <1>2, PTL DEF Spec

\* The role's state is well typed; in particular no media step runs without a
\* session id, however many runs there have been (attach_media.yml).
THEOREM TypeCorrect == Spec => []TypeOK
<1>1. InstallInv => TypeOK
  BY DEF InstallInv, TypeInv
<1> QED BY <1>1, InstallInvariant, PTL

\* Across any number of runs, killed anywhere, with any call failing and any
\* answer lost, no second power request reaches the machine before the first
\* is confirmed or acknowledged (state.yml, reset.yml).
THEOREM NeverResetsSilently == Spec => []NoSilentReset
<1>1. InstallInv => NoSilentReset
  BY DEF InstallInv, ResetInv, NoSilentReset
<1> QED BY <1>1, InstallInvariant, PTL

\* boot.arm_one_time_boot's order of calls keeps a boot source and IDE-R apart
\* in every armed configuration, whatever provider the earlier, possibly
\* unfinished, sequences were for.
THEOREM SourceAndIderExclude == Spec => []SourceNeverOverridesIder
<1>1. InstallInv => SourceNeverOverridesIder
  BY DEF InstallInv, SourceInv
<1> QED BY <1>1, InstallInvariant, PTL

\* Claiming and saving the session id before the attach makes every daemon
\* findable until its run's reset is confirmed (attach_media.yml).
THEOREM DaemonsAreOnFile == Spec => []DaemonIsOnFile
<1>1. InstallInv => DaemonIsOnFile
  BY DEF InstallInv, DaemonInv
<1> QED BY <1>1, InstallInvariant, PTL

\* Of a host the probe found off, a reset is recorded as confirmed only when the
\* armed boot has been used, while nobody else moves the host (observe.yml).
THEOREM ConfirmsOnlyBoots == Spec => []ConfirmedMeansBooted
<1>1. InstallInv => ConfirmedMeansBooted
  BY DEF InstallInv, HostInv, ConfirmedMeansBooted
<1> QED BY <1>1, InstallInvariant, PTL

\* However late the host follows the request of reset.yml, it starts on what the
\* run that sent it chose: provider, boot source, armed configuration and, while
\* that run lasts, its media.
THEOREM ResetsIntoItsChoice == Spec => ResetBootsWhatWasChosen
<1> DEFINE Chosen(action) ==
      (HostFollows(action) /\ Starts(action) /\ "late" \notin faults) =>
           /\ useIder = (provider = "ider_cdrom")
           /\ order = BootSource
           /\ "power" \notin faults => oneShot
           /\ (/\ provider = "ider_cdrom" /\ pc # "idle"
               /\ "daemon" \notin faults /\ ~adopted) => rs.session_id \in serving
<1>1. InstallInv => \A action \in Transitions : Chosen(action)
  BY DEF InstallInv, HostFollows, PendingInv, HostInv, ServedInv
<1>2. Spec => [][\A action \in Transitions : Chosen(action)]_vars
  BY <1>1, InstallInvariant, PTL DEF Spec
<1> QED BY <1>2 DEF ResetBootsWhatWasChosen
============================================================================
