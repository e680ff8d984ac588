--------------------------- MODULE EndpointProofs ---------------------------
(***************************************************************************)
(* What amt_power, amt_redirection and amt_boot guarantee of one endpoint, *)
(* for any number of invocations, any tasks and any poll_count.            *)
(***************************************************************************)
EXTENDS Endpoint, TLAPS

\* How far the calls of an invocation have got at each of its steps, and what
\* an invocation that has ended says of them.
BeforeWrite ==
    {"power_read", "power_reread", "power_send", "redirection_read",
     "redirection_send", "boot_discover", "boot_get", "boot_clear"}

Decided ==
    {"power_reread", "power_send", "power_poll", "redirection_send",
     "redirection_reread", "boot_clear", "boot_put", "boot_role", "boot_order",
     "boot_verify"}

Settled(c) ==
    /\ c.task.check => c.writes = 0
    /\ c.ending = "ok" =>
         c.writes = IF ~c.changed \/ c.task.check THEN 0
                    ELSE IF c.task.module = "amt_boot" THEN 4 ELSE 1
    /\ c.ending \in {"unsupported_capability", "invalid_state"} => c.writes = 0
    /\ c.ending = "not_sent" =>
         c.writes < IF c.task.module = "amt_boot" THEN 4 ELSE 1

Belongs(c) ==
    /\ c.pc \in {"power_read", "power_reread", "power_send", "power_poll"} =>
         c.task.module = "amt_power"
    /\ c.pc \in {"redirection_read", "redirection_send", "redirection_reread"} =>
         c.task.module = "amt_redirection"
    /\ c.pc \in {"boot_discover", "boot_get", "boot_clear", "boot_put", "boot_role",
                 "boot_order", "boot_verify"} => c.task.module = "amt_boot"

Counted(c) ==
    /\ c.pc \in BeforeWrite => c.writes = 0
    /\ c.pc \in {"power_poll", "redirection_reread", "boot_put"} => c.writes = 1
    /\ c.pc = "boot_role" => c.writes = 2
    /\ c.pc = "boot_order" => c.writes = 3
    /\ c.pc = "boot_verify" => c.writes = 4
    /\ c.pc \in Decided =>
         c.changed /\ ~c.task.check /\ c.task.want \notin {"none", "query"}

\* "no change" of amt_power, once it has ended.
Converged(c) ==
    (c.pc = "idle" /\ c.ending = "ok" /\ c.task.module = "amt_power"
       /\ c.task.want # "query" /\ ~c.changed) =>
      c.seen \in Asked(c.task.want) \cup Cycling

Local(c) ==
    /\ Belongs(c)
    /\ Counted(c)
    /\ Converged(c)
    /\ (c.pc = "idle" /\ c.task.module # "none") => Settled(c)

\* AMT_RedirectionService, and a state that is in force there or due to be.
Service == [enabled |-> enabled, requested |-> requested]

Due(e, want) == e.requested = want \/ (e.requested = "none" /\ e.enabled = want)

\* What the endpoint looks like to an invocation nobody disturbed: the service
\* is e, the boot order names o, the settings are s, and b: they are armed.
Sees(c, e, o, s, b) ==
    ~c.disturbed =>
        /\ c.pc = "redirection_reread" => Due(e, c.task.want)
        /\ (c.pc = "idle" /\ c.ending = "ok" /\ c.task.module = "amt_redirection"
              /\ c.changed /\ ~c.task.check) =>
             /\ Due(e, c.task.want)
             /\ c.seen = c.task.want => e.enabled = c.task.want
        /\ c.pc \in {"boot_role", "boot_order", "boot_verify"} =>
             s = BootSettings(c.task.want)
        /\ c.pc \in {"boot_order", "boot_verify"} => b
        /\ c.pc = "boot_verify" => o = BootSource(c.task.want)
        /\ (c.pc = "idle" /\ c.ending = "ok" /\ c.task.module = "amt_boot"
              /\ ~c.task.check) =>
             /\ b
             /\ s = BootSettings(c.task.want)
             /\ o = BootSource(c.task.want)

CallInv(c, e, o, s, b) == c \in Calls /\ Local(c) /\ Sees(c, e, o, s, b)

\* The endpoint's own variables.
EndpointOK ==
    /\ caps \in Capabilities
    /\ power \in PowerStates
    /\ pending \in PowerActions \cup {"none"}
    /\ enabled \in EnabledStates
    /\ requested \in RedirectionStates \cup {"none"}
    /\ order \in NativeSources \cup {"null"}
    /\ settings \in Settings
    /\ oneShot \in BOOLEAN

EndpointInv ==
    /\ EndpointOK
    /\ call \in [Callers -> Calls]
    /\ \A k \in Callers : CallInv(call[k], Service, order, settings, oneShot)

---------------------------------------------------------------------------
(***************************************************************************)
(* Tasks and records.                                                      *)
(***************************************************************************)
LEMMA TaskTypes ==
    ASSUME NEW t \in Tasks \cup {NoTask}
    PROVE  /\ t.check \in BOOLEAN
           /\ t.module = "amt_power" => t.want \in PowerActions \cup {"query"}
           /\ t.module = "amt_redirection" => t.want \in RedirectionStates \cup {"none"}
           /\ t.module = "amt_boot" => t.want \in BootTargets
<1>1. CASE t = NoTask
  BY <1>1 DEF NoTask
<1>2. CASE t \in [module : {"amt_power"}, want : PowerActions \cup {"query"},
                  check : BOOLEAN]
  BY <1>2
<1>3. CASE t \in [module : {"amt_redirection"}, want : RedirectionStates \cup {"none"},
                  check : BOOLEAN]
  BY <1>3
<1>4. CASE t \in [module : {"amt_boot"}, want : BootTargets, check : BOOLEAN]
  BY <1>4
<1> QED BY <1>1, <1>2, <1>3, <1>4, ConstantsAssumption DEF TaskSet

\* One write more.
Plus(g) == [g EXCEPT !.writes = @ + 1]

LEMMA Bumped ==
    ASSUME NEW g \in Calls, g.writes \in 0 .. 3
    PROVE  LET f == Plus(g)
           IN  /\ f \in Calls
               /\ f.pc = g.pc /\ f.task = g.task /\ f.changed = g.changed
               /\ f.seen = g.seen /\ f.ending = g.ending
               /\ f.disturbed = g.disturbed
               /\ f.writes = g.writes + 1
<1> DEFINE w == g.writes + 1
<1>1. w \in 0 .. 4
  OBVIOUS
<1> HIDE DEF w
<1>2. LET f == [g EXCEPT !.writes = w]
      IN  /\ f \in Calls
          /\ f.pc = g.pc /\ f.task = g.task /\ f.changed = g.changed
          /\ f.seen = g.seen /\ f.ending = g.ending
          /\ f.disturbed = g.disturbed
          /\ f.writes = w
  BY <1>1 DEF Calls
<1> QED BY <1>2 DEF w, Plus

\* Being disturbed changes nothing an invocation itself has done.
LEMMA Disturbed ==
    ASSUME NEW c, NEW e, NEW o, NEW s, NEW b, CallInv(c, e, o, s, b),
           NEW e1, NEW o1, NEW s1, NEW b1
    PROVE  CallInv([c EXCEPT !.disturbed = TRUE], e1, o1, s1, b1)
<1> DEFINE d == [c EXCEPT !.disturbed = TRUE]
<1>t. c \in Calls
  BY DEF CallInv
<1>1. /\ d.pc = c.pc /\ d.task = c.task /\ d.changed = c.changed
      /\ d.seen = c.seen /\ d.ending = c.ending /\ d.writes = c.writes
      /\ d.disturbed = TRUE
      /\ d \in Calls
  BY <1>t DEF Calls
<1>2. Local(d)
  BY <1>1 DEF CallInv, Local, Belongs, Counted, Converged, Settled
<1>3. Sees(d, e1, o1, s1, b1)
  BY <1>1 DEF Sees
<1> QED BY <1>1, <1>2, <1>3 DEF CallInv

\* Only an invocation of amt_redirection looks at the service, and only one of
\* amt_boot at the boot configuration.
LEMMA Unaffected ==
    ASSUME NEW c, NEW e, NEW o, NEW s, NEW b, CallInv(c, e, o, s, b),
           NEW e1, NEW o1, NEW s1, NEW b1,
           c.task.module = "amt_redirection" => e1 = e,
           c.task.module = "amt_boot" => o1 = o /\ s1 = s /\ b1 = b
    PROVE  CallInv(c, e1, o1, s1, b1)
  BY DEF CallInv, Local, Belongs, Sees

\* A step of k that only changes k's own record.
LEMMA Alone ==
    ASSUME EndpointInv, NEW k \in Callers, NEW n, Goes(k, n),
           UNCHANGED <<caps, fwVars>>,
           CallInv(n, Service, order, settings, oneShot)
    PROVE  EndpointInv'
<1>1. n \in Calls
  BY DEF CallInv
<1>2. call' \in [Callers -> Calls] /\ \A j \in Callers : call'[j] = IF j = k THEN n ELSE call[j]
  BY <1>1 DEF Goes, EndpointInv
<1>3. UNCHANGED <<caps, power, pending, enabled, requested, order, settings, oneShot,
                  Service>>
  BY DEF fwVars, Service
<1>4. \A j \in Callers : CallInv(call'[j], Service', order', settings', oneShot')
  BY <1>2, <1>3 DEF EndpointInv
<1> QED BY <1>2, <1>3, <1>4 DEF EndpointInv, EndpointOK

\* A write of k's: the others of its module are disturbed.
LEMMA Together ==
    ASSUME EndpointInv, NEW k \in Callers, NEW m, NEW c, Writes(k, m, c),
           EndpointOK',
           m # "amt_redirection" => Service' = Service,
           m # "amt_boot" => UNCHANGED <<order, settings, oneShot>>,
           CallInv(Plus(c), Service', order', settings', oneShot')
    PROVE  EndpointInv'
<1>1. \A j \in Callers : CallInv(call'[j], Service', order', settings', oneShot')
  <2> TAKE j \in Callers
  <2>0. CallInv(call[j], Service, order, settings, oneShot)
    BY DEF EndpointInv
  <2>1. CASE j = k
    <3>1. call'[j] = Plus(c)
      BY <2>1 DEF Writes, Plus
    <3> QED BY <3>1
  <2>2. CASE j # k /\ call[j].task.module = m
    <3>1. call'[j] = [call[j] EXCEPT !.disturbed = TRUE]
      BY <2>2 DEF Writes
    <3> QED BY <2>0, <3>1, Disturbed
  <2>3. CASE j # k /\ call[j].task.module # m
    <3>1. call'[j] = call[j]
      BY <2>3 DEF Writes
    <3>2. CallInv(call[j], Service', order', settings', oneShot')
      BY <2>0, <2>3, Unaffected
    <3> QED BY <3>1, <3>2
  <2> QED BY <2>1, <2>2, <2>3
<1>2. call' \in [Callers -> Calls]
  <2>1. \A j \in Callers : call'[j] \in Calls
    BY <1>1 DEF CallInv
  <2> QED BY <2>1 DEF Writes
<1> QED BY <1>1, <1>2 DEF EndpointInv

\* An invocation that fails on the way.
LEMMA Failing ==
    ASSUME NEW c, NEW e, NEW o, NEW s, NEW b, CallInv(c, e, o, s, b), c.pc # "idle",
           NEW cls \in Endings \ {"ok"},
           cls \in {"unsupported_capability", "invalid_state"} => c.pc \in BeforeWrite,
           cls = "not_sent" => c.pc \in Decided \ {"power_poll", "redirection_reread",
                                                   "boot_verify"}
    PROVE  CallInv(FailWith(c, cls), e, o, s, b)
<1> DEFINE f == FailWith(c, cls)
<1>t. c \in Calls /\ Local(c)
  BY DEF CallInv
<1>1. /\ f.pc = "idle" /\ f.task = c.task /\ f.ending = cls
      /\ f.writes = c.writes
      /\ f \in Calls
  BY <1>t DEF Calls, FailWith, Pcs
<1>2. c.task.check => c.writes = 0
  BY <1>t DEF Local, Counted, BeforeWrite, Decided, Calls, Pcs
<1>3. cls = "not_sent" =>
        c.writes < IF c.task.module = "amt_boot" THEN 4 ELSE 1
  BY <1>t DEF Local, Counted, Belongs, BeforeWrite, Decided
<1>4. cls \in {"unsupported_capability", "invalid_state"} => c.writes = 0
  BY <1>t DEF Local, Counted
<1>5. Settled(f)
  BY <1>1, <1>2, <1>3, <1>4 DEF Settled
<1>6. Local(f)
  BY <1>1, <1>5 DEF Local, Belongs, Counted, Converged, BeforeWrite, Decided
<1>7. Sees(f, e, o, s, b)
  BY <1>1 DEF Sees
<1> QED BY <1>1, <1>6, <1>7 DEF CallInv

\* The answer to a write that was carried out is lost.
LEMMA Losing ==
    ASSUME NEW c, NEW e, NEW o, NEW s, NEW b, CallInv(c, e, o, s, b),
           c.pc \in Decided \ {"power_poll", "redirection_reread", "boot_verify"},
           NEW e1, NEW o1, NEW s1, NEW b1
    PROVE  CallInv(Plus(FailWith(c, "unsure")), e1, o1, s1, b1)
<1> DEFINE f == Plus(FailWith(c, "unsure"))
<1>t. c \in Calls /\ Local(c)
  BY DEF CallInv
<1>0. c.writes \in 0 .. 3 /\ ~c.task.check
  <2>1. \/ c.pc \in BeforeWrite \/ c.pc = "boot_put" \/ c.pc = "boot_role"
        \/ c.pc = "boot_order"
    BY DEF Decided, BeforeWrite
  <2>2. c.writes \in {0, 1, 2, 3}
    BY <1>t, <2>1 DEF Local, Counted
  <2> QED BY <1>t, <2>2 DEF Local, Counted
<1>1. LET g == FailWith(c, "unsure")
      IN  /\ g.pc = "idle" /\ g.task = c.task /\ g.ending = "unsure"
          /\ g.writes = c.writes
          /\ g \in Calls
  BY <1>t DEF Calls, FailWith, Pcs, Endings
<1>2. /\ f.pc = "idle" /\ f.task = c.task /\ f.ending = "unsure"
      /\ f.writes = c.writes + 1
      /\ f \in Calls
  BY <1>0, <1>1, Bumped
<1>5. Settled(f)
  BY <1>0, <1>2 DEF Settled
<1>6. Local(f)
  BY <1>2, <1>5 DEF Local, Belongs, Counted, Converged, BeforeWrite, Decided
<1>7. Sees(f, e1, o1, s1, b1)
  BY <1>2 DEF Sees
<1> QED BY <1>2, <1>6, <1>7 DEF CallInv

---------------------------------------------------------------------------
(***************************************************************************)
(* The steps.                                                              *)
(***************************************************************************)
LEMMA ReadFailsStep ==
    ASSUME EndpointInv, NEW k \in Callers, call[k].pc # "idle", ReadFails(k)
    PROVE  EndpointInv'
<1>1. CallInv(FailWith(call[k], "read_failed"), Service, order, settings, oneShot)
  BY Failing DEF EndpointInv, Endings
<1> QED BY <1>1, Alone DEF ReadFails

LEMMA WriteFailsStep ==
    ASSUME EndpointInv, NEW k \in Callers, WriteFails(k),
           call[k].pc \in Decided \ {"power_poll", "redirection_reread", "boot_verify"}
    PROVE  EndpointInv'
<1>1. PICK cls \in {"not_sent", "unsure"} : Goes(k, FailWith(call[k], cls))
  BY DEF WriteFails
<1>2. CallInv(FailWith(call[k], cls), Service, order, settings, oneShot)
  BY Failing DEF EndpointInv, Endings, Decided
<1> QED BY <1>1, <1>2, Alone DEF WriteFails

LEMMA InitEndpoint == Init => EndpointInv
<1> SUFFICES ASSUME Init PROVE EndpointInv
  OBVIOUS
<1>1. EndpointOK
  <2>1. settings \in Settings
    BY DEF Init, Settings, BootSettings
  <2>2. PICK x \in Endpoints : caps = x.caps /\ power = x.power /\ enabled = x.enabled
    BY DEF Init
  <2>3. x \in [caps : Capabilities, power : PowerStates, enabled : EnabledStates]
    BY <2>2, ConstantsAssumption
  <2>4. caps \in Capabilities /\ power \in PowerStates /\ enabled \in EnabledStates
    BY <2>2, <2>3
  <2> QED BY <2>1, <2>4 DEF Init, EndpointOK
<1>2. Unused \in Calls
  BY ConstantsAssumption DEF Unused, Calls, Pcs, Endings
<1>3. /\ Unused.pc = "idle" /\ Unused.ending = "none" /\ Unused.task.module = "none"
  BY DEF Unused, NoTask
<1>4. CallInv(Unused, Service, order, settings, oneShot)
  BY <1>2, <1>3 DEF CallInv, Local, Belongs, Counted, Converged, Settled, Sees,
     BeforeWrite, Decided
<1>5. call \in [Callers -> Calls] /\ \A k \in Callers : call[k] = Unused
  BY <1>2 DEF Init
<1> QED BY <1>1, <1>4, <1>5 DEF EndpointInv

LEMMA InvokeStep ==
    ASSUME EndpointInv, NEW k \in Callers, NEW t \in Tasks, Invoke(k, t)
    PROVE  EndpointInv'
<1>0. t \in TaskSet
  BY ConstantsAssumption
<1>1. t.module \in {"amt_power", "amt_redirection", "amt_boot"}
  BY <1>0 DEF TaskSet
<1> DEFINE f == Fresh(t)
<1>2. Unused \in Calls
  BY ConstantsAssumption DEF Unused, Calls, Pcs, Endings
<1>3. FirstStep[t.module] \in {"power_read", "redirection_read", "boot_discover"}
      /\ (t.module = "amt_power" => FirstStep[t.module] = "power_read")
      /\ (t.module = "amt_redirection" => FirstStep[t.module] = "redirection_read")
      /\ (t.module = "amt_boot" => FirstStep[t.module] = "boot_discover")
  BY <1>1 DEF FirstStep
<1>4. /\ f.pc = FirstStep[t.module] /\ f.task = t /\ f.writes = 0
      /\ f \in Calls
  BY <1>2, <1>3 DEF Fresh, Unused, Calls, Pcs
<1>5. CallInv(f, Service, order, settings, oneShot)
  BY <1>1, <1>3, <1>4 DEF CallInv, Local, Belongs, Counted, Converged, Settled, Sees,
     BeforeWrite, Decided
<1>6. Goes(k, f) /\ UNCHANGED <<caps, fwVars>>
  BY DEF Invoke, Goes
<1> QED BY <1>5, <1>6, Alone

\* An invocation whose write was carried out goes on from pc to next.
Follows(pc, next) ==
    \/ pc = "power_send" /\ next = "power_poll"
    \/ pc = "redirection_send" /\ next = "redirection_reread"
    \/ pc = "boot_clear" /\ next = "boot_put"
    \/ pc = "boot_put" /\ next = "boot_role"
    \/ pc = "boot_role" /\ next = "boot_order"
    \/ pc = "boot_order" /\ next = "boot_verify"

LEMMA Onward ==
    ASSUME NEW c, NEW e, NEW o, NEW s, NEW b, CallInv(c, e, o, s, b),
           NEW next, Follows(c.pc, next), NEW g \in Calls,
           g.pc = next, g.task = c.task, g.changed = c.changed, g.writes = c.writes,
           g.disturbed = c.disturbed,
           NEW e1, NEW o1, NEW s1, NEW b1,
           next = "redirection_reread" => Due(e1, c.task.want),
           next = "boot_role" => s1 = BootSettings(c.task.want),
           next = "boot_order" => b1 /\ s1 = s,
           next = "boot_verify" => o1 = BootSource(c.task.want) /\ s1 = s /\ b1 = b
    PROVE  CallInv(Plus(g), e1, o1, s1, b1)
<1> DEFINE f == Plus(g)
<1>t. c \in Calls /\ Local(c) /\ Sees(c, e, o, s, b)
  BY DEF CallInv
<1>0. /\ c.pc \in {"power_send", "redirection_send", "boot_clear"} => c.writes = 0
      /\ c.pc = "boot_put" => c.writes = 1
      /\ c.pc = "boot_role" => c.writes = 2
      /\ c.pc = "boot_order" => c.writes = 3
      /\ c.changed /\ ~c.task.check /\ c.task.want \notin {"none", "query"}
  BY <1>t DEF Local, Counted, BeforeWrite, Decided, Follows
<1>1. g.writes \in 0 .. 3
  BY <1>0 DEF Follows
<1>2. /\ f \in Calls
      /\ f.pc = next /\ f.task = c.task /\ f.changed = c.changed
      /\ f.disturbed = c.disturbed /\ f.writes = c.writes + 1
  BY <1>1, Bumped
<1> HIDE DEF f
<1>3. Belongs(f)
  BY <1>t, <1>2 DEF Local, Belongs, Follows
<1>4. Counted(f)
  BY <1>0, <1>2 DEF Counted, BeforeWrite, Decided, Follows
<1>5. Converged(f) /\ f.pc # "idle"
  BY <1>2 DEF Converged, Follows
<1>6. Sees(f, e1, o1, s1, b1)
  BY <1>t, <1>2 DEF Sees, Follows
<1> QED BY <1>2, <1>3, <1>4, <1>5, <1>6 DEF CallInv, Local, f

LEMMA WriteStep ==
    ASSUME EndpointInv, NEW k \in Callers, NEW m, NEW g \in Calls, Done(k, m, g),
           NEW next, Follows(call[k].pc, next), g.pc = next, g.task = call[k].task,
           g.changed = call[k].changed, g.writes = call[k].writes,
           g.disturbed = call[k].disturbed,
           EndpointOK',
           m # "amt_redirection" => Service' = Service,
           m # "amt_boot" => UNCHANGED <<order, settings, oneShot>>,
           next = "redirection_reread" => Due(Service', call[k].task.want),
           next = "boot_role" => settings' = BootSettings(call[k].task.want),
           next = "boot_order" => oneShot' /\ settings' = settings,
           next = "boot_verify" => /\ order' = BootSource(call[k].task.want)
                                   /\ UNCHANGED <<settings, oneShot>>
    PROVE  EndpointInv'
<1>1. CallInv(call[k], Service, order, settings, oneShot)
  BY DEF EndpointInv
<1>2. CallInv(Plus(g), Service', order', settings', oneShot')
  BY <1>1, Onward
<1>3. call[k].pc \in Decided \ {"power_poll", "redirection_reread", "boot_verify"}
  BY DEF Follows, Decided
<1>4. CallInv(Plus(FailWith(call[k], "unsure")), Service', order', settings', oneShot')
  BY <1>1, <1>3, Losing
<1>5. CASE Writes(k, m, g)
  BY <1>2, <1>5, Together
<1>6. CASE Writes(k, m, FailWith(call[k], "unsure"))
  BY <1>4, <1>6, Together
<1> QED BY <1>5, <1>6 DEF Done

LEMMA ClearBootOrderStep ==
    ASSUME EndpointInv, NEW k \in Callers, ClearBootOrder(k) PROVE EndpointInv'
<1> DEFINE g == [call[k] EXCEPT !.pc = "boot_put"]
<1>t. /\ call[k].pc = "boot_clear" /\ call[k] \in Calls /\ Local(call[k])
      /\ call[k].task \in Tasks \cup {NoTask}
  BY DEF ClearBootOrder, At, EndpointInv, CallInv, Calls
<1>1. ASSUME Done(k, "amt_boot", g),
             order' = "null",
             UNCHANGED <<caps, power, pending, enabled, requested, settings, oneShot>>
      PROVE  EndpointInv'
  <2>1. EndpointOK'
    BY <1>1, <1>t DEF EndpointInv, EndpointOK
  <2>2. /\ g \in Calls /\ g.pc = "boot_put" /\ g.task = call[k].task
        /\ g.changed = call[k].changed /\ g.writes = call[k].writes
        /\ g.disturbed = call[k].disturbed
    BY <1>t DEF Calls, Pcs
  <2>3. Follows(call[k].pc, "boot_put")
    BY <1>t DEF Follows
  <2>4. Service' = Service
    BY <1>1 DEF Service
  <2> HIDE DEF g
  <2> QED BY <1>1, <2>1, <2>2, <2>3, <2>4, WriteStep
<1> QED BY <1>t, <1>1, WriteFailsStep DEF ClearBootOrder, Decided

LEMMA PutBootSettingDataStep ==
    ASSUME EndpointInv, NEW k \in Callers, PutBootSettingData(k) PROVE EndpointInv'
<1> DEFINE g == [call[k] EXCEPT !.pc = "boot_role"]
<1>t. /\ call[k].pc = "boot_put" /\ call[k] \in Calls /\ Local(call[k])
      /\ call[k].task \in Tasks \cup {NoTask}
  BY DEF PutBootSettingData, At, EndpointInv, CallInv, Calls
<1>1. ASSUME Done(k, "amt_boot", g),
             settings' = BootSettings(call[k].task.want),
             UNCHANGED <<caps, power, pending, enabled, requested, order, oneShot>>
      PROVE  EndpointInv'
  <2>1. EndpointOK'
    BY <1>1, <1>t DEF EndpointInv, EndpointOK, BootSettings, Settings
  <2>2. /\ g \in Calls /\ g.pc = "boot_role" /\ g.task = call[k].task
        /\ g.changed = call[k].changed /\ g.writes = call[k].writes
        /\ g.disturbed = call[k].disturbed
    BY <1>t DEF Calls, Pcs
  <2>3. Follows(call[k].pc, "boot_role")
    BY <1>t DEF Follows
  <2>4. Service' = Service
    BY <1>1 DEF Service
  <2> HIDE DEF g
  <2> QED BY <1>1, <2>1, <2>2, <2>3, <2>4, WriteStep
<1> QED BY <1>t, <1>1, WriteFailsStep DEF PutBootSettingData, Decided

LEMMA SetBootConfigRoleStep ==
    ASSUME EndpointInv, NEW k \in Callers, SetBootConfigRole(k) PROVE EndpointInv'
<1> DEFINE g == [call[k] EXCEPT !.pc = "boot_order"]
<1>t. /\ call[k].pc = "boot_role" /\ call[k] \in Calls /\ Local(call[k])
      /\ call[k].task \in Tasks \cup {NoTask}
  BY DEF SetBootConfigRole, At, EndpointInv, CallInv, Calls
<1>1. ASSUME Done(k, "amt_boot", g),
             oneShot' = TRUE,
             UNCHANGED <<caps, power, pending, enabled, requested, order, settings>>
      PROVE  EndpointInv'
  <2>1. EndpointOK'
    BY <1>1, <1>t DEF EndpointInv, EndpointOK
  <2>2. /\ g \in Calls /\ g.pc = "boot_order" /\ g.task = call[k].task
        /\ g.changed = call[k].changed /\ g.writes = call[k].writes
        /\ g.disturbed = call[k].disturbed
    BY <1>t DEF Calls, Pcs
  <2>3. Follows(call[k].pc, "boot_order")
    BY <1>t DEF Follows
  <2>4. Service' = Service
    BY <1>1 DEF Service
  <2> HIDE DEF g
  <2> QED BY <1>1, <2>1, <2>2, <2>3, <2>4, WriteStep
<1> QED BY <1>t, <1>1, WriteFailsStep DEF SetBootConfigRole, Decided

LEMMA SetBootOrderStep ==
    ASSUME EndpointInv, NEW k \in Callers, SetBootOrder(k) PROVE EndpointInv'
<1> DEFINE g == [call[k] EXCEPT !.pc = "boot_verify"]
<1>t. /\ call[k].pc = "boot_order" /\ call[k] \in Calls /\ Local(call[k])
      /\ call[k].task \in Tasks \cup {NoTask}
  BY DEF SetBootOrder, At, EndpointInv, CallInv, Calls
<1>1. ASSUME Done(k, "amt_boot", g),
             order' = BootSource(call[k].task.want),
             UNCHANGED <<caps, power, pending, enabled, requested, settings, oneShot>>
      PROVE  EndpointInv'
  <2>1. EndpointOK'
    BY <1>1, <1>t DEF EndpointInv, EndpointOK, BootSource
  <2>2. /\ g \in Calls /\ g.pc = "boot_verify" /\ g.task = call[k].task
        /\ g.changed = call[k].changed /\ g.writes = call[k].writes
        /\ g.disturbed = call[k].disturbed
    BY <1>t DEF Calls, Pcs
  <2>3. Follows(call[k].pc, "boot_verify")
    BY <1>t DEF Follows
  <2>4. Service' = Service
    BY <1>1 DEF Service
  <2> HIDE DEF g
  <2> QED BY <1>1, <2>1, <2>2, <2>3, <2>4, WriteStep
<1> QED BY <1>t, <1>1, WriteFailsStep DEF SetBootOrder, Decided

LEMMA RequestStateChangeStep ==
    ASSUME EndpointInv, NEW k \in Callers, RequestStateChange(k) PROVE EndpointInv'
<1> DEFINE g == [call[k] EXCEPT !.pc = "redirection_reread"]
<1>t. /\ call[k].pc = "redirection_send" /\ call[k] \in Calls /\ Local(call[k])
      /\ call[k].task \in Tasks \cup {NoTask}
  BY DEF RequestStateChange, At, EndpointInv, CallInv, Calls
<1>1. ASSUME Done(k, "amt_redirection", g),
             requested' = call[k].task.want,
             UNCHANGED <<caps, power, pending, enabled, order, settings, oneShot>>
      PROVE  EndpointInv'
  <2>0. call[k].task.want \in RedirectionStates
    BY <1>t, TaskTypes DEF Local, Belongs, Counted, Decided
  <2>1. EndpointOK'
    BY <1>1, <2>0 DEF EndpointInv, EndpointOK
  <2>4. Due(Service', call[k].task.want)
    BY <1>1 DEF Due, Service
  <2>2. /\ g \in Calls /\ g.pc = "redirection_reread" /\ g.task = call[k].task
        /\ g.changed = call[k].changed /\ g.writes = call[k].writes
        /\ g.disturbed = call[k].disturbed
    BY <1>t DEF Calls, Pcs
  <2>3. Follows(call[k].pc, "redirection_reread")
    BY <1>t DEF Follows
  <2> HIDE DEF g
  <2> QED BY <1>1, <2>1, <2>2, <2>3, <2>4, WriteStep
<1> QED BY <1>t, <1>1, WriteFailsStep DEF RequestStateChange, Decided

LEMMA PowerSendStep ==
    ASSUME EndpointInv, NEW k \in Callers, PowerSend(k) PROVE EndpointInv'
<1> DEFINE g == [call[k] EXCEPT !.pc = "power_poll", !.seen = "none"]
<1>t. /\ call[k].pc = "power_send" /\ call[k] \in Calls /\ Local(call[k])
      /\ call[k].task \in Tasks \cup {NoTask}
  BY DEF PowerSend, At, EndpointInv, CallInv, Calls
<1>1. ASSUME Done(k, "amt_power", g),
             pending' = call[k].task.want,
             UNCHANGED <<caps, power, enabled, requested, order, settings, oneShot>>
      PROVE  EndpointInv'
  <2>0. call[k].task.want \in PowerActions
    BY <1>t, TaskTypes DEF Local, Belongs, Counted, Decided
  <2>1. EndpointOK'
    BY <1>1, <2>0 DEF EndpointInv, EndpointOK
  <2>2. /\ g \in Calls /\ g.pc = "power_poll" /\ g.task = call[k].task
        /\ g.changed = call[k].changed /\ g.writes = call[k].writes
        /\ g.disturbed = call[k].disturbed
    BY <1>t DEF Calls, Pcs
  <2>3. Follows(call[k].pc, "power_poll")
    BY <1>t DEF Follows
  <2>4. Service' = Service
    BY <1>1 DEF Service
  <2> HIDE DEF g
  <2> QED BY <1>1, <2>1, <2>2, <2>3, <2>4, WriteStep
<1> QED BY <1>t, <1>1, WriteFailsStep DEF PowerSend, Decided

\* An invocation that reads and goes on to a step before its first write.
LEMMA Continues ==
    ASSUME NEW c \in Calls, NEW e, NEW o, NEW s, NEW b, Local(c),
           NEW g \in Calls, g.task = c.task, g.writes = c.writes,
           \/ c.pc = "power_read" /\ g.pc = "power_reread"
           \/ c.pc = "power_reread" /\ g.pc = "power_send"
           \/ c.pc = "redirection_read" /\ g.pc = "redirection_send"
           \/ c.pc = "boot_discover" /\ g.pc = "boot_get"
           \/ c.pc = "boot_get" /\ g.pc = "boot_clear",
           g.pc # "boot_get" =>
              g.changed /\ ~c.task.check /\ c.task.want \notin {"none", "query"}
    PROVE  CallInv(g, e, o, s, b)
<1>1. c.writes = 0
  BY DEF Local, Counted, BeforeWrite
<1>2. Belongs(g)
  BY DEF Local, Belongs
<1>3. Counted(g)
  BY <1>1 DEF Counted, BeforeWrite, Decided
<1>4. Converged(g) /\ g.pc # "idle"
  BY DEF Converged
<1>5. Sees(g, e, o, s, b)
  BY DEF Sees
<1> QED BY <1>2, <1>3, <1>4, <1>5 DEF CallInv, Local

\* An invocation that has read and is done without having written.
LEMMA Concludes ==
    ASSUME NEW c \in Calls, NEW e, NEW o, NEW s, NEW b, Local(c), c.pc \in BeforeWrite,
           NEW g \in Calls, g.task = c.task, g.writes = c.writes, g.pc = "idle",
           g.ending = "ok", ~g.changed \/ c.task.check,
           (c.task.module = "amt_power" /\ c.task.want # "query" /\ ~g.changed) =>
              g.seen \in Asked(c.task.want) \cup Cycling,
           c.task.module = "amt_boot" => c.task.check
    PROVE  CallInv(g, e, o, s, b)
<1>1. c.writes = 0
  BY DEF Local, Counted
<1>2. Belongs(g)
  BY DEF Belongs
<1>3. Counted(g)
  BY DEF Counted, BeforeWrite, Decided
<1>4. Converged(g)
  BY DEF Converged
<1>5. Settled(g)
  BY <1>1 DEF Settled
<1>6. Sees(g, e, o, s, b)
  BY DEF Sees
<1> QED BY <1>2, <1>3, <1>4, <1>5, <1>6 DEF CallInv, Local

\* plan says no only of a host in a state that was asked for, or in the middle of
\* a power cycle.
LEMMA PlanIsExact ==
    ASSUME NEW want \in PowerActions, NEW p \in PowerStates, ~plan(want, Normalized[p])
    PROVE  p \in Asked(want) \cup Cycling
  BY DEF PowerActions, PowerStates, plan, Normalized, ExpectedState, Asked,
     Off, Cycling, CONVERGENT_STATES

LEMMA PowerReadStep ==
    ASSUME EndpointInv, NEW k \in Callers, PowerRead(k) PROVE EndpointInv'
<1>t. /\ call[k].pc = "power_read" /\ call[k] \in Calls /\ Local(call[k])
      /\ call[k].task \in Tasks \cup {NoTask} /\ power \in PowerStates
      /\ call[k].task.module = "amt_power"
  BY DEF PowerRead, At, EndpointInv, EndpointOK, CallInv, Calls, Local, Belongs
<1>w. call[k].task.want \in PowerActions \cup {"query"}
  BY <1>t, TaskTypes
<1> DEFINE t == call[k].task
           changed == plan(t.want, Normalized[power])
           c == [call[k] EXCEPT !.changed = changed, !.seen = power]
           r == [c EXCEPT !.pc = "power_reread"]
<1>c. /\ changed \in BOOLEAN
      /\ changed => t.want # "query"
      /\ ~changed /\ t.want # "query" => power \in Asked(t.want) \cup Cycling
  BY <1>t, <1>w, PlanIsExact DEF plan
<1> HIDE DEF changed
<1>1. /\ c \in Calls /\ c.changed = changed /\ c.seen = power /\ c.task = t
      /\ c.writes = call[k].writes
  BY <1>t, <1>c DEF Calls
<1> HIDE DEF c
<1>2. /\ r \in Calls /\ r.pc = "power_reread" /\ r.changed = changed /\ r.task = t
      /\ r.writes = call[k].writes
  BY <1>1 DEF Calls, Pcs
<1>3. LET x == Exit(c)
      IN  /\ x \in Calls /\ x.pc = "idle" /\ x.ending = "ok" /\ x.changed = changed
          /\ x.task = t /\ x.writes = call[k].writes /\ x.seen = power
  BY <1>1 DEF Calls, Pcs, Endings, Exit
<1> HIDE DEF r
<1>4. ASSUME changed, ~t.check
      PROVE  CallInv(r, Service, order, settings, oneShot)
  BY <1>t, <1>w, <1>c, <1>2, <1>4, Continues DEF PowerActions
<1>5. ASSUME ~changed \/ t.check
      PROVE  CallInv(Exit(c), Service, order, settings, oneShot)
  BY <1>t, <1>c, <1>3, <1>5, Concludes DEF BeforeWrite
<1>6. \/ /\ Goes(k, IF ~changed \/ t.check THEN Exit(c) ELSE r)
         /\ UNCHANGED <<caps, fwVars>>
      \/ ReadFails(k)
  BY DEF PowerRead, changed, c, r
<1>7. t.check \in BOOLEAN
  BY <1>t, TaskTypes
<1>8. ASSUME Goes(k, r), UNCHANGED <<caps, fwVars>>, changed, ~t.check
      PROVE  EndpointInv'
  BY <1>4, <1>8, Alone
<1>9. ASSUME Goes(k, Exit(c)), UNCHANGED <<caps, fwVars>>, ~changed \/ t.check
      PROVE  EndpointInv'
  BY <1>5, <1>9, Alone
<1> QED BY <1>t, <1>6, <1>8, <1>9, ReadFailsStep

LEMMA PowerRereadStep ==
    ASSUME EndpointInv, NEW k \in Callers, PowerReread(k) PROVE EndpointInv'
<1>t. /\ call[k].pc = "power_reread" /\ call[k] \in Calls /\ Local(call[k])
      /\ power \in PowerStates
  BY DEF PowerReread, At, EndpointInv, EndpointOK, CallInv
<1> DEFINE r == [call[k] EXCEPT !.pc = "power_send", !.seen = power]
<1>1. /\ r \in Calls /\ r.pc = "power_send" /\ r.changed = call[k].changed
      /\ r.task = call[k].task /\ r.writes = call[k].writes
  BY <1>t DEF Calls, Pcs
<1>2. call[k].changed /\ ~call[k].task.check
      /\ call[k].task.want \notin {"none", "query"}
  BY <1>t DEF Local, Counted, Decided
<1>3. (Goes(k, r) /\ UNCHANGED <<caps, fwVars>>) \/ ReadFails(k)
  BY DEF PowerReread
<1> HIDE DEF r
<1>4. CallInv(r, Service, order, settings, oneShot)
  BY <1>t, <1>1, <1>2, Continues
<1>5. ASSUME Goes(k, r), UNCHANGED <<caps, fwVars>> PROVE EndpointInv'
  BY <1>4, <1>5, Alone
<1> QED BY <1>t, <1>3, <1>5, ReadFailsStep

\* An invocation whose last write was carried out, and that is done.
LEMMA Finishes ==
    ASSUME NEW c, NEW e, NEW o, NEW s, NEW b, CallInv(c, e, o, s, b),
           c.pc \in {"power_poll", "redirection_reread", "boot_verify"},
           NEW g \in Calls, g.pc = "idle", g.ending = "ok", g.task = c.task,
           g.changed = c.changed, g.writes = c.writes, g.disturbed = c.disturbed,
           c.pc = "redirection_reread" => g.seen = e.enabled
    PROVE  CallInv(g, e, o, s, b)
<1>t. c \in Calls /\ Local(c) /\ Sees(c, e, o, s, b)
  BY DEF CallInv
<1>1. /\ c.changed /\ ~c.task.check
      /\ c.writes = IF c.task.module = "amt_boot" THEN 4 ELSE 1
  BY <1>t DEF Local, Belongs, Counted, Decided
<1>2. Belongs(g) /\ Counted(g)
  BY DEF Belongs, Counted, BeforeWrite, Decided
<1>3. Converged(g)
  BY <1>1 DEF Converged
<1>4. Settled(g)
  BY <1>1 DEF Settled
<1>5. Sees(g, e, o, s, b)
  BY <1>t DEF Sees, Local, Belongs
<1> QED BY <1>2, <1>3, <1>4, <1>5 DEF CallInv, Local

LEMMA PollStep ==
    ASSUME EndpointInv, NEW k \in Callers, Poll(k) PROVE EndpointInv'
<1>t. /\ call[k].pc = "power_poll" /\ call[k] \in Calls /\ Local(call[k])
      /\ power \in PowerStates /\ call[k].polls \in 0 .. PollCount
      /\ CallInv(call[k], Service, order, settings, oneShot)
  BY DEF Poll, At, EndpointInv, EndpointOK, CallInv, Calls
<1>u. UNCHANGED <<caps, fwVars>>
  BY DEF Poll
<1>1. ASSUME NEW g \in Calls, Goes(k, Exit(g)), g.task = call[k].task,
             g.changed = call[k].changed, g.writes = call[k].writes,
             g.disturbed = call[k].disturbed
      PROVE  EndpointInv'
  <2>1. LET x == Exit(g)
        IN  /\ x \in Calls /\ x.pc = "idle" /\ x.ending = "ok" /\ x.task = call[k].task
            /\ x.changed = call[k].changed /\ x.writes = call[k].writes
            /\ x.disturbed = call[k].disturbed
    BY <1>1 DEF Exit, Calls, Pcs, Endings
  <2>2. CallInv(Exit(g), Service, order, settings, oneShot)
    BY <1>t, <2>1, Finishes
  <2> QED BY <1>1, <1>u, <2>2, Alone
<1>2. ASSUME NEW g \in Calls, Goes(k, g), g.task = call[k].task, g.pc = call[k].pc,
             g.changed = call[k].changed, g.writes = call[k].writes
      PROVE  EndpointInv'
  <2>1. Belongs(g) /\ Counted(g) /\ Converged(g)
    BY <1>t, <1>2 DEF Local, Belongs, Counted, Converged
  <2>2. Sees(g, Service, order, settings, oneShot)
    BY <1>t, <1>2 DEF Sees
  <2>3. CallInv(g, Service, order, settings, oneShot)
    BY <1>t, <1>2, <2>1, <2>2 DEF CallInv, Local
  <2> QED BY <1>2, <1>u, <2>3, Alone
<1>3. CASE call[k].polls >= PollCount /\ Goes(k, Exit(call[k]))
  BY <1>t, <1>1, <1>3
<1>4. CASE call[k].polls < PollCount
  <2> DEFINE n == call[k].polls + 1
             c == [call[k] EXCEPT !.polls = n]
             d == [c EXCEPT !.seen = power]
  <2>1. n \in 0 .. PollCount
    BY <1>t, <1>4, ConstantsAssumption
  <2>2. \/ Goes(k, IF Normalized[power] = ExpectedState(call[k].task.want)
                   THEN Exit(d) ELSE d)
        \/ Goes(k, c)
    BY <1>t, <1>4, ConstantsAssumption DEF Poll
  <2> HIDE DEF n
  <2>3. /\ c \in Calls /\ c.task = call[k].task /\ c.pc = call[k].pc
        /\ c.changed = call[k].changed /\ c.writes = call[k].writes
        /\ c.disturbed = call[k].disturbed
    BY <1>t, <2>1 DEF Calls
  <2> HIDE DEF c
  <2>4. /\ d \in Calls /\ d.task = call[k].task /\ d.pc = call[k].pc
        /\ d.changed = call[k].changed /\ d.writes = call[k].writes
        /\ d.disturbed = call[k].disturbed
    BY <1>t, <2>3 DEF Calls
  <2> HIDE DEF d
  <2> QED BY <1>1, <1>2, <2>2, <2>3, <2>4
<1> QED BY <1>3, <1>4 DEF Poll

LEMMA RedirectionReadStep ==
    ASSUME EndpointInv, NEW k \in Callers, RedirectionRead(k) PROVE EndpointInv'
<1>t. /\ call[k].pc = "redirection_read" /\ call[k] \in Calls /\ Local(call[k])
      /\ call[k].task \in Tasks \cup {NoTask} /\ enabled \in EnabledStates
      /\ call[k].task.module = "amt_redirection"
      /\ CallInv(call[k], Service, order, settings, oneShot)
  BY DEF RedirectionRead, At, EndpointInv, EndpointOK, CallInv, Calls, Local, Belongs
<1>w. call[k].task.want \in RedirectionStates \cup {"none"}
  BY <1>t, TaskTypes
<1> DEFINE t == call[k].task
           changed == t.want \notin {"none", enabled}
           c == [call[k] EXCEPT !.changed = changed, !.seen = enabled]
           r == [c EXCEPT !.pc = "redirection_send"]
           f == FailWith(c, "unsupported_capability")
<1>c. /\ changed \in BOOLEAN
      /\ changed => t.want \notin {"none", "query"}
  BY <1>w DEF RedirectionStates
<1>6. \/ /\ Goes(k, IF changed /\ ~Supported(t.want) THEN f
                    ELSE IF ~changed \/ t.check THEN Exit(c) ELSE r)
         /\ UNCHANGED <<caps, fwVars>>
      \/ ReadFails(k)
  BY DEF RedirectionRead
<1> HIDE DEF changed
<1>1. /\ c \in Calls /\ c.changed = changed /\ c.seen = enabled /\ c.task = t
      /\ c.pc = call[k].pc /\ c.writes = call[k].writes
  BY <1>t, <1>c DEF Calls
<1> HIDE DEF c
<1>2. /\ r \in Calls /\ r.pc = "redirection_send" /\ r.changed = changed /\ r.task = t
      /\ r.writes = call[k].writes
  BY <1>1 DEF Calls, Pcs
<1>3. LET x == Exit(c)
      IN  /\ x \in Calls /\ x.pc = "idle" /\ x.ending = "ok" /\ x.changed = changed
          /\ x.task = t /\ x.writes = call[k].writes /\ x.seen = enabled
  BY <1>1 DEF Calls, Pcs, Endings, Exit
<1>4. CallInv(c, Service, order, settings, oneShot)
  BY <1>t, <1>1 DEF CallInv, Local, Belongs, Counted, Converged, Sees, BeforeWrite,
     Decided
<1>5. CallInv(f, Service, order, settings, oneShot)
  BY <1>t, <1>1, <1>4, Failing DEF Endings, BeforeWrite
<1> HIDE DEF r, f
<1>7. ASSUME changed, ~t.check
      PROVE  CallInv(r, Service, order, settings, oneShot)
  BY <1>t, <1>c, <1>2, <1>7, Continues
<1>8. ASSUME ~changed \/ t.check
      PROVE  CallInv(Exit(c), Service, order, settings, oneShot)
  BY <1>t, <1>c, <1>3, <1>8, Concludes DEF BeforeWrite
<1>9. ASSUME Goes(k, f), UNCHANGED <<caps, fwVars>> PROVE EndpointInv'
  BY <1>5, <1>9, Alone
<1>10. ASSUME Goes(k, r), UNCHANGED <<caps, fwVars>>, changed, ~t.check
       PROVE  EndpointInv'
  BY <1>7, <1>10, Alone
<1>11. ASSUME Goes(k, Exit(c)), UNCHANGED <<caps, fwVars>>, ~changed \/ t.check
       PROVE  EndpointInv'
  BY <1>8, <1>11, Alone
<1> QED BY <1>t, <1>6, <1>9, <1>10, <1>11, ReadFailsStep

LEMMA RedirectionRereadStep ==
    ASSUME EndpointInv, NEW k \in Callers, RedirectionReread(k) PROVE EndpointInv'
<1>t. /\ call[k].pc = "redirection_reread" /\ call[k] \in Calls
      /\ enabled \in EnabledStates
      /\ CallInv(call[k], Service, order, settings, oneShot)
  BY DEF RedirectionReread, At, EndpointInv, EndpointOK, CallInv
<1> DEFINE c == [call[k] EXCEPT !.seen = enabled]
<1>0. (Goes(k, Exit(c)) /\ UNCHANGED <<caps, fwVars>>) \/ ReadFails(k)
  BY DEF RedirectionReread
<1>1. /\ c \in Calls /\ c.changed = call[k].changed /\ c.seen = enabled
      /\ c.task = call[k].task /\ c.writes = call[k].writes
      /\ c.disturbed = call[k].disturbed
  BY <1>t DEF Calls
<1> HIDE DEF c
<1>2. LET x == Exit(c)
      IN  /\ x \in Calls /\ x.pc = "idle" /\ x.ending = "ok"
          /\ x.changed = call[k].changed /\ x.task = call[k].task
          /\ x.writes = call[k].writes /\ x.disturbed = call[k].disturbed
          /\ x.seen = enabled
  BY <1>1 DEF Calls, Pcs, Endings, Exit
<1>s. Service.enabled = enabled
  BY DEF Service
<1>3. CallInv(Exit(c), Service, order, settings, oneShot)
  BY <1>t, <1>s, <1>2, Finishes
<1>4. ASSUME Goes(k, Exit(c)), UNCHANGED <<caps, fwVars>> PROVE EndpointInv'
  BY <1>3, <1>4, Alone
<1> QED BY <1>t, <1>0, <1>4, ReadFailsStep

LEMMA DiscoverStep ==
    ASSUME EndpointInv, NEW k \in Callers, Discover(k) PROVE EndpointInv'
<1>t. /\ call[k].pc = "boot_discover" /\ call[k] \in Calls /\ Local(call[k])
      /\ CallInv(call[k], Service, order, settings, oneShot)
  BY DEF Discover, At, EndpointInv, CallInv
<1> DEFINE g == [call[k] EXCEPT !.pc = "boot_get"]
<1>0. \/ /\ Goes(k, IF Bootable(call[k].task.want) THEN g
                    ELSE FailWith(call[k], "unsupported_capability"))
         /\ UNCHANGED <<caps, fwVars>>
      \/ /\ Goes(k, FailWith(call[k], "invalid_state"))
         /\ UNCHANGED <<caps, fwVars>>
      \/ ReadFails(k)
  BY DEF Discover
<1>1. /\ g \in Calls /\ g.pc = "boot_get" /\ g.task = call[k].task
      /\ g.writes = call[k].writes
  BY <1>t DEF Calls, Pcs
<1> HIDE DEF g
<1>2. CallInv(g, Service, order, settings, oneShot)
  BY <1>t, <1>1, Continues
<1>3. \A cls \in {"unsupported_capability", "invalid_state"} :
         CallInv(FailWith(call[k], cls), Service, order, settings, oneShot)
  BY <1>t, Failing DEF Endings, BeforeWrite
<1>4. ASSUME Goes(k, g), UNCHANGED <<caps, fwVars>> PROVE EndpointInv'
  BY <1>2, <1>4, Alone
<1>5. ASSUME NEW cls \in {"unsupported_capability", "invalid_state"},
             Goes(k, FailWith(call[k], cls)), UNCHANGED <<caps, fwVars>>
      PROVE  EndpointInv'
  BY <1>3, <1>5, Alone
<1> QED BY <1>t, <1>0, <1>4, <1>5, ReadFailsStep

LEMMA GetBootSettingDataStep ==
    ASSUME EndpointInv, NEW k \in Callers, GetBootSettingData(k) PROVE EndpointInv'
<1>t. /\ call[k].pc = "boot_get" /\ call[k] \in Calls /\ Local(call[k])
      /\ call[k].task \in Tasks \cup {NoTask}
      /\ call[k].task.module = "amt_boot"
  BY DEF GetBootSettingData, At, EndpointInv, CallInv, Calls, Local, Belongs
<1>w. call[k].task.want \notin {"none", "query"}
  BY <1>t, TaskTypes DEF BootTargets
<1> DEFINE c == [call[k] EXCEPT !.changed = TRUE]
           r == [c EXCEPT !.pc = "boot_clear"]
<1>1. /\ c \in Calls /\ c.changed = TRUE /\ c.task = call[k].task
      /\ c.writes = call[k].writes
  BY <1>t DEF Calls
<1>0. \/ /\ Goes(k, IF call[k].task.check THEN Exit(c) ELSE r)
         /\ UNCHANGED <<caps, fwVars>>
      \/ ReadFails(k)
  BY <1>1 DEF GetBootSettingData
<1> HIDE DEF c
<1>2. /\ r \in Calls /\ r.pc = "boot_clear" /\ r.changed = TRUE
      /\ r.task = call[k].task /\ r.writes = call[k].writes
  BY <1>1 DEF Calls, Pcs
<1>3. LET x == Exit(c)
      IN  /\ x \in Calls /\ x.pc = "idle" /\ x.ending = "ok" /\ x.changed = TRUE
          /\ x.task = call[k].task /\ x.writes = call[k].writes
  BY <1>1 DEF Calls, Pcs, Endings, Exit
<1> HIDE DEF r
<1>4. ASSUME ~call[k].task.check
      PROVE  CallInv(r, Service, order, settings, oneShot)
  BY <1>t, <1>w, <1>2, <1>4, Continues
<1>5. ASSUME call[k].task.check
      PROVE  CallInv(Exit(c), Service, order, settings, oneShot)
  BY <1>t, <1>3, <1>5, Concludes DEF BeforeWrite
<1>6. ASSUME Goes(k, r), UNCHANGED <<caps, fwVars>>, ~call[k].task.check
      PROVE  EndpointInv'
  BY <1>4, <1>6, Alone
<1>7. ASSUME Goes(k, Exit(c)), UNCHANGED <<caps, fwVars>>, call[k].task.check
      PROVE  EndpointInv'
  BY <1>5, <1>7, Alone
<1> QED BY <1>t, <1>0, <1>6, <1>7, ReadFailsStep

LEMMA VerifyBootSettingDataStep ==
    ASSUME EndpointInv, NEW k \in Callers, VerifyBootSettingData(k) PROVE EndpointInv'
<1>t. /\ call[k].pc = "boot_verify" /\ call[k] \in Calls
      /\ CallInv(call[k], Service, order, settings, oneShot)
  BY DEF VerifyBootSettingData, At, EndpointInv, CallInv
<1>1. LET x == Exit(call[k])
      IN  /\ x \in Calls /\ x.pc = "idle" /\ x.ending = "ok"
          /\ x.changed = call[k].changed /\ x.task = call[k].task
          /\ x.writes = call[k].writes /\ x.disturbed = call[k].disturbed
  BY <1>t DEF Calls, Pcs, Endings, Exit
<1>2. CallInv(Exit(call[k]), Service, order, settings, oneShot)
  BY <1>t, <1>1, Finishes
<1>3. ASSUME Goes(k, Exit(call[k])), UNCHANGED <<caps, fwVars>> PROVE EndpointInv'
  BY <1>2, <1>3, Alone
<1> QED BY <1>t, <1>3, ReadFailsStep DEF VerifyBootSettingData

\* The host makes a transition: an invocation of amt_boot is disturbed when the
\* transition starts it.
LEMMA GotoStep ==
    ASSUME EndpointInv, NEW a \in PowerActions, Goto(a),
           pending' \in PowerActions \cup {"none"},
           UNCHANGED <<caps, enabled, requested, order, settings>>
    PROVE  EndpointInv'
<1>1. power' \in PowerStates
  BY DEF Goto, Asked, ExpectedState, Off, PowerActions, PowerStates, EndpointInv,
     EndpointOK
<1>s. Service' = Service
  BY DEF Service
<1>2. Boots \/ UNCHANGED <<oneShot, call>>
  BY DEF Goto
<1>3. CASE UNCHANGED <<oneShot, call>>
  BY <1>1, <1>s, <1>3 DEF EndpointInv, EndpointOK
<1>4. CASE Boots
  <2>1. EndpointOK'
    BY <1>1, <1>4 DEF Boots, EndpointInv, EndpointOK
  <2>2. \A j \in Callers : CallInv(call'[j], Service', order', settings', oneShot')
    <3> TAKE j \in Callers
    <3>0. CallInv(call[j], Service, order, settings, oneShot)
      BY DEF EndpointInv
    <3>1. CASE call[j].task.module = "amt_boot"
      <4>1. call'[j] = [call[j] EXCEPT !.disturbed = TRUE]
        BY <1>4, <3>1 DEF Boots
      <4> QED BY <3>0, <4>1, Disturbed
    <3>2. CASE call[j].task.module # "amt_boot"
      <4>1. call'[j] = call[j]
        BY <1>4, <3>2 DEF Boots
      <4>2. CallInv(call[j], Service', order', settings', oneShot')
        BY <1>s, <3>0, <3>2, Unaffected
      <4> QED BY <4>1, <4>2
    <3> QED BY <3>1, <3>2
  <2>3. call' \in [Callers -> Calls]
    <3>1. \A j \in Callers : call'[j] \in Calls
      BY <2>2 DEF CallInv
    <3> QED BY <1>4, <3>1 DEF Boots
  <2> QED BY <2>1, <2>2, <2>3 DEF EndpointInv
<1> QED BY <1>2, <1>3, <1>4

\* What was due comes into force, for every invocation that waits for it.
LEMMA SwitchStep ==
    ASSUME EndpointInv, Switch PROVE EndpointInv'
<1>1. /\ Service.requested = requested /\ Service.enabled = enabled
      /\ Service'.requested = "none" /\ Service'.enabled = requested
      /\ requested # "none"
  BY DEF Switch, Service
<1>2. EndpointOK'
  BY DEF Switch, EndpointInv, EndpointOK, EnabledStates
<1>3. ASSUME NEW j \in Callers
      PROVE  CallInv(call'[j], Service', order', settings', oneShot')
  <2>1. CallInv(call[j], Service, order, settings, oneShot)
    BY DEF EndpointInv
  <2>2. UNCHANGED <<call, order, settings, oneShot>>
    BY DEF Switch
  <2>3. \A w : Due(Service, w) => Due(Service', w) /\ Service'.enabled = w
    BY <1>1 DEF Due
  <2> HIDE DEF Service
  <2>4. Sees(call[j], Service', order, settings, oneShot)
    BY <2>1, <2>3 DEF CallInv, Sees
  <2> QED BY <2>1, <2>2, <2>4 DEF CallInv
<1> QED BY <1>2, <1>3 DEF Switch, EndpointInv

LEMMA EndpointStep == EndpointInv /\ [Next]_vars => EndpointInv'
<1> SUFFICES ASSUME EndpointInv, [Next]_vars PROVE EndpointInv'
  OBVIOUS
<1>1. CASE UNCHANGED vars
  <2>1. Service' = Service
    BY <1>1 DEF vars, fwVars, Service
  <2> QED BY <1>1, <2>1 DEF vars, fwVars, EndpointInv, EndpointOK
<1>2. ASSUME NEW k \in Callers, NEW t \in Tasks, Invoke(k, t) PROVE EndpointInv'
  BY <1>2, InvokeStep
<1>3. ASSUME NEW k \in Callers, Step(k) PROVE EndpointInv'
  BY <1>3, PowerReadStep, PowerRereadStep, PowerSendStep, PollStep,
     RedirectionReadStep, RequestStateChangeStep, RedirectionRereadStep,
     DiscoverStep, GetBootSettingDataStep, ClearBootOrderStep,
     PutBootSettingDataStep, SetBootConfigRoleStep, SetBootOrderStep,
     VerifyBootSettingDataStep DEF Step
<1>4. CASE Settle
  <2>1. pending \in PowerActions
    BY <1>4 DEF Settle, EndpointInv, EndpointOK
  <2> QED BY <1>4, <2>1, GotoStep DEF Settle
<1>5. CASE PowerButton
  <2>1. PICK a \in {"on", "off", "sleep-light"} : Goto(a)
    BY <1>5 DEF PowerButton
  <2>2. a \in PowerActions /\ pending' \in PowerActions \cup {"none"}
    BY <1>5 DEF PowerButton, PowerActions, EndpointInv, EndpointOK
  <2> QED BY <1>5, <2>1, <2>2, GotoStep DEF PowerButton
<1>6. CASE Cycles
  <2>1. Service' = Service
    BY <1>6 DEF Cycles, Service
  <2> QED BY <1>6, <2>1 DEF Cycles, Cycling, PowerStates, EndpointInv, EndpointOK
<1>7. CASE Switch
  BY <1>7, SwitchStep
<1> QED BY <1>1, <1>2, <1>3, <1>4, <1>5, <1>6, <1>7 DEF Next

LEMMA EndpointInvariant == Spec => []EndpointInv
  BY InitEndpoint, EndpointStep, PTL DEF Spec

---------------------------------------------------------------------------
(***************************************************************************)
(* The results.                                                            *)
(***************************************************************************)
\* Every state of the endpoint and of its invocations is well-typed.
THEOREM TypeCorrect == Spec => []TypeOK
<1>1. EndpointInv => TypeOK
  BY DEF EndpointInv, EndpointOK, TypeOK
<1> QED BY <1>1, EndpointInvariant, PTL

\* `changed`, check mode and the class of a failure tell the truth about what
\* an invocation wrote, whoever else is at work on the endpoint.
THEOREM LedgersMatch == Spec => []LedgerMatches
<1>1. EndpointInv => LedgerMatches
  BY DEF EndpointInv, CallInv, Local, Settled, LedgerMatches, Ended
<1> QED BY <1>1, EndpointInvariant, PTL

\* For any number of invocations: "no change" of amt_power is never said of a host
\* settled in a state that was not asked for, and after a change reported by
\* amt_redirection its state is in force, or accepted and due, until somebody asks
\* for another.
THEOREM ReceiptsAreReal == Spec => []ReceiptIsReal
<1>1. EndpointInv => ReceiptIsReal
  BY DEF EndpointInv, CallInv, Local, Converged, Sees, Due, Service, ReceiptIsReal,
     Ok, Ended
<1> QED BY <1>1, EndpointInvariant, PTL

\* After arm_one_time_boot has succeeded the next start of the host is the one
\* asked for, until it starts or another invocation writes.
THEOREM ArmsAsPlanned == Spec => []ArmedAsPlanned
<1>1. EndpointInv => ArmedAsPlanned
  BY DEF EndpointInv, CallInv, Sees, ArmedAsPlanned, Ok, Ended
<1> QED BY <1>1, EndpointInvariant, PTL
=============================================================================
