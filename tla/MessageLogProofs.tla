-------------------------- MODULE MessageLogProofs --------------------------
(***************************************************************************)
(* Proofs about MessageLog, for every log, every event set and every bound *)
(* max_records.                                                            *)
(***************************************************************************)
EXTENDS MessageLog, TLAPS, SequenceTheorems, FiniteSetTheorems

---------------------------------------------------------------------------
(***************************************************************************)
(* The log is a sequence of slots and stays one.                           *)
(***************************************************************************)
Slot == Event \cup {Empty}

LEMMA EmptiedLog ==
    ASSUME NEW s \in Seq(Slot)
    PROVE  [i \in 1 .. Len(s) |-> Empty] \in Seq(Slot)
BY LenProperties, IsASeq DEF Slot

\* What LogEvent does with a freed slot: every record moves up by at most one.
LEMMA ShiftedLog ==
    ASSUME NEW s \in Seq(Slot), NEW e \in Event, NEW free \in 1 .. Len(s),
           NEW t, t = [i \in 1 .. Len(s) |-> CASE i = 1 -> e
                                            [] i > 1 /\ i <= free -> s[i - 1]
                                            [] OTHER -> s[i]]
    PROVE  /\ t \in Seq(Slot)
           /\ Len(t) = Len(s)
           /\ \A i \in 1 .. Len(s) : i < free => t[i + 1] = s[i]
           /\ \A i \in 1 .. Len(s) : i > free => t[i] = s[i]
<1> Len(s) \in Nat
  BY LenProperties
<1>1. ASSUME NEW i \in 1 .. Len(s)
      PROVE  (CASE i = 1 -> e [] i > 1 /\ i <= free -> s[i - 1] [] OTHER -> s[i]) \in Slot
  <2>1. CASE i = 1
    BY <2>1 DEF Slot
  <2>2. CASE i > 1 /\ i <= free
    BY <2>2, i - 1 \in 1 .. Len(s), ElementOfSeq
  <2>3. CASE i > free /\ i # 1
    BY <2>3, ElementOfSeq
  <2> QED
    BY <2>1, <2>2, <2>3
<1>2. t \in Seq(Slot)
  BY <1>1, IsASeq
<1>3. Len(t) = Len(s)
  BY <1>2, LenProperties
<1> QED
  BY <1>2, <1>3

LEMMA LongerLog ==
    ASSUME NEW s \in Seq(Slot), NEW e \in Event
    PROVE  /\ <<e>> \o s \in Seq(Slot)
           /\ Len(<<e>> \o s) = Len(s) + 1
           /\ \A i \in 1 .. Len(s) : (<<e>> \o s)[i + 1] = s[i]
BY DEF Slot

LEMMA CountIsNatural ==
    ASSUME log \in Seq(Slot)
    PROVE  CurrentNumberOfRecords \in Nat
<1> Len(log) \in Nat
  BY LenProperties
<1>1. IsFiniteSet(Slots)
  BY FS_Interval DEF Slots
<1>2. IsFiniteSet({i \in Slots : log[i] # Empty})
  BY <1>1, FS_Subset
<1> QED
  BY <1>2, FS_CardinalityType DEF CurrentNumberOfRecords

\* Only three kinds of step touch the log.
LEMMA LogChanges ==
    ASSUME [Next]_vars
    PROVE  UNCHANGED log \/ Wipe \/ \E e \in Event : LogEvent(e)
<1>1. CASE StartRead
  BY <1>1 DEF StartRead, firmware
<1>2. ASSUME NEW confirm \in BOOLEAN, NEW check \in BOOLEAN,
             StartClear(confirm, check)
      PROVE  UNCHANGED log
  BY <1>2 DEF StartClear, firmware
<1>3. CASE NextTask
  BY <1>3 DEF NextTask
<1>4. CASE ModuleStep
  BY <1>4 DEF ModuleStep, RequestFails, Properties, GetProperties, GetDegrades,
              PositionToFirstRecord, Loop, NoRecords, GetRecords,
              NothingServed, ClearLog, ClearRefused, ClearUnanswered, firmware
<1>5. CASE ForeignClear
  BY <1>5 DEF ForeignClear
<1>6. CASE UNCHANGED vars
  BY <1>6 DEF vars
<1> QED
  BY <1>1, <1>2, <1>3, <1>4, <1>5, <1>6 DEF Next

LogInv == log \in Seq(Slot)

LEMMA LogInit == Init => LogInv
BY ConstantsAssumption DEF Init, LogInv, Slot

LEMMA LogStep == LogInv /\ [Next]_vars => LogInv'
<1> SUFFICES ASSUME LogInv, [Next]_vars PROVE LogInv'
  OBVIOUS
<1>1. CASE UNCHANGED log
  BY <1>1 DEF LogInv
<1>2. CASE Wipe
  <2>1. <<>> \in Seq(Slot)
    OBVIOUS
  <2>2. [i \in Slots |-> Empty] \in Seq(Slot)
    BY EmptiedLog DEF LogInv, Slots
  <2>3. log' = <<>> \/ log' = [i \in Slots |-> Empty]
    BY <1>2 DEF Wipe
  <2> QED
    BY <2>1, <2>2, <2>3 DEF LogInv
<1>3. ASSUME NEW e \in Event, LogEvent(e) PROVE LogInv'
  <2>1. CASE \E free \in Slots :
               log' = [i \in Slots |-> CASE i = 1 -> e
                                         [] i > 1 /\ i <= free -> log[i - 1]
                                         [] OTHER -> log[i]]
    BY <2>1, ShiftedLog DEF LogInv, Slots
  <2>2. CASE log' = <<e>> \o log
    BY <2>2, LongerLog DEF LogInv
  <2> QED
    BY <1>3, <2>1, <2>2 DEF LogEvent
<1> QED
  BY <1>1, <1>2, <1>3, LogChanges

---------------------------------------------------------------------------
(***************************************************************************)
(* amt_log_clear's verdict.                                                *)
(***************************************************************************)
\* The verdict holds all along: a run under way has cleared nothing it has not
\* destroyed, and no run is in "clear" that may not be there.
VerdictInv ==
    /\ pc \in Pcs
    /\ purpose \in {"read", "clear", "recheck"}
    /\ outcome = "none" <=> pc # "done"
    /\ outcome \in {"none", "ok", "failed"}
    /\ cleared \in BOOLEAN /\ destroyed \in BOOLEAN
    /\ cleared => destroyed
    /\ destroyed => standing = {} /\ asked.confirm /\ ~asked.check /\ before # 0
    /\ (destroyed /\ ~cleared) => outcome = "failed"
    /\ pc = "idle" => ~destroyed
    /\ (purpose = "recheck") => cleared
    /\ pc \in {"position", "loop", "batch"} => purpose = "read"
    /\ pc = "clear" => purpose = "clear" /\ asked.confirm /\ ~asked.check /\ before # 0
    /\ (purpose = "clear" /\ pc \in {"get", "enumerate"}) => asked.confirm /\ ~destroyed
    /\ purpose = "read" => ~destroyed
    /\ pc = "clear" => ~destroyed
    /\ ClearConverges

LEMMA VerdictInit == Init => VerdictInv
BY DEF Init, VerdictInv, Pcs, ClearConverges

LEMMA VerdictStep == LogInv /\ VerdictInv /\ [Next]_vars => VerdictInv'
<1> SUFFICES ASSUME LogInv, VerdictInv, [Next]_vars PROVE VerdictInv'
  OBVIOUS
<1> USE DEF VerdictInv, Pcs, ClearConverges
<1>1. CASE StartRead
  BY <1>1 DEF StartRead, firmware, reader, clearer
<1>2. ASSUME NEW confirm \in BOOLEAN, NEW check \in BOOLEAN,
             StartClear(confirm, check)
      PROVE  VerdictInv'
  BY <1>2 DEF StartClear, fail_json, firmware, reader
<1>3. CASE NextTask
  BY <1>3 DEF NextTask
<1>4. CASE RequestFails
  BY <1>4 DEF RequestFails, fail_json, firmware, reader, clearer
<1>5. CASE Properties
  <2> PICK n \in {Unreported, CurrentNumberOfRecords} : GetProperties(n)
    BY <1>5 DEF Properties
  <2> pc \in {"get", "enumerate"}
    BY <1>5 DEF Properties
  <2>1. CASE purpose = "read"
    BY <2>1 DEF GetProperties, reader
  <2>2. CASE purpose = "clear" /\ plan(n) /\ ~asked.check
    BY <2>2 DEF GetProperties, reader, plan, Unreported
  <2>3. CASE purpose = "clear" /\ ~(plan(n) /\ ~asked.check)
    <3>1. ~plan(n) => n = 0
      BY CountIsNatural DEF LogInv, plan, Unreported
    <3> QED
      BY <2>3, <3>1 DEF GetProperties, reader, exit_json
  <2>4. CASE purpose = "recheck"
    BY <2>4 DEF GetProperties, reader, exit_json
  <2> QED
    BY <2>1, <2>2, <2>3, <2>4
<1>6. CASE GetDegrades
  BY <1>6 DEF GetDegrades, firmware, reader, clearer
<1>7. CASE PositionToFirstRecord \/ Loop \/ NoRecords \/ GetRecords \/ NothingServed
  <2>1. /\ pc' \in {"loop", "batch", "done"}
        /\ pc' = "done" => outcome' = "ok"
        /\ pc' # "done" => outcome' = outcome
    BY <1>7 DEF PositionToFirstRecord, Loop, NoRecords, GetRecords,
                NothingServed, Advance, Stop, exit_json
  <2>2. UNCHANGED <<purpose, standing, clearer>> /\ purpose = "read" /\ pc # "done"
    BY <1>7 DEF PositionToFirstRecord, Loop, NoRecords, GetRecords,
                NothingServed, firmware
  <2> QED
    BY <2>1, <2>2 DEF clearer
<1>8. CASE ClearLog
  BY <1>8 DEF ClearLog, Wipe, reader
<1>9. CASE ClearRefused
  BY <1>9 DEF ClearRefused, fail_json, firmware, reader, clearer
<1>10. CASE ClearUnanswered
  BY <1>10 DEF ClearUnanswered, Wipe, fail_json, reader
<1>11. ASSUME NEW e \in Event, LogEvent(e) PROVE VerdictInv'
  BY <1>11 DEF LogEvent, reader, clearer
<1>12. CASE ForeignClear
  BY <1>12 DEF ForeignClear, Wipe, reader, clearer
<1>13. CASE UNCHANGED vars
  BY <1>13 DEF vars
<1> QED
  BY <1>1, <1>2, <1>3, <1>4, <1>5, <1>6, <1>7, <1>8, <1>9, <1>10, <1>11,
     <1>12, <1>13 DEF Next, ModuleStep

\* amt_log_clear tells the truth about what it destroyed, whatever the firmware
\* answers and whoever else uses the log.
THEOREM ClearTellsTheTruth == Spec => []ClearVerdict
<1>1. VerdictInv => ClearVerdict
  BY DEF VerdictInv, ClearVerdict
<1> QED
  BY LogInit, LogStep, VerdictInit, VerdictStep, <1>1, PTL DEF Spec

\* amt_log_clear succeeds only when the records it counted are gone or there
\* was nothing to send.
THEOREM ClearIsConvergent == Spec => []ClearConverges
<1>1. VerdictInv => ClearConverges
  BY DEF VerdictInv
<1> QED
  BY LogInit, LogStep, VerdictInit, VerdictStep, <1>1, PTL DEF Spec
---------------------------------------------------------------------------
(***************************************************************************)
(* A complete read is whole.                                               *)
(***************************************************************************)
\* Every event that has stood since the iteration began has been read, or still
\* lies at or beyond the identifier: logging shifts records away from the
\* front, never behind the iteration.
Ahead ==
    \A e \in standing :
        e \in records \/ \E i \in Slots : i >= identifier /\ log[i] = e

Reading == pc \in {"position", "loop", "batch"}

\* Once the budget is used up Ahead may fail, for the batch that used it up may
\* have been cut; the read then ends as truncated.
ReadInv ==
    /\ pc \in Pcs
    /\ purpose \in {"read", "clear", "recheck"}
    /\ consumed \in Nat /\ consumed <= max_records
    /\ identifier \in Nat \ {0}
    /\ pc \in {"idle", "get", "enumerate", "position", "clear"} =>
           identifier = 1 /\ consumed = 0
    /\ pc = "batch" => consumed < max_records
    /\ outcome = "ok" => pc = "done"
    /\ Empty \notin standing
    /\ (Reading /\ consumed < max_records) => Ahead
    /\ CompleteIsWhole

LEMMA ReadInit == Init => ReadInv
BY ConstantsAssumption DEF Init, ReadInv, Reading, Pcs, CompleteIsWhole

\* What Keep takes of a batch: nothing beyond the budget, and all of a batch
\* that fits.
LEMMA KeepTakes ==
    ASSUME LogInv, identifier \in Nat \ {0}, NEW last \in identifier .. Len(log),
           consumed \in Nat, max_records \in Nat, consumed < max_records,
           NEW batch, batch = SubSeq(log, identifier, last), Keep(batch)
    PROVE  /\ consumed' \in Nat /\ consumed' <= max_records
           /\ consumed' < max_records => Len(batch) <= remaining
           /\ records \subseteq records'
           /\ Len(batch) <= remaining =>
                  \A i \in identifier .. last : log[i] # Empty => log[i] \in records'
<1> DEFINE taken == SubSeq(batch, 1, Smaller(Len(batch), remaining))
<1> Len(log) \in Nat /\ last \in Nat
  BY LenProperties DEF LogInv
<1>1. /\ batch \in Seq(Slot)
      /\ Len(batch) = last - identifier + 1
      /\ \A i \in 1 .. Len(batch) : batch[i] = log[identifier + i - 1]
  BY SubSeqProperties DEF LogInv
<1>2. remaining \in Nat \ {0} /\ remaining = max_records - consumed
  BY DEF remaining
<1>3. /\ Smaller(Len(batch), remaining) \in Nat \ {0}
      /\ Smaller(Len(batch), remaining) <= Len(batch)
      /\ Smaller(Len(batch), remaining) <= remaining
      /\ Len(batch) > remaining => Smaller(Len(batch), remaining) = remaining
      /\ Len(batch) <= remaining => Smaller(Len(batch), remaining) = Len(batch)
  BY <1>1, <1>2 DEF Smaller
<1>4. /\ taken \in Seq(Slot)
      /\ Len(taken) = Smaller(Len(batch), remaining)
      /\ \A i \in 1 .. Len(taken) : taken[i] = batch[i]
  BY <1>1, <1>3, SubSeqProperties
<1>5. consumed' = consumed + Len(taken) /\ records' = records \cup Events(taken)
  BY DEF Keep
<1>6. ASSUME Len(batch) <= remaining, NEW i \in identifier .. last, log[i] # Empty
      PROVE  log[i] \in records'
  <2> DEFINE k == i - identifier + 1
  <2>1. k \in 1 .. Len(batch) /\ identifier + k - 1 = i
    BY <1>1
  <2>2. k \in DOMAIN taken /\ taken[k] = log[i]
    BY <1>1, <1>3, <1>4, <1>6, <2>1, LenProperties
  <2> QED
    BY <1>5, <1>6, <2>2 DEF Events
<1>7. consumed' \in Nat /\ consumed' <= max_records
  BY <1>2, <1>3, <1>4, <1>5
<1>8. consumed' < max_records => Len(batch) <= remaining
  BY <1>1, <1>2, <1>3, <1>4, <1>5
<1> HIDE DEF taken
<1> QED
  BY <1>5, <1>6, <1>7, <1>8

\* Events logged meanwhile leave every standing event ahead of the iteration.
LEMMA AheadOfEvent ==
    ASSUME LogInv, identifier \in Nat, Empty \notin standing, Ahead, NEW e \in Event, LogEvent(e)
    PROVE  Ahead'
<1> Len(log) \in Nat
  BY LenProperties DEF LogInv
<1> UNCHANGED <<standing, records, identifier>>
  BY DEF LogEvent, reader
<1> SUFFICES ASSUME NEW x \in standing, NEW i \in 1 .. Len(log), i >= identifier,
                    log[i] = x
             PROVE  \E j \in 1 .. Len(log') : j >= identifier /\ log'[j] = x
  BY DEF Ahead, Slots
<1>1. ASSUME NEW free \in Slots, log[free] = Empty,
             log' = [k \in Slots |-> CASE k = 1 -> e
                                       [] k > 1 /\ k <= free -> log[k - 1]
                                       [] OTHER -> log[k]]
      PROVE  \E j \in 1 .. Len(log') : j >= identifier /\ log'[j] = x
  <2>1. /\ Len(log') = Len(log)
        /\ \A k \in 1 .. Len(log) : k < free => log'[k + 1] = log[k]
        /\ \A k \in 1 .. Len(log) : k > free => log'[k] = log[k]
    BY <1>1, ShiftedLog DEF LogInv, Slots
  <2>2. i # free /\ free \in 1 .. Len(log)
    BY <1>1 DEF Slots
  <2>3. CASE i < free
    BY <2>1, <2>2, <2>3, i + 1 \in 1 .. Len(log)
  <2>4. CASE i > free
    BY <2>1, <2>2, <2>4
  <2> QED
    BY <2>2, <2>3, <2>4
<1>2. CASE log' = <<e>> \o log
  <2>1. i + 1 \in 1 .. Len(log') /\ log'[i + 1] = x
    BY <1>2, LongerLog DEF LogInv
  <2> QED
    BY <2>1
<1> QED
  BY <1>1, <1>2 DEF LogEvent
LEMMA ReadStep == LogInv /\ ReadInv /\ [Next]_vars => ReadInv'
<1> SUFFICES ASSUME LogInv, ReadInv, [Next]_vars PROVE ReadInv'
  OBVIOUS
<1> max_records \in Nat \ {0}
  BY ConstantsAssumption
<1> USE DEF ReadInv, Reading, Pcs
<1>1. CASE StartRead
  BY <1>1 DEF StartRead, firmware, reader, clearer, CompleteIsWhole
<1>2. ASSUME NEW confirm \in BOOLEAN, NEW check \in BOOLEAN,
             StartClear(confirm, check)
      PROVE  ReadInv'
  BY <1>2 DEF StartClear, fail_json, firmware, reader, CompleteIsWhole
<1>3. CASE NextTask
  BY <1>3 DEF NextTask, CompleteIsWhole
<1>4. CASE RequestFails
  BY <1>4 DEF RequestFails, fail_json, firmware, reader, clearer, CompleteIsWhole
<1>5. CASE Properties
  <2> PICK n \in {Unreported, CurrentNumberOfRecords} : GetProperties(n)
    BY <1>5 DEF Properties
  <2> pc \in {"get", "enumerate"} /\ identifier = 1 /\ consumed = 0
    BY <1>5 DEF Properties
  <2> UNCHANGED <<log, purpose, reader>>
    BY DEF GetProperties
  <2>1. CASE purpose = "read"
    <3>1. standing' = Events(log) /\ pc' = "position" /\ UNCHANGED outcome
      BY <2>1 DEF GetProperties
    <3>2. Ahead'
      BY <3>1, LenProperties DEF Ahead, Events, Slots, LogInv, reader
    <3> QED
      BY <3>1, <3>2 DEF Events, reader, CompleteIsWhole
  <2>2. CASE purpose = "clear"
    <3>1. standing' = Events(log) /\ pc' \in {"clear", "done"}
      BY <2>2 DEF GetProperties, exit_json
    <3>2. outcome' = "ok" => pc' = "done"
      BY <2>2 DEF GetProperties, exit_json
    <3> QED
      BY <2>2, <3>1, <3>2 DEF Events, reader, CompleteIsWhole
  <2>3. CASE purpose = "recheck"
    BY <2>3 DEF GetProperties, reader, exit_json, CompleteIsWhole
  <2> QED
    BY <2>1, <2>2, <2>3 DEF GetProperties
<1>6. CASE GetDegrades
  BY <1>6 DEF GetDegrades, firmware, reader, clearer, CompleteIsWhole
<1>7. CASE PositionToFirstRecord
  <2>1. UNCHANGED <<log, standing, records, consumed, purpose>>
    BY <1>7 DEF PositionToFirstRecord, firmware
  <2>2. Ahead /\ identifier = 1 /\ consumed = 0
    BY <1>7 DEF PositionToFirstRecord
  <2>3. CASE /\ Events(log) = {}
             /\ Stop("no_record_exists")
             /\ UNCHANGED identifier
    <3>1. standing \subseteq records
      BY <2>2, <2>3 DEF Ahead, Events, Slots, LogInv
    <3> QED
      BY <2>1, <2>2, <2>3, <3>1 DEF Stop, exit_json, CompleteIsWhole
  <2>4. ASSUME NEW first \in 1 .. Len(log) + 1,
               \A i \in 1 .. first - 1 : log[i] = Empty,
               identifier' = first, pc' = "loop", UNCHANGED <<stop, outcome>>
        PROVE  ReadInv'
    <3>0. Len(log) \in Nat
      BY LenProperties DEF LogInv
    <3>1. ASSUME NEW i \in Slots, log[i] # Empty
          PROVE  i >= first
      BY <2>4, <3>0, <3>1 DEF Slots
    <3>2. Ahead'
      BY <2>1, <2>2, <2>4, <3>1 DEF Ahead, Slots
    <3> QED
      BY <1>7, <2>1, <2>2, <2>4, <3>0, <3>2 DEF PositionToFirstRecord, CompleteIsWhole
  <2> QED
    BY <1>7, <2>3, <2>4 DEF PositionToFirstRecord
<1>8. CASE Loop
  <2>1. UNCHANGED <<log, standing, identifier, records, consumed>>
    BY <1>8 DEF Loop, firmware
  <2>2. Ahead => Ahead'
    BY <2>1 DEF Ahead, Slots
  <2>3. CASE consumed >= max_records
    BY <1>8, <2>1, <2>3 DEF Loop, Stop, exit_json, CompleteIsWhole, complete,
       CompleteStops
  <2>4. CASE consumed < max_records
    BY <1>8, <2>1, <2>2, <2>4 DEF Loop, CompleteIsWhole
  <2> QED
    BY <2>3, <2>4
<1>9. CASE NoRecords
  <2>1. UNCHANGED <<log, standing, identifier, records, consumed>> /\ Ahead
    BY <1>9 DEF NoRecords, firmware
  <2>2. standing \subseteq records
    BY <1>9, <2>1, LenProperties DEF NoRecords, Ahead, Slots, LogInv
  <2> QED
    BY <1>9, <2>1, <2>2 DEF NoRecords, Stop, exit_json, CompleteIsWhole
<1>10. CASE GetRecords
  <2>1. UNCHANGED <<log, standing, purpose>> /\ Ahead /\ consumed < max_records
    BY <1>10 DEF GetRecords, firmware
  <2> PICK last \in identifier .. Len(log) :
          /\ Keep(SubSeq(log, identifier, last))
          /\ \/ /\ last = Len(log)
                /\ Stop("no_more_records")
                /\ cut' = (Len(SubSeq(log, identifier, last)) > remaining)
                /\ UNCHANGED identifier
             \/ /\ \E next \in 0 .. last + 1 : Advance(next)
                /\ UNCHANGED cut
    BY <1>10 DEF GetRecords
  <2> DEFINE batch == SubSeq(log, identifier, last)
  <2>2. /\ consumed' \in Nat /\ consumed' <= max_records
        /\ consumed' < max_records => Len(batch) <= remaining
        /\ records \subseteq records'
        /\ Len(batch) <= remaining =>
               \A i \in identifier .. last : log[i] # Empty => log[i] \in records'
    BY <2>1, KeepTakes
  <2> Len(log) \in Nat /\ Len(batch) \in Int /\ remaining \in Int
    BY LenProperties, SubSeqProperties DEF LogInv, remaining
  <2> HIDE DEF batch
  <2>3. ASSUME Len(batch) <= remaining, NEW e \in standing
        PROVE  e \in records' \/ \E i \in Slots : i >= last + 1 /\ log[i] = e
    <3>1. CASE e \in records
      BY <2>2, <3>1
    <3>2. CASE \E i \in Slots : i >= identifier /\ log[i] = e
      <4> PICK i \in Slots : i >= identifier /\ log[i] = e
        BY <3>2
      <4>1. CASE i <= last
        BY <2>2, <2>3, <4>1 DEF Slots
      <4>2. CASE i > last
        BY <4>2 DEF Slots
      <4> QED
        BY <4>1, <4>2 DEF Slots
    <3> QED
      BY <2>1, <3>1, <3>2 DEF Ahead
  <2>4. CASE /\ last = Len(log)
             /\ Stop("no_more_records")
             /\ cut' = (Len(batch) > remaining)
             /\ UNCHANGED identifier
    <3>1. ~cut' => standing \subseteq records'
      <4> SUFFICES ASSUME ~cut', NEW e \in standing PROVE e \in records'
        OBVIOUS
      <4>0. ~(Len(batch) > remaining)
        BY <2>4, Zenon
      <4>1. Len(batch) <= remaining
        BY <4>0
      <4>2. ~ \E i \in Slots : i >= last + 1
        BY <2>4 DEF Slots
      <4> QED
        BY <2>3, <4>1, <4>2
    <3> QED
      BY <2>1, <2>2, <2>4, <3>1 DEF Stop, exit_json, CompleteIsWhole
  <2>5. ASSUME NEW next \in 0 .. last + 1, Advance(next)
        PROVE  ReadInv'
    <3>1. CASE next = 0 \/ next = identifier
      <4>1. pc' = "done" /\ UNCHANGED identifier /\ ~complete'
        BY <2>5, <3>1 DEF Advance, Stop, exit_json, complete, CompleteStops
      <4> QED
        BY <2>1, <2>2, <4>1 DEF CompleteIsWhole
    <3>2. CASE next # 0 /\ next # identifier
      <4>1. /\ identifier' = next /\ next \in Nat \ {0}
            /\ pc' = "loop" /\ UNCHANGED outcome
        BY <2>5, <3>2 DEF Advance
      <4>2. consumed' < max_records => Ahead'
        BY <2>1, <2>2, <2>3, <4>1 DEF Ahead, Slots
      <4> QED
        BY <1>10, <2>1, <2>2, <4>1, <4>2 DEF GetRecords, CompleteIsWhole
    <3> QED
      BY <3>1, <3>2
  <2> QED
    BY <2>4, <2>5 DEF batch
<1>11. CASE NothingServed
  <2>1. UNCHANGED <<log, standing, records, consumed, cut, purpose>>
    BY <1>11 DEF NothingServed, firmware
  <2>2. PICK next \in 0 .. identifier : Advance(next)
    BY <1>11 DEF NothingServed
  <2>3. consumed < max_records /\ Ahead
    BY <1>11 DEF NothingServed
  <2>4. CASE next = 0 \/ next = identifier
    <3>1. pc' = "done" /\ UNCHANGED identifier /\ ~complete'
      BY <2>2, <2>4 DEF Advance, Stop, exit_json, complete, CompleteStops
    <3> QED
      BY <2>1, <3>1 DEF CompleteIsWhole
  <2>5. CASE next # 0 /\ next # identifier
    <3>1. /\ identifier' = next /\ next \in Nat \ {0} /\ next <= identifier
          /\ pc' = "loop" /\ UNCHANGED outcome
      BY <2>2, <2>5 DEF Advance
    <3>2. Len(log) \in Nat
      BY LenProperties DEF LogInv
    <3>3. Ahead'
      BY <2>1, <2>3, <3>1, <3>2 DEF Ahead, Slots
    <3> QED
      BY <1>11, <2>1, <2>3, <3>1, <3>3 DEF NothingServed, CompleteIsWhole
  <2> QED
    BY <2>4, <2>5
<1>12. CASE ClearLog
  BY <1>12 DEF ClearLog, Wipe, reader, CompleteIsWhole
<1>13. CASE ClearRefused
  BY <1>13 DEF ClearRefused, fail_json, firmware, reader, clearer, CompleteIsWhole
<1>14. CASE ClearUnanswered
  BY <1>14 DEF ClearUnanswered, Wipe, fail_json, reader, CompleteIsWhole
<1>15. ASSUME NEW e \in Event, LogEvent(e) PROVE ReadInv'
  <2>1. Ahead => Ahead'
    BY <1>15, AheadOfEvent
  <2> QED
    BY <1>15, <2>1 DEF LogEvent, reader, clearer, CompleteIsWhole, complete
<1>16. CASE ForeignClear
  <2>1. standing' = {}
    BY <1>16 DEF ForeignClear, Wipe
  <2> QED
    BY <1>16, <2>1 DEF ForeignClear, reader, clearer, CompleteIsWhole, Ahead
<1>17. CASE UNCHANGED vars
  BY <1>17 DEF vars, CompleteIsWhole, complete, Ahead, Slots
<1> QED
  BY <1>1, <1>2, <1>3, <1>4, <1>5, <1>6, <1>7, <1>8, <1>9, <1>10, <1>11, <1>12,
     <1>13, <1>14, <1>15, <1>16, <1>17 DEF Next, ModuleStep

\* A read that amt_event_log reports as complete misses no event that stood in
\* the log all along, for every log, every budget and every interleaving of
\* the firmware's own logging, unless its last batch was cut.
THEOREM CompleteReadsAreWhole ==
    Spec => []CompleteIsWhole
<1>1. ReadInv => CompleteIsWhole
  BY DEF ReadInv
<1> QED
  BY LogInit, LogStep, ReadInit, ReadStep, <1>1, PTL DEF Spec

---------------------------------------------------------------------------
(***************************************************************************)
(* Type correctness, whatever the firmware answers: the budget is never    *)
(* overdrawn and the list holds nothing but events of the log.             *)
(***************************************************************************)
\* GetRecords is sent only while there is budget left.
TypeInv ==
    /\ TypeOK
    /\ pc = "batch" => consumed < max_records

\* What is left of a sequence of slots is events.
LEMMA EventsAreEvents ==
    ASSUME NEW s \in Seq(Slot) PROVE Events(s) \subseteq Event
<1>1. \A i \in DOMAIN s : s[i] \in Slot
  BY LenProperties, ElementOfSeq
<1> QED BY <1>1 DEF Events, Slot

\* What Keep takes of a batch is events.
LEMMA KeepTakesEvents ==
    ASSUME LogInv, identifier \in Nat \ {0}, NEW last \in identifier .. Len(log),
           consumed \in Nat, max_records \in Nat, consumed < max_records,
           records \subseteq Event, Keep(SubSeq(log, identifier, last))
    PROVE  records' \subseteq Event
<1> DEFINE batch == SubSeq(log, identifier, last)
           taken == SubSeq(batch, 1, Smaller(Len(batch), remaining))
<1> Len(log) \in Nat /\ last \in Nat
  BY LenProperties DEF LogInv
<1>1. batch \in Seq(Slot) /\ Len(batch) = last - identifier + 1
  BY SubSeqProperties DEF LogInv
<1>2. remaining \in Nat \ {0}
  BY DEF remaining
<1>3. /\ Smaller(Len(batch), remaining) \in Nat \ {0}
      /\ Smaller(Len(batch), remaining) <= Len(batch)
  BY <1>1, <1>2 DEF Smaller
<1>4. taken \in Seq(Slot)
  BY <1>1, <1>3, SubSeqProperties
<1>5. records' = records \cup Events(taken)
  BY DEF Keep
<1> QED BY <1>4, <1>5, EventsAreEvents

\* It holds at the start ...
LEMMA TypeInit == Init => TypeInv
<1> SUFFICES ASSUME Init PROVE TypeInv
  OBVIOUS
<1>1. log \in Seq(Event \cup {Empty}) /\ unused \subseteq Event
  BY ConstantsAssumption DEF Init
<1>2. asked \in [confirm : BOOLEAN, check : BOOLEAN] /\ cleared \in BOOLEAN
      /\ cut \in BOOLEAN /\ destroyed \in BOOLEAN
  BY DEF Init
<1>3. consumed \in 0 .. max_records /\ identifier \in Nat \ {0}
  BY ConstantsAssumption DEF Init
<1> QED BY <1>1, <1>2, <1>3
        DEF Init, TypeInv, TypeOK, Pcs, CompleteStops, IncompleteStops

\* ... and every step keeps it.
LEMMA TypeStep == LogInv /\ TypeInv /\ [Next]_vars => TypeInv'
<1> SUFFICES ASSUME LogInv, TypeInv, [Next]_vars PROVE TypeInv'
  OBVIOUS
<1> max_records \in Nat \ {0}
  BY ConstantsAssumption
<1> USE DEF TypeInv, TypeOK, Pcs
<1>l. log' \in Seq(Event \cup {Empty})
  BY LogStep DEF LogInv, Slot
<1>1. CASE StartRead
  BY <1>l, <1>1 DEF StartRead, firmware, reader, clearer
<1>2. ASSUME NEW confirm \in BOOLEAN, NEW check \in BOOLEAN,
             StartClear(confirm, check)
      PROVE  TypeInv'
  BY <1>l, <1>2 DEF StartClear, fail_json, firmware, reader
<1>3. CASE NextTask
  <2>1. /\ asked' \in [confirm : BOOLEAN, check : BOOLEAN] /\ cleared' \in BOOLEAN
        /\ cut' \in BOOLEAN /\ destroyed' \in BOOLEAN
    BY <1>3 DEF NextTask
  <2>2. consumed' \in 0 .. max_records /\ identifier' \in Nat \ {0}
    BY <1>3 DEF NextTask
  <2> QED BY <1>l, <1>3, <2>1, <2>2 DEF NextTask
<1>4. CASE RequestFails
  BY <1>l, <1>4 DEF RequestFails, fail_json, firmware, reader, clearer
<1>5. CASE Properties
  <2> PICK n \in {Unreported, CurrentNumberOfRecords} : GetProperties(n)
    BY <1>5 DEF Properties
  <2>1. n \in Nat \cup {Unreported}
    BY CountIsNatural DEF LogInv
  <2>2. Events(log) \subseteq Event
    BY EventsAreEvents DEF LogInv
  <2>3. CASE purpose = "read"
    BY <1>l, <2>1, <2>2, <2>3 DEF GetProperties, reader
  <2>4. CASE purpose = "clear"
    BY <1>l, <2>1, <2>2, <2>4 DEF GetProperties, reader, exit_json
  <2>5. CASE purpose = "recheck"
    BY <1>l, <2>1, <2>5 DEF GetProperties, reader, exit_json
  <2> QED BY <2>3, <2>4, <2>5
<1>6. CASE GetDegrades
  BY <1>l, <1>6 DEF GetDegrades, firmware, reader, clearer
<1>7. CASE PositionToFirstRecord
  BY <1>l, <1>7 DEF PositionToFirstRecord, Stop, exit_json, CompleteStops, firmware, clearer
<1>8. CASE Loop
  BY <1>l, <1>8 DEF Loop, Stop, exit_json, IncompleteStops, firmware, clearer
<1>9. CASE NoRecords
  BY <1>l, <1>9
     DEF NoRecords, Stop, exit_json, CompleteStops, IncompleteStops, firmware, clearer
<1>a. ASSUME NEW next \in Nat, Advance(next)
      PROVE  /\ pc' \in {"loop", "done"} /\ identifier' \in Nat \ {0}
             /\ stop' \in CompleteStops \cup IncompleteStops \cup {"none"}
             /\ outcome' \in {"none", "ok", "failed"}
  BY <1>a DEF Advance, Stop, exit_json, IncompleteStops
<1>10. CASE GetRecords
  <2> PICK last \in identifier .. Len(log) :
          /\ Keep(SubSeq(log, identifier, last))
          /\ \/ /\ Stop("no_more_records")
                /\ cut' = (Len(SubSeq(log, identifier, last)) > remaining)
                /\ UNCHANGED identifier
             \/ /\ \E next \in 0 .. last + 1 : Advance(next)
                /\ UNCHANGED cut
    BY <1>10 DEF GetRecords
  <2>0. consumed \in Nat /\ consumed < max_records /\ max_records \in Nat
    BY <1>10 DEF GetRecords
  <2>1. consumed' \in 0 .. max_records /\ records' \subseteq Event
    <3>1. consumed' \in Nat /\ consumed' <= max_records
      BY <2>0, KeepTakes
    <3>2. records' \subseteq Event
      BY <2>0, KeepTakesEvents
    <3> QED BY <2>0, <3>1, <3>2
  <2>2. /\ pc' \in {"loop", "done"} /\ identifier' \in Nat \ {0} /\ cut' \in BOOLEAN
        /\ stop' \in CompleteStops \cup IncompleteStops \cup {"none"}
        /\ outcome' \in {"none", "ok", "failed"}
    <3>1. CASE /\ Stop("no_more_records")
               /\ cut' = (Len(SubSeq(log, identifier, last)) > remaining)
               /\ UNCHANGED identifier
      <4>0. (Len(SubSeq(log, identifier, last)) > remaining) \in BOOLEAN
        OBVIOUS
      <4>1. cut' \in BOOLEAN
        BY <3>1, <4>0, Zenon
      <4>2. /\ pc' = "done" /\ stop' = "no_more_records" /\ outcome' = "ok"
            /\ identifier' = identifier
        BY <3>1 DEF Stop, exit_json
      <4> QED BY <4>1, <4>2 DEF CompleteStops
    <3>2. CASE (\E next \in 0 .. last + 1 : Advance(next)) /\ UNCHANGED cut
      <4>1. last + 1 \in Nat
        BY LenProperties DEF LogInv
      <4> QED BY <1>a, <3>2, <4>1
    <3> QED BY <3>1, <3>2
  <2> QED BY <1>l, <1>10, <2>1, <2>2 DEF GetRecords, firmware, clearer
<1>11. CASE NothingServed
  <2>1. PICK next \in 0 .. identifier : Advance(next)
    BY <1>11 DEF NothingServed
  <2>2. next \in Nat
    BY LenProperties DEF LogInv, Slots
  <2> QED BY <1>l, <1>a, <1>11, <2>1, <2>2 DEF NothingServed, firmware, clearer
<1>12. CASE ClearLog
  BY <1>l, <1>12 DEF ClearLog, Wipe, reader
<1>13. CASE ClearRefused
  BY <1>l, <1>13 DEF ClearRefused, fail_json, firmware, reader, clearer
<1>14. CASE ClearUnanswered
  BY <1>l, <1>14 DEF ClearUnanswered, Wipe, fail_json, reader
<1>15. ASSUME NEW e \in Event, LogEvent(e) PROVE TypeInv'
  BY <1>l, <1>15 DEF LogEvent, reader, clearer
<1>16. CASE ForeignClear
  BY <1>l, <1>16 DEF ForeignClear, Wipe, reader, clearer
<1>17. CASE UNCHANGED vars
  BY <1>17 DEF vars
<1> QED
  BY <1>1, <1>2, <1>3, <1>4, <1>5, <1>6, <1>7, <1>8, <1>9, <1>10, <1>11, <1>12,
     <1>13, <1>14, <1>15, <1>16, <1>17 DEF Next, ModuleStep

\* The event log modules keep their types for every log, every budget and every
\* answer of the firmware: read_records takes no more elements than max_records,
\* and its list holds nothing but events.
THEOREM TypeCorrect == Spec => []TypeOK
<1>1. TypeInv => TypeOK
  BY DEF TypeInv
<1> QED BY LogInit, LogStep, TypeInit, TypeStep, <1>1, PTL DEF Spec
=============================================================================
