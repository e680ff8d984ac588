----------------------------- MODULE MessageLog -----------------------------
(***************************************************************************)
(* The event log modules.  amt_event_log follows GetRecords with           *)
(* message_log.read_records; amt_log_clear reads the record count, invokes *)
(* ClearLog and reads the count again.  Meanwhile the firmware logs events *)
(* of its own, and another station may clear the same log.                 *)
(***************************************************************************)
EXTENDS Integers, Sequences, FiniteSets

CONSTANTS
    Event,         \* identities of log records
    InitialLogs,   \* logs the firmware may hold at the start
    Empty,         \* a zero-filled slot of RecordArray
    max_records    \* the option of amt_event_log

ASSUME ConstantsAssumption ==
    /\ IsFiniteSet(Event)
    /\ Empty \notin Event
    /\ InitialLogs \subseteq Seq(Event \cup {Empty})
    /\ max_records \in Nat \ {0}

VARIABLES
    log,        \* firmware: the slots GetRecords serves, newest record first
    unused,     \* firmware: events that have not happened yet
    pc,         \* the request the running module waits for
    purpose,    \* what it is doing: "read" | "clear" | "recheck"
    asked,      \* amt_log_clear: confirm_destructive and check mode
    count,      \* CurrentNumberOfRecords as last read, or Unreported
    before,     \* records_before
    identifier, \* the IterationIdentifier to send next
    records,    \* the events in read_records' list
    consumed,   \* RecordArray elements taken from the firmware
    stop,       \* stop_reason, or "none"
    outcome,    \* how the module ended: "none" | "ok" | "failed"
    cleared,    \* amt_log_clear's `cleared`
    standing,   \* history: events in the log ever since the module first looked
    cut,        \* history: a final batch was longer than the budget
    destroyed   \* history: this module's ClearLog was carried out

vars == <<log, unused, pc, purpose, asked, count, before, identifier, records,
          consumed, stop, outcome, cleared, standing, cut, destroyed>>

firmware == <<log, unused, standing>>

reader == <<identifier, records, consumed, stop, cut>>

clearer == <<asked, before, cleared, destroyed>>

---------------------------------------------------------------------------
Unreported == -1

Pcs == {"idle", "get", "enumerate", "position", "loop", "batch", "clear",
        "done"}

CompleteStops == {"no_more_records", "no_record_exists",
                  "no_record_exists_in_log"}

IncompleteStops == {"max_records", "invalid_record_pointed",
                    "no_iteration_identifier", "iteration_stalled"}

complete == stop \in CompleteStops

\* What decode_record and is_empty_record_slot leave of a RecordArray.
Events(s) == {s[i] : i \in DOMAIN s} \ {Empty}

Slots == 1 .. Len(log)

Smaller(m, n) == IF m < n THEN m ELSE n

---------------------------------------------------------------------------
(***************************************************************************)
(* The firmware, as the modules and the repository's mock server use it.   *)
(***************************************************************************)
CurrentNumberOfRecords == Cardinality({i \in Slots : log[i] # Empty})

\* An event goes in front.  The records move up, into a freed slot if there is
\* one.
LogEvent(e) ==
    /\ e \in unused
    /\ unused' = unused \ {e}
    /\ \/ \E free \in Slots :
             /\ log[free] = Empty
             /\ log' = [i \in Slots |-> CASE i = 1 -> e
                                         [] i > 1 /\ i <= free -> log[i - 1]
                                         [] OTHER -> log[i]]
       \/ /\ \A i \in Slots : log[i] # Empty
          /\ log' = <<e>> \o log
    /\ UNCHANGED <<pc, purpose, count, outcome, standing, reader, clearer>>

\* What ClearLog leaves: nothing, or the freed slots as padding.
Wipe ==
    /\ log' \in {<<>>, [i \in Slots |-> Empty]}
    /\ standing' = {}
    /\ UNCHANGED unused

\* Another management station clears the log.
ForeignClear ==
    /\ log # <<>>
    /\ Wipe
    /\ UNCHANGED <<pc, purpose, count, outcome, reader, clearer>>

---------------------------------------------------------------------------
(***************************************************************************)
(* How a module ends.                                                      *)
(***************************************************************************)
exit_json == pc' = "done" /\ outcome' = "ok"

\* An AmtError reaches main, which reports it and nothing else.
fail_json == pc' = "done" /\ outcome' = "failed"

RequestFails ==
    /\ pc \in {"get", "enumerate", "position", "batch", "clear"}
    /\ fail_json
    /\ UNCHANGED <<firmware, purpose, count, reader, clearer>>

StartRead ==
    /\ pc = "idle"
    /\ pc' = "get"
    /\ purpose' = "read"
    /\ UNCHANGED <<firmware, count, outcome, reader, clearer>>

\* The gate comes before the first request, in check mode too.
StartClear(confirm, check) ==
    /\ pc = "idle"
    /\ purpose' = "clear"
    /\ asked' = [confirm |-> confirm, check |-> check]
    /\ IF confirm THEN pc' = "get" /\ UNCHANGED outcome ELSE fail_json
    /\ UNCHANGED <<firmware, count, before, cleared, destroyed, reader>>

\* The next task of the play.
NextTask ==
    /\ pc = "done"
    /\ pc' = "idle"
    /\ purpose' = "read"
    /\ asked' = [confirm |-> FALSE, check |-> FALSE]
    /\ count' = Unreported
    /\ before' = Unreported
    /\ identifier' = 1
    /\ records' = {}
    /\ consumed' = 0
    /\ stop' = "none"
    /\ outcome' = "none"
    /\ cleared' = FALSE
    /\ standing' = {}
    /\ cut' = FALSE
    /\ destroyed' = FALSE
    /\ UNCHANGED <<log, unused>>

---------------------------------------------------------------------------
(***************************************************************************)
(* get_log_properties and what each caller does with the count.            *)
(***************************************************************************)
\* Mutant: a count the firmware did not report is taken for zero.
PlanZero(n) == n > 0

\* A count that is not reported is not a count of zero.
plan(n) == n = Unreported \/ n > 0

GetProperties(n) ==
    /\ count' = n
    /\ CASE purpose = "read" ->
              /\ pc' = "position"
              /\ standing' = Events(log)
              /\ UNCHANGED <<outcome, before>>
         [] purpose = "clear" ->
              /\ before' = n
              /\ standing' = Events(log)
              /\ IF plan(n) /\ ~asked.check THEN pc' = "clear" /\ UNCHANGED outcome
                 ELSE exit_json
         [] purpose = "recheck" ->
              /\ exit_json
              /\ UNCHANGED <<standing, before>>
    /\ UNCHANGED <<log, unused, purpose, asked, cleared, destroyed, reader>>

Properties ==
    /\ pc \in {"get", "enumerate"}
    /\ \E n \in {Unreported, CurrentNumberOfRecords} : GetProperties(n)

\* Get is refused in a way that says the class is absent: try Enumerate.
GetDegrades ==
    /\ pc = "get"
    /\ pc' = "enumerate"
    /\ UNCHANGED <<firmware, purpose, count, outcome, reader, clearer>>

---------------------------------------------------------------------------
(***************************************************************************)
(* read_records.                                                           *)
(***************************************************************************)
Stop(reason) == stop' = reason /\ exit_json

\* The identifier is the firmware's, wherever it says the first record is: no
\* record lies in front of it.  One that is missing or below 1 is taken for 1.
PositionToFirstRecord ==
    /\ pc = "position"
    /\ \/ /\ Events(log) = {}
          /\ Stop("no_record_exists")
          /\ UNCHANGED identifier
       \/ \E first \in 1 .. Len(log) + 1 :
             /\ \A i \in 1 .. first - 1 : log[i] = Empty
             /\ identifier' = first
             /\ pc' = "loop"
             /\ UNCHANGED <<stop, outcome>>
    /\ UNCHANGED <<firmware, purpose, count, records, consumed, cut, clearer>>

remaining == max_records - consumed

\* The head of the loop: stop at the bound or send GetRecords.
Loop ==
    /\ pc = "loop"
    /\ IF consumed >= max_records THEN Stop("max_records")
       ELSE pc' = "batch" /\ UNCHANGED <<stop, outcome>>
    /\ UNCHANGED <<firmware, purpose, count, identifier, records, consumed, cut,
                   clearer>>

\* ReturnValue 3 and 2: the log holds nothing, or nothing at this position.
NoRecords ==
    /\ pc = "batch"
    /\ identifier > Len(log)
    /\ \/ Stop("no_record_exists_in_log")
       \/ log # <<>> /\ Stop("invalid_record_pointed")
    /\ UNCHANGED <<firmware, purpose, count, identifier, records, consumed, cut,
                   clearer>>

\* Mutant: the first empty slot is taken for the end of the data.
KeepUntilEmpty(batch) ==
    LET taken == SubSeq(batch, 1, Smaller(Len(batch), remaining))
        live == {i \in DOMAIN taken : \A j \in 1 .. i : taken[j] # Empty}
    IN  /\ consumed' = consumed + Len(taken)
        /\ records' = records \cup {taken[i] : i \in live}

\* batch[:remaining]; empty slots count but are left out.
Keep(batch) ==
    LET taken == SubSeq(batch, 1, Smaller(Len(batch), remaining))
    IN  /\ consumed' = consumed + Len(taken)
        /\ records' = records \cup Events(taken)

\* Mutant: an identifier that did not move is sent again.
AdvanceUnchecked(next) ==
    CASE next = 0 -> Stop("no_iteration_identifier") /\ UNCHANGED identifier
      [] OTHER -> identifier' = next /\ pc' = "loop" /\ UNCHANGED <<stop, outcome>>

\* NoMoreRecords was not set: go on from the identifier the firmware returned
\* (0: none), unless it is missing or did not move.
Advance(next) ==
    CASE next = 0 -> Stop("no_iteration_identifier") /\ UNCHANGED identifier
      [] next = identifier -> Stop("iteration_stalled") /\ UNCHANGED identifier
      [] OTHER -> identifier' = next /\ pc' = "loop" /\ UNCHANGED <<stop, outcome>>

\* ReturnValue 0.  The firmware serves one or more slots from the identifier
\* on, more than MaxReadRecords if it likes, and says NoMoreRecords after the
\* last (or leaves that to the next call).  The identifier it returns may go
\* back or stay, but not past a record that was not served.
GetRecords ==
    /\ pc = "batch"
    /\ \E last \in identifier .. Len(log) :
           LET batch == SubSeq(log, identifier, last)
           IN  /\ Keep(batch)
               /\ \/ /\ last = Len(log)
                     /\ Stop("no_more_records")
                     /\ cut' = (Len(batch) > remaining)
                     /\ UNCHANGED identifier
                  \/ /\ \E next \in 0 .. last + 1 : Advance(next)
                     /\ UNCHANGED cut
    /\ UNCHANGED <<firmware, purpose, count, clearer>>

\* An answer without records; the identifier moves back, if at all.
NothingServed ==
    /\ pc = "batch"
    /\ \E next \in 0 .. identifier : Advance(next)
    /\ UNCHANGED <<firmware, purpose, count, records, consumed, cut, clearer>>

---------------------------------------------------------------------------
(***************************************************************************)
(* amt_log_clear.                                                          *)
(***************************************************************************)
\* ClearLog is accepted; the count is read again.
ClearLog ==
    /\ pc = "clear"
    /\ Wipe
    /\ destroyed' = TRUE
    /\ cleared' = TRUE
    /\ purpose' = "recheck"
    /\ pc' = "get"
    /\ UNCHANGED <<count, outcome, asked, before, reader>>

\* Mutant: a non-zero ReturnValue is demoted to a warning.
ClearDemoted ==
    /\ pc = "clear"
    /\ cleared' = TRUE
    /\ purpose' = "recheck"
    /\ pc' = "get"
    /\ UNCHANGED <<firmware, count, outcome, asked, before, destroyed, reader>>

\* A non-zero ReturnValue is raised.
ClearRefused ==
    /\ pc = "clear"
    /\ fail_json
    /\ UNCHANGED <<firmware, purpose, count, clearer, reader>>

\* ClearLog is carried out and its answer is lost.
ClearUnanswered ==
    /\ pc = "clear"
    /\ Wipe
    /\ destroyed' = TRUE
    /\ fail_json
    /\ UNCHANGED <<purpose, count, asked, before, cleared, reader>>

---------------------------------------------------------------------------
Init ==
    /\ log \in InitialLogs
    /\ unused = Event \ Events(log)
    /\ pc = "idle"
    /\ purpose = "read"
    /\ asked = [confirm |-> FALSE, check |-> FALSE]
    /\ count = Unreported
    /\ before = Unreported
    /\ identifier = 1
    /\ records = {}
    /\ consumed = 0
    /\ stop = "none"
    /\ outcome = "none"
    /\ cleared = FALSE
    /\ standing = {}
    /\ cut = FALSE
    /\ destroyed = FALSE

ModuleStep ==
    \/ RequestFails
    \/ Properties \/ GetDegrades
    \/ PositionToFirstRecord \/ Loop \/ NoRecords \/ GetRecords \/ NothingServed
    \/ ClearLog \/ ClearRefused \/ ClearUnanswered

Next ==
    \/ StartRead
    \/ \E confirm, check \in BOOLEAN : StartClear(confirm, check)
    \/ NextTask
    \/ ModuleStep
    \/ \E e \in Event : LogEvent(e)
    \/ ForeignClear

Spec == Init /\ [][Next]_vars

\* Every request is answered or times out, and the module takes its next step.
FairSpec == Spec /\ WF_vars(ModuleStep)

---------------------------------------------------------------------------
(***************************************************************************)
(* Properties.                                                             *)
(***************************************************************************)
\* Type correctness; a read takes no more elements than max_records.
TypeOK ==
    /\ log \in Seq(Event \cup {Empty})
    /\ unused \subseteq Event
    /\ pc \in Pcs
    /\ purpose \in {"read", "clear", "recheck"}
    /\ asked \in [confirm : BOOLEAN, check : BOOLEAN]
    /\ count \in Nat \cup {Unreported}
    /\ before \in Nat \cup {Unreported}
    /\ identifier \in Nat \ {0}
    /\ records \subseteq Event
    /\ consumed \in 0 .. max_records
    /\ stop \in CompleteStops \cup IncompleteStops \cup {"none"}
    /\ outcome \in {"none", "ok", "failed"}
    /\ cleared \in BOOLEAN
    /\ standing \subseteq Event
    /\ cut \in BOOLEAN
    /\ destroyed \in BOOLEAN

\* read_records: a read reported as complete holds every event that was in the
\* log from before the iteration to its end, although events were logged in
\* front of it, slots were freed or refilled and the identifiers moved under
\* it, unless the budget cut the very batch the firmware called its last.
CompleteIsWhole ==
    (outcome = "ok" /\ purpose = "read" /\ complete /\ ~cut)
        => standing \subseteq records

\* amt_log_clear: a success that says `cleared` means that no record counted
\* before is left, a success that does not say it destroyed nothing, and
\* nothing is ever destroyed unconfirmed, in check mode, or when the count
\* read zero.
ClearVerdict ==
    /\ outcome = "ok" =>
           /\ cleared = destroyed
           /\ cleared => standing = {}
    /\ destroyed => asked.confirm /\ ~asked.check /\ before # 0

\* amt_log_clear: success means that what was counted is gone, unless nothing
\* had to be sent: check mode, or a count of zero.
ClearConverges ==
    (outcome = "ok" /\ purpose # "read" /\ ~asked.check)
        => standing = {} \/ before = 0

\* read_records and amt_log_clear end, however the firmware's identifiers move
\* and whatever padding it serves under them, unless it keeps answering
\* GetRecords with no record at all under an identifier that moves: the bound is
\* on the elements consumed, and such an answer consumes none, so that "never
\* loops forever" does not hold of it.
ModuleEnds ==
    \/ []<>(pc \in {"idle", "done"})
    \/ []<><<NothingServed /\ identifier' # identifier>>_vars
=============================================================================
