------------------------------- MODULE Facts -------------------------------
(***************************************************************************)
(* amt_info: AmtClient.get_facts reads up to sixteen classes one after the *)
(* other, each of which this firmware may refuse, answer without content   *)
(* or fill with something unexpected, and the module reports what came of  *)
(* it: the facts, and for the inventory classes how each was read.         *)
(*                                                                         *)
(* A class's properties are told apart only by how they are coerced: name  *)
(* stands for the text ones, count for the enumerated integers, flag for   *)
(* the booleans and status for the CIM arrays.                             *)
(***************************************************************************)
EXTENDS Naturals, Sequences, FiniteSetsExt

CONSTANTS
    Typical,        \* an instance with every property present and as expected
    Unusual,        \* other instances this firmware may return
    Enumerations,   \* what an enumeration may yield (sequences of instances)
    GatherSubsets,  \* values of the gather_subset option
    MaxDeviations   \* bound: answers that are not a single Typical instance

VARIABLES
    pc,             \* "idle" | "reading" | "done" | "failed"
    gather_subset,  \* the option, as the set of its entries
    subsets,        \* resolve_gather_subset of it
    todo,           \* classes still to be read
    fallback,       \* the Get of the class being read gave nothing
    amt,            \* [Classes -> fact]
    reads,          \* [HardwareClasses -> ClassRead]
    error_class,    \* of the failure that ended the run
    report,         \* what exit_json publishes
    heard,          \* history: the answer to each class and verb
    deviations      \* how many answers were out of the ordinary

vars == <<pc, gather_subset, subsets, todo, fallback, amt, reads, error_class,
          report, heard, deviations>>

---------------------------------------------------------------------------
(***************************************************************************)
(* gather_subset.                                                          *)
(***************************************************************************)
VALID_SUBSETS == {"config", "system", "processor", "memory", "storage"}

MINIMAL_SUBSET == {"config"}

Positive == VALID_SUBSETS \cup {"all", "min", "hardware"}

\* "!<name>" is written <<"!", name>> here, and "<name>" is <<"+", name>>.
GATHER_SUBSET_CHOICES == {"+", "!"} \X Positive

\* _expand, and what "all" and "min" stand for.
Expand(name) ==
    IF name = "all" THEN VALID_SUBSETS
    ELSE IF name = "min" THEN MINIMAL_SUBSET
    ELSE IF name = "hardware" THEN VALID_SUBSETS \ MINIMAL_SUBSET
    ELSE {name}

\* Mutant: `additional` is filled in only when nothing was excluded either.
ResolveLiteral(g) ==
    LET additional == UNION {Expand(e[2]) : e \in {x \in g : x[1] = "+"}}
        excluded == UNION {Expand(e[2]) : e \in {x \in g : x[1] = "!"}}
        chosen == IF g = {} THEN VALID_SUBSETS ELSE additional
    IN  (chosen \ (excluded \ MINIMAL_SUBSET)) \cup MINIMAL_SUBSET

resolve_gather_subset(g) ==
    LET additional == UNION {Expand(e[2]) : e \in {x \in g : x[1] = "+"}}
        excluded == UNION {Expand(e[2]) : e \in {x \in g : x[1] = "!"}}
        chosen == IF additional = {} THEN VALID_SUBSETS ELSE additional
    IN  (chosen \ (excluded \ MINIMAL_SUBSET)) \cup MINIMAL_SUBSET

---------------------------------------------------------------------------
(***************************************************************************)
(* Classes, in the order in which get_facts asks for them.                 *)
(***************************************************************************)
Order == <<"AMT_GeneralSettings", "AMT_SetupAndConfigurationService",
           "CIM_AssociatedPowerManagementService", "AMT_BootCapabilities",
           "AMT_RedirectionService", "CIM_SoftwareIdentity",
           "CIM_ComputerSystemPackage", "AMT_EthernetPortSettings",
           "CIM_ComputerSystem", "CIM_BIOSElement", "CIM_Chassis", "CIM_Card",
           "CIM_Processor", "CIM_Chip", "CIM_PhysicalMemory",
           "CIM_MediaAccessDevice">>

Classes == {Order[i] : i \in 1 .. 16}

HardwareClasses == {Order[i] : i \in 11 .. 16}

Rank == [c \in Classes |-> CHOOSE i \in 1 .. 16 : Order[i] = c]

SubsetOf ==
    [c \in HardwareClasses |->
        IF c \in {"CIM_Chassis", "CIM_Card"} THEN "system"
        ELSE IF c \in {"CIM_Processor", "CIM_Chip"} THEN "processor"
        ELSE IF c = "CIM_PhysicalMemory" THEN "memory" ELSE "storage"]

FACT_GROUP_BY_CLASS ==
    [CIM_Chassis |-> "chassis", CIM_Card |-> "baseboard",
     CIM_Processor |-> "processors", CIM_Chip |-> "chips",
     CIM_PhysicalMemory |-> "memory", CIM_MediaAccessDevice |-> "storage"]

FACT_GROUPS_BY_SUBSET ==
    [s \in VALID_SUBSETS |->
        IF s = "system" THEN {"chassis", "baseboard"}
        ELSE IF s = "processor" THEN {"processors", "chips"}
        ELSE IF s \in {"memory", "storage"} THEN {s} ELSE {}]

requested_fact_groups(ss) == UNION {FACT_GROUPS_BY_SUBSET[s] : s \in ss}

\* The `if SUBSET_x in subsets` of _get_hardware_facts.
Wanted(ss) ==
    {c \in Classes : c \in HardwareClasses => SubsetOf[c] \in ss}

\* Enumerated at once; the others start with a Get.
Enumerated == {"CIM_SoftwareIdentity", "CIM_Processor", "CIM_Chip",
               "CIM_PhysicalMemory", "CIM_MediaAccessDevice"}

\* read by _read_single
Plates == {"CIM_Chassis", "CIM_Card"}

---------------------------------------------------------------------------
(***************************************************************************)
(* models.py and hardware.py: what becomes of a property.  A parsed value  *)
(* is missing, empty, a word, "true", "AMT", a number, the 32 bare digits  *)
(* of a GUID, a mapping, or a list; number is also what the last two hold. *)
(***************************************************************************)
Texts == {"word", "true", "AMT", "number", "guid"}

Kinds == Texts \cup {"absent", "empty", "nested", "repeated"}

\* key is the InstanceID.
Properties == {"key", "name", "count", "flag", "status"}

Instances == [Properties -> [kind : Kinds, number : Nat]]

ASSUME FirmwareAssumption ==
    /\ Typical \in Instances
    /\ Unusual \subseteq Instances
    /\ Enumerations \subseteq Seq(Instances)
    /\ GatherSubsets \subseteq SUBSET GATHER_SUBSET_CHOICES
    /\ MaxDeviations \in Nat

\* What Typical means: nothing is missing, and text and numbers are where they
\* are expected.
ASSUME TypicalAssumption ==
    /\ Typical["key"].kind = "AMT"
    /\ Typical["name"].kind \in Texts
    /\ Typical["count"].kind = "number"
    /\ Typical["flag"].kind \notin {"absent", "empty"}
    /\ Typical["status"].kind # "absent"

\* No property at all: {} from a Get, and from an enumeration an item that is
\* not even a mapping.
Blank == [k \in Properties |-> [kind |-> "absent", number |-> 0]]

optional_str(v) ==
    IF v.kind \in Texts THEN "text" ELSE "null"

optional_int(v) == IF v.kind = "number" THEN "int" ELSE "null"

truthy(v) ==
    IF v.kind = "true" \/ (v.kind = "number" /\ v.number = 1) THEN "true"
    ELSE "false"

optional_bool(v) == IF v.kind \in {"absent", "empty"} THEN "null" ELSE truthy(v)

\* Taken as it is: instance.get(...)
raw(v) == IF v.kind = "absent" THEN "null" ELSE "raw"

\* None, [] or a list of numbers.
int_list(v) ==
    IF v.kind = "absent" THEN "null"
    ELSE IF v.kind \in {"number", "repeated"} THEN "some" ELSE "none"

\* Either rendering of the array is accepted: repeated or wrapped.
link_policy_values(v) == IF v.kind = "nested" THEN "some" ELSE int_list(v)

\* The callers decode only what optional_int gave them; a value outside the
\* table stays visible as unknown(<raw>).
decode_table(table, v) ==
    IF v.kind # "number" THEN "null"
    ELSE IF v.number \in table THEN "named" ELSE "unknown"

\* A list is decoded element by element; None and [] stay what they are.
decode_list(table, values, v) ==
    IF values # "some" THEN values
    ELSE IF v.number \in table THEN "named" ELSE "unknown"

OPERATIONAL_STATUS_TABLE == 0 .. 19

CHASSIS_PACKAGE_TYPE_TABLE == 0 .. 36

PACKAGE_TYPE_TABLE == 0 .. 17

MEMORY_TYPE_TABLE == 0 .. 36

MEDIA_CAPABILITIES_TABLE == 0 .. 12

MEDIA_SECURITY_TABLE == 1 .. 7

MEDIA_ENABLED_DEFAULT_TABLE == {2, 3, 5, 6, 7, 9}

CPU_STATUS_TABLE == 0 .. 5

HEALTH_STATE_TABLE == {0, 5, 10, 15, 20, 25, 30}

UPGRADE_METHOD_TABLE == 0 .. 84

ENABLED_STATE_TABLE == 0 .. 10

POWER_STATE_TABLE == {2, 3, 4, 5, 6, 7, 8, 9, 13}

LINK_POLICY_SX_VALUES == {14, 224}

LINK_POLICY_TABLE == {1, 16} \cup LINK_POLICY_SX_VALUES

---------------------------------------------------------------------------
GeneralSettings(i) ==
    [hostname |-> raw(i["name"]),
     domain_name |-> optional_str(i["name"]),
     idle_wake_timeout |-> optional_int(i["count"]),
     ping_response_enabled |-> optional_bool(i["flag"])]

SetupFacts(i) ==
    [control_mode |-> raw(i["name"]), provisioning_state |-> raw(i["count"])]

\* from_cim_value: what is no number is unknown, not an error.
PowerState(i) ==
    [normalized |-> IF i["count"].kind = "number"
                       /\ i["count"].number \in POWER_STATE_TABLE
                    THEN "known" ELSE "unknown"]

\* A flag whose property or class is missing is off.
AmtCapabilities(i) ==
    [boot_once_pxe |-> truthy(i["flag"]), sol |-> truthy(i["flag"]),
     storage_redirection |-> truthy(i["flag"])]

RedirectionState(i) ==
    [listener_enabled |-> truthy(i["flag"]),
     ider_enabled |-> IF i["count"].kind = "number"
                         /\ i["count"].number \in {32769, 32771}
                      THEN "true" ELSE "false"]

canonical_uuid(v) == IF v.kind = "guid" THEN "swapped" ELSE "verbatim"

EthernetSettings(i) ==
    [mac_address |-> optional_str(i["name"]),
     dhcp_enabled |-> optional_bool(i["flag"]),
     link_policy_names |->
        decode_list(LINK_POLICY_TABLE, link_policy_values(i["status"]), i["status"]),
     wake_on_lan_capable |->
        IF i["status"].kind = "absent" THEN "null"
        ELSE IF link_policy_values(i["status"]) = "some"
                /\ i["status"].number \in LINK_POLICY_SX_VALUES
        THEN "true" ELSE "false"]

SystemState(i) ==
    [element_name |-> optional_str(i["name"]),
     enabled_state_text |-> decode_table(ENABLED_STATE_TABLE, i["count"]),
     operational_status_text |->
        decode_list(OPERATIONAL_STATUS_TABLE, int_list(i["status"]), i["status"])]

---------------------------------------------------------------------------
operational_status(i) ==
    decode_list(OPERATIONAL_STATUS_TABLE, int_list(i["status"]), i["status"])

enabled_state(i) == decode_table(ENABLED_STATE_TABLE, i["count"])

ChassisInfo(i) ==
    [serial_number |-> optional_str(i["name"]),
     chassis_package_type_text |->
        decode_table(CHASSIS_PACKAGE_TYPE_TABLE, i["count"]),
     package_type_text |-> decode_table(PACKAGE_TYPE_TABLE, i["count"]),
     operational_status |-> operational_status(i)]

BaseboardInfo(i) ==
    [serial_number |-> optional_str(i["name"]),
     can_be_frued |-> optional_bool(i["flag"]),
     package_type_text |-> decode_table(PACKAGE_TYPE_TABLE, i["count"]),
     operational_status |-> operational_status(i)]

ProcessorInfo(i) ==
    [device_id |-> optional_str(i["name"]),
     family |-> optional_int(i["count"]),
     cpu_status_text |-> decode_table(CPU_STATUS_TABLE, i["count"]),
     upgrade_method_text |-> decode_table(UPGRADE_METHOD_TABLE, i["count"]),
     health_state_text |-> decode_table(HEALTH_STATE_TABLE, i["count"]),
     enabled_state_text |-> enabled_state(i),
     operational_status |-> operational_status(i)]

ChipInfo(i) ==
    [version |-> optional_str(i["name"]),
     can_be_frued |-> optional_bool(i["flag"]),
     operational_status |-> operational_status(i)]

MemoryInfo(i) ==
    [serial_number |-> optional_str(i["name"]),
     capacity_bytes |-> optional_int(i["count"]),
     memory_type_text |-> decode_table(MEMORY_TYPE_TABLE, i["count"]),
     is_speed_in_mhz |-> optional_bool(i["flag"]),
     operational_status |-> operational_status(i)]

StorageInfo(i) ==
    [device_id |-> optional_str(i["name"]),
     max_media_size_kb |-> optional_int(i["count"]),
     capabilities_text |->
        decode_list(MEDIA_CAPABILITIES_TABLE, int_list(i["status"]), i["status"]),
     security_text |-> decode_table(MEDIA_SECURITY_TABLE, i["count"]),
     enabled_state_text |-> enabled_state(i),
     enabled_default_text |->
        decode_table(MEDIA_ENABLED_DEFAULT_TABLE, i["count"]),
     operational_status |-> operational_status(i)]

from_instance(c, i) ==
    CASE c = "CIM_Chassis" -> ChassisInfo(i)
      [] c = "CIM_Card" -> BaseboardInfo(i)
      [] c = "CIM_Processor" -> ProcessorInfo(i)
      [] c = "CIM_Chip" -> ChipInfo(i)
      [] c = "CIM_PhysicalMemory" -> MemoryInfo(i)
      [] c = "CIM_MediaAccessDevice" -> StorageInfo(i)

---------------------------------------------------------------------------
(***************************************************************************)
(* Reading a class.  A fact is unread, None, or a value: one record, or    *)
(* those of a list, each at the place its instance has in the answer.      *)
(***************************************************************************)
Unread == [state |-> "unread", records |-> <<>>]

None == [state |-> "null", records |-> <<>>]

Value(rs) == [state |-> "value", records |-> rs]

NoRead == [outcome |-> "unread", verb |-> "none", instances |-> 0,
           error_class |-> "none", shapes |-> [k \in Properties |-> "absent"]]

\* connection, authentication, TLS and timeout failures are not degradable.
Fatal == {"connection", "authentication", "tls_validation", "timeout"}

Unheard == [kind |-> "none", items |-> <<>>, cls |-> "none"]

Answer(items) == [kind |-> "answer", items |-> items, cls |-> "none"]

Refusal == [kind |-> "refused", items |-> <<>>, cls |-> "protocol"]

Failure(cls) == [kind |-> "failed", items |-> <<>>, cls |-> cls]

\* What a call of WsmanClient.get or enumerate comes to, after however many
\* retries and Pulls it takes (module Wsman): a refused Enumerate and a Pull
\* refused half way both raise, and what had been pulled is lost.
Answers(v) ==
    {Refusal} \cup {Failure(cls) : cls \in Fatal} \cup
    {Answer(items) : items \in IF v = "Get"
                                THEN {<<i>> : i \in {Typical, Blank} \cup Unusual}
                                ELSE Enumerations}

Ordinary(a) == a.kind = "answer" /\ a.items = <<Typical>>

shape_of(v) == IF v.kind \in Texts THEN "text" ELSE v.kind

property_shapes(i) == [k \in Properties |-> shape_of(i[k])]

\* isinstance(item, dict): the places of the answer that hold an instance.
Mappings(a) == {n \in DOMAIN a.items : a.items[n] # Blank}

\* _get_optional, and what each caller makes of None, {} and an instance.
GetFact(c, a) ==
    LET i == IF a.kind = "answer" THEN a.items[1] ELSE Blank
    IN  CASE c = "AMT_GeneralSettings" -> Value(<<GeneralSettings(i)>>)
          [] c = "AMT_SetupAndConfigurationService" -> Value(<<SetupFacts(i)>>)
          [] c = "CIM_AssociatedPowerManagementService" ->
               IF i["count"].kind = "absent" THEN None ELSE Value(<<PowerState(i)>>)
          [] c = "AMT_BootCapabilities" -> Value(<<AmtCapabilities(i)>>)
          [] c = "AMT_RedirectionService" ->
               IF a.kind # "answer" THEN None ELSE Value(<<RedirectionState(i)>>)
          [] c = "CIM_ComputerSystemPackage" ->
               IF i["name"].kind \in {"absent", "empty"} THEN None
               ELSE Value(<<[uuid |-> canonical_uuid(i["name"])]>>)
          [] c = "AMT_EthernetPortSettings" ->
               IF i = Blank THEN None ELSE Value(<<EthernetSettings(i)>>)
          [] c = "CIM_ComputerSystem" ->
               IF i = Blank THEN None ELSE Value(<<SystemState(i)>>)
          [] c = "CIM_BIOSElement" ->
               IF optional_str(i["name"]) = "null" THEN None
               ELSE Value(<<[version |-> "text"]>>)
          [] c \in Plates ->
               IF i = Blank THEN None ELSE Value(<<from_instance(c, i)>>)

\* The first item that names itself AMT, whatever it says next.
AmtIdentity(i) == i["key"].kind = "AMT"

HasVersion(i) == optional_str(i["name"]) = "text"

EnumerateFact(c, a) ==
    IF a.kind # "answer" THEN None
    ELSE CASE c = "CIM_SoftwareIdentity" ->
                LET amts == {n \in DOMAIN a.items : AmtIdentity(a.items[n])}
                IN  IF amts = {} \/ a.items[Min(amts)]["name"].kind = "absent" THEN None
                    ELSE Value(<<[version |-> "raw"]>>)
           [] c = "CIM_BIOSElement" ->
                IF \E n \in DOMAIN a.items : HasVersion(a.items[n])
                THEN Value(<<[version |-> "text"]>>) ELSE None
           [] c \in Plates ->
                IF Mappings(a) = {} THEN None
                ELSE Value(<<from_instance(c, a.items[Min(Mappings(a))])>>)
           [] OTHER ->
                Value([n \in Mappings(a) |-> from_instance(c, a.items[n])])

\* Mutant: the census is taken of the last candidate.
ClassReadOfLast(c, v, a) ==
    LET found == Mappings(a)
    IN  IF a.kind = "refused"
        THEN [NoRead EXCEPT !.outcome = "absent", !.verb = v,
                            !.error_class = a.cls]
        ELSE [NoRead EXCEPT
                !.outcome = IF found = {} THEN "empty" ELSE "read",
                !.verb = v,
                !.instances = Cardinality(found),
                !.shapes = IF c \in Plates /\ found # {}
                           THEN property_shapes(a.items[Max(found)]) ELSE @]

\* The ClassRead of _read_single and of _read_many.
ClassRead(c, v, a) ==
    LET found == Mappings(a)
    IN  IF a.kind = "refused"
        THEN [NoRead EXCEPT !.outcome = "absent", !.verb = v,
                            !.error_class = a.cls]
        ELSE [NoRead EXCEPT
                !.outcome = IF found = {} THEN "empty" ELSE "read",
                !.verb = v,
                !.instances = Cardinality(found),
                !.shapes = IF c \in Plates /\ found # {}
                           THEN property_shapes(a.items[Min(found)]) ELSE @]

---------------------------------------------------------------------------
NoReport == [published |-> FALSE, groups |-> {}, reads |-> {}]

\* main up to get_facts; another invocation may follow.
Start(g) ==
    /\ pc # "reading"
    /\ pc' = "reading"
    /\ gather_subset' = g
    /\ subsets' = resolve_gather_subset(g)
    /\ todo' = Wanted(resolve_gather_subset(g))
    /\ fallback' = FALSE
    /\ amt' = [c \in Classes |-> Unread]
    /\ reads' = [c \in HardwareClasses |-> NoRead]
    /\ error_class' = "none"
    /\ report' = NoReport
    /\ heard' = [c \in Classes |-> [Get |-> Unheard, Enumerate |-> Unheard]]
    /\ deviations' = 0

Current(c) == \A d \in todo : Rank[c] <= Rank[d]

Verb(c) == IF fallback \/ c \in Enumerated THEN "Enumerate" ELSE "Get"

\* What a request and its answer leave behind, whatever is made of it.
Exchange(c, a) ==
    /\ pc = "reading"
    /\ ~Ordinary(a) => deviations < MaxDeviations
    /\ deviations' = IF Ordinary(a) THEN deviations ELSE deviations + 1
    /\ heard' = [heard EXCEPT ![c][Verb(c)] = a]
    /\ UNCHANGED <<gather_subset, subsets, report>>

\* Filed under its class; get_facts goes on with the next one.
File(c, fact, read) ==
    /\ amt' = [amt EXCEPT ![c] = fact]
    /\ reads' = IF c \in HardwareClasses THEN [reads EXCEPT ![c] = read] ELSE reads
    /\ todo' = todo \ {c}
    /\ fallback' = FALSE
    /\ UNCHANGED <<pc, error_class>>

\* A Get whose answer is not enough is followed by an Enumerate: of a plate
\* without instance, and of CIM_BIOSElement without Version.
FallsBack(c, a) == c \in Plates \cup {"CIM_BIOSElement"} /\ GetFact(c, a) = None

GetAnswered(c, a) ==
    /\ Verb(c) = "Get"
    /\ a.kind # "failed"
    /\ Exchange(c, a)
    /\ IF FallsBack(c, a)
       THEN fallback' = TRUE /\ UNCHANGED <<pc, todo, amt, reads, error_class>>
       ELSE File(c, GetFact(c, a), ClassRead(c, "Get", a))

EnumerateAnswered(c, a) ==
    /\ Verb(c) = "Enumerate"
    /\ a.kind # "failed"
    /\ Exchange(c, a)
    /\ File(c, EnumerateFact(c, a), ClassRead(c, "Enumerate", a))

\* Mutant: every AmtError is degradable.
TransportDegrades(c, a) ==
    /\ a.kind = "failed"
    /\ Exchange(c, a)
    /\ File(c, None, [NoRead EXCEPT !.outcome = "absent", !.error_class = a.cls])

\* fail_json: what had been read so far is not reported.
TransportFailed(c, a) ==
    /\ a.kind = "failed"
    /\ Exchange(c, a)
    /\ pc' = "failed"
    /\ error_class' = a.cls
    /\ UNCHANGED <<todo, fallback, amt, reads>>

\* HardwareFacts.to_dict, reads_to_dict, the receipt and exit_json.
Publish ==
    /\ pc = "reading"
    /\ todo = {}
    /\ pc' = "done"
    /\ report' = [published |-> TRUE,
                  groups |-> requested_fact_groups(subsets),
                  reads |-> {c \in HardwareClasses : reads[c].outcome # "unread"}]
    /\ UNCHANGED <<gather_subset, subsets, todo, fallback, amt, reads, error_class,
                   heard, deviations>>

Step ==
    \/ \E c \in todo : Current(c) /\ \E a \in Answers(Verb(c)) :
          GetAnswered(c, a) \/ EnumerateAnswered(c, a) \/ TransportFailed(c, a)
    \/ Publish

Next == (\E g \in GatherSubsets : Start(g)) \/ Step

Init ==
    /\ pc = "idle"
    /\ gather_subset = {}
    /\ subsets = {}
    /\ todo = {}
    /\ fallback = FALSE
    /\ amt = [c \in Classes |-> Unread]
    /\ reads = [c \in HardwareClasses |-> NoRead]
    /\ error_class = "none"
    /\ report = NoReport
    /\ heard = [c \in Classes |-> [Get |-> Unheard, Enumerate |-> Unheard]]
    /\ deviations = 0

Spec == Init /\ [][Next]_vars

---------------------------------------------------------------------------
(***************************************************************************)
(* Properties.                                                             *)
(***************************************************************************)
\* Type correctness.
TypeOK ==
    /\ pc \in {"idle", "reading", "done", "failed"}
    /\ gather_subset \subseteq GATHER_SUBSET_CHOICES
    /\ subsets \subseteq VALID_SUBSETS
    /\ todo \subseteq Classes
    /\ fallback \in BOOLEAN
    /\ \A c \in Classes : amt[c].state \in {"unread", "null", "value"}
    /\ \A c \in HardwareClasses :
         reads[c].outcome \in {"unread", "absent", "empty", "read"}
    /\ error_class \in Fatal \cup {"none"}
    /\ deviations \in 0 .. MaxDeviations

\* The seven rules that docs/amt_info.md:289-305 and resolve_gather_subset list,
\* as one condition on a subset: config always; any other if no entry excludes
\* it, and some entry names it or none names anything.  An exclusion wins over a
\* name: that is this collection's rule, not the one of ansible.builtin.setup
\* (FollowsSetup).
Named(g, sign, s) == \E e \in g : e[1] = sign /\ s \in Expand(e[2])

Asked(g, s) ==
    \/ s = "config"
    \/ /\ ~Named(g, "!", s)
       /\ Named(g, "+", s) \/ \A e \in g : e[1] # "+"

\* The answer that settled a class.
Last(c) ==
    IF heard[c].Enumerate.kind # "none" THEN heard[c].Enumerate ELSE heard[c].Get

\* gather_subset: what is published has a key for a group exactly when those
\* rules ask for it; the receipt accounts for exactly the classes behind those
\* groups, the firmware was asked for no other inventory class, and no option
\* removes a fact of config (HardwareFacts.to_dict, render_class_reads;
\* docs/amt_info.md:307-312 and :334-335).
ReportsWhatWasAsked ==
    report.published =>
        /\ report.groups =
             UNION {FACT_GROUPS_BY_SUBSET[s] :
                    s \in {x \in VALID_SUBSETS : Asked(gather_subset, x)}}
        /\ {FACT_GROUP_BY_CLASS[c] : c \in report.reads} = report.groups
        /\ \A c \in HardwareClasses : c \in report.reads <=> Last(c).kind # "none"
        /\ \A c \in Classes \ HardwareClasses : amt[c].state # "unread"

\* "Resolve a gather_subset list the way ansible.builtin.setup does ... a
\* faithful reimplementation of get_collector_names()" (hardware.py:365-370;
\* amt_info.py:72 and docs/amt_info.md:291 say the same).  What setup subtracts
\* is the excluded subsets without those the list names themselves, so that one
\* named explicitly is gathered whatever is excluded beside it: '!all,storage'
\* is how setup is asked for storage alone.  Here the exclusion wins.
FollowsSetup ==
    report.published =>
        \A s \in VALID_SUBSETS : <<"+", s>> \in gather_subset =>
            FACT_GROUPS_BY_SUBSET[s] \subseteq report.groups

\* ClassRead: absent means that the last verb was refused, empty that it was
\* answered without an instance, read that the fact comes from as many instances
\* as are counted, and the census of a plate is of the instance its fact is
\* built from: a text field is null exactly when the census says why.  Absent
\* and the verb Enumerate say less than their comments: "every verb tried was
\* refused" (hardware.py:151) and "means the bare Get was refused" (:1350,
\* client.py:442) leave out the Get that was answered with no content, after
\* which Enumerate is sent, and may be refused, all the same.
ReadFitsAnswer ==
    \A c \in HardwareClasses :
        LET read == reads[c]
            fact == amt[c]
        IN  read.outcome # "unread" =>
            /\ read.outcome = "absent" <=> Last(c).kind = "refused"
            /\ read.outcome = "absent" => fact = None /\ read.error_class # "none"
            /\ read.outcome = "empty" =>
                 read.instances = 0 /\ fact.records = <<>>
                 /\ (fact.state = "null" <=> c \in Plates)
            /\ read.outcome = "read" =>
                 /\ fact.state = "value"
                 /\ Cardinality(DOMAIN fact.records) = IF c \in Plates THEN 1 ELSE read.instances
                 /\ c \in Plates =>
                      (fact.records[1].serial_number = "null"
                         <=> read.shapes["name"] # "text")
            /\ c \in Plates =>
                 (read.verb = "Enumerate"
                    <=> ~(heard[c].Get.kind = "answer"
                          /\ heard[c].Get.items[1] # Blank))

\* get_facts: each class degrades on its own.  A run that ends well met no
\* transport failure; a class that answered as expected is reported in full
\* whatever became of the others, and one that was refused is blank, with
\* nothing made up for it.
Blanks == {"null", "false"}

DegradesAlone ==
    /\ pc = "done" =>
         \A c \in Classes : /\ heard[c].Get.kind # "failed"
                            /\ heard[c].Enumerate.kind # "failed"
    /\ pc = "failed" =>
         \E c \in Classes : Last(c).kind = "failed" /\ Last(c).cls = error_class
    /\ \A c \in Classes : amt[c].state # "unread" =>
         /\ Ordinary(Last(c)) =>
              /\ amt[c].state = "value"
              /\ \A n \in DOMAIN amt[c].records :
                   \A f \in DOMAIN amt[c].records[n] :
                      amt[c].records[n][f] # "null"
         /\ Last(c).kind = "refused" =>
              \A n \in DOMAIN amt[c].records :
                 \A f \in DOMAIN amt[c].records[n] :
                    amt[c].records[n][f] \in Blanks

============================================================================
