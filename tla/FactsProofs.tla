----------------------------- MODULE FactsProofs -----------------------------
(***************************************************************************)
(* amt_info, for every value of its option and whatever the firmware       *)
(* answers: what it publishes is what gather_subset asks for, the receipt  *)
(* of each inventory class says what was heard, and each class degrades on *)
(* its own.                                                                *)
(***************************************************************************)
EXTENDS Facts, TLAPS, SequenceTheorems, FiniteSetTheorems, WellFoundedInduction

\* The table, spelt out.
LEMMA ClassNames ==
    /\ Classes = {"AMT_GeneralSettings", "AMT_SetupAndConfigurationService",
                  "CIM_AssociatedPowerManagementService", "AMT_BootCapabilities",
                  "AMT_RedirectionService", "CIM_SoftwareIdentity",
                  "CIM_ComputerSystemPackage", "AMT_EthernetPortSettings",
                  "CIM_ComputerSystem", "CIM_BIOSElement", "CIM_Chassis", "CIM_Card",
                  "CIM_Processor", "CIM_Chip", "CIM_PhysicalMemory",
                  "CIM_MediaAccessDevice"}
    /\ HardwareClasses = {"CIM_Chassis", "CIM_Card", "CIM_Processor", "CIM_Chip",
                          "CIM_PhysicalMemory", "CIM_MediaAccessDevice"}
<1>1. HardwareClasses = {Order[11], Order[12], Order[13], Order[14], Order[15],
                         Order[16]}
  <2>1. 11 .. 16 = {11, 12, 13, 14, 15, 16}
    OBVIOUS
  <2> QED BY <2>1, SMTT(30) DEF HardwareClasses
<1>2. Classes = {Order[1], Order[2], Order[3], Order[4], Order[5], Order[6],
                 Order[7], Order[8], Order[9], Order[10], Order[11], Order[12],
                 Order[13], Order[14], Order[15], Order[16]}
  <2>1. 1 .. 16 = {1, 2, 3, 4, 5, 6, 7, 8, 9, 10, 11, 12, 13, 14, 15, 16}
    OBVIOUS
  <2> QED BY <2>1, SMTT(30) DEF Classes
<1> QED BY <1>1, <1>2 DEF Order

LEMMA FactIsThere ==
    ASSUME NEW rs
    PROVE  Value(rs).state = "value" /\ None.state = "null"
  BY DEF Value, None

\* Whatever the answer, a class that has been read has a value or none.
LEMMA GetFactRead ==
    ASSUME NEW c \in Classes \ Enumerated, NEW a
    PROVE  GetFact(c, a).state \in {"null", "value"}
<1>1. CASE c \in {"AMT_GeneralSettings", "AMT_SetupAndConfigurationService"}
  BY <1>1, FactIsThere DEF GetFact
<1>2. CASE c = "CIM_AssociatedPowerManagementService"
  BY <1>2, FactIsThere DEF GetFact
<1>3. CASE c = "AMT_BootCapabilities"
  BY <1>3, FactIsThere DEF GetFact
<1>4. CASE c = "AMT_RedirectionService"
  BY <1>4, FactIsThere DEF GetFact
<1>5. CASE c = "CIM_ComputerSystemPackage"
  BY <1>5, FactIsThere DEF GetFact
<1>6. CASE c = "AMT_EthernetPortSettings"
  BY <1>6, FactIsThere DEF GetFact
<1>7. CASE c = "CIM_ComputerSystem"
  BY <1>7, FactIsThere DEF GetFact
<1>8. CASE c = "CIM_BIOSElement"
  BY <1>8, FactIsThere DEF GetFact
<1>9. CASE c \in Plates
  BY <1>9, FactIsThere DEF GetFact, Plates
<1> QED BY <1>1, <1>2, <1>3, <1>4, <1>5, <1>6, <1>7, <1>8, <1>9, ClassNames
        DEF Enumerated, Plates

LEMMA EnumerateFactRead ==
    ASSUME NEW c, NEW a
    PROVE  EnumerateFact(c, a).state \in {"null", "value"}
<1>1. CASE a.kind # "answer"
  BY <1>1, FactIsThere DEF EnumerateFact
<1>2. CASE a.kind = "answer" /\ c = "CIM_SoftwareIdentity"
  BY <1>2, FactIsThere DEF EnumerateFact
<1>3. CASE a.kind = "answer" /\ c = "CIM_BIOSElement"
  BY <1>3, FactIsThere DEF EnumerateFact
<1>4. CASE a.kind = "answer" /\ c \in Plates
  BY <1>4, FactIsThere DEF EnumerateFact, Plates
<1>5. CASE a.kind = "answer" /\ c \notin Plates \cup {"CIM_SoftwareIdentity",
                                                      "CIM_BIOSElement"}
  BY <1>5, FactIsThere DEF EnumerateFact, Plates
<1> QED BY <1>1, <1>2, <1>3, <1>4, <1>5

LEMMA ClassReadRead ==
    ASSUME NEW c, NEW v, NEW a
    PROVE  ClassRead(c, v, a).outcome \in {"absent", "empty", "read"}
  BY DEF ClassRead, NoRead

---------------------------------------------------------------------------
(***************************************************************************)
(* The rule of gather_subset.                                              *)
(***************************************************************************)
LEMMA ExpandsToSubsets ==
    ASSUME NEW n \in Positive
    PROVE  Expand(n) \subseteq VALID_SUBSETS /\ Expand(n) # {}
  BY DEF Expand, Positive, VALID_SUBSETS, MINIMAL_SUBSET

\* resolve_gather_subset computes the rule, for every list of entries.
LEMMA ResolvesTheRule ==
    ASSUME NEW g \in SUBSET GATHER_SUBSET_CHOICES
    PROVE  resolve_gather_subset(g) = {s \in VALID_SUBSETS : Asked(g, s)}
<1> DEFINE additional == UNION {Expand(e[2]) : e \in {x \in g : x[1] = "+"}}
           excluded == UNION {Expand(e[2]) : e \in {x \in g : x[1] = "!"}}
           chosen == IF additional = {} THEN VALID_SUBSETS ELSE additional
<1>0. \A e \in g : e[1] \in {"+", "!"} /\ e[2] \in Positive
  BY DEF GATHER_SUBSET_CHOICES
<1>1. \A s : s \in additional <=> Named(g, "+", s)
  BY DEF Named
<1>2. \A s : s \in excluded <=> Named(g, "!", s)
  BY DEF Named
<1>3. additional \subseteq VALID_SUBSETS
  BY <1>0, <1>1, ExpandsToSubsets DEF Named
<1>4. additional = {} <=> \A e \in g : e[1] # "+"
  <2>1. ASSUME NEW e \in g, e[1] = "+" PROVE additional # {}
    <3>1. PICK s \in Expand(e[2]) : TRUE
      BY <1>0, <2>1, ExpandsToSubsets
    <3>2. Named(g, "+", s)
      BY <2>1, <3>1 DEF Named
    <3> QED BY <1>1, <3>2
  <2>2. ASSUME \A e \in g : e[1] # "+" PROVE additional = {}
    BY <1>1, <2>2 DEF Named
  <2> QED BY <2>1, <2>2
<1>5. resolve_gather_subset(g) = (chosen \ (excluded \ MINIMAL_SUBSET)) \cup MINIMAL_SUBSET
  BY DEF resolve_gather_subset
<1> HIDE DEF additional, excluded
<1>6. ASSUME NEW s
      PROVE  s \in resolve_gather_subset(g) <=> s \in VALID_SUBSETS /\ Asked(g, s)
  <2>1. CASE s = "config"
    BY <1>5, <2>1 DEF Asked, VALID_SUBSETS, MINIMAL_SUBSET
  <2>2. CASE s # "config" /\ additional = {}
    <3>1. ~Named(g, "+", s)
      BY <1>1, <2>2
    <3> QED BY <1>2, <1>4, <1>5, <2>2, <3>1 DEF Asked, MINIMAL_SUBSET
  <2>3. CASE s # "config" /\ additional # {}
    BY <1>1, <1>2, <1>3, <1>4, <1>5, <2>3 DEF Asked, MINIMAL_SUBSET
  <2> QED BY <2>1, <2>2, <2>3
<1> QED BY <1>6

\* The groups of the wanted classes are the groups of the subsets.
LEMMA GroupsOfClasses ==
    ASSUME NEW ss \in SUBSET VALID_SUBSETS
    PROVE  {FACT_GROUP_BY_CLASS[c] : c \in Wanted(ss) \cap HardwareClasses} =
             requested_fact_groups(ss)
<1>1. /\ FACT_GROUPS_BY_SUBSET["config"] = {}
      /\ FACT_GROUPS_BY_SUBSET["system"] = {"chassis", "baseboard"}
      /\ FACT_GROUPS_BY_SUBSET["processor"] = {"processors", "chips"}
      /\ FACT_GROUPS_BY_SUBSET["memory"] = {"memory"}
      /\ FACT_GROUPS_BY_SUBSET["storage"] = {"storage"}
  BY DEF FACT_GROUPS_BY_SUBSET, VALID_SUBSETS
<1>2. /\ SubsetOf["CIM_Chassis"] = "system" /\ SubsetOf["CIM_Card"] = "system"
      /\ SubsetOf["CIM_Processor"] = "processor" /\ SubsetOf["CIM_Chip"] = "processor"
      /\ SubsetOf["CIM_PhysicalMemory"] = "memory"
      /\ SubsetOf["CIM_MediaAccessDevice"] = "storage"
  BY ClassNames DEF SubsetOf
<1>3. /\ FACT_GROUP_BY_CLASS["CIM_Chassis"] = "chassis"
      /\ FACT_GROUP_BY_CLASS["CIM_Card"] = "baseboard"
      /\ FACT_GROUP_BY_CLASS["CIM_Processor"] = "processors"
      /\ FACT_GROUP_BY_CLASS["CIM_Chip"] = "chips"
      /\ FACT_GROUP_BY_CLASS["CIM_PhysicalMemory"] = "memory"
      /\ FACT_GROUP_BY_CLASS["CIM_MediaAccessDevice"] = "storage"
  BY DEF FACT_GROUP_BY_CLASS
<1>4. HardwareClasses \subseteq Classes
  BY ClassNames
<1>5. ASSUME NEW x \in requested_fact_groups(ss)
      PROVE  \E c \in Wanted(ss) \cap HardwareClasses : x = FACT_GROUP_BY_CLASS[c]
  <2>1. PICK s \in ss : x \in FACT_GROUPS_BY_SUBSET[s]
    BY <1>5 DEF requested_fact_groups
  <2>2. s \in {"config", "system", "processor", "memory", "storage"}
    BY <2>1 DEF VALID_SUBSETS
  <2>3. \A c \in HardwareClasses : SubsetOf[c] = s => c \in Wanted(ss) \cap HardwareClasses
    BY <1>4, <2>1 DEF Wanted
  <2> QED BY <1>1, <1>2, <1>3, <2>1, <2>2, <2>3, ClassNames
<1>6. ASSUME NEW c \in Wanted(ss) \cap HardwareClasses
      PROVE  FACT_GROUP_BY_CLASS[c] \in requested_fact_groups(ss)
  <2>1. SubsetOf[c] \in ss
    BY <1>6 DEF Wanted
  <2>2. FACT_GROUP_BY_CLASS[c] \in FACT_GROUPS_BY_SUBSET[SubsetOf[c]]
    BY <1>1, <1>2, <1>3, ClassNames
  <2> QED BY <2>1, <2>2 DEF requested_fact_groups
<1> QED BY <1>5, <1>6

---------------------------------------------------------------------------
(***************************************************************************)
(* The invariant: as long as a run is under way, the classes that have been*)
(* read are the wanted ones that are not to do any more.                   *)
(***************************************************************************)
Filed ==
    /\ amt \in [Classes -> {amt[c] : c \in Classes}]
    /\ reads \in [HardwareClasses -> {reads[c] : c \in HardwareClasses}]
    /\ todo \subseteq Wanted(subsets)
    /\ \A c \in Wanted(subsets) \ todo : amt[c].state # "unread"
    /\ \A c \in HardwareClasses :
         reads[c].outcome # "unread" <=> c \in Wanted(subsets) \ todo

FactsInv ==
    /\ gather_subset \in SUBSET GATHER_SUBSET_CHOICES
    /\ pc \in {"reading", "done"} => subsets = resolve_gather_subset(gather_subset)
    /\ pc \in {"reading", "done"} => Filed
    /\ report.published => pc = "done" /\ todo = {}
    /\ report.published =>
         /\ report.groups = requested_fact_groups(subsets)
         /\ report.reads = {c \in HardwareClasses : reads[c].outcome # "unread"}

LEMMA InitFacts == Init => FactsInv
  BY DEF Init, FactsInv, NoReport

LEMMA StartStep ==
    ASSUME FactsInv, NEW g \in GatherSubsets, Start(g) PROVE FactsInv'
<1>1. g \in SUBSET GATHER_SUBSET_CHOICES
  BY FirmwareAssumption
<1>2. Filed'
  <2>1. \A c \in HardwareClasses : reads'[c].outcome = "unread"
    BY DEF Start, NoRead
  <2> QED BY <2>1 DEF Start, Filed
<1>3. ~report'.published
  BY DEF Start, NoReport
<1> QED BY <1>1, <1>2, <1>3 DEF FactsInv, Start

LEMMA FileStep ==
    ASSUME FactsInv, pc = "reading", NEW c \in todo, NEW fact, NEW read,
           fact.state # "unread", read.outcome # "unread", File(c, fact, read),
           UNCHANGED <<gather_subset, subsets, report>>
    PROVE  FactsInv'
<1>t. Filed /\ c \in Classes
  BY DEF FactsInv, Filed, Wanted
<1>1. amt' \in [Classes -> {amt'[d] : d \in Classes}]
      /\ \A d \in Classes : amt'[d] = IF d = c THEN fact ELSE amt[d]
  BY <1>t DEF File, Filed
<1>2. reads' \in [HardwareClasses -> {reads'[d] : d \in HardwareClasses}]
      /\ \A d \in HardwareClasses : reads'[d] = IF d = c THEN read ELSE reads[d]
  BY <1>t DEF File, Filed
<1>3. todo' = todo \ {c} /\ UNCHANGED <<pc, subsets, gather_subset, report>>
  BY DEF File
<1>4. \A d \in Wanted(subsets) \ todo' : amt'[d].state # "unread"
  BY <1>t, <1>1, <1>3 DEF Filed, Wanted
<1>5. \A d \in HardwareClasses :
        reads'[d].outcome # "unread" <=> d \in Wanted(subsets) \ todo'
  BY <1>t, <1>2, <1>3 DEF Filed
<1>6. Filed'
  BY <1>t, <1>1, <1>2, <1>3, <1>4, <1>5 DEF Filed
<1> QED BY <1>3, <1>6 DEF FactsInv

LEMMA FactsStep == FactsInv /\ [Next]_vars => FactsInv'
<1> SUFFICES ASSUME FactsInv, [Next]_vars PROVE FactsInv'
  OBVIOUS
<1>1. CASE UNCHANGED vars
  BY <1>1 DEF vars, FactsInv, Filed
<1>2. ASSUME NEW g \in GatherSubsets, Start(g) PROVE FactsInv'
  BY <1>2, StartStep
<1>3. ASSUME NEW c \in todo, NEW a, GetAnswered(c, a) PROVE FactsInv'
  <2>0. c \in Classes \ Enumerated /\ pc = "reading"
        /\ UNCHANGED <<gather_subset, subsets, report>>
    BY <1>3 DEF GetAnswered, Verb, Exchange, FactsInv, Filed, Wanted
  <2>1. CASE FallsBack(c, a)
    BY <1>3, <2>0, <2>1 DEF GetAnswered, FactsInv, Filed
  <2>2. CASE ~FallsBack(c, a)
    BY <1>3, <2>0, <2>2, GetFactRead, ClassReadRead, FileStep DEF GetAnswered
  <2> QED BY <2>1, <2>2
<1>4. ASSUME NEW c \in todo, NEW a, EnumerateAnswered(c, a) PROVE FactsInv'
  <2>0. pc = "reading" /\ UNCHANGED <<gather_subset, subsets, report>>
    BY <1>4 DEF EnumerateAnswered, Exchange
  <2> QED BY <1>4, <2>0, EnumerateFactRead, ClassReadRead, FileStep
          DEF EnumerateAnswered
<1>5. ASSUME NEW c \in todo, NEW a, TransportFailed(c, a) PROVE FactsInv'
  BY <1>5 DEF TransportFailed, Exchange, FactsInv
<1>6. CASE Publish
  <2>1. Filed'
    BY <1>6 DEF Publish, FactsInv, Filed
  <2>2. /\ report'.groups = requested_fact_groups(subsets)
        /\ report'.reads = {c \in HardwareClasses : reads[c].outcome # "unread"}
    BY <1>6 DEF Publish
  <2>3. UNCHANGED <<gather_subset, subsets, todo, reads>> /\ pc' = "done" /\ todo = {}
        /\ pc = "reading"
    BY <1>6 DEF Publish
  <2> QED BY <2>1, <2>2, <2>3 DEF FactsInv
<1> QED BY <1>1, <1>2, <1>3, <1>4, <1>5, <1>6 DEF Next, Step

---------------------------------------------------------------------------
(***************************************************************************)
(* What was heard of a class, and what was made of it.  The facts and the  *)
(* receipts are a function of the history: each class that has been read   *)
(* was settled by one answer, which its fact and its ClassRead are         *)
(* computed from, and a class whose Get was not enough has an Enumerate    *)
(* still to come.                                                          *)
(***************************************************************************)
\* amt, reads and heard are functions on the classes.
Shape ==
    /\ amt = [c \in Classes |-> amt[c]]
    /\ reads = [c \in HardwareClasses |-> reads[c]]
    /\ heard = [c \in Classes |-> [Get |-> heard[c].Get, Enumerate |-> heard[c].Enumerate]]

\* The Get of c was answered, but not with enough.
Insufficient(c) ==
    /\ c \notin Enumerated
    /\ heard[c].Get \in Answers("Get") /\ heard[c].Get.kind # "failed"
    /\ FallsBack(c, heard[c].Get)

\* c was settled by its Get ...
ByGet(c) ==
    /\ c \notin Enumerated
    /\ heard[c].Get \in Answers("Get") /\ heard[c].Get.kind # "failed"
    /\ ~FallsBack(c, heard[c].Get)
    /\ heard[c].Enumerate = Unheard
    /\ amt[c] = GetFact(c, heard[c].Get)
    /\ c \in HardwareClasses => reads[c] = ClassRead(c, "Get", heard[c].Get)

\* ... or by its Enumerate.
ByEnumerate(c) ==
    /\ heard[c].Enumerate \in Answers("Enumerate") /\ heard[c].Enumerate.kind # "failed"
    /\ IF c \in Enumerated THEN heard[c].Get = Unheard ELSE Insufficient(c)
    /\ amt[c] = EnumerateFact(c, heard[c].Enumerate)
    /\ c \in HardwareClasses => reads[c] = ClassRead(c, "Enumerate", heard[c].Enumerate)

\* Nothing is on file for c.
Untold(c) == amt[c] = Unread /\ (c \in HardwareClasses => reads[c] = NoRead)

\* c is yet to be settled.
Open(c) ==
    /\ heard[c].Enumerate = Unheard
    /\ IF fallback /\ Current(c) THEN Insufficient(c) ELSE heard[c].Get = Unheard

\* A wanted class that is not to do any more is settled by what was heard of it,
\* one still to do is open, and nothing was heard of the others.
HeardInv ==
    /\ Shape
    /\ pc \in {"idle", "reading", "done", "failed"} /\ fallback \in BOOLEAN
    /\ todo \subseteq Wanted(subsets)
    /\ \A c \in Classes :
         /\ IF pc # "idle" /\ c \in Wanted(subsets) \ todo
            THEN ByGet(c) \/ ByEnumerate(c) ELSE Untold(c)
         /\ pc # "idle" /\ c \notin Wanted(subsets) =>
              heard[c].Get = Unheard /\ heard[c].Enumerate = Unheard
         /\ pc = "reading" /\ c \in todo => Open(c)
    /\ pc = "done" => todo = {}
    /\ pc = "failed" =>
         \E c \in Classes : Last(c).kind = "failed" /\ Last(c).cls = error_class

\* Only one class at a time is being read.
LEMMA OneCurrent ==
    ASSUME todo \subseteq Classes, NEW c \in todo, NEW d \in todo, Current(c), Current(d)
    PROVE  c = d
<1>1. \A x \in Classes : \E i \in 1 .. 16 : Order[i] = x
  BY DEF Classes
<1>2. \A x \in Classes : Rank[x] \in 1 .. 16 /\ Order[Rank[x]] = x
  <2> SUFFICES ASSUME NEW x \in Classes
               PROVE  Rank[x] \in 1 .. 16 /\ Order[Rank[x]] = x
    OBVIOUS
  <2>1. Rank[x] = CHOOSE i \in 1 .. 16 : Order[i] = x
    BY DEF Rank
  <2> QED BY <1>1, <2>1
<1>3. Rank[c] \in 1 .. 16 /\ Rank[d] \in 1 .. 16 /\ Rank[c] <= Rank[d] /\ Rank[d] <= Rank[c]
  BY <1>2 DEF Current
<1>4. Rank[c] = Rank[d]
  BY <1>3
<1> QED BY <1>2, <1>4

\* What the initial values say.
LEMMA Unheards ==
    /\ Unheard.kind = "none"
    /\ Unread.state = "unread" /\ NoRead.outcome = "unread"
  BY DEF Unheard, Unread, NoRead

\* What the firmware can answer, by verb.
LEMMA AnswerKinds ==
    ASSUME NEW v, NEW a \in Answers(v)
    PROVE  /\ a.kind \in {"answer", "refused", "failed"}
           /\ a.kind = "answer" => a.items \in Seq(Instances)
           /\ a.kind = "answer" /\ v = "Get" =>
                \E i \in Instances : a.items = <<i>>
           /\ a.kind = "refused" => a.cls = "protocol"
           /\ a.kind = "failed" => a.cls \in Fatal
<1>1. Blank \in Instances
  BY DEF Blank, Instances, Kinds
<1>2. CASE \E cls \in Fatal : a = Failure(cls)
  BY <1>2 DEF Failure
<1>3. CASE v = "Get" /\ \E i \in {Typical, Blank} \cup Unusual : a = Answer(<<i>>)
  <2>1. PICK i \in Instances : a = Answer(<<i>>)
    BY <1>1, <1>3, FirmwareAssumption
  <2> QED BY <2>1 DEF Answer
<1>4. CASE a = Refusal
  BY <1>4 DEF Refusal
<1>5. CASE v # "Get" /\ \E e \in Enumerations : a = Answer(e)
  BY <1>5, FirmwareAssumption DEF Answer
<1> QED BY <1>2, <1>3, <1>4, <1>5 DEF Answers

\* Before the first run nothing was heard and nothing is on file.
LEMMA InitHeard == Init => HeardInv
<1> SUFFICES ASSUME Init PROVE HeardInv
  OBVIOUS
<1>1. Shape
  BY DEF Init, Shape
<1> QED BY <1>1, ClassNames DEF Init, HeardInv, Untold

\* main starts from nothing.
LEMMA StartHeard ==
    ASSUME NEW g, Start(g) PROVE HeardInv'
<1>1. Shape'
  BY DEF Start, Shape
<1>2. HardwareClasses \subseteq Classes
  BY ClassNames
<1>3. \A c \in Classes : Untold(c)' /\ heard'[c].Get = Unheard /\ heard'[c].Enumerate = Unheard
  BY <1>2 DEF Start, Untold
<1> QED BY <1>1, <1>3 DEF Start, HeardInv, Open

\* An exchange about c leaves every other class alone.
LEMMA OthersKept ==
    ASSUME HeardInv, NEW c \in todo, NEW a, Exchange(c, a)
    PROVE  /\ c \in Classes /\ pc = "reading" /\ c \in Wanted(subsets)
           /\ heard' = [d \in Classes |-> [Get |-> heard'[d].Get, Enumerate |-> heard'[d].Enumerate]]
           /\ \A d \in Classes \ {c} : heard'[d] = heard[d]
           /\ Verb(c) = "Get" => heard'[c].Get = a /\ heard'[c].Enumerate = heard[c].Enumerate
           /\ Verb(c) = "Enumerate" => heard'[c].Enumerate = a /\ heard'[c].Get = heard[c].Get
<1>1. c \in Classes /\ pc = "reading" /\ c \in Wanted(subsets)
  BY DEF HeardInv, Wanted, Exchange
<1>2. heard = [d \in Classes |-> [Get |-> heard[d].Get, Enumerate |-> heard[d].Enumerate]]
  BY DEF HeardInv, Shape
<1>3. heard' = [heard EXCEPT ![c][Verb(c)] = a]
  BY DEF Exchange
<1>4. Verb(c) \in {"Get", "Enumerate"}
  BY DEF Verb
<1>5. heard[c] = [Get |-> heard[c].Get, Enumerate |-> heard[c].Enumerate]
  BY <1>1, <1>2
<1>6. heard'[c] = [heard[c] EXCEPT ![Verb(c)] = a] /\ \A d \in Classes \ {c} : heard'[d] = heard[d]
  BY <1>1, <1>2, <1>3
<1>7. /\ Verb(c) = "Get" => heard'[c] = [Get |-> a, Enumerate |-> heard[c].Enumerate]
      /\ Verb(c) = "Enumerate" => heard'[c] = [Get |-> heard[c].Get, Enumerate |-> a]
  BY <1>5, <1>6
<1>8. \A d \in Classes : heard'[d] = [Get |-> heard'[d].Get, Enumerate |-> heard'[d].Enumerate]
  BY <1>2, <1>4, <1>6, <1>7
<1>9. DOMAIN heard' = Classes /\ heard' = [d \in DOMAIN heard' |-> heard'[d]]
  BY <1>2, <1>3
<1> QED BY <1>1, <1>6, <1>7, <1>8, <1>9

\* What is true of another class stays true while c is filed or falls back.
LEMMA OthersSettled ==
    ASSUME HeardInv, NEW c \in todo, NEW a, Exchange(c, a), NEW d \in Classes \ {c},
           amt'[d] = amt[d], d \in HardwareClasses => reads'[d] = reads[d]
    PROVE  /\ ByGet(d) => ByGet(d)'
           /\ ByEnumerate(d) => ByEnumerate(d)'
           /\ Untold(d) => Untold(d)'
           /\ Insufficient(d) => Insufficient(d)'
<1>1. heard'[d] = heard[d]
  BY OthersKept
<1> QED BY <1>1 DEF ByGet, ByEnumerate, Untold, Insufficient

\* Filing c, settled by the answer just heard.
LEMMA FileHeard ==
    ASSUME HeardInv, NEW c \in todo, Current(c), NEW a, Exchange(c, a), NEW fact, NEW read,
           File(c, fact, read),
           Shape' /\ amt'[c] = fact /\ (c \in HardwareClasses => reads'[c] = read)
             => ByGet(c)' \/ ByEnumerate(c)'
    PROVE  HeardInv'
<1>1. /\ c \in Classes /\ pc = "reading" /\ c \in Wanted(subsets)
      /\ heard' = [d \in Classes |-> [Get |-> heard'[d].Get, Enumerate |-> heard'[d].Enumerate]]
      /\ \A d \in Classes \ {c} : heard'[d] = heard[d]
  BY OthersKept
<1>2. /\ amt' = [d \in Classes |-> amt'[d]] /\ amt'[c] = fact
      /\ \A d \in Classes \ {c} : amt'[d] = amt[d]
  BY <1>1 DEF File, HeardInv, Shape
<1>3. /\ reads' = [d \in HardwareClasses |-> reads'[d]]
      /\ c \in HardwareClasses => reads'[c] = read
      /\ \A d \in HardwareClasses \ {c} : reads'[d] = reads[d]
  BY DEF File, HeardInv, Shape
<1>4. Shape'
  BY <1>1, <1>2, <1>3 DEF Shape
<1>5. ByGet(c)' \/ ByEnumerate(c)'
  BY <1>2, <1>3, <1>4
<1>6. todo' = todo \ {c} /\ UNCHANGED <<pc, subsets, error_class>> /\ fallback' = FALSE
  BY DEF File, Exchange
<1>7. todo \subseteq Classes
  BY DEF HeardInv, Wanted
<1>8. ASSUME NEW d \in Classes
      PROVE  /\ IF d \in Wanted(subsets) \ todo'
                THEN ByGet(d)' \/ ByEnumerate(d)' ELSE Untold(d)'
             /\ d \notin Wanted(subsets) => heard'[d].Get = Unheard /\ heard'[d].Enumerate = Unheard
             /\ d \in todo' => Open(d)'
  <2>1. CASE d = c
    BY <1>1, <1>5, <1>6, <2>1
  <2>2. CASE d # c
    <3>1. /\ ByGet(d) => ByGet(d)'
          /\ ByEnumerate(d) => ByEnumerate(d)'
          /\ Untold(d) => Untold(d)'
      BY <1>2, <1>3, <2>2, OthersSettled
    <3>2. d \in todo => ~Current(d)
      BY <1>7, <2>2, OneCurrent
    <3> QED BY <1>1, <1>6, <2>2, <3>1, <3>2 DEF HeardInv, Open
  <2> QED BY <2>1, <2>2
<1> QED BY <1>1, <1>4, <1>6, <1>8 DEF HeardInv, Wanted

\* Every step keeps what was heard and what was made of it in agreement.
LEMMA HeardStep == HeardInv /\ [Next]_vars => HeardInv'
<1> SUFFICES ASSUME HeardInv, [Next]_vars PROVE HeardInv'
  OBVIOUS
<1>1. CASE UNCHANGED vars
  BY <1>1 DEF vars, HeardInv, Shape, ByGet, ByEnumerate, Untold, Open, Insufficient, Current, Last
<1>2. ASSUME NEW g \in GatherSubsets, Start(g) PROVE HeardInv'
  BY <1>2, StartHeard
<1>3. ASSUME NEW c \in todo, Current(c), NEW a \in Answers(Verb(c)), Exchange(c, a)
      PROVE  /\ Open(c) /\ c \in Classes /\ Verb(c) \in {"Get", "Enumerate"}
             /\ Verb(c) = "Get" => c \notin Enumerated /\ ~fallback /\ heard[c].Get = Unheard
             /\ Verb(c) = "Enumerate" =>
                  IF c \in Enumerated THEN heard[c].Get = Unheard ELSE Insufficient(c)
  <2>1. Open(c) /\ c \in Classes /\ Verb(c) \in {"Get", "Enumerate"}
    BY <1>3, OthersKept DEF HeardInv, Verb
  <2> QED BY <1>3, <2>1 DEF Open, Verb, HeardInv, Insufficient
<1>4. ASSUME NEW c \in todo, Current(c), NEW a \in Answers(Verb(c)), GetAnswered(c, a)
      PROVE  HeardInv'
  <2>1. Exchange(c, a) /\ Verb(c) = "Get" /\ a.kind # "failed"
    BY <1>4 DEF GetAnswered
  <2>2. c \in Classes \ Enumerated /\ heard[c].Enumerate = Unheard /\ a \in Answers("Get")
    BY <1>3, <1>4, <2>1 DEF Open
  <2>3. heard'[c].Get = a /\ heard'[c].Enumerate = Unheard
    BY <2>1, <2>2, OthersKept
  <2>4. CASE FallsBack(c, a)
    <3>1. fallback' = TRUE /\ UNCHANGED <<pc, todo, amt, reads, error_class, subsets>>
      BY <1>4, <2>1, <2>4 DEF GetAnswered, Exchange
    <3>2. Shape' /\ pc = "reading" /\ c \in Wanted(subsets) /\ todo \subseteq Classes
      BY <2>1, <3>1, OthersKept DEF HeardInv, Shape, Wanted
    <3>3. Insufficient(c)' /\ (Untold(c) => Untold(c)')
      BY <2>1, <2>2, <2>3, <2>4, <3>1 DEF Insufficient, Untold
    <3>4. ASSUME NEW d \in Classes
          PROVE  /\ IF d \in Wanted(subsets) \ todo
                    THEN ByGet(d)' \/ ByEnumerate(d)' ELSE Untold(d)'
                 /\ d \notin Wanted(subsets) => heard'[d].Get = Unheard /\ heard'[d].Enumerate = Unheard
                 /\ d \in todo => Open(d)'
      <4>1. CASE d = c
        <5>1. Untold(c) /\ c \in todo
          BY <1>4, <3>2 DEF HeardInv
        <5>2. Open(c)'
          BY <1>4, <2>3, <3>1, <3>3 DEF Open, Current
        <5> QED BY <3>2, <3>3, <4>1, <5>1, <5>2
      <4>2. CASE d # c
        <5>1. /\ ByGet(d) => ByGet(d)'
              /\ ByEnumerate(d) => ByEnumerate(d)'
              /\ Untold(d) => Untold(d)'
          BY <2>1, <3>1, <4>2, OthersSettled
        <5>2. d \in todo => ~Current(d) /\ ~Current(d)'
          BY <1>4, <3>1, <3>2, <4>2, OneCurrent DEF Current
        <5>3. heard'[d] = heard[d]
          BY <2>1, <4>2, OthersKept
        <5> QED BY <3>2, <5>1, <5>2, <5>3 DEF HeardInv, Open
      <4> QED BY <4>1, <4>2
    <3> QED BY <3>1, <3>2, <3>4 DEF HeardInv
  <2>5. CASE ~FallsBack(c, a)
    <3>1. File(c, GetFact(c, a), ClassRead(c, "Get", a))
      BY <1>4, <2>5 DEF GetAnswered
    <3>2. amt'[c] = GetFact(c, a) /\ (c \in HardwareClasses => reads'[c] = ClassRead(c, "Get", a))
            => ByGet(c)'
      BY <2>1, <2>2, <2>3, <2>5 DEF ByGet
    <3> QED BY <1>4, <2>1, <3>1, <3>2, FileHeard
  <2> QED BY <2>4, <2>5
<1>5. ASSUME NEW c \in todo, Current(c), NEW a \in Answers(Verb(c)), EnumerateAnswered(c, a)
      PROVE  HeardInv'
  <2>1. /\ Exchange(c, a) /\ Verb(c) = "Enumerate" /\ a.kind # "failed"
        /\ File(c, EnumerateFact(c, a), ClassRead(c, "Enumerate", a))
    BY <1>5 DEF EnumerateAnswered
  <2>2. /\ IF c \in Enumerated THEN heard[c].Get = Unheard ELSE Insufficient(c)
        /\ a \in Answers("Enumerate")
    BY <1>3, <1>5, <2>1
  <2>3. heard'[c].Enumerate = a /\ heard'[c].Get = heard[c].Get
    BY <2>1, OthersKept
  <2>4. amt'[c] = EnumerateFact(c, a)
          /\ (c \in HardwareClasses => reads'[c] = ClassRead(c, "Enumerate", a))
          => ByEnumerate(c)'
    BY <2>1, <2>2, <2>3 DEF ByEnumerate, Insufficient
  <2> QED BY <1>5, <2>1, <2>4, FileHeard
<1>6. ASSUME NEW c \in todo, Current(c), NEW a \in Answers(Verb(c)), TransportFailed(c, a)
      PROVE  HeardInv'
  <2>1. /\ Exchange(c, a) /\ pc' = "failed" /\ a.kind = "failed" /\ error_class' = a.cls
        /\ UNCHANGED <<todo, fallback, amt, reads, subsets>>
    BY <1>6 DEF TransportFailed, Exchange
  <2>2. /\ Open(c) /\ c \in Classes /\ Verb(c) \in {"Get", "Enumerate"}
    BY <1>3, <1>6, <2>1
  <2>3. Last(c)' = a
    BY <2>1, <2>2, OthersKept, Unheards DEF Last, Open
  <2>4. Shape' /\ pc = "reading" /\ c \in Wanted(subsets)
    BY <2>1, OthersKept DEF HeardInv, Shape
  <2>5. ASSUME NEW d \in Classes
        PROVE  /\ IF d \in Wanted(subsets) \ todo
                  THEN ByGet(d)' \/ ByEnumerate(d)' ELSE Untold(d)'
               /\ d \notin Wanted(subsets) => heard'[d].Get = Unheard /\ heard'[d].Enumerate = Unheard
    <3>1. CASE d = c
      BY <2>1, <2>4, <3>1 DEF HeardInv, Untold
    <3>2. CASE d # c
      <4>1. /\ ByGet(d) => ByGet(d)'
            /\ ByEnumerate(d) => ByEnumerate(d)'
            /\ Untold(d) => Untold(d)'
        BY <2>1, <3>2, OthersSettled
      <4>2. heard'[d] = heard[d]
        BY <2>1, <3>2, OthersKept
      <4> QED BY <2>4, <4>1, <4>2 DEF HeardInv
    <3> QED BY <3>1, <3>2
  <2> QED BY <2>1, <2>2, <2>3, <2>4, <2>5 DEF HeardInv
<1>7. CASE Publish
  BY <1>7 DEF Publish, HeardInv, Shape, ByGet, ByEnumerate, Untold, Insufficient
<1> QED BY <1>1, <1>2, <1>4, <1>5, <1>6, <1>7 DEF Next, Step

---------------------------------------------------------------------------
(***************************************************************************)
(* What is published.                                                      *)
(***************************************************************************)
LEMMA InvReports == FactsInv /\ HeardInv => ReportsWhatWasAsked
<1> SUFFICES ASSUME FactsInv, HeardInv, report.published PROVE ReportsWhatWasAsked
  BY DEF ReportsWhatWasAsked
<1>1. /\ pc = "done" /\ todo = {} /\ Filed
      /\ subsets = {s \in VALID_SUBSETS : Asked(gather_subset, s)}
  BY ResolvesTheRule DEF FactsInv
<1>2. report.groups = UNION {FACT_GROUPS_BY_SUBSET[s] :
                             s \in {x \in VALID_SUBSETS : Asked(gather_subset, x)}}
  BY <1>1 DEF FactsInv, requested_fact_groups
<1>3. report.reads = Wanted(subsets) \cap HardwareClasses
  BY <1>1 DEF FactsInv, Filed
<1>4. {FACT_GROUP_BY_CLASS[c] : c \in report.reads} = report.groups
  BY <1>1, <1>3, GroupsOfClasses DEF FactsInv
<1>5. \A c \in Classes \ HardwareClasses : amt[c].state # "unread"
  BY <1>1 DEF Filed, Wanted
<1>6. ASSUME NEW c \in HardwareClasses
      PROVE  c \in report.reads <=> Last(c).kind # "none"
  <2>1. c \in Classes
    BY ClassNames
  <2>2. CASE c \in Wanted(subsets)
    <3>1. ByGet(c) \/ ByEnumerate(c)
      BY <1>1, <2>1, <2>2 DEF HeardInv
    <3>2. Last(c).kind # "none"
      BY <3>1, AnswerKinds, Unheards DEF ByGet, ByEnumerate, Last
    <3> QED BY <1>3, <2>2, <3>2
  <2>3. CASE c \notin Wanted(subsets)
    <3>1. Last(c) = Unheard
      BY <1>1, <2>1, <2>3, Unheards DEF HeardInv, Last
    <3> QED BY <1>3, <2>3, <3>1, Unheards
  <2> QED BY <2>2, <2>3
<1> QED BY <1>2, <1>4, <1>5, <1>6 DEF ReportsWhatWasAsked

\* For every value of gather_subset the published groups are those its rules ask
\* for, whichever classes are refused, empty or malformed on the way; the receipt
\* accounts for exactly the classes behind them, and for exactly the inventory
\* classes the firmware was asked for.
THEOREM ReportsAsAsked == Spec => []ReportsWhatWasAsked
  BY InitFacts, FactsStep, InitHeard, HeardStep, InvReports, PTL DEF Spec

---------------------------------------------------------------------------
(***************************************************************************)
(* The receipt fits the answers.                                           *)
(***************************************************************************)
\* A set of places that is not empty has a first one.
LEMMA MinIsIn ==
    ASSUME NEW T \in SUBSET Nat, T # {} PROVE Min(T) \in T
<1>1. PICK x \in T : \A y \in T : <<y, x>> \notin OpToRel(<, Nat)
  BY NatLessThanWellFounded, WFMin
<1>2. \A y \in T : ~(y < x)
  BY <1>1 DEF OpToRel
<1>3. \A y \in T : x =< y
  BY <1>2
<1> QED BY <1>3 DEF Min

\* An answer's first instance is an instance, and the only one of a Get.
LEMMA FirstInstance ==
    ASSUME NEW a, a.items \in Seq(Instances)
    PROVE  /\ Mappings(a) \subseteq 1 .. Len(a.items)
           /\ Mappings(a) # {} => a.items[Min(Mappings(a))] \in Instances
           /\ \A i \in Instances : a.items = <<i>> =>
                /\ i = Blank => Mappings(a) = {}
                /\ i # Blank => Mappings(a) = {1} /\ a.items[Min(Mappings(a))] = i
<1>1. DOMAIN a.items = 1 .. Len(a.items) /\ Len(a.items) \in Nat
  BY LenProperties
<1>2. Mappings(a) \subseteq 1 .. Len(a.items)
  BY <1>1 DEF Mappings
<1>3. Mappings(a) # {} => Min(Mappings(a)) \in Mappings(a)
  BY <1>1, <1>2, MinIsIn
<1>4. Mappings(a) # {} => a.items[Min(Mappings(a))] \in Instances
  BY <1>1, <1>2, <1>3, ElementOfSeq
<1>5. ASSUME NEW i \in Instances, a.items = <<i>>
      PROVE  /\ i = Blank => Mappings(a) = {}
             /\ i # Blank => Mappings(a) = {1} /\ a.items[Min(Mappings(a))] = i
  <2>1. Mappings(a) = IF i = Blank THEN {} ELSE {1}
    BY <1>5 DEF Mappings
  <2> QED BY <1>3, <1>5, <2>1
<1> QED BY <1>2, <1>4, <1>5

\* The census says "text" of a property exactly when it becomes a text.
LEMMA TextIsText ==
    ASSUME NEW i \in Instances, NEW c \in Plates
    PROVE  from_instance(c, i).serial_number = "null" <=> property_shapes(i)["name"] # "text"
<1>1. i["name"].kind \in Kinds
  BY DEF Instances, Properties
<1>2. property_shapes(i)["name"] = shape_of(i["name"])
  BY DEF property_shapes, Properties
<1>3. from_instance(c, i).serial_number = optional_str(i["name"])
  <2>1. CASE c = "CIM_Chassis"
    BY <2>1 DEF from_instance, ChassisInfo
  <2>2. CASE c = "CIM_Card"
    BY <2>2 DEF from_instance, BaseboardInfo
  <2> QED BY <2>1, <2>2 DEF Plates
<1> QED BY <1>1, <1>2, <1>3 DEF optional_str, shape_of, Kinds, Texts

\* One record is one record.
LEMMA OneRecord ==
    ASSUME NEW r
    PROVE  /\ Value(<<r>>).state = "value" /\ Value(<<r>>).records = <<r>>
           /\ Cardinality(DOMAIN <<r>>) = 1
           /\ Value(<<r>>) # None
<1>1. DOMAIN <<r>> = {1}
  OBVIOUS
<1>2. Cardinality({1}) = 1
  BY FS_Singleton
<1> QED BY <1>1, <1>2 DEF Value, None

\* What ClassRead says of an answer.
LEMMA ReadOf ==
    ASSUME NEW c, NEW v, NEW a
    PROVE  /\ ClassRead(c, v, a).verb = v
           /\ a.kind = "refused" =>
                /\ ClassRead(c, v, a).outcome = "absent"
                /\ ClassRead(c, v, a).error_class = a.cls
           /\ a.kind # "refused" =>
                /\ Mappings(a) = {} => ClassRead(c, v, a).outcome = "empty"
                /\ Mappings(a) # {} => ClassRead(c, v, a).outcome = "read"
                /\ ClassRead(c, v, a).instances = Cardinality(Mappings(a))
                /\ c \in Plates /\ Mappings(a) # {} =>
                     ClassRead(c, v, a).shapes = property_shapes(a.items[Min(Mappings(a))])
  BY DEF ClassRead, NoRead

\* A plate is enumerated exactly when its Get gave no instance.
LEMMA PlateGet ==
    ASSUME NEW c \in Plates, NEW a \in Answers("Get"), a.kind # "failed"
    PROVE  FallsBack(c, a) <=> ~(a.kind = "answer" /\ a.items[1] # Blank)
<1>1. a.kind = "answer" /\ a.items[1] # Blank =>
        GetFact(c, a) = Value(<<from_instance(c, a.items[1])>>)
  BY DEF GetFact, Plates
<1>2. ~(a.kind = "answer" /\ a.items[1] # Blank) => GetFact(c, a) = None
  BY DEF GetFact, Plates
<1> QED BY <1>1, <1>2, OneRecord DEF FallsBack

\* Hence the receipt says what was heard.
LEMMA HeardFits == HeardInv => ReadFitsAnswer
<1> SUFFICES ASSUME HeardInv, NEW c \in HardwareClasses, reads[c].outcome # "unread"
    PROVE  /\ reads[c].outcome = "absent" <=> Last(c).kind = "refused"
           /\ reads[c].outcome = "absent" => amt[c] = None /\ reads[c].error_class # "none"
           /\ reads[c].outcome = "empty" =>
                reads[c].instances = 0 /\ amt[c].records = <<>>
                /\ (amt[c].state = "null" <=> c \in Plates)
           /\ reads[c].outcome = "read" =>
                /\ amt[c].state = "value"
                /\ Cardinality(DOMAIN amt[c].records) = IF c \in Plates THEN 1 ELSE reads[c].instances
                /\ c \in Plates =>
                     (amt[c].records[1].serial_number = "null"
                        <=> reads[c].shapes["name"] # "text")
           /\ c \in Plates =>
                (reads[c].verb = "Enumerate"
                   <=> ~(heard[c].Get.kind = "answer" /\ heard[c].Get.items[1] # Blank))
  BY DEF ReadFitsAnswer
<1>0. c \in Classes
  BY ClassNames
<1>1. ByGet(c) \/ ByEnumerate(c)
  BY <1>0, Unheards DEF HeardInv, Untold
<1>2. None.records = <<>> /\ None.state = "null" /\ Cardinality({}) = 0
  BY FS_EmptySet DEF None
<1>3. CASE ByGet(c)
  <2> DEFINE a == heard[c].Get
  <2>1. /\ a \in Answers("Get") /\ a.kind # "failed" /\ ~FallsBack(c, a)
        /\ amt[c] = GetFact(c, a) /\ reads[c] = ClassRead(c, "Get", a) /\ Last(c) = a
        /\ c \in Plates
    BY <1>3, Unheards, ClassNames DEF ByGet, Last, Enumerated, Plates
  <2>2. a.kind = "answer" /\ a.items[1] # Blank
    BY <2>1, PlateGet
  <2>3. PICK i \in Instances : a.items = <<i>>
    BY <2>1, <2>2, AnswerKinds
  <2>4. a.items[1] = i /\ i # Blank /\ a.items \in Seq(Instances)
    BY <2>2, <2>3
  <2>5. Mappings(a) = {1} /\ a.items[Min(Mappings(a))] = i
    BY <2>3, <2>4, FirstInstance
  <2>6. amt[c] = Value(<<from_instance(c, i)>>)
    BY <2>1, <2>2, <2>4 DEF GetFact, Plates
  <2>7. /\ reads[c].outcome = "read" /\ reads[c].verb = "Get"
        /\ reads[c].shapes = property_shapes(i)
    <3>1. Mappings(a) # {}
      BY <2>5
    <3>2. /\ reads[c].outcome = "read" /\ reads[c].verb = "Get"
          /\ reads[c].shapes = property_shapes(a.items[Min(Mappings(a))])
      BY <2>1, <2>2, <3>1, ReadOf
    <3> QED BY <2>5, <3>2
  <2>8. /\ amt[c].state = "value" /\ amt[c].records = <<from_instance(c, i)>>
        /\ Cardinality(DOMAIN amt[c].records) = 1
    BY <2>6, OneRecord
  <2>9. amt[c].records[1].serial_number = "null" <=> reads[c].shapes["name"] # "text"
    BY <2>1, <2>7, <2>8, TextIsText
  <2> QED BY <2>1, <2>2, <2>7, <2>8, <2>9
<1>4. CASE ByEnumerate(c)
  <2> DEFINE a == heard[c].Enumerate
             g == heard[c].Get
  <2>1. /\ a \in Answers("Enumerate") /\ a.kind \in {"answer", "refused"}
        /\ amt[c] = EnumerateFact(c, a) /\ reads[c] = ClassRead(c, "Enumerate", a) /\ Last(c) = a
    BY <1>4, AnswerKinds DEF ByEnumerate, Last
  <2>2. c \in Plates => ~(g.kind = "answer" /\ g.items[1] # Blank)
    <3>1. c \in Plates => Insufficient(c)
      BY <1>4 DEF ByEnumerate, Enumerated, Plates
    <3> QED BY <3>1, PlateGet DEF Insufficient
  <2>3. reads[c].verb = "Enumerate"
    BY <2>1, ReadOf
  <2>4. CASE a.kind = "refused"
    <3>1. reads[c].outcome = "absent" /\ reads[c].error_class = "protocol"
      BY <2>1, <2>4, ReadOf, AnswerKinds
    <3>2. amt[c] = None
      BY <2>1, <2>4 DEF EnumerateFact
    <3> QED BY <2>1, <2>2, <2>3, <2>4, <3>1, <3>2
  <2>5. CASE a.kind = "answer" /\ Mappings(a) = {}
    <3>1. reads[c].outcome = "empty" /\ reads[c].instances = 0
      <4>1. a.kind # "refused" =>
              /\ Mappings(a) = {} => reads[c].outcome = "empty"
              /\ reads[c].instances = Cardinality(Mappings(a))
        BY <2>1, ReadOf
      <4> QED BY <1>2, <2>5, <4>1, Zenon
    <3>2. CASE c \in Plates
      <4>1. amt[c] = None
        BY <2>1, <2>5, <3>2 DEF EnumerateFact, Plates
      <4> QED BY <1>2, <2>1, <2>2, <2>3, <2>5, <3>1, <3>2, <4>1
    <3>3. CASE c \notin Plates
      <4>1. amt[c] = Value([n \in Mappings(a) |-> from_instance(c, a.items[n])])
        BY <2>1, <2>5, <3>3, ClassNames DEF EnumerateFact, Plates
      <4>2. [n \in Mappings(a) |-> from_instance(c, a.items[n])] = <<>>
        BY <2>5
      <4>3. amt[c].state = "value" /\ amt[c].records = <<>>
        BY <4>1, <4>2 DEF Value
      <4> QED BY <2>1, <2>5, <3>1, <3>3, <4>3
    <3> QED BY <3>2, <3>3
  <2>6. CASE a.kind = "answer" /\ Mappings(a) # {}
    <3>1. reads[c].outcome = "read" /\ reads[c].instances = Cardinality(Mappings(a))
      BY <2>1, <2>6, ReadOf
    <3>2. CASE c \in Plates
      <4> DEFINE i == a.items[Min(Mappings(a))]
      <4>1. i \in Instances
        BY <2>1, <2>6, AnswerKinds, FirstInstance
      <4>2. amt[c] = Value(<<from_instance(c, i)>>)
        BY <2>1, <2>6, <3>2 DEF EnumerateFact, Plates
      <4>3. reads[c].shapes = property_shapes(i)
        BY <2>1, <2>6, <3>2, ReadOf
      <4>4. /\ amt[c].state = "value" /\ amt[c].records[1] = from_instance(c, i)
            /\ Cardinality(DOMAIN amt[c].records) = 1
        BY <4>2, OneRecord
      <4>5. amt[c].records[1].serial_number = "null" <=> reads[c].shapes["name"] # "text"
        BY <3>2, <4>1, <4>3, <4>4, TextIsText
      <4> QED BY <2>1, <2>2, <2>3, <2>6, <3>1, <3>2, <4>4, <4>5
    <3>3. CASE c \notin Plates
      <4>1. amt[c] = Value([n \in Mappings(a) |-> from_instance(c, a.items[n])])
        BY <2>1, <2>6, <3>3, ClassNames DEF EnumerateFact, Plates
      <4>2. amt[c].state = "value" /\ DOMAIN amt[c].records = Mappings(a)
        BY <4>1 DEF Value
      <4> QED BY <2>1, <2>6, <3>1, <3>3, <4>2
    <3> QED BY <3>2, <3>3
  <2> QED BY <2>1, <2>4, <2>5, <2>6
<1> QED BY <1>1, <1>3, <1>4

\* For every sequence of answers the outcome, the count and the census in the
\* receipt of an inventory class are those of the answer its fact was built from,
\* and the verb is the one that gave it: Enumerate exactly when the Get was refused
\* or answered with no content.
THEOREM ReadsFitAnswers == Spec => []ReadFitsAnswer
  BY InitHeard, HeardStep, HeardFits, PTL DEF Spec

---------------------------------------------------------------------------
(***************************************************************************)
(* Each class degrades on its own.                                         *)
(***************************************************************************)
\* No field of a record, of a fact, is null; every field is null or false.
FullRecord(r) == \A f \in DOMAIN r : r[f] # "null"
BareRecord(r) == \A f \in DOMAIN r : r[f] \in Blanks

Full(fact) ==
    fact.state = "value" /\ \A n \in DOMAIN fact.records : FullRecord(fact.records[n])
Bare(fact) == \A n \in DOMAIN fact.records : BareRecord(fact.records[n])

\* A fact of one record is as full, or as bare, as the record.
LEMMA OneRecordFacts ==
    ASSUME NEW r
    PROVE  /\ FullRecord(r) => Full(Value(<<r>>))
           /\ BareRecord(r) => Bare(Value(<<r>>))
           /\ Bare(None)
  BY DEF Full, Bare, Value, None

\* How the properties of an ordinary instance are coerced ...
LEMMA TypicalValues ==
    /\ optional_str(Typical["name"]) # "null" /\ raw(Typical["name"]) # "null"
    /\ optional_int(Typical["count"]) # "null" /\ raw(Typical["count"]) # "null"
    /\ optional_bool(Typical["flag"]) # "null" /\ truthy(Typical["flag"]) # "null"
    /\ int_list(Typical["status"]) # "null" /\ link_policy_values(Typical["status"]) # "null"
    /\ \A t : decode_table(t, Typical["count"]) # "null"
    /\ \A t, v : v # "null" => decode_list(t, v, Typical["status"]) # "null"
    /\ Typical # Blank
<1>1. Typical["status"].kind # "absent" /\ Typical["name"].kind \in Texts
  BY TypicalAssumption
<1>2. Blank["status"].kind = "absent"
  BY DEF Blank, Properties
<1> QED BY <1>1, <1>2, TypicalAssumption
        DEF optional_str, raw, optional_int, optional_bool, truthy, int_list,
            link_policy_values, decode_table, decode_list, Texts

\* ... and those of an instance that has none.
LEMMA BlankValues ==
    /\ \A k \in Properties : Blank[k].kind = "absent"
    /\ raw(Blank["name"]) = "null" /\ raw(Blank["count"]) = "null"
    /\ optional_str(Blank["name"]) = "null"
    /\ optional_int(Blank["count"]) = "null"
    /\ optional_bool(Blank["flag"]) = "null" /\ truthy(Blank["flag"]) = "false"
  BY DEF Blank, Properties, raw, optional_str, optional_int, optional_bool, truthy, Texts

\* An ordinary instance leaves no gap in a record of the configuration ...
LEMMA TypicalRecords ==
    /\ FullRecord(GeneralSettings(Typical)) /\ FullRecord(SetupFacts(Typical))
    /\ FullRecord(PowerState(Typical)) /\ FullRecord(AmtCapabilities(Typical))
    /\ FullRecord(RedirectionState(Typical)) /\ FullRecord(EthernetSettings(Typical))
    /\ FullRecord(SystemState(Typical))
<1>1. FullRecord(GeneralSettings(Typical)) /\ FullRecord(SetupFacts(Typical))
  BY TypicalValues DEF FullRecord, GeneralSettings, SetupFacts
<1>2. FullRecord(PowerState(Typical)) /\ FullRecord(AmtCapabilities(Typical))
  BY TypicalValues DEF FullRecord, PowerState, AmtCapabilities
<1>3. FullRecord(RedirectionState(Typical))
  BY TypicalValues DEF FullRecord, RedirectionState
<1>4. FullRecord(EthernetSettings(Typical))
  <2>1. Typical["status"].kind # "absent"
    BY TypicalAssumption
  <2> QED BY <2>1, TypicalValues DEF FullRecord, EthernetSettings
<1>5. FullRecord(SystemState(Typical))
  BY TypicalValues DEF FullRecord, SystemState
<1> QED BY <1>1, <1>2, <1>3, <1>4, <1>5

\* ... nor in one of the inventory.
LEMMA TypicalInventory ==
    ASSUME NEW c \in HardwareClasses PROVE FullRecord(from_instance(c, Typical))
<1>0. operational_status(Typical) # "null" /\ enabled_state(Typical) # "null"
  BY TypicalValues DEF operational_status, enabled_state
<1>1. CASE c = "CIM_Chassis"
  BY <1>0, <1>1, TypicalValues DEF FullRecord, from_instance, ChassisInfo
<1>2. CASE c = "CIM_Card"
  BY <1>0, <1>2, TypicalValues DEF FullRecord, from_instance, BaseboardInfo
<1>3. CASE c = "CIM_Processor"
  BY <1>0, <1>3, TypicalValues DEF FullRecord, from_instance, ProcessorInfo
<1>4. CASE c = "CIM_Chip"
  BY <1>0, <1>4, TypicalValues DEF FullRecord, from_instance, ChipInfo
<1>5. CASE c = "CIM_PhysicalMemory"
  BY <1>0, <1>5, TypicalValues DEF FullRecord, from_instance, MemoryInfo
<1>6. CASE c = "CIM_MediaAccessDevice"
  BY <1>0, <1>6, TypicalValues DEF FullRecord, from_instance, StorageInfo
<1> QED BY <1>1, <1>2, <1>3, <1>4, <1>5, <1>6, ClassNames

\* A Get answered as expected gives the class's fact in full, and a refused one
\* gives a fact with nothing in it.
LEMMA GetDegrades ==
    ASSUME NEW c \in Classes \ Enumerated, NEW a
    PROVE  /\ Ordinary(a) => Full(GetFact(c, a))
           /\ a.kind = "refused" => Bare(GetFact(c, a))
<1>0. (Ordinary(a) => a.kind = "answer" /\ a.items[1] = Typical)
  BY DEF Ordinary
<1> USE OneRecordFacts
<1>1. CASE c = "AMT_GeneralSettings"
  <2>1. BareRecord(GeneralSettings(Blank))
    BY BlankValues DEF BareRecord, GeneralSettings, Blanks
  <2>2. GetFact(c, a) = Value(<<GeneralSettings(IF a.kind = "answer" THEN a.items[1] ELSE Blank)>>)
    BY <1>1 DEF GetFact, Plates
  <2> QED BY <1>0, <2>1, <2>2, TypicalRecords
<1>2. CASE c = "AMT_SetupAndConfigurationService"
  <2>1. BareRecord(SetupFacts(Blank))
    BY BlankValues DEF BareRecord, SetupFacts, Blanks
  <2>2. GetFact(c, a) = Value(<<SetupFacts(IF a.kind = "answer" THEN a.items[1] ELSE Blank)>>)
    BY <1>2 DEF GetFact, Plates
  <2> QED BY <1>0, <2>1, <2>2, TypicalRecords
<1>3. CASE c = "CIM_AssociatedPowerManagementService"
  <2>1. Typical["count"].kind # "absent" /\ Blank["count"].kind = "absent"
    BY TypicalAssumption, BlankValues DEF Properties
  <2>2. /\ a.kind = "answer" /\ a.items[1] = Typical => GetFact(c, a) = Value(<<PowerState(Typical)>>)
        /\ a.kind = "refused" => GetFact(c, a) = None
    BY <1>3, <2>1 DEF GetFact, Plates
  <2> QED BY <1>0, <2>2, TypicalRecords
<1>4. CASE c = "AMT_BootCapabilities"
  <2>1. BareRecord(AmtCapabilities(Blank))
    BY BlankValues DEF BareRecord, AmtCapabilities, Blanks
  <2>2. GetFact(c, a) = Value(<<AmtCapabilities(IF a.kind = "answer" THEN a.items[1] ELSE Blank)>>)
    BY <1>4 DEF GetFact, Plates
  <2> QED BY <1>0, <2>1, <2>2, TypicalRecords
<1>5. CASE c = "AMT_RedirectionService"
  <2>1. /\ a.kind = "answer" /\ a.items[1] = Typical => GetFact(c, a) = Value(<<RedirectionState(Typical)>>)
        /\ a.kind = "refused" => GetFact(c, a) = None
    BY <1>5 DEF GetFact, Plates
  <2> QED BY <1>0, <2>1, TypicalRecords
<1>6. CASE c = "CIM_ComputerSystemPackage"
  <2>1. Typical["name"].kind \notin {"absent", "empty"} /\ Blank["name"].kind = "absent"
    BY TypicalAssumption, BlankValues DEF Properties, Texts
  <2>2. /\ a.kind = "answer" /\ a.items[1] = Typical =>
             GetFact(c, a) = Value(<<[uuid |-> canonical_uuid(Typical["name"])]>>)
        /\ a.kind = "refused" => GetFact(c, a) = None
    BY <1>6, <2>1 DEF GetFact, Plates
  <2>3. FullRecord([uuid |-> canonical_uuid(Typical["name"])])
    BY DEF FullRecord, canonical_uuid
  <2> QED BY <1>0, <2>2, <2>3
<1>7. CASE c = "AMT_EthernetPortSettings"
  <2>1. /\ a.kind = "answer" /\ a.items[1] = Typical => GetFact(c, a) = Value(<<EthernetSettings(Typical)>>)
        /\ a.kind = "refused" => GetFact(c, a) = None
    BY <1>7, TypicalValues DEF GetFact, Plates
  <2> QED BY <1>0, <2>1, TypicalRecords
<1>8. CASE c = "CIM_ComputerSystem"
  <2>1. /\ a.kind = "answer" /\ a.items[1] = Typical => GetFact(c, a) = Value(<<SystemState(Typical)>>)
        /\ a.kind = "refused" => GetFact(c, a) = None
    BY <1>8, TypicalValues DEF GetFact, Plates
  <2> QED BY <1>0, <2>1, TypicalRecords
<1>9. CASE c = "CIM_BIOSElement"
  <2>1. /\ a.kind = "answer" /\ a.items[1] = Typical => GetFact(c, a) = Value(<<[version |-> "text"]>>)
        /\ a.kind = "refused" => GetFact(c, a) = None
    BY <1>9, TypicalValues, BlankValues DEF GetFact, Plates
  <2>2. FullRecord([version |-> "text"])
    BY DEF FullRecord
  <2> QED BY <1>0, <2>1, <2>2
<1>10. CASE c \in Plates
  <2>1. /\ a.kind = "answer" /\ a.items[1] = Typical => GetFact(c, a) = Value(<<from_instance(c, Typical)>>)
        /\ a.kind = "refused" => GetFact(c, a) = None
    BY <1>10, TypicalValues DEF GetFact, Plates
  <2>2. FullRecord(from_instance(c, Typical))
    BY <1>10, TypicalInventory, ClassNames DEF Plates
  <2> QED BY <1>0, <2>1, <2>2
<1> QED BY <1>1, <1>2, <1>3, <1>4, <1>5, <1>6, <1>7, <1>8, <1>9, <1>10, ClassNames
        DEF Enumerated, Plates

\* The same for an Enumerate.
LEMMA EnumerateDegrades ==
    ASSUME NEW c \in Enumerated \cup Plates \cup {"CIM_BIOSElement"}, NEW a
    PROVE  /\ Ordinary(a) => Full(EnumerateFact(c, a))
           /\ a.kind = "refused" => Bare(EnumerateFact(c, a))
<1> USE OneRecordFacts
<1>1. a.kind = "refused" => EnumerateFact(c, a) = None
  BY DEF EnumerateFact, Plates
<1> SUFFICES ASSUME Ordinary(a) PROVE Full(EnumerateFact(c, a))
  BY <1>1
<1>2. a.kind = "answer" /\ a.items = <<Typical>> /\ DOMAIN a.items = {1} /\ a.items[1] = Typical
  BY DEF Ordinary
<1>3. Min({1}) = 1
  BY DEF Min
<1>4. Mappings(a) = {1}
  BY <1>2, TypicalValues DEF Mappings
<1>5. CASE c = "CIM_SoftwareIdentity"
  <2>1. {n \in DOMAIN a.items : AmtIdentity(a.items[n])} = {1}
    BY <1>2, TypicalAssumption DEF AmtIdentity
  <2>2. Typical["name"].kind # "absent"
    BY TypicalAssumption DEF Texts
  <2>3. EnumerateFact(c, a) = Value(<<[version |-> "raw"]>>)
    BY <1>2, <1>3, <1>5, <2>1, <2>2 DEF EnumerateFact, Plates
  <2>4. FullRecord([version |-> "raw"])
    BY DEF FullRecord
  <2> QED BY <2>3, <2>4
<1>6. CASE c = "CIM_BIOSElement"
  <2>1. HasVersion(Typical)
    BY TypicalAssumption DEF HasVersion, optional_str
  <2>2. EnumerateFact(c, a) = Value(<<[version |-> "text"]>>)
    BY <1>2, <1>6, <2>1 DEF EnumerateFact, Plates
  <2>3. FullRecord([version |-> "text"])
    BY DEF FullRecord
  <2> QED BY <2>2, <2>3
<1>7. CASE c \in Plates
  <2>1. EnumerateFact(c, a) = Value(<<from_instance(c, Typical)>>)
    BY <1>2, <1>3, <1>4, <1>7 DEF EnumerateFact, Plates
  <2>2. FullRecord(from_instance(c, Typical))
    BY <1>7, TypicalInventory, ClassNames DEF Plates
  <2> QED BY <2>1, <2>2
<1>8. CASE c \in HardwareClasses \ Plates
  <2>1. EnumerateFact(c, a) = Value([n \in Mappings(a) |-> from_instance(c, a.items[n])])
    BY <1>2, <1>8, ClassNames DEF EnumerateFact, Plates
  <2>2. FullRecord(from_instance(c, Typical))
    BY <1>8, TypicalInventory
  <2> QED BY <1>2, <1>4, <2>1, <2>2 DEF Full, Value
<1> QED BY <1>5, <1>6, <1>7, <1>8, ClassNames DEF Enumerated, Plates

\* Hence each class degrades on its own.
LEMMA HeardDegrades == HeardInv => DegradesAlone
<1> SUFFICES ASSUME HeardInv PROVE DegradesAlone
  OBVIOUS
<1>1. ASSUME pc = "done", NEW c \in Classes
      PROVE  heard[c].Get.kind # "failed" /\ heard[c].Enumerate.kind # "failed"
  <2>1. c \in Wanted(subsets) => ByGet(c) \/ ByEnumerate(c)
    BY <1>1 DEF HeardInv
  <2>2. c \notin Wanted(subsets) => heard[c].Get = Unheard /\ heard[c].Enumerate = Unheard
    BY <1>1 DEF HeardInv
  <2> QED BY <2>1, <2>2, Unheards DEF ByGet, ByEnumerate, Insufficient
<1>2. ASSUME NEW c \in Classes, amt[c].state # "unread"
      PROVE  /\ Ordinary(Last(c)) => Full(amt[c])
             /\ Last(c).kind = "refused" => Bare(amt[c])
  <2>1. ByGet(c) \/ ByEnumerate(c)
    BY <1>2, Unheards DEF HeardInv, Untold
  <2>2. CASE ByGet(c)
    <3>1. amt[c] = GetFact(c, heard[c].Get) /\ Last(c) = heard[c].Get /\ c \notin Enumerated
      BY <2>2, Unheards DEF ByGet, Last
    <3> QED BY <3>1, GetDegrades
  <2>3. CASE ByEnumerate(c)
    <3>1. amt[c] = EnumerateFact(c, heard[c].Enumerate) /\ Last(c) = heard[c].Enumerate
      BY <2>3, AnswerKinds DEF ByEnumerate, Last
    <3>2. c \in Enumerated \cup Plates \cup {"CIM_BIOSElement"}
      BY <2>3 DEF ByEnumerate, Insufficient, FallsBack
    <3> QED BY <3>1, <3>2, EnumerateDegrades
  <2> QED BY <2>1, <2>2, <2>3
<1>3. pc = "failed" => \E c \in Classes : Last(c).kind = "failed" /\ Last(c).cls = error_class
  BY DEF HeardInv
<1> QED BY <1>1, <1>2, <1>3 DEF DegradesAlone, Full, Bare, FullRecord, BareRecord

\* get_facts degrades class by class, for every firmware: a run that ends well met
\* no transport failure, one that fails carries the class of the failure it met, a
\* class answered as expected is reported without a gap whatever became of the
\* others, and nothing is made up for one that was refused.
THEOREM EachDegradesAlone == Spec => []DegradesAlone
  BY InitHeard, HeardStep, HeardDegrades, PTL DEF Spec

---------------------------------------------------------------------------
(***************************************************************************)
(* Type correctness.                                                       *)
(***************************************************************************)
\* What neither the facts nor the history say.
RunOK ==
    /\ subsets \subseteq VALID_SUBSETS
    /\ error_class \in Fatal \cup {"none"}
    /\ deviations \in 0 .. MaxDeviations

\* Only an exchange counts, and only a transport failure names a class.
LEMMA RunStep == RunOK /\ [Next]_vars => RunOK'
<1> SUFFICES ASSUME RunOK, [Next]_vars PROVE RunOK'
  OBVIOUS
<1>0. MaxDeviations \in Nat
  BY FirmwareAssumption
<1>1. CASE UNCHANGED vars
  BY <1>1 DEF vars, RunOK
<1>2. ASSUME NEW g \in GatherSubsets, Start(g) PROVE RunOK'
  <2>1. g \in SUBSET GATHER_SUBSET_CHOICES
    BY FirmwareAssumption
  <2>2. subsets' \subseteq VALID_SUBSETS
    BY <1>2, <2>1, ResolvesTheRule DEF Start
  <2>3. deviations' \in 0 .. MaxDeviations
    BY <1>0, <1>2 DEF Start
  <2> QED BY <1>2, <2>2, <2>3 DEF Start, RunOK
<1>3. ASSUME NEW c \in todo, NEW a \in Answers(Verb(c)), Exchange(c, a)
      PROVE  subsets' = subsets /\ deviations' \in 0 .. MaxDeviations
  <2>2. subsets' = subsets
    BY <1>3 DEF Exchange
  <2>3. CASE Ordinary(a)
    BY <1>3, <2>2, <2>3 DEF Exchange, RunOK
  <2>4. CASE ~Ordinary(a)
    <3>1. deviations < MaxDeviations /\ deviations' = deviations + 1
      BY <1>3, <2>4 DEF Exchange
    <3> QED BY <1>0, <2>2, <3>1 DEF RunOK
  <2> QED BY <2>3, <2>4
<1>4. ASSUME NEW c \in todo, NEW a \in Answers(Verb(c)),
             GetAnswered(c, a) \/ EnumerateAnswered(c, a)
      PROVE  RunOK'
  <2>1. Exchange(c, a) /\ error_class' = error_class
    BY <1>4 DEF GetAnswered, EnumerateAnswered, File
  <2> QED BY <1>3, <2>1 DEF RunOK
<1>5. ASSUME NEW c \in todo, NEW a \in Answers(Verb(c)), TransportFailed(c, a)
      PROVE  RunOK'
  <2>1. Exchange(c, a) /\ error_class' = a.cls /\ a.kind = "failed"
    BY <1>5 DEF TransportFailed
  <2>2. a.cls \in Fatal
    BY <2>1, AnswerKinds
  <2> QED BY <1>3, <2>1, <2>2 DEF RunOK
<1>6. CASE Publish
  BY <1>6 DEF Publish, RunOK
<1> QED BY <1>1, <1>2, <1>4, <1>5, <1>6 DEF Next, Step

\* Every fact and every receipt is of one of the kinds it can be.
LEMMA KindsOfFacts ==
    ASSUME HeardInv
    PROVE  /\ \A c \in Classes : amt[c].state \in {"unread", "null", "value"}
           /\ \A c \in HardwareClasses : reads[c].outcome \in {"unread", "absent", "empty", "read"}
<1> SUFFICES ASSUME NEW c \in Classes
             PROVE  /\ amt[c].state \in {"unread", "null", "value"}
                    /\ c \in HardwareClasses =>
                         reads[c].outcome \in {"unread", "absent", "empty", "read"}
  BY ClassNames
<1>1. Untold(c) \/ ByGet(c) \/ ByEnumerate(c)
  BY DEF HeardInv
<1>2. CASE Untold(c)
  BY <1>2, Unheards DEF Untold
<1>3. CASE ByGet(c)
  BY <1>3, GetFactRead, ClassReadRead DEF ByGet
<1>4. CASE ByEnumerate(c)
  BY <1>4, EnumerateFactRead, ClassReadRead DEF ByEnumerate
<1> QED BY <1>1, <1>2, <1>3, <1>4

\* amt_info keeps its types for every firmware and every gather_subset; a class is
\* asked for only if its subset was resolved, and a run that fails does so with
\* one of the classes that are not degradable.
THEOREM TypeCorrect == Spec => []TypeOK
<1>1. Init => RunOK
  BY FirmwareAssumption DEF Init, RunOK
<1>2. HeardInv /\ FactsInv /\ RunOK => TypeOK
  <2> SUFFICES ASSUME HeardInv, FactsInv, RunOK PROVE TypeOK
    OBVIOUS
  <2>1. todo \subseteq Classes
    BY DEF HeardInv, Wanted
  <2>2. pc \in {"idle", "reading", "done", "failed"} /\ fallback \in BOOLEAN
    BY DEF HeardInv
  <2> QED BY <2>1, <2>2, KindsOfFacts DEF FactsInv, RunOK, TypeOK
<1> QED BY <1>1, <1>2, InitHeard, HeardStep, InitFacts, FactsStep, RunStep, PTL DEF Spec
=============================================================================
