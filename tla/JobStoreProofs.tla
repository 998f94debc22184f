--------------------------- MODULE JobStoreProofs ---------------------------
(***************************************************************************)
(* What JobStore guarantees for every number of jobs, every limit and      *)
(* every assignment of roles, proved.                                      *)
(***************************************************************************)
EXTENDS JobStore, FiniteSetTheorems, TLAPS

USE DEF jobVars, startVars, clientVars, vars

-----------------------------------------------------------------------------
(* Every reachable state is well typed.                                    *)

LEMMA InitTyped == Init => TypeOK
  BY JobsAssumption, BoundsAssumption
  DEF Init, TypeOK, NoView, Terminal, Details, StarterStates, WorkerStates,
      ClientStates, Views, InFlight, Scanning, Reading, Told

LEMMA ViewsUpdate ==
  ASSUME NEW v \in Views
  PROVE  /\ \A x \in {"running"} \cup Terminal : [v EXCEPT !.status = x] \in Views
         /\ \A x \in Details : [v EXCEPT !.detail = x] \in Views
         /\ \A x \in BOOLEAN : [v EXCEPT !.result = x] \in Views
         /\ \A x \in BOOLEAN : [NoView EXCEPT !.packPath = x] \in Views
  BY DEF Views, NoView, Terminal, Details

LEMMA DisturbTyped ==
  ASSUME disturbed \in [Jobs -> BOOLEAN], NEW j \in Jobs, Disturb(j)
  PROVE  disturbed' \in [Jobs -> BOOLEAN]
<1>1. \A s \in Jobs : (disturbed[s] \/ (s # j /\ starter[s] \in Scanning)) \in BOOLEAN
  OBVIOUS
<1>2. QED BY <1>1, Zenon DEF Disturb

LEMMA TypeInductive == TypeOK /\ [Next]_vars => TypeOK'
<1> SUFFICES ASSUME TypeOK, [Next]_vars PROVE TypeOK'
  OBVIOUS
<1> USE BoundsAssumption
    DEF TypeOK, StarterStates, WorkerStates, ClientStates, Details, Terminal,
        InFlight, Scanning, Reading, Told
<1>1. CASE Tick
  BY <1>1 DEF Tick
<1>2. ASSUME NEW j \in Jobs, Build(j) PROVE TypeOK'
  BY <1>2 DEF Build
<1>3. ASSUME NEW j \in Jobs, StartStep(j) PROVE TypeOK'
  <2>1. CASE Insert(j)
    BY <2>1, DisturbTyped DEF Insert
  <2>2. CASE BeginAgedScan(j)
    BY <2>2 DEF BeginAgedScan, BeginScan
  <2>3. CASE EndAgedScan(j)
    <3>1. PICK V \in SUBSET Jobs :
            aged' = [aged EXCEPT ![j] = {k \in V : Expired(k, now[j])}]
      BY <2>3 DEF EndAgedScan, Visited
    <3>2. aged' \in [Jobs -> SUBSET Jobs]
      BY <3>1
    <3>3. QED BY <2>3, <3>2 DEF EndAgedScan, EndScan
  <2>4. CASE DropAged(j)
    <3>1. PICK k \in aged[j] :
            /\ aged' = [aged EXCEPT ![j] = @ \ {k}]
            /\ registry' = registry \ {k}
            /\ IF k \in registry THEN Disturb(j) ELSE UNCHANGED disturbed
      BY <2>4 DEF DropAged
    <3>2. disturbed' \in [Jobs -> BOOLEAN]
      <4>1. CASE k \in registry
        BY <3>1, <4>1, DisturbTyped
      <4>2. CASE k \notin registry
        BY <3>1, <4>2
      <4>3. QED BY <4>1, <4>2
    <3>3. QED BY <2>4, <3>1, <3>2 DEF DropAged
  <2>5. CASE AgedDropped(j)
    BY <2>5 DEF AgedDropped
  <2>6. CASE BeginOldestScan(j)
    BY <2>6 DEF BeginOldestScan, BeginScan
  <2>7. CASE EndOldestScan(j)
    BY <2>7 DEF EndOldestScan, EndScan, Visited, Oldest
  <2>8. CASE PopOldest(j)
    BY <2>8, DisturbTyped DEF PopOldest
  <2>9. CASE ScanRaises(j) \/ PopRaises(j)
    <3>1. Refuse(j)
      BY <2>9 DEF ScanRaises, PopRaises
    <3>2. QED BY <3>1 DEF Refuse, EndScan
  <2>10. CASE Respond(j)
    BY <2>10 DEF Respond
  <2>11. QED
    BY <1>3, <2>1, <2>2, <2>3, <2>4, <2>5, <2>6, <2>7, <2>8, <2>9, <2>10
    DEF StartStep
<1>4. ASSUME NEW j \in Jobs, WorkerStep(j) PROVE TypeOK'
  <2>1. CASE Progress(j) \/ ClearDetail(j)
    BY <2>1 DEF Progress, ClearDetail, WorkerUnchanged
  <2>2. CASE Produce(j)
    BY <2>2 DEF Produce, WorkerUnchanged
  <2>3. CASE AddPackPath(j)
    BY <2>3 DEF AddPackPath, WorkerUnchanged
  <2>4. CASE OwnStage(j)
    BY <2>4 DEF OwnStage, WorkerUnchanged
  <2>5. CASE OwnStatus(j)
    BY <2>5 DEF OwnStatus, WorkerUnchanged
  <2>6. CASE Raise(j)
    BY <2>6 DEF Raise, WorkerUnchanged
  <2>7. CASE Explain(j)
    BY <2>7 DEF Explain, WorkerUnchanged
  <2>8. CASE Finish(j)
    BY <2>8 DEF Finish, WorkerUnchanged
  <2>9. CASE LastStage(j)
    BY <2>9 DEF LastStage, WorkerUnchanged
  <2>10. QED
    BY <1>4, <2>1, <2>2, <2>3, <2>4, <2>5, <2>6, <2>7, <2>8, <2>9 DEF WorkerStep
<1>5. ASSUME NEW j \in Jobs, ClientStep(j) PROVE TypeOK'
  <2>1. CASE Lookup(j)
    <3>1. view' \in [Jobs -> Views]
      BY <2>1, ViewsUpdate DEF Lookup
    <3>2. client' \in [Jobs -> ClientStates]
      BY <2>1 DEF Lookup
    <3>3. QED BY <2>1, <3>1, <3>2 DEF Lookup, ClientUnchanged
  <2>2. CASE ReadStatus(j)
    <3>1. view' \in [Jobs -> Views]
      BY <2>2, ViewsUpdate DEF ReadStatus
    <3>2. client' \in [Jobs -> ClientStates]
      BY <2>2 DEF ReadStatus
    <3>3. QED BY <2>2, <3>1, <3>2 DEF ReadStatus, ClientUnchanged
  <2>3. CASE ReadDetail(j)
    <3>1. view' \in [Jobs -> Views]
      BY <2>3, ViewsUpdate DEF ReadDetail
    <3>2. client' \in [Jobs -> ClientStates]
      BY <2>3 DEF ReadDetail
    <3>3. QED BY <2>3, <3>1, <3>2 DEF ReadDetail, ClientUnchanged
  <2>4. CASE ReadResult(j)
    <3>1. view' \in [Jobs -> Views]
      BY <2>4, ViewsUpdate DEF ReadResult
    <3>2. client' \in [Jobs -> ClientStates]
      BY <2>4 DEF ReadResult
    <3>3. QED BY <2>4, <3>1, <3>2 DEF ReadResult, ClientUnchanged
  <2>5. CASE Deliver(j)
    <3>1. view[j].status \in {"running"} \cup Terminal
      BY DEF Views
    <3>2. QED BY <2>5, <3>1 DEF Deliver, ClientUnchanged
  <2>6. CASE ReadRaises(j)
    BY <2>6 DEF ReadRaises, ClientUnchanged
  <2>7. QED
    BY <1>5, <2>1, <2>2, <2>3, <2>4, <2>5, <2>6 DEF ClientStep
<1>6. CASE UNCHANGED vars
  BY <1>6
<1>7. QED
  BY <1>1, <1>2, <1>3, <1>4, <1>5, <1>6 DEF Next

(* JobStore's variables keep their types.                                  *)
THEOREM TypeCorrect == Spec => []TypeOK
  BY InitTyped, TypeInductive, PTL DEF Spec

-----------------------------------------------------------------------------
(* The registry is bounded at rest.                                        *)

FiniteRegistry == IsFiniteSet(registry)

LEMMA FiniteInductive ==
  ASSUME FiniteRegistry, [Next]_vars PROVE FiniteRegistry'
<1>1. CASE registry' = registry
  BY <1>1 DEF FiniteRegistry
<1>2. ASSUME NEW k, registry' = registry \cup {k} PROVE FiniteRegistry'
  BY <1>2, FS_AddElement DEF FiniteRegistry
<1>3. ASSUME NEW k, registry' = registry \ {k} PROVE FiniteRegistry'
  BY <1>3, FS_RemoveElement DEF FiniteRegistry
<1>4. registry' = registry \/ \E k : registry' \in {registry \cup {k}, registry \ {k}}
  BY DEF Next, Tick, Build, StartStep, Insert, BeginAgedScan, EndAgedScan, DropAged,
         AgedDropped, BeginOldestScan, EndOldestScan, PopOldest, ScanRaises,
         PopRaises, Refuse, Respond, WorkerStep, WorkerUnchanged, Progress, ClearDetail, Produce,
         AddPackPath, OwnStage, OwnStatus, Raise, Explain, Finish, LastStage,
         ClientStep, ClientUnchanged, Lookup, ReadStatus, ReadDetail, ReadResult,
         Deliver, ReadRaises
<1>5. QED
  BY <1>1, <1>2, <1>3, <1>4

(* A handler whose starter, disturbed flag and victim are as before is     *)
(* still undisturbed while the registry is the same.                       *)
LEMMA UndisturbedStays ==
  ASSUME NEW s \in Jobs, Undisturbed(s), registry' = registry,
         starter'[s] = starter[s], disturbed'[s] = disturbed[s],
         victim'[s] = victim[s]
  PROVE  Undisturbed(s)'
  BY DEF Undisturbed

LEMMA RecountsInductive ==
  ASSUME TypeOK, SomeoneRecounts, [Next]_vars PROVE SomeoneRecounts'
<1> SUFFICES ASSUME TooMany' PROVE (\E s \in Jobs : Undisturbed(s))'
  BY DEF SomeoneRecounts
<1> USE DEF TypeOK
<1>1. ASSUME registry' = registry PROVE \E s \in Jobs : Undisturbed(s)
  BY <1>1 DEF SomeoneRecounts, TooMany
<1>2. ASSUME registry' = registry, starter' = starter, disturbed' = disturbed,
             victim' = victim
      PROVE  (\E s \in Jobs : Undisturbed(s))'
  BY <1>1, <1>2, UndisturbedStays
<1>3. CASE Tick \/ (\E j \in Jobs : WorkerStep(j) \/ ClientStep(j)) \/ UNCHANGED vars
  BY <1>2, <1>3
  DEF Tick, WorkerStep, WorkerUnchanged, Progress, ClearDetail, Produce, AddPackPath, OwnStage,
      OwnStatus, Raise, Explain, Finish, LastStage, ClientStep, ClientUnchanged,
      Lookup, ReadStatus, ReadDetail, ReadResult, Deliver, ReadRaises
<1>4. ASSUME NEW j \in Jobs, Build(j) PROVE (\E s \in Jobs : Undisturbed(s))'
  <2>1. PICK s \in Jobs : Undisturbed(s)
    BY <1>1, <1>4 DEF Build
  <2>2. s # j
    BY <1>4, <2>1 DEF Build, Undisturbed, Scanning
  <2>3. QED BY <1>4, <2>1, <2>2, UndisturbedStays DEF Build
<1>5. ASSUME NEW j \in Jobs, StartStep(j) PROVE (\E s \in Jobs : Undisturbed(s))'
  <2>1. CASE Insert(j)
    BY <2>1 DEF Insert, Undisturbed
  <2>2. CASE BeginAgedScan(j)
    BY <2>2 DEF BeginAgedScan, BeginScan, Undisturbed, Scanning
  <2>3. CASE EndAgedScan(j)
    BY <2>3 DEF EndAgedScan, Undisturbed
  <2>4. CASE DropAged(j)
    BY <2>4 DEF DropAged, Undisturbed
  <2>5. CASE AgedDropped(j)
    BY <2>5 DEF AgedDropped, Undisturbed
  <2>6. CASE BeginOldestScan(j)
    BY <2>6 DEF BeginOldestScan, BeginScan, Undisturbed, Scanning
  <2>7. CASE EndOldestScan(j)
    <3>1. PICK s \in Jobs : Undisturbed(s)
      BY <1>1, <2>7 DEF EndOldestScan
    <3>2. CASE s = j
      <4>1. ~disturbed[j]
        BY <2>7, <3>1, <3>2 DEF EndOldestScan, Undisturbed, Scanning
      <4>2. victim'[j] \in registry
        BY <2>7, <4>1 DEF EndOldestScan, Visited, Oldest
      <4>3. QED BY <2>7, <4>2 DEF EndOldestScan, Undisturbed
    <3>3. CASE s # j
      BY <2>7, <3>1, <3>3, UndisturbedStays DEF EndOldestScan, EndScan
    <3>4. QED BY <3>2, <3>3
  <2>8. CASE PopOldest(j)
    BY <2>8 DEF PopOldest, Undisturbed
  <2>9. CASE ScanRaises(j) \/ PopRaises(j)
    <3>1. PICK s \in Jobs : Undisturbed(s)
      BY <1>1, <2>9 DEF ScanRaises, PopRaises, Refuse
    <3>2. s # j
      BY <2>9, <3>1 DEF ScanRaises, PopRaises, Undisturbed, Scanning
    <3>3. QED
      BY <2>9, <3>1, <3>2, UndisturbedStays DEF ScanRaises, PopRaises, Refuse, EndScan
  <2>10. CASE Respond(j)
    BY <2>10 DEF Respond, TooMany
  <2>11. QED
    BY <1>5, <2>1, <2>2, <2>3, <2>4, <2>5, <2>6, <2>7, <2>8, <2>9, <2>10
    DEF StartStep
<1>6. QED
  BY <1>3, <1>4, <1>5 DEF Next

LEMMA NobodyLeftToCount ==
  FiniteRegistry /\ SomeoneRecounts => RegistryBounded
<1> SUFFICES ASSUME FiniteRegistry, SomeoneRecounts,
                    \A s \in Jobs : starter[s] \notin InFlight
             PROVE  Cardinality(registry) <= MaxJobs
  BY DEF RegistryBounded
<1>1. ~TooMany
  BY DEF SomeoneRecounts, Undisturbed, InFlight, Scanning
<1>2. Cardinality(registry) \in Nat
  BY FS_CardinalityType DEF FiniteRegistry
<1>3. QED
  BY <1>1, <1>2, BoundsAssumption DEF TooMany

(* However many starts race, and whichever of them fail, no more than      *)
(* MAX_JOBS jobs are registered once all of them are over.                 *)
THEOREM Bounded == Spec => []RegistryBounded
<1>1. Init => FiniteRegistry /\ SomeoneRecounts
  <2> SUFFICES ASSUME Init PROVE FiniteRegistry /\ SomeoneRecounts
    OBVIOUS
  <2>1. IsFiniteSet({}) /\ Cardinality({}) = 0
    BY FS_EmptySet
  <2>2. QED
    BY <2>1, BoundsAssumption DEF Init, FiniteRegistry, SomeoneRecounts, TooMany
<1>2. TypeOK /\ FiniteRegistry /\ SomeoneRecounts /\ [Next]_vars
        => FiniteRegistry' /\ SomeoneRecounts'
  BY FiniteInductive, RecountsInductive
<1>3. QED
  BY <1>1, <1>2, TypeCorrect, NobodyLeftToCount, PTL DEF Spec

-----------------------------------------------------------------------------
(* Jobs settle once, and completely.                                       *)

(* What the position of a worker says of its job.                          *)
OutcomesOf(j) ==
  /\ starter[j] # "answered" => worker[j] = "none"
  /\ worker[j] \in {"none", "working"} => status[j] = "running" /\ ~result[j]
  /\ worker[j] \in {"packed", "ownStage", "ownStatus"}
       => status[j] = "running" /\ result[j]
  /\ worker[j] \in {"ownStage", "ownStatus"} => j \notin Packs
  /\ worker[j] = "explaining" => status[j] = "error"
  /\ worker[j] = "returned" /\ status[j] = "running"
       => result[j] /\ (j \in Packs => packPath[j])
  /\ status[j] = "error" => ~result[j]
  /\ status[j] = "done" => result[j] /\ (j \in Packs => packPath[j])

Outcomes == \A j \in Jobs : OutcomesOf(j)

(* A job only its own worker touches.                                      *)
LEMMA OutcomesOfOthers ==
  ASSUME NEW j \in Jobs, OutcomesOf(j),
         starter'[j] = starter[j] \/ (starter[j] # "answered" /\ starter'[j] # "answered"),
         worker'[j] = worker[j], status'[j] = status[j], result'[j] = result[j],
         packPath'[j] = packPath[j]
  PROVE  OutcomesOf(j)'
  BY DEF OutcomesOf

LEMMA OutcomesInductive ==
  ASSUME TypeOK, Outcomes, [Next]_vars PROVE Outcomes'
<1> SUFFICES ASSUME NEW j \in Jobs PROVE OutcomesOf(j)'
  BY DEF Outcomes
<1> OutcomesOf(j)
  BY DEF Outcomes
<1> USE DEF TypeOK
<1>1. CASE Tick \/ (\E i \in Jobs : ClientStep(i)) \/ UNCHANGED vars
  BY <1>1, OutcomesOfOthers
  DEF Tick, ClientStep, ClientUnchanged, Lookup, ReadStatus, ReadDetail, ReadResult,
      Deliver, ReadRaises
<1>2. ASSUME NEW i \in Jobs, Build(i) PROVE OutcomesOf(j)'
  BY <1>2, OutcomesOfOthers DEF Build
<1>3. ASSUME NEW i \in Jobs, StartStep(i) PROVE OutcomesOf(j)'
  <2>1. CASE Respond(i)
    <3>1. CASE i = j
      BY <2>1, <3>1 DEF Respond, OutcomesOf
    <3>2. CASE i # j
      BY <2>1, <3>2, OutcomesOfOthers DEF Respond
    <3>3. QED BY <3>1, <3>2
  <2>2. CASE ~Respond(i)
    BY <1>3, <2>2, OutcomesOfOthers
    DEF StartStep, Insert, BeginAgedScan, BeginScan, EndAgedScan, DropAged,
        AgedDropped, BeginOldestScan, EndOldestScan, PopOldest, ScanRaises,
        PopRaises, Refuse, Scanning
  <2>3. QED BY <2>1, <2>2
<1>4. ASSUME NEW i \in Jobs, WorkerStep(i), i # j PROVE OutcomesOf(j)'
  BY <1>4, OutcomesOfOthers
  DEF WorkerStep, WorkerUnchanged, Progress, ClearDetail, Produce, AddPackPath, OwnStage,
      OwnStatus, Raise, Explain, Finish, LastStage
<1>5. CASE WorkerStep(j)
  <2>1. starter[j] = "answered"
    BY <1>5
    DEF OutcomesOf, WorkerStep, Progress, ClearDetail, Produce, AddPackPath, OwnStage, OwnStatus,
        Raise, Explain, Finish, LastStage
  <2>2. starter' = starter
    BY <1>5
    DEF WorkerStep, WorkerUnchanged, Progress, ClearDetail, Produce, AddPackPath, OwnStage,
        OwnStatus, Raise, Explain, Finish, LastStage
  <2>3. CASE Progress(j) \/ ClearDetail(j) \/ Produce(j)
    BY <2>1, <2>2, <2>3 DEF Progress, ClearDetail, Produce, OutcomesOf
  <2>4. CASE AddPackPath(j) \/ OwnStage(j) \/ OwnStatus(j)
    BY <2>1, <2>2, <2>4 DEF AddPackPath, OwnStage, OwnStatus, OutcomesOf
  <2>5. CASE Raise(j) \/ Explain(j)
    BY <2>1, <2>2, <2>5 DEF Raise, Explain, OutcomesOf
  <2>6. CASE Finish(j) \/ LastStage(j)
    BY <2>1, <2>2, <2>6 DEF Finish, LastStage, OutcomesOf, Terminal
  <2>7. QED BY <1>5, <2>3, <2>4, <2>5, <2>6 DEF WorkerStep
<1>6. QED
  BY <1>1, <1>2, <1>3, <1>4, <1>5 DEF Next

THEOREM OutcomesHold == Spec => []Outcomes
<1>1. Init => Outcomes
  BY DEF Init, Outcomes, OutcomesOf
<1>2. TypeOK /\ Outcomes /\ [Next]_vars => Outcomes'
  BY OutcomesInductive
<1>3. QED
  BY <1>1, <1>2, TypeCorrect, PTL DEF Spec

(* A failed job carries no payload.                                        *)
THEOREM FailuresAreEmpty == Spec => []ErrorHasNoResult
<1>1. Outcomes => ErrorHasNoResult
  BY DEF Outcomes, OutcomesOf, ErrorHasNoResult
<1>2. QED
  BY <1>1, OutcomesHold, PTL

LEMMA OutcomeKept ==
  ASSUME TypeOK, Outcomes, [Next]_vars, NEW j \in Jobs, status[j] \in Terminal
  PROVE  status'[j] = status[j]
<1> USE DEF TypeOK, Terminal
<1>1. CASE status' = status
  BY <1>1
<1>2. ASSUME NEW i \in Jobs, OwnStatus(i) \/ Raise(i) \/ Finish(i)
      PROVE  status'[j] = status[j]
  BY <1>2 DEF OwnStatus, Raise, Finish, Outcomes, OutcomesOf
<1>3. QED
  BY <1>1, <1>2
  DEF Next, Tick, Build, StartStep, Insert, BeginAgedScan, EndAgedScan, DropAged,
      AgedDropped, BeginOldestScan, EndOldestScan, PopOldest, ScanRaises,
      PopRaises, Refuse, Respond, WorkerStep, Progress, ClearDetail, Produce, AddPackPath,
      OwnStage, Explain, LastStage, ClientStep, ClientUnchanged, Lookup,
      ReadStatus, ReadDetail, ReadResult, Deliver, ReadRaises

(* A finished job stays as it finished.                                    *)
THEOREM OutcomesAreFinal == Spec => TerminalIsFinal
<1>1. TypeOK /\ Outcomes /\ [Next]_vars
        => [\A j \in Jobs : status[j] \in Terminal => status'[j] = status[j]]_vars
  BY OutcomeKept
<1>2. QED
  BY <1>1, TypeCorrect, OutcomesHold, PTL DEF Spec, TerminalIsFinal

-----------------------------------------------------------------------------
(* The age pass pops finished jobs only.                                   *)

(* A scan collects finished jobs, and nothing else adds to what waits to   *)
(* be popped.                                                              *)
LEMMA AgedGrows ==
  ASSUME TypeOK, [Next]_vars, NEW s \in Jobs, NEW k \in aged'[s], k \notin aged[s]
  PROVE  k \in Jobs /\ status[k] \in Terminal
<1> USE DEF TypeOK
<1>1. ASSUME aged' = aged PROVE FALSE
  BY <1>1
<1>2. ASSUME NEW j \in Jobs, EndAgedScan(j)
      PROVE  k \in Jobs /\ status[k] \in Terminal
  <2>1. PICK V \in Visited(j) : aged' = [aged EXCEPT ![j] = {m \in V : Expired(m, now[j])}]
    BY <1>2 DEF EndAgedScan
  <2>2. s = j
    BY <2>1
  <2>3. k \in V /\ Expired(k, now[j])
    BY <2>1, <2>2
  <2>4. V \subseteq Jobs
    BY DEF Visited
  <2>5. QED BY <2>3, <2>4 DEF Expired
<1>3. ASSUME NEW j \in Jobs, DropAged(j) PROVE FALSE
  BY <1>3 DEF DropAged
<1>4. aged' = aged \/ \E j \in Jobs : EndAgedScan(j) \/ DropAged(j)
  BY DEF Next, Tick, Build, StartStep, Insert, BeginAgedScan, AgedDropped, BeginOldestScan,
         EndOldestScan, PopOldest, ScanRaises, PopRaises, Refuse, Respond, WorkerStep,
         WorkerUnchanged, Progress, ClearDetail, Produce, AddPackPath, OwnStage, OwnStatus, Raise,
         Explain, Finish, LastStage, ClientStep, ClientUnchanged, Lookup, ReadStatus,
         ReadDetail, ReadResult, Deliver, ReadRaises
<1>5. QED BY <1>1, <1>2, <1>3, <1>4

(* However late a handler gets to the keys its scan collected, whatever    *)
(* started, ended or was popped meanwhile, their jobs are finished.        *)
THEOREM AgedFinished == Spec => []AgedAreFinished
<1>1. Init => AgedAreFinished
  BY DEF Init, AgedAreFinished
<1>2. ASSUME TypeOK, Outcomes, AgedAreFinished, [Next]_vars PROVE AgedAreFinished'
  <2>1. SUFFICES ASSUME NEW s \in Jobs, NEW k \in aged'[s]
                 PROVE  status'[k] \in Terminal
    BY DEF AgedAreFinished
  <2>2. k \in Jobs /\ status[k] \in Terminal
    <3>1. CASE k \in aged[s]
      BY <1>2, <3>1 DEF AgedAreFinished, TypeOK
    <3>2. CASE k \notin aged[s]
      BY <1>2, <2>1, <3>2, AgedGrows
    <3>3. QED BY <3>1, <3>2
  <2>3. QED BY <1>2, <2>2, OutcomeKept
<1>3. QED
  BY <1>1, <1>2, TypeCorrect, OutcomesHold, PTL DEF Spec

-----------------------------------------------------------------------------
(* What the browser is told is true.                                       *)

(* What the position of a browser says of its answer and of its job.       *)
AnswersOf(j) ==
  /\ starter[j] \notin {"answered", "refused"} => client[j] = "none"
  /\ client[j] \in {"detail", "result", "deliver"} /\ view[j].status \in Terminal
       => status[j] = view[j].status
  /\ client[j] = "deliver" /\ view[j].status = "done" => view[j].result
  /\ client[j] \in Terminal => status[j] = client[j]
  /\ client[j] = "done" => view[j].result

Answers == \A j \in Jobs : AnswersOf(j)

LEMMA AnswersOfOthers ==
  ASSUME NEW j \in Jobs, AnswersOf(j),
         starter'[j] = starter[j] \/ (starter[j] \notin {"answered", "refused"}
                                      /\ starter'[j] \notin {"answered", "refused"}),
         client'[j] = client[j], view'[j] = view[j],
         status[j] \in Terminal => status'[j] = status[j]
  PROVE  AnswersOf(j)'
  BY DEF AnswersOf, Terminal

LEMMA AnswersInductive ==
  ASSUME TypeOK, Outcomes, Answers, [Next]_vars PROVE Answers'
<1> SUFFICES ASSUME NEW j \in Jobs PROVE AnswersOf(j)'
  BY DEF Answers
<1>1. AnswersOf(j) /\ OutcomesOf(j)
  BY DEF Answers, Outcomes
<1>2. status[j] \in Terminal => status'[j] = status[j]
  BY OutcomeKept
<1>3. CASE Tick \/ (\E i \in Jobs : WorkerStep(i)) \/ UNCHANGED vars
  BY <1>1, <1>2, <1>3, AnswersOfOthers
  DEF Tick, WorkerStep, WorkerUnchanged, Progress, ClearDetail, Produce, AddPackPath, OwnStage,
      OwnStatus, Raise, Explain, Finish, LastStage
<1>4. ASSUME NEW i \in Jobs, Build(i) PROVE AnswersOf(j)'
  BY <1>1, <1>2, <1>4, AnswersOfOthers DEF Build, TypeOK
<1>5. ASSUME NEW i \in Jobs, StartStep(i) PROVE AnswersOf(j)'
  <2>1. CASE Respond(i)
    <3>1. CASE i = j
      BY <1>1, <2>1, <3>1 DEF Respond, AnswersOf, Terminal, TypeOK
    <3>2. CASE i # j
      BY <1>1, <1>2, <2>1, <3>2, AnswersOfOthers DEF Respond, TypeOK
    <3>3. QED BY <3>1, <3>2
  <2>2. CASE ScanRaises(i) \/ PopRaises(i)
    <3>1. CASE i = j
      BY <1>1, <2>2, <3>1
      DEF ScanRaises, PopRaises, Refuse, AnswersOf, Terminal, TypeOK
    <3>2. CASE i # j
      BY <1>1, <1>2, <2>2, <3>2, AnswersOfOthers
      DEF ScanRaises, PopRaises, Refuse, TypeOK
    <3>3. QED BY <3>1, <3>2
  <2>3. CASE ~(Respond(i) \/ ScanRaises(i) \/ PopRaises(i))
    BY <1>1, <1>2, <1>5, <2>3, AnswersOfOthers
    DEF StartStep, Insert, BeginAgedScan, BeginScan, EndAgedScan, DropAged,
        AgedDropped, BeginOldestScan, EndOldestScan, PopOldest, TypeOK
  <2>4. QED BY <2>1, <2>2, <2>3
<1>6. ASSUME NEW i \in Jobs, ClientStep(i), i # j PROVE AnswersOf(j)'
  BY <1>1, <1>2, <1>6, AnswersOfOthers
  DEF ClientStep, ClientUnchanged, Lookup, ReadStatus, ReadDetail, ReadResult,
      Deliver, ReadRaises, TypeOK
<1>7. CASE ClientStep(j)
  <2>1. starter[j] \in {"answered", "refused"}
    BY <1>1, <1>7
    DEF AnswersOf, ClientStep, Lookup, ReadStatus, ReadDetail, ReadResult, Deliver,
        ReadRaises, Reading
  <2>2. UNCHANGED <<starter, status, result>>
    BY <1>7
    DEF ClientStep, ClientUnchanged, Lookup, ReadStatus, ReadDetail, ReadResult,
        Deliver, ReadRaises
  <2> USE DEF TypeOK, AnswersOf, Terminal
  <2>3. CASE Lookup(j) \/ ReadRaises(j)
    BY <1>1, <2>1, <2>2, <2>3 DEF Lookup, ReadRaises
  <2>4. CASE ReadStatus(j)
    BY <1>1, <2>1, <2>2, <2>4 DEF ReadStatus, Views
  <2>5. CASE ReadDetail(j)
    BY <1>1, <2>1, <2>2, <2>5 DEF ReadDetail, Views
  <2>6. CASE ReadResult(j)
    <3>1. client'[j] = "deliver" /\ view'[j].status = view[j].status
          /\ view'[j].result = result[j] /\ client[j] = "result"
      BY <2>6 DEF ReadResult, Views
    <3>2. view[j].status = "done" => result[j]
      BY <1>1, <3>1 DEF OutcomesOf
    <3>3. QED BY <1>1, <2>1, <2>2, <3>1, <3>2
  <2>7. CASE Deliver(j)
    <3>1. view[j].status \in {"running"} \cup Terminal
      BY DEF Views
    <3>2. QED BY <1>1, <2>1, <2>2, <2>7, <3>1 DEF Deliver
  <2>8. QED BY <1>7, <2>3, <2>4, <2>5, <2>6, <2>7 DEF ClientStep
<1>8. QED
  BY <1>3, <1>4, <1>5, <1>6, <1>7 DEF Next

THEOREM AnswersHold == Spec => []Answers
<1>1. Init => Answers
  BY DEF Init, Answers, AnswersOf, Terminal
<1>2. TypeOK /\ Outcomes /\ Answers /\ [Next]_vars => Answers'
  BY AnswersInductive
<1>3. QED
  BY <1>1, <1>2, TypeCorrect, OutcomesHold, PTL DEF Spec

(* A browser told "done" has the payload, and its pack can be downloaded.  *)
THEOREM AnswersAreComplete == Spec => []ToldDoneIsComplete
<1>1. Outcomes /\ Answers => ToldDoneIsComplete
  BY DEF Outcomes, OutcomesOf, Answers, AnswersOf, ToldDoneIsComplete, Terminal
<1>2. QED
  BY <1>1, OutcomesHold, AnswersHold, PTL

-----------------------------------------------------------------------------
(* JobStore implements JobContract.                                        *)

LEMMA ToldOfValues ==
  /\ \A c \in Reading \cup {"none", "polling"} : ToldOf(c) = "waiting"
  /\ \A c \in Terminal : ToldOf(c) = c
  /\ \A c \in {"unknown", "failed", "refused"} : ToldOf(c) = "lost"
  BY DEF ToldOf, Reading, Terminal, Told

(* The browser of one job moves; no job settles.                           *)
LEMMA ToldMoves ==
  ASSUME TypeOK, NEW j \in Jobs, NEW c, client' = [client EXCEPT ![j] = c],
         status' = status
  PROVE  /\ [i \in Jobs |-> ToldOf(client'[i])]
              = [[i \in Jobs |-> ToldOf(client[i])] EXCEPT ![j] = ToldOf(c)]
         /\ ToldOf(client[j]) = "waiting" /\ ToldOf(c) = "lost" => Contract!Lose(j)
         /\ ToldOf(client[j]) = "waiting" /\ ToldOf(c) = status[j]
              /\ status[j] # "running" => Contract!Tell(j)
<1>1. [i \in Jobs |-> ToldOf(client'[i])]
        = [[i \in Jobs |-> ToldOf(client[i])] EXCEPT ![j] = ToldOf(c)]
  BY DEF TypeOK
<1>2. QED
  BY <1>1 DEF Contract!Lose, Contract!Tell, Contract!contractVars

LEMMA ToldStays ==
  ASSUME TypeOK, NEW j \in Jobs, NEW c \in Reading \cup {"none", "polling"},
         client' = [client EXCEPT ![j] = c], status' = status,
         client[j] \in Reading \cup {"none", "polling"}
  PROVE  UNCHANGED Contract!contractVars
<1>1. ToldOf(client[j]) = "waiting" /\ ToldOf(c) = "waiting"
  BY ToldOfValues
<1>2. [i \in Jobs |-> ToldOf(client'[i])] = [i \in Jobs |-> ToldOf(client[i])]
  BY <1>1 DEF TypeOK
<1>3. QED BY <1>2 DEF Contract!contractVars

LEMMA StepRefines ==
  ASSUME TypeOK, Outcomes, Answers, [Next]_vars
  PROVE  [Contract!Next]_Contract!contractVars
<1>1. CASE UNCHANGED <<status, client>>
  BY <1>1 DEF Contract!contractVars
<1>2. ASSUME NEW j \in Jobs, OwnStatus(j) \/ Raise(j) \/ Finish(j)
      PROVE  [Contract!Next]_Contract!contractVars
  <2>1. OutcomesOf(j)
    BY DEF Outcomes
  <2>2. client' = client
    BY <1>2 DEF OwnStatus, Raise, Finish, WorkerUnchanged
  <2>3. CASE status' = status
    BY <2>2, <2>3 DEF Contract!contractVars
  <2>4. CASE status' # status
    <3>1. status[j] = "running"
          /\ \E o \in {"done", "error"} : status' = [status EXCEPT ![j] = o]
      BY <1>2, <2>1, <2>4 DEF OwnStatus, Raise, Finish, OutcomesOf
    <3>2. Contract!Settle(j)
      BY <2>2, <3>1 DEF Contract!Settle
    <3>3. QED BY <3>2 DEF Contract!Next
  <2>5. QED BY <2>3, <2>4
<1>3. ASSUME NEW j \in Jobs, Refuse(j), starter[j] \in Scanning \cup {"pop"}
      PROVE  Contract!Lose(j)
  <2>1. client[j] = "none"
    BY <1>3 DEF Answers, AnswersOf, Scanning
  <2>2. QED BY <1>3, <2>1, ToldMoves, ToldOfValues DEF Refuse
<1>4. ASSUME NEW j \in Jobs, Respond(j)
      PROVE  UNCHANGED Contract!contractVars
  <2>1. client[j] = "none" /\ status' = status
    BY <1>4 DEF Respond, Answers, AnswersOf
  <2>2. CASE client' = [client EXCEPT ![j] = "polling"]
    BY <2>1, <2>2, ToldStays
  <2>3. CASE client' = client
    BY <2>1, <2>3 DEF Contract!contractVars
  <2>4. QED BY <1>4, <2>2, <2>3 DEF Respond
<1>5. ASSUME NEW j \in Jobs, ClientStep(j)
      PROVE  [Contract!Next]_Contract!contractVars
  <2>1. status' = status
    BY <1>5
    DEF ClientStep, ClientUnchanged, Lookup, ReadStatus, ReadDetail, ReadResult,
        Deliver, ReadRaises
  <2>2. CASE Lookup(j)
    <3>1. ToldOf(client[j]) = "waiting"
      BY <2>2, ToldOfValues DEF Lookup
    <3>2. CASE j \in registry
      BY <2>1, <2>2, <3>2, ToldStays DEF Lookup, Reading
    <3>3. CASE j \notin registry
      <4>1. Contract!Lose(j)
        BY <2>1, <2>2, <3>1, <3>3, ToldMoves, ToldOfValues DEF Lookup
      <4>2. QED BY <4>1 DEF Contract!Next
    <3>4. QED BY <3>2, <3>3
  <2>3. CASE ReadStatus(j)
    BY <2>1, <2>3, ToldStays DEF ReadStatus, Reading
  <2>4. CASE ReadDetail(j)
    BY <2>1, <2>4, ToldStays DEF ReadDetail, Reading
  <2>5. CASE ReadResult(j)
    BY <2>1, <2>5, ToldStays DEF ReadResult, Reading
  <2>6. CASE Deliver(j)
    <3>1. client[j] = "deliver" /\ ToldOf(client[j]) = "waiting"
      BY <2>6, ToldOfValues DEF Deliver, Reading
    <3>2. CASE view[j].status = "running"
      BY <2>1, <2>6, <3>1, <3>2, ToldStays DEF Deliver, Reading
    <3>3. CASE view[j].status # "running"
      <4>1. view[j].status \in Terminal
        BY <3>3 DEF TypeOK, Views
      <4>2. status[j] = view[j].status
        BY <3>1, <4>1 DEF Answers, AnswersOf
      <4>3. client' = [client EXCEPT ![j] = status[j]]
        BY <2>6, <3>3, <4>2 DEF Deliver
      <4>4. ToldOf(status[j]) = status[j] /\ status[j] # "running"
        BY <3>3, <4>1, <4>2, ToldOfValues
      <4>5. Contract!Tell(j)
        BY <2>1, <3>1, <4>3, <4>4, ToldMoves
      <4>6. QED BY <4>5 DEF Contract!Next
    <3>4. QED BY <3>2, <3>3
  <2>7. CASE ReadRaises(j)
    <3>1. Contract!Lose(j)
      BY <2>1, <2>7, ToldMoves, ToldOfValues DEF ReadRaises
    <3>2. QED BY <3>1 DEF Contract!Next
  <2>8. QED BY <1>5, <2>2, <2>3, <2>4, <2>5, <2>6, <2>7 DEF ClientStep
<1>6. QED
  <2>1. CASE \E j \in Jobs : ClientStep(j)
    BY <1>5, <2>1
  <2>2. CASE \E j \in Jobs : StartStep(j)
    <3>1. PICK j \in Jobs : StartStep(j)
      BY <2>2
    <3>2. CASE ScanRaises(j) \/ PopRaises(j)
      BY <1>3, <3>2 DEF ScanRaises, PopRaises, Contract!Next
    <3>3. CASE Respond(j)
      BY <1>4, <3>3
    <3>4. CASE ~(Respond(j) \/ ScanRaises(j) \/ PopRaises(j))
      BY <1>1, <3>1, <3>4
      DEF StartStep, Insert, BeginAgedScan, EndAgedScan, DropAged, AgedDropped,
          BeginOldestScan, EndOldestScan, PopOldest
    <3>5. QED BY <3>2, <3>3, <3>4
  <2>3. CASE \E j \in Jobs : WorkerStep(j)
    <3>1. PICK j \in Jobs : WorkerStep(j)
      BY <2>3
    <3>2. CASE OwnStatus(j) \/ Raise(j) \/ Finish(j)
      BY <1>2, <3>2
    <3>3. CASE ~(OwnStatus(j) \/ Raise(j) \/ Finish(j))
      BY <1>1, <3>1, <3>3
      DEF WorkerStep, WorkerUnchanged, Progress, ClearDetail, Produce, AddPackPath, OwnStage,
          Explain, LastStage
    <3>4. QED BY <3>2, <3>3
  <2>4. CASE Tick \/ (\E j \in Jobs : Build(j)) \/ UNCHANGED vars
    BY <1>1, <2>4 DEF Tick, Build
  <2>5. QED
    BY <2>1, <2>2, <2>3, <2>4 DEF Next

(* Every behaviour of the threads is one of the browser's contract.        *)
THEOREM ContractKept == Spec => KeepsContract
<1>1. Init => Contract!Init
  BY ToldOfValues DEF Init, Contract!Init
<1>2. TypeOK /\ Outcomes /\ Answers /\ [Next]_vars
        => [Contract!Next]_Contract!contractVars
  BY StepRefines
<1>3. QED
  BY <1>1, <1>2, TypeCorrect, OutcomesHold, AnswersHold, PTL
  DEF Spec, KeepsContract, Contract!Spec

=============================================================================
