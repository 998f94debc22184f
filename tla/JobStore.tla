------------------------------ MODULE JobStore ------------------------------
(***************************************************************************)
(* One family of background jobs (src/pentaho_migration/jobs.py): the      *)
(* dictionary of jobs, the start handlers that insert into it and evict    *)
(* from it, the daemon thread of each job, and the browser that polls it.  *)
(*                                                                         *)
(* Start handlers and status handlers run in the server's thread pool and  *)
(* workers in threads of their own, with no lock: one step below is one    *)
(* operation the interpreter performs without switching threads.  A start  *)
(* request, the job it creates, its worker and the browser that sent it    *)
(* share one identifier.                                                   *)
(***************************************************************************)
EXTENDS Integers, FiniteSets

CONSTANTS
  Jobs,         (* the start requests a run of the server receives         *)
  OwnTerminal,  (* those whose worker sets its own terminal status: the    *)
                (* release gate's                                          *)
  Packs,        (* those whose worker adds a key to the job: pack_path     *)
  Polled,       (* those whose browser polls after the start is answered   *)
  MaxJobs,      (* MAX_JOBS                                                *)
  MaxAge,       (* MAX_AGE_S, in clock ticks                               *)
  MaxClock,     (* bound on the clock                                      *)
  NoJob         (* "no key chosen yet"                                     *)

ASSUME JobsAssumption ==
  /\ OwnTerminal \subseteq Jobs
  /\ Packs \subseteq Jobs
  /\ Polled \subseteq Jobs
  /\ NoJob \notin Jobs

ASSUME BoundsAssumption ==
  /\ MaxJobs \in Nat \ {0}
  /\ MaxAge \in Nat
  /\ MaxClock \in Nat

VARIABLES
  clock,     (* time.time()                                                *)
  registry,  (* the keys of self._jobs                                     *)
  status, detail, result, stage, created, packPath, (* the job dictionaries *)
  starter,   (* where the start handler of each job is                     *)
  now,       (* _evict's local now                                         *)
  seen,      (* the keys present when the handler's current scan began     *)
  disturbed, (* did another thread change the keys during that scan        *)
  aged,      (* the keys of the finished, old jobs still to pop            *)
  victim,    (* the local oldest                                           *)
  worker,    (* where the daemon thread of each job is                     *)
  client,    (* where the browser is: reading one status answer, or told   *)
  view       (* the part of the status answer built so far                 *)

jobVars    == <<status, detail, result, stage, created, packPath>>
startVars  == <<starter, now, seen, disturbed, aged, victim>>
clientVars == <<client, view>>
vars == <<clock, registry, jobVars, startVars, worker, clientVars>>

Terminal == {"done", "error"}
Scanning == {"agedScan", "oldestScan"}
InFlight == Scanning \cup {"built", "evict", "dropAged", "count", "pop"}
Reading  == {"status", "detail", "result", "deliver"}
Told     == {"done", "error", "unknown", "failed", "refused"}

NoView == [status |-> "running", detail |-> "blank", result |-> FALSE, packPath |-> FALSE]

Init ==
  /\ clock = 0
  /\ registry = {}
  /\ status = [j \in Jobs |-> "running"]
  /\ detail = [j \in Jobs |-> "blank"]
  /\ result = [j \in Jobs |-> FALSE]
  /\ stage = [j \in Jobs |-> "first"]
  /\ created = [j \in Jobs |-> 0]
  /\ packPath = [j \in Jobs |-> FALSE]
  /\ starter = [j \in Jobs |-> "idle"]
  /\ now = [j \in Jobs |-> 0]
  /\ seen = [j \in Jobs |-> {}]
  /\ disturbed = [j \in Jobs |-> FALSE]
  /\ aged = [j \in Jobs |-> {}]
  /\ victim = [j \in Jobs |-> NoJob]
  /\ worker = [j \in Jobs |-> "none"]
  /\ client = [j \in Jobs |-> "none"]
  /\ view = [j \in Jobs |-> NoView]

Tick ==
  /\ clock < MaxClock
  /\ clock' = clock + 1
  /\ UNCHANGED <<registry, jobVars, startVars, worker, clientVars>>

-----------------------------------------------------------------------------
(* The start handler: JobStore.start, then _evict, then JobStore.run.      *)

(* Every other handler now iterating over the dictionary will notice.      *)
Disturb(j) ==
  disturbed' = [s \in Jobs |-> disturbed[s] \/ (s # j /\ starter[s] \in Scanning)]

(* Build the job dictionary; its creation time is read here, before the    *)
(* job is in the registry.                                                 *)
Build(j) ==
  /\ starter[j] = "idle"
  /\ starter' = [starter EXCEPT ![j] = "built"]
  /\ created' = [created EXCEPT ![j] = clock]
  /\ UNCHANGED <<clock, registry, status, detail, result, stage, packPath,
                 now, seen, disturbed, aged, victim, worker, clientVars>>

Insert(j) ==
  /\ starter[j] = "built"
  /\ starter' = [starter EXCEPT ![j] = "evict"]
  /\ registry' = registry \cup {j}
  /\ Disturb(j)
  /\ UNCHANGED <<clock, jobVars, now, seen, aged, victim, worker, clientVars>>

BeginScan(j, scan) ==
  /\ starter' = [starter EXCEPT ![j] = scan]
  /\ seen' = [seen EXCEPT ![j] = registry]
  /\ disturbed' = [disturbed EXCEPT ![j] = FALSE]

EndScan(j) ==
  /\ seen' = [seen EXCEPT ![j] = {}]
  /\ disturbed' = [disturbed EXCEPT ![j] = FALSE]

BeginAgedScan(j) ==
  /\ starter[j] = "evict"
  /\ BeginScan(j, "agedScan")
  /\ now' = [now EXCEPT ![j] = clock]
  /\ UNCHANGED <<clock, registry, jobVars, aged, victim, worker, clientVars>>

(* What an iteration that ran to its end visited: the keys, or, when they  *)
(* changed meanwhile and the interpreter did not notice, those there all   *)
(* along and some of those that came or went.                              *)
Visited(j) ==
  IF disturbed[j]
  THEN {V \in SUBSET (seen[j] \cup registry) : seen[j] \cap registry \subseteq V}
  ELSE {registry}

(* Mutant of Expired: the age alone decides.                               *)
ExpiredWhileRunning(k, t) == t - created[k] > MaxAge

Expired(k, t) == status[k] # "running" /\ t - created[k] > MaxAge

EndAgedScan(j) ==
  /\ starter[j] = "agedScan"
  /\ starter' = [starter EXCEPT ![j] = "dropAged"]
  /\ \E V \in Visited(j) :
       aged' = [aged EXCEPT ![j] = {k \in V : Expired(k, now[j])}]
  /\ EndScan(j)
  /\ UNCHANGED <<clock, registry, jobVars, now, victim, worker, clientVars>>

(* self._jobs.pop(key, None)                                               *)
DropAged(j) ==
  /\ starter[j] = "dropAged"
  /\ \E k \in aged[j] :
       /\ aged' = [aged EXCEPT ![j] = @ \ {k}]
       /\ registry' = registry \ {k}
       /\ IF k \in registry THEN Disturb(j) ELSE UNCHANGED disturbed
  /\ UNCHANGED <<clock, jobVars, starter, now, seen, victim, worker, clientVars>>

AgedDropped(j) ==
  /\ starter[j] = "dropAged"
  /\ aged[j] = {}
  /\ starter' = [starter EXCEPT ![j] = "count"]
  /\ now' = [now EXCEPT ![j] = 0]
  /\ UNCHANGED <<clock, registry, jobVars, seen, disturbed, aged, victim,
                 worker, clientVars>>

(* while len(self._jobs) > MAX_JOBS                                        *)
TooMany == Cardinality(registry) > MaxJobs

BeginOldestScan(j) ==
  /\ starter[j] = "count"
  /\ TooMany
  /\ BeginScan(j, "oldestScan")
  /\ UNCHANGED <<clock, registry, jobVars, now, aged, victim, worker, clientVars>>

Oldest(V) == {k \in V : \A m \in V : created[k] <= created[m]}

EndOldestScan(j) ==
  /\ starter[j] = "oldestScan"
  /\ starter' = [starter EXCEPT ![j] = "pop"]
  /\ \E V \in Visited(j) : \E k \in Oldest(V) : victim' = [victim EXCEPT ![j] = k]
  /\ EndScan(j)
  /\ UNCHANGED <<clock, registry, jobVars, now, aged, worker, clientVars>>

(* Mutant of PopOldest: "if" for "while", one pop per start.               *)
PopOldestOnce(j) ==
  /\ starter[j] = "pop"
  /\ victim[j] \in registry
  /\ registry' = registry \ {victim[j]}
  /\ starter' = [starter EXCEPT ![j] = "answered"]
  /\ worker' = [worker EXCEPT ![j] = "working"]
  /\ victim' = [victim EXCEPT ![j] = NoJob]
  /\ Disturb(j)
  /\ UNCHANGED <<clock, jobVars, now, seen, aged, clientVars>>

(* Mutant of PopOldest: only finished jobs are popped, the loop unchanged. *)
PopOldestFinished(j) ==
  /\ starter[j] = "pop"
  /\ victim[j] \in registry
  /\ registry' = IF status[victim[j]] = "running" THEN registry
                 ELSE registry \ {victim[j]}
  /\ starter' = [starter EXCEPT ![j] = "count"]
  /\ victim' = [victim EXCEPT ![j] = NoJob]
  /\ Disturb(j)
  /\ UNCHANGED <<clock, jobVars, now, seen, aged, worker, clientVars>>

(* self._jobs.pop(oldest): the job goes whatever its status is.            *)
PopOldest(j) ==
  /\ starter[j] = "pop"
  /\ victim[j] \in registry
  /\ registry' = registry \ {victim[j]}
  /\ starter' = [starter EXCEPT ![j] = "count"]
  /\ victim' = [victim EXCEPT ![j] = NoJob]
  /\ Disturb(j)
  /\ UNCHANGED <<clock, jobVars, now, seen, aged, worker, clientVars>>

Refuse(j) ==
  /\ starter' = [starter EXCEPT ![j] = "refused"]
  /\ client' = [client EXCEPT ![j] = "refused"]
  /\ EndScan(j)
  /\ victim' = [victim EXCEPT ![j] = NoJob]
  /\ now' = [now EXCEPT ![j] = 0]
  /\ UNCHANGED <<clock, registry, jobVars, aged, worker, view>>

(* RuntimeError from the iteration (or KeyError from the key function):    *)
(* the request fails, and its job stays in the registry.                   *)
ScanRaises(j) ==
  /\ starter[j] \in Scanning
  /\ disturbed[j]
  /\ Refuse(j)

(* KeyError: another handler popped the same oldest job.                   *)
PopRaises(j) ==
  /\ starter[j] = "pop"
  /\ victim[j] \notin registry
  /\ Refuse(j)

(* _evict returns, run spawns the worker and the browser gets the job id.  *)
Respond(j) ==
  /\ starter[j] = "count"
  /\ ~TooMany
  /\ starter' = [starter EXCEPT ![j] = "answered"]
  /\ worker' = [worker EXCEPT ![j] = "working"]
  /\ client' = IF j \in Polled THEN [client EXCEPT ![j] = "polling"] ELSE client
  /\ UNCHANGED <<clock, registry, jobVars, now, seen, disturbed, aged, victim, view>>

StartStep(j) ==
  \/ Insert(j)
  \/ BeginAgedScan(j) \/ EndAgedScan(j) \/ DropAged(j) \/ AgedDropped(j)
  \/ BeginOldestScan(j) \/ EndOldestScan(j) \/ PopOldest(j)
  \/ ScanRaises(j) \/ PopRaises(j)
  \/ Respond(j)

-----------------------------------------------------------------------------
(* The worker thread: _run around the closure the endpoint passed.         *)

WorkerUnchanged == UNCHANGED <<clock, registry, created, startVars, clientVars>>

(* The closure's progress: the next stage and, in the jobs that have       *)
(* items, the one it works on shown in detail.                             *)
Progress(j) ==
  /\ worker[j] = "working"
  /\ stage[j] = "first"
  /\ stage' = [stage EXCEPT ![j] = "middle"]
  /\ \E shown \in {"blank", "item"} : detail' = [detail EXCEPT ![j] = shown]
  /\ UNCHANGED <<status, result, packPath, worker>>
  /\ WorkerUnchanged

(* The items are behind; what the result lists may still raise.            *)
ClearDetail(j) ==
  /\ worker[j] = "working"
  /\ detail[j] = "item"
  /\ detail' = [detail EXCEPT ![j] = "blank"]
  /\ UNCHANGED <<status, stage, result, packPath, worker>>
  /\ WorkerUnchanged

(* The payload is stored; everything that can raise is behind the worker.  *)
Produce(j) ==
  /\ worker[j] = "working"
  /\ detail[j] = "blank"
  /\ result' = [result EXCEPT ![j] = TRUE]
  /\ worker' = [worker EXCEPT ![j] = IF j \in Packs THEN "packed"
                                     ELSE IF j \in OwnTerminal THEN "ownStage"
                                     ELSE "returned"]
  /\ UNCHANGED <<status, detail, stage, packPath>>
  /\ WorkerUnchanged

(* job["pack_path"] = str(out): a key the job did not have.                *)
AddPackPath(j) ==
  /\ worker[j] = "packed"
  /\ packPath' = [packPath EXCEPT ![j] = TRUE]
  /\ worker' = [worker EXCEPT ![j] = "returned"]
  /\ UNCHANGED <<status, detail, result, stage>>
  /\ WorkerUnchanged

(* The release gate closes its job itself, the stage first.                *)
OwnStage(j) ==
  /\ worker[j] = "ownStage"
  /\ stage' = [stage EXCEPT ![j] = "last"]
  /\ worker' = [worker EXCEPT ![j] = "ownStatus"]
  /\ UNCHANGED <<status, detail, result, packPath>>
  /\ WorkerUnchanged

OwnStatus(j) ==
  /\ worker[j] = "ownStatus"
  /\ status' = [status EXCEPT ![j] = "done"]
  /\ worker' = [worker EXCEPT ![j] = "returned"]
  /\ UNCHANGED <<detail, result, stage, packPath>>
  /\ WorkerUnchanged

(* An exception, caught by _run or by the gate: the status first, then the *)
(* message.                                                                *)
Raise(j) ==
  /\ worker[j] = "working"
  /\ status' = [status EXCEPT ![j] = "error"]
  /\ worker' = [worker EXCEPT ![j] = "explaining"]
  /\ UNCHANGED <<detail, result, stage, packPath>>
  /\ WorkerUnchanged

Explain(j) ==
  /\ worker[j] = "explaining"
  /\ detail' = [detail EXCEPT ![j] = "message"]
  /\ worker' = [worker EXCEPT ![j] = "returned"]
  /\ UNCHANGED <<status, result, stage, packPath>>
  /\ WorkerUnchanged

(* Back in _run: a job still running becomes done, any other is left alone.*)
Finish(j) ==
  /\ worker[j] = "returned"
  /\ IF status[j] = "running"
     THEN /\ status' = [status EXCEPT ![j] = "done"]
          /\ worker' = [worker EXCEPT ![j] = "lastStage"]
     ELSE /\ worker' = [worker EXCEPT ![j] = "ended"]
          /\ UNCHANGED status
  /\ UNCHANGED <<detail, result, stage, packPath>>
  /\ WorkerUnchanged

LastStage(j) ==
  /\ worker[j] = "lastStage"
  /\ stage' = [stage EXCEPT ![j] = "last"]
  /\ worker' = [worker EXCEPT ![j] = "ended"]
  /\ UNCHANGED <<status, detail, result, packPath>>
  /\ WorkerUnchanged

WorkerStep(j) ==
  \/ Progress(j) \/ ClearDetail(j) \/ Produce(j) \/ AddPackPath(j)
  \/ OwnStage(j) \/ OwnStatus(j)
  \/ Raise(j) \/ Explain(j)
  \/ Finish(j) \/ LastStage(j)

-----------------------------------------------------------------------------
(* The status handler, JobStore.get, and the browser's poll loop.          *)

ClientUnchanged == UNCHANGED <<clock, registry, jobVars, startVars, worker>>

(* Mutant of Lookup: the browser takes a 404 for "not yet".                *)
LookupForEver(j) ==
  /\ client[j] = "polling"
  /\ client' = [client EXCEPT ![j] = IF j \in registry THEN "status" ELSE "polling"]
  /\ view' = [view EXCEPT ![j] = [NoView EXCEPT !.packPath = packPath[j]]]
  /\ ClientUnchanged

(* self._jobs.get(job_id): None is answered 404.                           *)
Lookup(j) ==
  /\ client[j] = "polling"
  /\ client' = [client EXCEPT ![j] = IF j \in registry THEN "status" ELSE "unknown"]
  /\ view' = [view EXCEPT ![j] = [NoView EXCEPT !.packPath = packPath[j]]]
  /\ ClientUnchanged

(* The iteration over the job's items has to stop when a key was added.    *)
Grown(j) == packPath[j] # view[j].packPath

(* The comprehension copies the items one by one, in insertion order.      *)
ReadStatus(j) ==
  /\ client[j] = "status" /\ ~Grown(j)
  /\ view' = [view EXCEPT ![j].status = status[j]]
  /\ client' = [client EXCEPT ![j] = "detail"]
  /\ ClientUnchanged

ReadDetail(j) ==
  /\ client[j] = "detail" /\ ~Grown(j)
  /\ view' = [view EXCEPT ![j].detail = detail[j]]
  /\ client' = [client EXCEPT ![j] = "result"]
  /\ ClientUnchanged

ReadResult(j) ==
  /\ client[j] = "result" /\ ~Grown(j)
  /\ view' = [view EXCEPT ![j].result = result[j]]
  /\ client' = [client EXCEPT ![j] = "deliver"]
  /\ ClientUnchanged

(* Mutant of Deliver: whatever is not running is taken for done.           *)
DeliverAsDone(j) ==
  /\ client[j] = "deliver" /\ ~Grown(j)
  /\ client' = [client EXCEPT ![j] = IF view[j].status = "running" THEN "polling"
                                     ELSE "done"]
  /\ UNCHANGED view
  /\ ClientUnchanged

(* The answer arrives; the browser polls again or stops.                   *)
Deliver(j) ==
  /\ client[j] = "deliver" /\ ~Grown(j)
  /\ client' = [client EXCEPT ![j] = IF view[j].status = "running" THEN "polling"
                                     ELSE view[j].status]
  /\ UNCHANGED view
  /\ ClientUnchanged

(* RuntimeError in the status handler: HTTP 500, and the browser gives up. *)
ReadRaises(j) ==
  /\ client[j] \in Reading /\ Grown(j)
  /\ client' = [client EXCEPT ![j] = "failed"]
  /\ UNCHANGED view
  /\ ClientUnchanged

ClientStep(j) ==
  \/ Lookup(j)
  \/ ReadStatus(j) \/ ReadDetail(j) \/ ReadResult(j) \/ Deliver(j)
  \/ ReadRaises(j)

-----------------------------------------------------------------------------
Next ==
  \/ Tick
  \/ \E j \in Jobs : Build(j) \/ StartStep(j) \/ WorkerStep(j) \/ ClientStep(j)

Spec == Init /\ [][Next]_vars

(* A request being handled, a worker and a polling browser keep running;   *)
(* no one has to send a request.                                           *)
Fairness ==
  \A j \in Jobs : /\ WF_vars(StartStep(j))
                  /\ WF_vars(WorkerStep(j))
                  /\ WF_vars(ClientStep(j))

FairSpec == Spec /\ Fairness

-----------------------------------------------------------------------------
(* Properties.                                                             *)

StarterStates == InFlight \cup {"idle", "answered", "refused"}
WorkerStates  == {"none", "working", "packed", "ownStage", "ownStatus", "explaining",
                  "returned", "lastStage", "ended"}
ClientStates  == Reading \cup Told \cup {"none", "polling"}
Details       == {"blank", "item", "message"}
Views         == [status : {"running"} \cup Terminal, detail : Details,
                  result : BOOLEAN, packPath : BOOLEAN]

(* The type invariant.                                                     *)
TypeOK ==
  /\ clock \in 0..MaxClock
  /\ registry \in SUBSET Jobs
  /\ status \in [Jobs -> {"running"} \cup Terminal]
  /\ detail \in [Jobs -> Details]
  /\ result \in [Jobs -> BOOLEAN]
  /\ stage \in [Jobs -> {"first", "middle", "last"}]
  /\ created \in [Jobs -> 0..MaxClock]
  /\ packPath \in [Jobs -> BOOLEAN]
  /\ starter \in [Jobs -> StarterStates]
  /\ now \in [Jobs -> 0..MaxClock]
  /\ seen \in [Jobs -> SUBSET Jobs]
  /\ disturbed \in [Jobs -> BOOLEAN]
  /\ aged \in [Jobs -> SUBSET Jobs]
  /\ victim \in [Jobs -> Jobs \cup {NoJob}]
  /\ worker \in [Jobs -> WorkerStates]
  /\ client \in [Jobs -> ClientStates]
  /\ view \in [Jobs -> Views]

(* "Background job registries are bounded": between requests the registry  *)
(* holds at most MAX_JOBS jobs, although a start that loses a race fails   *)
(* and leaves its job, and its evictions, undone.                          *)
RegistryBounded ==
  (\A s \in Jobs : starter[s] \notin InFlight) => Cardinality(registry) <= MaxJobs

(* Why: while there are too many jobs, some handler will still count them  *)
(* and nothing has made its current scan or pop fail.                      *)
Undisturbed(s) ==
  \/ starter[s] \in {"evict", "dropAged", "count"}
  \/ starter[s] \in Scanning /\ ~disturbed[s]
  \/ starter[s] = "pop" /\ victim[s] \in registry

SomeoneRecounts == TooMany => \E s \in Jobs : Undisturbed(s)

(* The age pass only ever pops finished jobs, however late it gets to a    *)
(* key its scan collected.                                                 *)
AgedAreFinished == \A s \in Jobs : \A k \in aged[s] : status[k] \in Terminal

(* A browser told "done" was given the payload with it, although the       *)
(* answer is copied item by item from a dictionary the worker is writing;  *)
(* a finished pack can be downloaded.                                      *)
ToldDoneIsComplete ==
  \A j \in Jobs : client[j] = "done" => /\ view[j].result
                                       /\ (j \in Packs => packPath[j])

(* A failed job never carries a payload: nothing that follows the payload  *)
(* (persisting the gate's verdict, adding the pack's path) fails the job.  *)
ErrorHasNoResult == \A j \in Jobs : status[j] = "error" => ~result[j]

(* "A worker that already set its own terminal status is left alone", and  *)
(* so is every other finished job.                                         *)
TerminalIsFinal ==
  [][\A j \in Jobs : status[j] \in Terminal => status'[j] = status[j]]_vars

(* A start request is always answered, whatever the others do meanwhile:   *)
(* the eviction loop ends.                                                 *)
StartsAreAnswered ==
  \A j \in Jobs : starter[j] = "built" ~> starter[j] \in {"answered", "refused"}

(* A browser never polls for ever: it is told the outcome, or that its job *)
(* is unknown (evicted), or that the request failed.                       *)
BrowsersAreTold == \A j \in Jobs : client[j] = "polling" ~> client[j] \in Told

(* What the browser is told, without the threads.                          *)
ToldOf(c) ==
  CASE c \in Terminal -> c
    [] c \in Told \ Terminal -> "lost"
    [] OTHER -> "waiting"

Contract == INSTANCE JobContract
              WITH outcome <- status, told <- [j \in Jobs |-> ToldOf(client[j])]

(* The threads keep the browser's contract: one outcome, told truly.       *)
KeepsContract == Contract!Spec

=============================================================================
