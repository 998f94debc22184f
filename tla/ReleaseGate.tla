------------------------------ MODULE ReleaseGate ------------------------------
(***************************************************************************)
(* Release checks that run at the same time: each renders the original,    *)
(* then the conversion, each render in one of the RENDER_SLOTS of          *)
(* proc.py, compares the two and gives a verdict. A check runs as a job of *)
(* the background endpoint or as a call of run_release_check, which turns  *)
(* a render that fails into UNAVAILABLE.                                   *)
(***************************************************************************)
EXTENDS RenderComparison

CONSTANTS
  Checks,         (* the threads that run a check                          *)
  Slots,          (* RENDER_SLOTS                                          *)
  NoteCap,        (* max_findings of the annotator                         *)
  Cases           (* what a check may be asked about                       *)

ASSUME GateAssumption == IsFiniteSet(Checks) /\ Slots \in Nat \ {0} /\ NoteCap \in Nat

(* A case is a job of the endpoint or a call of run_release_check, with    *)
(* the two renders, the group's values in the saved rows and whether the   *)
(* pages can be looked at.                                                 *)
IsCase(k) ==
  /\ k.how \in {"job", "call"}
  /\ k.original.pages \in Seq(Pages) /\ k.converted.pages \in Seq(Pages)
  /\ k.saved \in Seq(Customers \cup {NoCustomer})
  /\ k.sees \in BOOLEAN

ASSUME CasesAssumption == \A f \in Cases, c \in Checks : f[c].how = "idle" \/ IsCase(f[c])

VARIABLES
  case,           (* the check's case, "idle" for a thread never used      *)
  stage,          (* job["stage"], with the waits for a slot told apart    *)
  free,           (* slots left in the semaphore                           *)
  findings,
  verdict,        (* ReleaseCheck.verdict, "none" before                   *)
  notes           (* how many findings the LLM has annotated               *)

gateVars == <<case, stage, free, findings, verdict, notes>>

Waiting == {"queued original", "queued conversion"}
Rendering == {"rendering original", "rendering conversion"}
Ended == {"done", "error", "crashed"}
Stages == {"idle", "asked", "comparing", "annotating"} \cup Waiting \cup Rendering \cup Ended

GateInit ==
  /\ case \in Cases
  /\ stage = [c \in Checks |-> "idle"]
  /\ free = Slots
  /\ findings = [c \in Checks |-> {}]
  /\ verdict = [c \in Checks |-> "none"]
  /\ notes = [c \in Checks |-> 0]

Goes(c, from, to) == stage[c] = from /\ stage' = [stage EXCEPT ![c] = to]

(* Beyond the guards of the endpoint (no PRD, no original): nothing runs.  *)
Ask(c) ==
  /\ case[c].how # "idle"
  /\ Goes(c, "idle", "asked")
  /\ UNCHANGED <<case, free, findings, verdict, notes>>

(* _fill_and_load reads the upload; what it raises ends the check.         *)
Load(c) ==
  /\ \/ Goes(c, "asked", "queued original")
     \/ Goes(c, "asked", IF case[c].how = "job" THEN "error" ELSE "crashed")
  /\ UNCHANGED <<case, free, findings, verdict, notes>>

(* with RENDER_GATE: one slot, taken for the time of the subprocess.       *)
Enter(c) ==
  /\ free > 0
  /\ \/ Goes(c, "queued original", "rendering original")
     \/ Goes(c, "queued conversion", "rendering conversion")
  /\ free' = free - 1
  /\ UNCHANGED <<case, findings, verdict, notes>>

(* Mutant of Rendered: the slot is kept for the conversion's render, which *)
(* takes another.                                                          *)
RenderedNested(c) ==
  /\ \/ Goes(c, "rendering original", "queued conversion") /\ free' = free
     \/ Goes(c, "rendering conversion", "comparing") /\ free' = free + 2
  /\ UNCHANGED <<case, findings, verdict, notes>>

Rendered(c) ==
  /\ \/ Goes(c, "rendering original", "queued conversion")
     \/ Goes(c, "rendering conversion", "comparing")
  /\ free' = free + 1
  /\ UNCHANGED <<case, findings, verdict, notes>>

(* Mutant of RenderFails: no with block, an exception keeps the slot.      *)
RenderFailsHolding(c) ==
  /\ stage[c] \in Rendering
  /\ stage' = [stage EXCEPT ![c] = "error"]
  /\ UNCHANGED <<case, free, findings, verdict, notes>>

(* The render raises: RuntimeError when it leaves no output, or the        *)
(* subprocess's own timeout, which begins when the slot is taken. A call   *)
(* expects either of the original and only the first of the conversion.    *)
RenderFails(c) ==
  /\ stage[c] \in Rendering
  /\ \E raised \in {"RuntimeError", "TimeoutExpired"} :
       LET caught == case[c].how = "call" /\ (stage[c] = "rendering original" \/ raised = "RuntimeError")
       IN  /\ stage' = [stage EXCEPT ![c] = CASE case[c].how = "job" -> "error"
                                              [] caught -> "done"
                                              [] OTHER -> "crashed"]
           /\ verdict' = IF caught THEN [verdict EXCEPT ![c] = "UNAVAILABLE"] ELSE verdict
  /\ free' = free + 1
  /\ UNCHANGED <<case, findings, notes>>

(* compare_renders depends on the two renders and the saved rows alone.    *)
Compared ==
  [k \in {f[c] : f \in Cases, c \in Checks} |->
     IF k.how = "idle" THEN {} ELSE Findings(k.original, k.converted, GroupValues(k.saved), k.sees)]

Compare(c) ==
  /\ Goes(c, "comparing", IF Compared[case[c]] = {} THEN "done" ELSE "annotating")
  /\ findings' = [findings EXCEPT ![c] = Compared[case[c]]]
  /\ verdict' = [verdict EXCEPT ![c] = Verdict(Compared[case[c]])]
  /\ UNCHANGED <<case, free, notes>>

(* One finding at a time until the cap or the first reply that fails; a    *)
(* job then stamps the verdict on the report's row and is done.            *)
Annotate(c) ==
  /\ stage[c] = "annotating"
  /\ \/ /\ notes[c] < NoteCap /\ notes[c] < Cardinality(findings[c])
        /\ notes' = [notes EXCEPT ![c] = @ + 1]
        /\ stage' = stage
     \/ stage' = [stage EXCEPT ![c] = "done"] /\ notes' = notes
  /\ UNCHANGED <<case, free, findings, verdict>>

Step(c) == Load(c) \/ Enter(c) \/ Rendered(c) \/ RenderFails(c) \/ Compare(c) \/ Annotate(c)
GateNext == \E c \in Checks : Ask(c) \/ Step(c)

GateSpec == GateInit /\ [][GateNext]_gateVars

(* Threads run until they end; the semaphore wakes whoever waits.          *)
GateFairSpec == GateSpec /\ \A c \in Checks : WF_gateVars(Step(c))
-----------------------------------------------------------------------------
InSlots == {c \in Checks : stage[c] \in Rendering}

(* A slot is free or under exactly one running render, whatever way the    *)
(* renders before it ended: at most Slots of them run at once.             *)
SlotsAreKept == free \in 0..Slots /\ free + Cardinality(InSlots) = Slots

(* Every check that is asked for ends, though it waits twice for a slot    *)
(* that others hold.                                                       *)
ChecksEnd == \A c \in Checks : (stage[c] = "asked") ~> (stage[c] \in Ended)

Judged(c) == stage[c] \in {"annotating", "done"} /\ verdict[c] \in {"SHIP", "REVIEW"}

(* A render laid beside one that prints the same ships, as long as it      *)
(* prints numbers and no page's text is part of another's.                 *)
Telling(d) == Figures(d) > 0 /\ \A p, q \in DOMAIN d.pages :
                p # q => Overlap(Texts(d.pages[p]), Texts(d.pages[q])) < 100
SameRenderShips ==
  \A c \in Checks : Judged(c) /\ case[c].original = case[c].converted /\ Telling(case[c].original)
                      => verdict[c] = "SHIP"

(* Where a line of a statement is: the pages with a line of that kind.     *)
On(d, v, kind) == {p \in DOMAIN d.pages : \E i \in DOMAIN d.pages[p].lines :
                     d.pages[p].lines[i].kind = kind /\ d.pages[p].lines[i].of = v}

(* A statement's letter and its total say the same, and no other statement *)
(* prints that amount.                                                     *)
Owes(d, v, n) ==
  n # NoAmount /\ \A x \in Places(d) :
    /\ At(d, x).of = v /\ At(d, x).kind \in {"letter", "total"} => At(d, x).amount = n
    /\ At(d, x).of # v => At(d, x).amount # n

(* No other statement is named or says what is due on the page.            *)
Alone(d, p, v) ==
  \A i \in DOMAIN d.pages[p].lines :
    LET l == d.pages[p].lines[i] IN l.kind \in {"name", "letter"} => l.of = v

(* The original prints the statement on one page of its own and a figure   *)
(* after each total, and knows any name that contains the customer's for a *)
(* customer.                                                               *)
InOnePiece(d, v, values) ==
  /\ \E p \in DOMAIN d.pages : Alone(d, p, v) /\ \A kind \in {"name", "letter", "total"} : On(d, v, kind) = {p}
  /\ \A x \in Places(d) : At(d, x).kind = "total" => At(d, x).amount # NoAmount
  /\ \A w \in Longer[v] : On(d, w, "name") # {} => w \in values

(* The page from which the conversion pushes v's total to the next page.   *)
Stranding(d, v) ==
  {q \in On(d, v, "letter") \ On(d, v, "total") : q + 1 \in On(d, v, "total") /\ Alone(d, q, v)}
Blames(c) == [severity |-> "error", code |-> "orphaned-total"] \in findings[c]

(* The gate finds every total pushed to the page after the statement that  *)
(* says what is due, by the amount alone: names that contain each other, a *)
(* name left on the page before, the splits of the original's other        *)
(* statements and totals that most pages carry do not hide it.             *)
StatedTotalIsFollowed ==
  \A c \in Checks : Judged(c) =>
    LET values == Range(GroupValues(case[c].saved)) IN
    \A v \in values :
      /\ Stranding(case[c].converted, v) # {} /\ InOnePiece(case[c].original, v, values)
      /\ \E n \in Amounts : Owes(case[c].original, v, n) /\ Owes(case[c].converted, v, n)
      => Blames(c)

(* The verdict of the gate: SHIP for a render of what the original prints, *)
(* and an error that keeps a total apart from its statement from shipping. *)
VerdictIsFair == SameRenderShips /\ StatedTotalIsFollowed

=============================================================================
