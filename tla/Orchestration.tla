------------------------------ MODULE Orchestration ------------------------------
(***************************************************************************)
(* TalendParser.parse_workflows and the hops KjbGenerator writes: a Talend *)
(* job that calls other jobs (tRunJob) becomes a PDI job whose entries are *)
(* the calls.  Each call is connected to the next calls downstream of it,  *)
(* through whatever components lie between, and what nothing links to      *)
(* starts from START.                                                      *)
(***************************************************************************)
EXTENDS Naturals, Sequences

CONSTANTS Components,  (* UNIQUE_NAMEs of the job's nodes                  *)
          Start,       (* the entry the parser adds                        *)
          Callers      (* the parsed jobs: calls and orchestration links   *)

(* OnSubjobOk and OnComponentOk end in _OK; OnSubjobError, OnComponentError,*)
(* RunIf and Iterate do not.                                               *)
Kinds == {"OK", "OTHER"}
Links == [from : Components, to : Components, kind : Kinds]

ASSUME CallersAssumption ==
  /\ \A c \in Callers : c.calls \subseteq Components /\ c.links \in Seq(Links)
  /\ Start \notin Components

VARIABLES
  caller,     (* the parsed job                                            *)
  waiting,    (* calls whose successors are not collected yet              *)
  source,     (* the call at hand, Start between two                       *)
  open,       (* frontier: components reached, each with its label         *)
  reached,    (* seen                                                      *)
  jobHops,    (* Job.hops                                                  *)
  linkStage

linkVars == <<caller, waiting, source, open, reached, jobHops, linkStage>>

(* The first kind of link from a component to another, in document order.  *)
LinksBetween(a, b) ==
  {i \in DOMAIN caller.links : caller.links[i].from = a /\ caller.links[i].to = b}
KindOf(a, b) ==
  caller.links[CHOOSE i \in LinksBetween(a, b) :
                 \A j \in LinksBetween(a, b) : i <= j].kind

LinkInit ==
  /\ caller \in Callers
  /\ waiting = caller.calls
  /\ source = Start
  /\ open = {}
  /\ reached = {}
  /\ jobHops = {}
  /\ linkStage = "calls"

TakeCall(c) ==
  /\ linkStage = "calls"
  /\ waiting' = waiting \ {c}
  /\ source' = c
  /\ open' = {[at |-> c, label |-> "none"]}
  /\ reached' = {c}
  /\ linkStage' = "follow"
  /\ UNCHANGED <<caller, jobHops>>

(* A path keeps the kind of its first link.                                *)
Label(f, d) == IF f.label = "none" THEN KindOf(f.at, d) ELSE f.label

Condition(label) == IF label = "OK" THEN "Succeeded" ELSE label

(* Mutant of Follow: only direct links between two calls are followed.   *)
FollowDirect(f) ==
  LET new == {d \in Components \ reached : LinksBetween(f.at, d) # {}}
  IN  /\ linkStage = "follow"
      /\ reached' = reached \cup new
      /\ jobHops' = jobHops \cup
           {[from |-> source, to |-> d, condition |-> Condition(Label(f, d))] :
              d \in new \cap caller.calls}
      /\ open' = open \ {f}
      /\ UNCHANGED <<caller, waiting, source, linkStage>>

(* One popped component: its successors not seen yet become hops when they *)
(* are calls and are followed when they are not.  The order of the stack   *)
(* is left open.                                                           *)
Follow(f) ==
  LET new == {d \in Components \ reached : LinksBetween(f.at, d) # {}}
  IN  /\ linkStage = "follow"
      /\ reached' = reached \cup new
      /\ jobHops' = jobHops \cup
           {[from |-> source, to |-> d, condition |-> Condition(Label(f, d))] :
              d \in new \cap caller.calls}
      /\ open' = (open \ {f}) \cup
           {[at |-> d, label |-> Label(f, d)] : d \in new \ caller.calls}
      /\ UNCHANGED <<caller, waiting, source, linkStage>>

EndCall ==
  /\ linkStage = "follow"
  /\ open = {}
  /\ source' = Start
  /\ reached' = {}
  /\ linkStage' = "calls"
  /\ UNCHANGED <<caller, waiting, open, jobHops>>

LinkedTo == {h.to : h \in jobHops}

StartUnlinked ==
  /\ linkStage = "calls"
  /\ waiting = {}
  /\ jobHops' = jobHops \cup
       {[from |-> Start, to |-> c, condition |-> "none"] : c \in caller.calls \ LinkedTo}
  /\ linkStage' = "linked"
  /\ UNCHANGED <<caller, waiting, source, open, reached>>

LinkNext ==
  \/ \E c \in waiting : TakeCall(c)
  \/ \E f \in open : Follow(f)
  \/ EndCall
  \/ StartUnlinked

LinkSpec == LinkInit /\ [][LinkNext]_linkVars

Linked == linkStage = "linked"

(* KjbGenerator: a hop follows success, or it is unconditional.            *)
FollowsSuccess(h) == h.condition = "Succeeded"

-----------------------------------------------------------------------------
LinkTypeOK ==
  /\ caller \in Callers
  /\ waiting \subseteq caller.calls
  /\ source \in caller.calls \cup {Start}
  /\ open \subseteq [at : Components, label : Kinds \cup {"none"}]
  /\ reached \subseteq Components
  /\ jobHops \subseteq [from : Components \cup {Start}, to : Components,
                        condition : {"Succeeded", "OTHER", "none"}]
  /\ linkStage \in {"calls", "follow", "linked"}

(* b is reached from a over edges, a set of records with from and to: b is *)
(* in every set that holds what a leads to and is closed under the edges.  *)
Reaches(edges, a, b) ==
  \A S \in SUBSET (Components \cup {Start}) :
    /\ \A e \in edges : e.from = a \/ e.from \in S => e.to \in S
    => b \in S

CallerLinks == {caller.links[i] : i \in DOMAIN caller.links}

(* The job runs the calls in the order the source did: one call comes      *)
(* after another in the job exactly when a chain of links led from the one *)
(* to the other, through calls and other components                        *)
(* (parse_workflows: "connect tRunJobs through any intermediate            *)
(* components").                                                           *)
OrderIsKept ==
  Linked => \A a, b \in caller.calls :
              a # b => (Reaches(jobHops, a, b) <=> Reaches(CallerLinks, a, b))

(* No call is lost: as long as no call comes after itself, START leads to  *)
(* every one of them.                                                      *)
EveryCallRuns ==
  Linked /\ (\A a \in caller.calls : ~Reaches(CallerLinks, a, a))
    => \A c \in caller.calls : Reaches(jobHops, Start, c)

(* A hop follows success only where a chain that begins with an OK link    *)
(* leads to the call, and does so wherever all that leads there begins     *)
(* with one: a call made on an error is never made to wait for success.    *)
Past(l, b) ==
  \/ l.to = b
  \/ /\ l.to \notin caller.calls
     /\ Reaches({k \in CallerLinks : k.from \notin caller.calls}, l.to, b)

SuccessIsFollowed ==
  \A h \in jobHops :
    h.from # Start =>
      LET ways == {l \in CallerLinks : l.from = h.from /\ Past(l, h.to)}
      IN  /\ FollowsSuccess(h) => \E l \in ways : l.kind = "OK"
          /\ (\A l \in ways : l.kind = "OK") => FollowsSuccess(h)

(* The calls of a job as the conversion keeps them: their order, that each *)
(* is started, and which of them wait for success.                         *)
CallsAreKept == OrderIsKept /\ EveryCallRuns /\ SuccessIsFollowed

=============================================================================
