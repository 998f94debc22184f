------------------------------- MODULE Conversion -------------------------------
(***************************************************************************)
(* One ETL source from the parser to the review agent's verdict: the       *)
(* mapper works on a mapping, a Talend job's calls become a PDI job, the   *)
(* outputs of both pipelines are compared, and review_pipeline judges the  *)
(* mapped pipeline with the comparison folded in.                          *)
(***************************************************************************)
EXTENDS Mapper, Orchestration, ParityDiff

VARIABLES
  findings,   (* of the review, each a severity and a code                 *)
  release     (* SHIP or REVIEW, "none" before                             *)

reviewVars == <<findings, release>>
vars == <<mapperVars, linkVars, diffVars, reviewVars>>

(* What one conversion is given.                                           *)
CONSTANT Sources

ASSUME SourcesAssumption ==
  Sources \subseteq [mapping : Mappings, caller : Callers, outputs : Outputs]

Init ==
  /\ \E s \in Sources : mapping = s.mapping /\ caller = s.caller /\ outputs = s.outputs
  /\ MapperInit
  /\ LinkInit
  /\ DiffInit
  /\ findings = {}
  /\ release = "none"

-----------------------------------------------------------------------------
(* The review's checks, over the pipeline as the mapper left it.           *)
AllSteps == Steps \cup Inserted
Ends == UNION {{hops[k].from, hops[k].to} : k \in DOMAIN hops}

Unmapped == {s \in Steps : mapping.type[s] = "Unmapped"}
(* Mutant of Dangling: only the far end of a hop is looked up.           *)
DanglingTo == {k \in DOMAIN hops : hops[k].to \notin AllSteps}

Dangling == {k \in DOMAIN hops : hops[k].from \notin AllSteps \/ hops[k].to \notin AllSteps}

Isolated == IF Cardinality(AllSteps) < 2 THEN {} ELSE AllSteps \ Ends

Hazards == {s \in Targets : Legs(s) = {} \/ \E n \in Feeders(s) : IsBare(n)}

Finding(severity, code, holds) ==
  IF holds THEN {[severity |-> severity, code |-> code]} ELSE {}

(* _fold_in_diff: the rounded parity and the row counts, not the harness's *)
(* own verdict.  Without a report nothing is folded in.                    *)
Parity ==
  IF ~Reported THEN {} ELSE
  LET matches == parity >= 9990 /\ Len(Expected) = Len(Actual)
  IN  Finding("info", "parity", matches)
      \cup Finding("warning", "parity", ~matches /\ parity >= 9500)
      \cup Finding("error", "parity", parity < 9500)

Found ==
  Finding("error", "unmapped-steps", Unmapped # {})
  \cup Finding("error", "hops", Dangling # {})
  \cup Finding("warning", "hops", Isolated # {})
  \cup Finding("error", "sorted-input", Hazards # {})
  \cup Parity

Review ==
  /\ Mapped /\ Linked /\ verdict # "none"
  /\ release = "none"
  /\ findings' = Found
  /\ release' = IF \E f \in Found : f.severity = "error" THEN "REVIEW" ELSE "SHIP"
  /\ UNCHANGED <<mapperVars, linkVars, diffVars>>

MapperRuns == MapperNext /\ UNCHANGED <<linkVars, diffVars, reviewVars>>
LinkRuns == Mapped /\ LinkNext /\ UNCHANGED <<mapperVars, diffVars, reviewVars>>
DiffRuns == Linked /\ DiffNext /\ UNCHANGED <<mapperVars, linkVars, reviewVars>>

Next == MapperRuns \/ LinkRuns \/ DiffRuns \/ Review

Spec == Init /\ [][Next]_vars

(* Each part is a call that runs until it returns, one after the other.    *)
FairSpec == Spec /\ WF_vars(Next)

-----------------------------------------------------------------------------
TypeOK ==
  /\ MapperTypeOK
  /\ LinkTypeOK
  /\ DiffTypeOK
  /\ findings \subseteq [severity : {"error", "warning", "info"},
                         code : {"unmapped-steps", "hops", "sorted-input", "parity"}]
  /\ release \in {"none", "SHIP", "REVIEW"}

(* The lint flags what the mapper could not mend and nothing else: a step  *)
(* that needs sorted input and gets none at all, or whose keys the export  *)
(* does not tell and one of whose legs - one is enough - is not sorted     *)
(* (_check_sorted_input: "EVERY incoming leg must be sorted").             *)
ReviewFlagsWhatIsLeft ==
  release # "none" =>
    ([severity |-> "error", code |-> "sorted-input"] \in findings
       <=> \E s \in Targets : \/ Legs(s) = {}
                              \/ s \notin mapping.keyed /\ \E n \in Feeders(s) : IsBare(n))

(* The verdict: nothing ships whose export had a hop to or from a step     *)
(* that does not exist, however the mapper moved its ends, a step without  *)
(* a PDI type, or an output reported to differ from the original's in more *)
(* than 5.005% of its rows - not 5%, where compare_csv says FAIL, for the  *)
(* review goes by the parity rounded to four digits.  What could not be    *)
(* compared ships unseen.                                                  *)
NothingBrokenShips ==
  release = "SHIP" =>
    /\ \A k \in DOMAIN mapping.hops : mapping.hops[k] \in Hop(Steps)
    /\ \A s \in Steps : mapping.type[s] # "Unmapped"
    /\ Reported => AtLeast(94995, 100000)

(* The review says what is left to do and ships nothing broken.            *)
ReviewIsRight == ReviewFlagsWhatIsLeft /\ NothingBrokenShips

(* Every conversion comes to a verdict, whatever cycles the source has.    *)
ConversionEnds == <>(release # "none")

=============================================================================
