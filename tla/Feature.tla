------------------------------ MODULE Feature ------------------------------
(***************************************************************************)
(* A feature: a brief and the three pages pinned under it, an implementation   *)
(* plan, a testing plan and a spec (wiki-models/src/feature).  The gates of    *)
(* one page read another: building and shipping the brief ask for the content  *)
(* of the plans, sealing the spec asks that it cites the brief's answered       *)
(* questions, and shipping finalizes the pinned pages in the same commit        *)
(* (decidePageCascading).  A command is one step: it is decided whole against   *)
(* the head of the log (CommandBus).                                         *)
(*                                                                          *)
(* The gates find a plan by its type: the first child of that type counts,     *)
(* whichever it is.  A second plan cannot be created under a brief, but one     *)
(* that stands elsewhere can be moved there, and in front.  `Plans` holds the   *)
(* pinned plan and such strays; the same could be done to the testing plan,    *)
(* and is left out.  Lists are sets of elements here: no gate reads an order.   *)
(***************************************************************************)
CONSTANTS
  Plans, Own,     \* the implementation plans, and the pinned one
  Questions, Steps, Cases, Models    \* ids of elements and of code blocks

ASSUME FeatureConstants == Own \in Plans

VARIABLES
  brief,       \* the brief's status
  question,    \* its questions
  siblings,    \* the plans among the brief's children
  front,       \* the first of them
  planStatus, step, models,    \* of each plan
  testStatus, case,            \* of the testing plan
  spec,        \* the spec's status
  cites,       \* the questions its decisions refer to
  late         \* the questions answered since the spec was sealed

plans == <<siblings, front, planStatus, step, models>>
tests == <<testStatus, case>>
specPage == <<spec, cites, late>>
featureVars == <<brief, question, plans, tests, specPage>>

Absent == "absent"

BriefStatuses == {"draft", "planning", "building", "review", "shipped", "abandoned"}

FeatureTypeOK ==
  /\ brief \in BriefStatuses
  /\ question \in [Questions -> {Absent, "open", "resolved"}]
  /\ siblings \subseteq Plans /\ Own \in siblings /\ front \in siblings
  /\ planStatus \in [Plans -> {"draft", "ready"}]
  /\ step \in [Plans -> [Steps -> {Absent, "todo", "done"}]]
  /\ models \in [Plans -> SUBSET Models]
  /\ testStatus \in {"draft", "ready"}
  /\ case \in [Cases -> {Absent, "planned", "passed", "failed"}]
  /\ spec \in {"drafting", "sealed"}
  /\ cites \subseteq Questions /\ late \subseteq Questions

\* A brief is created with its pinned children, all of them empty.
FeatureInit ==
  /\ brief = "draft" /\ question = [q \in Questions |-> Absent]
  /\ siblings = {Own} /\ front = Own
  /\ planStatus = [p \in Plans |-> "draft"]
  /\ step = [p \in Plans |-> [s \in Steps |-> Absent]]
  /\ models = [p \in Plans |-> {}]
  /\ testStatus = "draft" /\ case = [c \in Cases |-> Absent]
  /\ spec = "drafting" /\ cites = {} /\ late = {}

-----------------------------------------------------------------------------
(* The gates.                                                               *)

Listed(list) == {x \in DOMAIN list : list[x] # Absent}

planHasStep == Listed(step[front]) # {}
planHasDataModel(p) == models[p] # {}
testPlanHasCase == Listed(case) # {}
allStepsDone == planHasStep /\ \A s \in Listed(step[front]) : step[front][s] = "done"
allCasesPassed == testPlanHasCase /\ \A c \in Listed(case) : case[c] = "passed"
noOpenQuestions == \A q \in Questions : question[q] # "open"

resolvedQuestions == {q \in Questions : question[q] = "resolved"}
everyDecisionReferenced == resolvedQuestions \subseteq cites

\* Every command on a page checks all its references again.
RefsResolve(cited) == \A q \in cited : question[q] # Absent

-----------------------------------------------------------------------------
(* The brief.                                                               *)

briefTransitions == {
  <<"draft", "beginPlanning", "planning">>,
  <<"planning", "beginImplementation", "building">>,
  <<"building", "reopenPlanning", "planning">>,
  <<"building", "submitForReview", "review">>,
  <<"review", "requestChanges", "building">>,
  <<"review", "ship", "shipped">>,
  <<"draft", "abandon", "abandoned">>,
  <<"planning", "abandon", "abandoned">>,
  <<"building", "abandon", "abandoned">>,
  <<"review", "abandon", "abandoned">> }

BriefStep(event) == \E t \in briefTransitions : t[1] = brief /\ t[2] = event /\ brief' = t[3]

\* beginPlanning, reopenPlanning, submitForReview, requestChanges, abandon.
MoveBrief ==
  /\ \E event \in {"beginPlanning", "reopenPlanning", "submitForReview", "requestChanges",
                   "abandon"} : BriefStep(event)
  /\ UNCHANGED <<question, plans, tests, specPage>>

beginImplementation ==
  /\ BriefStep("beginImplementation")
  /\ planHasStep /\ planHasDataModel(front) /\ testPlanHasCase
  /\ UNCHANGED <<question, plans, tests, specPage>>

QuestionsWritable == brief \in {"draft", "planning", "building", "review"}

askQuestion(q) ==
  /\ QuestionsWritable /\ question[q] = Absent
  /\ question' = [question EXCEPT ![q] = "open"]
  /\ UNCHANGED <<brief, plans, tests, specPage>>

\* A question that is resolved from now on, and was not when the spec was sealed.
Late(qs) == late' = IF spec = "sealed" THEN late \cup qs ELSE late

answerQuestion(q) ==
  /\ QuestionsWritable /\ question[q] = "open"
  /\ question' = [question EXCEPT ![q] = "resolved"]
  /\ Late({q})
  /\ UNCHANGED <<brief, plans, tests, spec, cites>>

\* The generated command; the spec's references to the question are not looked at.
removeQuestion(q) ==
  /\ QuestionsWritable /\ question[q] # Absent
  /\ question' = [question EXCEPT ![q] = Absent]
  /\ UNCHANGED <<brief, plans, tests, specPage>>

\* What the commit of a sign-off drives to its end.
pinnedChildren == {"implementation-plan", "testing-plan", "feature-spec"}

\* mutant: the spec is not among the pages that ship with the brief.
plansOnly == {"implementation-plan", "testing-plan"}

requiredChildren == pinnedChildren

\* mutant: a child is driven to its end whatever its own gate says.
FinalizableAlways == TRUE

\* A child that is not at its end yet must be able to get there by its own command.
Finalizable ==
  /\ planStatus[Own] = "draft" => planHasDataModel(Own)
  /\ spec = "drafting" => everyDecisionReferenced /\ RefsResolve(cites)

Final(type, status, end) == IF type \in requiredChildren THEN end ELSE status

ship ==
  /\ BriefStep("ship")
  /\ allStepsDone /\ allCasesPassed /\ noOpenQuestions
  /\ Finalizable
  /\ planStatus' = [planStatus EXCEPT ![Own] = Final("implementation-plan", @, "ready")]
  /\ testStatus' = Final("testing-plan", testStatus, "ready")
  /\ spec' = Final("feature-spec", spec, "sealed")
  /\ UNCHANGED <<question, siblings, front, step, models, case, cites, late>>

-----------------------------------------------------------------------------
(* The plans.                                                               *)

SetStep(p, s, status) == step' = [step EXCEPT ![p][s] = status]

addStep(p, s) == planStatus[p] = "draft" /\ step[p][s] = Absent /\ SetStep(p, s, "todo")
removeStep(p, s) == planStatus[p] = "draft" /\ step[p][s] # Absent /\ SetStep(p, s, Absent)

\* Transitions of an element: no status of the plan stops them.
markStepDone(p, s) == step[p][s] = "todo" /\ SetStep(p, s, "done")
markStepTodo(p, s) == step[p][s] = "done" /\ SetStep(p, s, "todo")

StepCommands ==
  /\ \E p \in Plans, s \in Steps :
       addStep(p, s) \/ removeStep(p, s) \/ markStepDone(p, s) \/ markStepTodo(p, s)
  /\ UNCHANGED <<brief, question, siblings, front, planStatus, models, tests, specPage>>

\* addDataModel, removeDataModel, and the generated setter of the whole field.
setDataModels(p, blocks) ==
  /\ planStatus[p] = "draft" /\ blocks # models[p]
  /\ models' = [models EXCEPT ![p] = blocks]
  /\ UNCHANGED <<brief, question, siblings, front, planStatus, step, tests, specPage>>

SetPlanStatus(p, status) ==
  /\ planStatus' = [planStatus EXCEPT ![p] = status]
  /\ UNCHANGED <<brief, question, siblings, front, step, models, tests, specPage>>

markPlanReady(p) == planStatus[p] = "draft" /\ planHasDataModel(p) /\ SetPlanStatus(p, "ready")
reopenPlan(p) == planStatus[p] = "ready" /\ SetPlanStatus(p, "draft")

\* A stray joins the brief's children at a position, or leaves them; children are
\* reordered.  Of the order only the first plan matters.
reparent(p) ==
  /\ p # Own
  /\ \/ /\ p \notin siblings /\ siblings' = siblings \cup {p} /\ front' \in {front, p}
     \/ /\ p \in siblings /\ siblings' = siblings \ {p}
        /\ IF front = p THEN front' \in siblings' ELSE front' = front
  /\ UNCHANGED <<brief, question, planStatus, step, models, tests, specPage>>

reorder(p) ==
  /\ p \in siblings /\ front' = p
  /\ UNCHANGED <<brief, question, siblings, planStatus, step, models, tests, specPage>>

-----------------------------------------------------------------------------
(* The testing plan.                                                        *)

SetCase(c, status) == case' = [case EXCEPT ![c] = status]

addCase(c) == testStatus = "draft" /\ case[c] = Absent /\ SetCase(c, "planned")
removeCase(c) == testStatus = "draft" /\ case[c] # Absent /\ SetCase(c, Absent)
markCasePassed(c) == case[c] \in {"planned", "failed"} /\ SetCase(c, "passed")
markCaseFailed(c) == case[c] = "planned" /\ SetCase(c, "failed")

CaseCommands ==
  /\ \E c \in Cases : addCase(c) \/ removeCase(c) \/ markCasePassed(c) \/ markCaseFailed(c)
  /\ UNCHANGED <<brief, question, plans, testStatus, specPage>>

TestPlanStatus ==
  /\ testStatus' = IF testStatus = "draft" THEN "ready" ELSE "draft"   \* markReady, reopen
  /\ UNCHANGED <<brief, question, plans, case, specPage>>

-----------------------------------------------------------------------------
(* The spec.                                                                *)

\* mutant: the decisions of a sealed spec may still be edited.
WritableAlways == TRUE

SpecWritable == spec = "drafting"

\* addDecision, removeDecision, and the generated setter of the whole field.  The
\* page may be left with any references that resolve, and with no other.
setDecisions(cited) ==
  /\ SpecWritable /\ RefsResolve(cited)
  /\ cited # cites /\ cites' = cited
  /\ UNCHANGED <<brief, question, plans, tests, spec, late>>

seal ==
  /\ spec = "drafting" /\ everyDecisionReferenced /\ RefsResolve(cites)
  /\ spec' = "sealed"
  /\ UNCHANGED <<brief, question, plans, tests, cites, late>>

reopenSpec ==
  /\ spec = "sealed" /\ RefsResolve(cites)
  /\ spec' = "drafting" /\ late' = {}
  /\ UNCHANGED <<brief, question, plans, tests, cites>>

-----------------------------------------------------------------------------
(* moveItem takes an element from a list of one page to the same list of       *)
(* another, with its status, and asks for no status of either page.  The other  *)
(* page is any page of the workspace that has such a list.                    *)

MoveQuestion(q) ==
  /\ IF question[q] = Absent
     THEN \E status \in {"open", "resolved"} :
            /\ question' = [question EXCEPT ![q] = status]
            /\ Late(IF status = "resolved" THEN {q} ELSE {})
     ELSE question' = [question EXCEPT ![q] = Absent] /\ late' = late
  /\ UNCHANGED <<brief, plans, tests, spec, cites>>

MoveStep(p, s) ==
  /\ IF step[p][s] = Absent
     THEN \E status \in {"todo", "done"} : SetStep(p, s, status)
     ELSE SetStep(p, s, Absent)
  /\ UNCHANGED <<brief, question, siblings, front, planStatus, models, tests, specPage>>

MoveCase(c) ==
  /\ IF case[c] = Absent
     THEN \E status \in {"planned", "passed", "failed"} : SetCase(c, status)
     ELSE SetCase(c, Absent)
  /\ UNCHANGED <<brief, question, plans, testStatus, specPage>>

FeatureNext ==
  \/ MoveBrief \/ beginImplementation \/ ship
  \/ \E q \in Questions : askQuestion(q) \/ answerQuestion(q) \/ removeQuestion(q) \/ MoveQuestion(q)
  \/ StepCommands \/ CaseCommands \/ TestPlanStatus
  \/ \E p \in Plans :
       \/ \E blocks \in SUBSET Models : setDataModels(p, blocks)
       \/ markPlanReady(p) \/ reopenPlan(p) \/ reparent(p) \/ reorder(p)
       \/ \E s \in Steps : MoveStep(p, s)
  \/ \E c \in Cases : MoveCase(c)
  \/ \E cited \in SUBSET Questions : setDecisions(cited)
  \/ seal \/ reopenSpec

FeatureSpec == FeatureInit /\ [][FeatureNext]_featureVars

-----------------------------------------------------------------------------
(* Properties.                                                              *)

(* No decision is dropped: a sealed spec cites every question the brief has     *)
(* answered, but for those answered since it was sealed, though questions come,  *)
(* go and come back and the cited ones may be removed (everyDecisionReferenced   *)
(* 77-88, cascadeFinalize).                                                  *)
DecisionsThreaded == spec = "sealed" => resolvedQuestions \subseteq cites \cup late

(* A plan that is ready has a data model: its models cannot be edited until it   *)
(* is reopened, and no way to `ready`, its own command or a sign-off, goes past   *)
(* the gate (planHasDataModel).                                              *)
ReadyHasModel == \A p \in Plans : planStatus[p] = "ready" => planHasDataModel(p)

Aligned ==
  /\ planStatus[Own] = "ready" /\ planHasDataModel(Own)
  /\ testStatus = "ready" /\ spec = "sealed"
  /\ resolvedQuestions \subseteq cites \cup late

(* The commit that ships a brief leaves its pinned pages at their end, each past  *)
(* its own gate, whether it got there now or before, whatever plan the gates of   *)
(* the brief looked at (cascadeFinalize: feature-brief.ts 241-244).            *)
ShipsAligned == [][brief' = "shipped" /\ brief # "shipped" => Aligned']_featureVars

=============================================================================
