--------------------------- MODULE EvidenceRepair ---------------------------
(***************************************************************************)
(* repair_knowledge_evidence: the evidence of a question is reviewed duty  *)
(* by duty, searched for what is missing, and reviewed again.  Proof that  *)
(* was found is kept between rounds in a map of the turn (_TurnProofMap),  *)
(* a validated part of the answer in a checkpoint, and every await may be  *)
(* cut by the deadline or a provider.                                      *)
(*                                                                         *)
(* A passage may be found in several readings (a redacted or another span) *)
(* and an amendment is an authority record about a passage, which it       *)
(* leaves usable only beside the modifying passage.  One passage proves a  *)
(* duty, beside those of the duties it rests on.  Left out: turns without  *)
(* requirements, tables and headings that exceed their budget, wording.    *)
(***************************************************************************)
EXTENDS Naturals, FiniteSets

CONSTANTS
    Duties,        \* requirements of the question
    DependsOn,     \* duties that a duty rests on
    Passages,
    Spans,         \* readings in which passages may be found
    PassageOf,
    Amendments,    \* authority records
    Base,          \* the passage an amendment is about
    Modifier,      \* the passage it comes from
    Rounds,        \* action limits of RecoverySchedule: retrievals
    Reviews        \* and reviews of changed proof

ASSUME RepairAssumption ==
    /\ DependsOn \in [Duties -> SUBSET Duties]
    /\ PassageOf \in [Spans -> Passages]
    /\ Base \in [Amendments -> Passages] /\ Modifier \in [Amendments -> Passages]
    /\ Rounds \in Nat /\ Reviews \in Nat

VARIABLES
    step,        \* what the repair is doing
    facet,       \* proof map: the check kept for each duty
    known,       \* proof map: authority that was taken into account
    records,     \* authority that was discovered
    context,     \* selected or budgeted passages
    found,       \* passages admitted in this round
    reviewing,   \* duties whose proof has to be reviewed
    verdict,     \* last_verdict
    stored,      \* diagnostics["partial_answer"]: its duties
    checkpoint,  \* partial_checkpoint
    rounds,      \* retrievals so far
    reviews,     \* reviews of changed proof so far
    outcome,     \* what is handed to the turn
    unreviewed   \* history: stopped before a review of what had changed

mapVars == <<facet, known, reviewing>>
findVars == <<records, context, found, rounds>>
handVars == <<verdict, stored, checkpoint>>
repairVars == <<step, mapVars, findVars, handVars, reviews, outcome, unreviewed>>

-----------------------------------------------------------------------------
Same(s, t) == PassageOf[s] = PassageOf[t]
OneReading(spans) == \A s, t \in spans : Same(s, t) => s = t
Contexts == {spans \in SUBSET Spans : OneReading(spans)}

\* seen (history): the authority that the review of this proof could see.
Checks == [grade : {"none", "partial", "full"}, proof : SUBSET Spans,
           seen : SUBSET Amendments]
NoCheck == [grade |-> "none", proof |-> {}, seen |-> {}]
NoChecks == [d \in Duties |-> NoCheck]
Facets == [check : Checks, valid : BOOLEAN]

\* kind "none": no reviewed proof; the turn may fail, or be left with the passages of
\* its first retrieval.
Outcomes == [kind : {"none", "recovered", "partial"},
             scope : SUBSET Duties, check : [Duties -> Checks]]
Nothing == [kind |-> "none", scope |-> {}, check |-> NoChecks]

\* gap: something is missing although every duty is met; sound: the source ranges
\* resolved and the partial answer was validated when the verdict was reached.
ReviewVerdicts == [reached : BOOLEAN, gap : BOOLEAN, sound : BOOLEAN,
             check : [Duties -> Checks], partial : SUBSET Duties]
NoVerdict == [reached |-> FALSE, gap |-> FALSE, sound |-> FALSE,
              check |-> NoChecks, partial |-> {}]

\* A duty and everything it rests on; and all that rests on some duties.
RestsOn ==
    [d \in Duties |-> {e \in Duties : \A s \in SUBSET Duties :
                         (d \in s /\ \A x \in s : DependsOn[x] \subseteq s) => e \in s}]
Dependents(set) == {d \in Duties : RestsOn[d] \cap set # {}}

\* authority_record_affects_chunk: the base passage and the modifier's own.
Affects(a, spans) == \E s \in spans : PassageOf[s] \in {Base[a], Modifier[a]}

\* annotate_authority_limitations: a base without its modifier is unresolved.
Unresolved(spans, authority) ==
    {s \in spans : \E a \in authority :
        PassageOf[s] = Base[a] /\ ~ \E t \in spans : PassageOf[t] = Modifier[a]}

Fulfilled(d) == facet[d].valid /\ facet[d].check.grade = "full"
Proven == {d \in Duties : Fulfilled(d)}

RepairInit ==
    /\ step = "plan"
    /\ facet = [d \in Duties |-> [check |-> NoCheck, valid |-> FALSE]]
    /\ records \in SUBSET Amendments
    /\ known = records
    /\ context \in Contexts /\ Unresolved(context, records) = {}
    /\ found = {} /\ reviewing = {}
    /\ verdict = NoVerdict /\ stored = {} /\ checkpoint = Nothing
    /\ rounds = 0 /\ reviews = 0
    /\ outcome = Nothing
    /\ unreviewed = FALSE

Goes(s) == step' = s /\ UNCHANGED outcome
Returns(o) == step' = "done" /\ outcome' = o

-----------------------------------------------------------------------------
(* Reviews and what may be published of them.                               *)

\* What a reviewer may say of some duties, given the passages it is shown.
Opinions(duties) ==
    [duties -> {NoCheck} \cup [grade : {"partial", "full"}, proof : {{s} : s \in context},
                               seen : {records}]]

\* _guard_review_fulfillment: a duty is met in full only with all it rests on,
\* whose proof becomes part of its own.
Guarded(checks) ==
    LET whole == {d \in Duties : \A e \in RestsOn[d] : checks[e].grade = "full"}
        rests(d) == UNION {checks[e].proof :
                              e \in UNION {RestsOn[x] : x \in DependsOn[d] \cap whole}}
    IN [d \in Duties |->
          IF checks[d].grade = "none" THEN NoCheck
          ELSE [checks[d] EXCEPT !.grade = IF d \in whole THEN @ ELSE "partial",
                                 !.proof = @ \cup rests(d)]]

Confirmed(check) == check.grade # "none"

\* CoverageVerdict.validates and partial_validates over the passages handed over.
Shown(check, spans) == Confirmed(check) /\ check.proof \subseteq spans
Met(checks) == \A d \in Duties : checks[d].grade = "full"
NothingMissing(v) == ~v.gap /\ Met(v.check)
Validates(v, spans) == NothingMissing(v) /\ \A d \in Duties : Shown(v.check[d], spans)
PartialValidates(v, spans) ==
    /\ ~NothingMissing(v) /\ v.partial # {}
    /\ \A d \in v.partial :
         /\ Shown(v.check[d], spans)
         /\ (\E e \in Duties : DependsOn[e] # {})
              => v.check[d].grade = "full" /\ RestsOn[d] \subseteq v.partial

\* retain_answerable_scopes: the partial answer is of duties that the reviewer calls
\* separable.
Concluded(checks, ranges, spans) ==
    {[v EXCEPT !.sound = ranges /\ PartialValidates(v, spans)] :
       v \in [reached : {TRUE}, gap : IF Met(checks) THEN BOOLEAN ELSE {FALSE},
              sound : {FALSE}, check : {checks},
              partial : SUBSET {d \in Duties : Confirmed(checks[d])}]}

\* _handoff_reviewed_proof: the verdict is validated, as partial when a partial
\* answer is stored, over the passages that prove it.
Handed(v, part, spans) ==
    LET cited == UNION {v.check[d].proof : d \in IF part # {} THEN part ELSE Duties}
        proof == {s \in spans : \E t \in cited : Same(s, t)}
    IN CASE part # {} /\ PartialValidates(v, proof) ->
              [kind |-> "partial", scope |-> part, check |-> v.check]
         [] part = {} /\ Validates(v, proof) ->
              [kind |-> "recovered", scope |-> Duties, check |-> v.check]
         [] OTHER -> Nothing

\* A partial answer that validates becomes the checkpoint.
Checkpointed(v, spans) ==
    IF v.sound /\ Handed(v, v.partial, spans) # Nothing
      THEN Handed(v, v.partial, spans) ELSE checkpoint

-----------------------------------------------------------------------------
(* The plan, which may review the passages of the first retrieval.          *)

Initial(checks, spans) ==
    [d \in Duties |-> IF Shown(checks[d], spans)
                        THEN [check |-> checks[d], valid |-> TRUE] ELSE facet[d]]
Cited(checks, spans) ==
    {s \in spans : \E d \in Duties : \E t \in checks[d].proof : Same(s, t)}

PlanUnreviewed ==
    /\ step = "plan"
    /\ Goes("search") \/ Returns(Nothing)
    /\ UNCHANGED <<mapVars, findVars, handVars, reviews, unreviewed>>

\* Everything is proved already, unless the proof alone leaves authority unresolved.
PlanComplete ==
    /\ step = "plan"
    /\ \E raw \in Opinions(Duties) :
         LET v == [NoVerdict EXCEPT !.check = Guarded(raw)] IN
         /\ Validates(v, context)
         /\ Returns(IF Unresolved(Cited(v.check, context), records) # {} THEN Nothing
                 ELSE [kind |-> "recovered", scope |-> Duties, check |-> v.check])
    /\ UNCHANGED <<mapVars, findVars, handVars, reviews, unreviewed>>

\* Otherwise what is confirmed is kept, and a partial answer that validates is
\* stored and becomes the checkpoint.  Without a search to make, the checkpoint or
\* the proof that is kept is handed over; an invalid plan ends with nothing.
PlanPartial ==
    /\ step = "plan"
    /\ \E raw \in Opinions(Duties) :
         LET checks == Guarded(raw)
             spans == Cited(checks, context)
         IN \E v \in Concluded(checks, TRUE, spans) :
               /\ ~Validates(v, context)
               /\ facet' = Initial(checks, context)
               /\ context' = spans
               /\ stored' = IF v.sound THEN v.partial ELSE {}
               /\ checkpoint' = Checkpointed(v, spans)
               /\ \/ Goes("search")
                  \/ Returns(Nothing)
                  \/ Returns(checkpoint')
                  \/ Returns(Handed(v, stored', spans))
    /\ UNCHANGED <<known, reviewing, records, found, rounds, verdict, reviews, unreviewed>>

-----------------------------------------------------------------------------
(* Search and admission.                                                    *)

\* RecoverySchedule.admit refuses for want of time, or at its limit.
RefuseSearch ==
    /\ step = "search"
    /\ Goes("finish")
    /\ unreviewed' = (records # known)
    /\ UNCHANGED <<mapVars, findVars, handVars, reviews>>

\* _checkpoint_matches_branch: the text of its proof is unchanged, and no authority
\* about it is new.
Matches(branch, authority) ==
    LET proof == UNION {checkpoint.check[d].proof : d \in checkpoint.scope}
        keys == UNION {{a \in checkpoint.check[d].seen : Affects(a, checkpoint.check[d].proof)} :
                         d \in checkpoint.scope}
    IN /\ \A s \in branch, t \in proof : Same(s, t) => s = t
       /\ \A a \in authority \ keys : ~Affects(a, proof)

\* Every branch of the retrieval is inspected before any of it is admitted; another
\* snapshot ends the repair.
Retrieve ==
    /\ step = "search" /\ rounds < Rounds
    /\ rounds' = rounds + 1
    /\ \/ /\ Returns(Nothing)
          /\ UNCHANGED <<records, found, checkpoint>>
       \/ \E branch \in Contexts, authority \in SUBSET Amendments :
            /\ records' = records \cup authority
            /\ found' \in SUBSET branch
            /\ checkpoint' = IF Matches(branch, authority) THEN checkpoint ELSE Nothing
            /\ Goes("admit")
    /\ UNCHANGED <<mapVars, context, verdict, stored, reviews, unreviewed>>

\* The proof map invalidates a duty whose proof is gone, changed or newly amended,
\* duties that share its evidence or authority, and all that rests on them.
\* MUTANT: authority that is new leaves proof as it is.
TouchedByText(spans, fresh) ==
    {d \in Duties : ~facet[d].valid \/ ~(facet[d].check.proof \subseteq spans)}
Touched(spans, fresh) ==
    {d \in Duties : \/ ~facet[d].valid
                    \/ ~(facet[d].check.proof \subseteq spans)
                    \/ \E a \in fresh : Affects(a, facet[d].check.proof)}
Sharing(touched) ==
    LET passages == UNION {{PassageOf[s] : s \in facet[d].check.proof} : d \in touched}
        keys(d) == {a \in facet[d].check.seen : Affects(a, facet[d].check.proof)}
    IN {d \in Duties : \/ \E s \in facet[d].check.proof : PassageOf[s] \in passages
                       \/ \E e \in touched : keys(d) \cap keys(e) # {}}
Invalidated(spans, fresh) ==
    LET touched == Touched(spans, fresh) IN Dependents(touched \cup Sharing(touched))

\* Passages that were selected go first and keep their reading.
\* MUTANT: the readings of one passage count as several passages.
BudgetsOfReadings == SUBSET (context \cup found)
Budgets ==
    {spans \in Contexts :
        /\ spans \subseteq context \cup found
        /\ \A s \in spans, t \in context : Same(s, t) => s = t}

\* A passage that was found again is compared in the reading found now.
Compared(spans) == {s \in spans : ~ \E t \in found : Same(s, t)} \cup found

\* Admission: proof whose authority is unresolved ends the repair; what was reviewed
\* before is not reviewed again; a passage that breaks off is completed first.
Admit ==
    /\ step = "admit"
    /\ \E spans \in Budgets :
         LET fresh == {a \in records \ known : Affects(a, Compared(spans))}
             invalid == Invalidated(Compared(spans), fresh)
         IN
         \/ /\ Unresolved(spans, records) # {}
            /\ Returns(Nothing)
            /\ UNCHANGED <<mapVars, context, stored>>
         \/ /\ context' = spans \ Unresolved(spans, records)
            /\ Goes("search")
            /\ UNCHANGED <<mapVars, stored>>
         \/ /\ Unresolved(spans, records) = {}
            /\ context' = spans
            /\ facet' = [d \in Duties |-> [facet[d] EXCEPT !.valid = @ /\ d \notin invalid]]
            /\ known' = known \cup records
            /\ reviewing' = invalid \cup (Duties \ Proven)
            /\ \/ Goes("review") /\ UNCHANGED stored
               \/ /\ verdict.reached /\ fresh = {} /\ Proven \cap invalid = {}
                  /\ \/ ~verdict.sound /\ Returns(Nothing) /\ UNCHANGED stored
                     \/ verdict.sound /\ Goes("finish") /\ stored' = verdict.partial
    /\ found' = {}
    /\ UNCHANGED <<records, rounds, verdict, checkpoint, reviews, unreviewed>>

-----------------------------------------------------------------------------
(* The review.                                                              *)

\* The first review of the first round covers every duty, unless a checkpoint
\* lets it keep what is proved.
Subset(subject) ==
    \/ rounds > 1 /\ subject = reviewing
    \/ rounds = 1 /\ subject = Duties
    \/ /\ rounds = 1 /\ subject = reviewing
       /\ checkpoint # Nothing /\ Proven # {}
       /\ \A d \in reviewing : DependsOn[d] \subseteq reviewing

RefuseReview ==
    /\ step = "review" /\ rounds > 1
    /\ Goes("finish")
    /\ unreviewed' = TRUE
    /\ UNCHANGED <<mapVars, findVars, handVars, reviews>>

\* A validated answer is handed over.  A partial one is kept and handed over when
\* no time or search is left; otherwise the gaps are searched for.
Concludes(v) ==
    /\ verdict' = v
    /\ IF Validates(v, context)
         THEN Goes("finish") /\ UNCHANGED <<stored, checkpoint>>
         ELSE /\ checkpoint' = Checkpointed(v, context)
              /\ \/ v.sound /\ Goes("finish") /\ stored' = v.partial
                 \/ Goes("gaps") /\ UNCHANGED stored
                 \/ Returns(Nothing) /\ UNCHANGED stored     \* an identity was not reviewed
                 \/ Returns(checkpoint') /\ UNCHANGED stored

\* The checks of a review enter the map, and the verdict is that of the map: what
\* was reviewed and not confirmed is invalid, the rest is retained.
Review ==
    /\ step = "review"
    /\ rounds > 1 => reviews < Reviews
    /\ reviews' = IF rounds > 1 THEN reviews + 1 ELSE reviews
    /\ \/ Returns(checkpoint) /\ UNCHANGED <<facet, verdict, stored, checkpoint>>
       \/ \E subject \in SUBSET Duties, ranges \in BOOLEAN :
            /\ Subset(subject)
            /\ \E raw \in Opinions(subject), withdrawn \in SUBSET (Proven \ subject) :
               LET told == [d \in Duties |-> IF d \in subject THEN raw[d]
                              ELSE IF Fulfilled(d) THEN facet[d].check ELSE NoCheck]
                   checks == IF ranges THEN Guarded(told) ELSE told
                   keep(d) == IF d \in subject /\ Shown(checks[d], context)
                                THEN [check |-> checks[d], valid |-> TRUE]
                              ELSE IF d \in subject \cup withdrawn
                                THEN [facet[d] EXCEPT !.valid = FALSE]
                              ELSE facet[d]
                   merged == [d \in Duties |-> IF keep(d).valid THEN keep(d).check ELSE NoCheck]
               IN /\ ranges \/ \E d \in subject : raw[d] = NoCheck
                  /\ facet' = [d \in Duties |-> keep(d)]
                  /\ \E v \in Concluded(merged, ranges, context) :
                       IF v.gap
                         THEN /\ verdict' = v /\ checkpoint' = Checkpointed(v, context)
                              /\ Goes("inputs") /\ UNCHANGED stored
                         ELSE Concludes(v)
    /\ reviewing' = {}
    /\ UNCHANGED <<known, findVars, unreviewed>>

\* When only gaps beside proved duties remain, they may turn out to be questions to
\* the user.
ReviewInputs ==
    /\ step = "inputs"
    /\ \/ Returns(checkpoint) /\ UNCHANGED handVars
       \/ Concludes(verdict)
       \/ Concludes([verdict EXCEPT !.gap = FALSE])
    /\ UNCHANGED <<mapVars, findVars, reviews, unreviewed>>

\* Neighbouring passages or a focused plan lead to another round, from the proof
\* that was confirmed; without one the partial answer is handed over.
Pursue ==
    /\ step = "gaps"
    /\ \/ /\ \E more \in SUBSET (context \ Cited(verdict.check, context)) :
               context' = Cited(verdict.check, context) \cup more
          /\ Goes("search")
          /\ UNCHANGED stored
       \/ /\ Goes("finish")
          /\ stored' \in {stored} \cup (IF verdict.sound THEN {verdict.partial} ELSE {})
          /\ UNCHANGED context
       \/ Returns(checkpoint) /\ UNCHANGED <<context, stored>>
    /\ UNCHANGED <<mapVars, records, found, rounds, verdict, checkpoint, reviews, unreviewed>>

-----------------------------------------------------------------------------
(* The end.                                                                 *)

\* The last verdict is handed over, or else the checkpoint.
HandOver ==
    /\ step = "finish"
    /\ LET last == IF verdict.reached THEN Handed(verdict, stored, context) ELSE Nothing
       IN Returns(IF last # Nothing THEN last ELSE checkpoint)
    /\ UNCHANGED <<mapVars, findVars, handVars, reviews, unreviewed>>

\* The deadline or a provider cuts an await.
Cut ==
    /\ step \in {"plan", "search", "admit", "review", "inputs", "gaps"}
    /\ Returns(checkpoint)
    /\ UNCHANGED <<mapVars, findVars, handVars, reviews, unreviewed>>

RepairNext ==
    \/ PlanUnreviewed \/ PlanComplete \/ PlanPartial
    \/ RefuseSearch \/ Retrieve \/ Admit
    \/ RefuseReview \/ Review \/ ReviewInputs \/ Pursue
    \/ HandOver \/ Cut

RepairSpec == RepairInit /\ [][RepairNext]_repairVars

-----------------------------------------------------------------------------
(* Properties.                                                              *)

\* Types.
RepairTypeOK ==
    /\ step \in {"plan", "search", "admit", "review", "inputs", "gaps", "finish", "done"}
    /\ facet \in [Duties -> Facets]
    /\ known \subseteq Amendments /\ records \subseteq Amendments
    /\ context \in Contexts /\ found \in Contexts
    /\ reviewing \subseteq Duties
    /\ verdict \in ReviewVerdicts /\ stored \subseteq Duties
    /\ checkpoint \in Outcomes /\ outcome \in Outcomes
    /\ rounds \in 0 .. Rounds /\ reviews \in 0 .. Reviews
    /\ unreviewed \in BOOLEAN

HandedOver == outcome # Nothing

\* Proof that reaches the answer was reviewed in the light of all the authority about
\* it that the turn had found, whichever round, checkpoint or deadline it comes by,
\* unless the schedule refused the search or the review that would have followed.
AuthorityReviewed ==
    HandedOver /\ ~unreviewed =>
        \A d \in outcome.scope, a \in records :
            Affects(a, outcome.check[d].proof) => a \in outcome.check[d].seen

\* docs/features/conversation_module.md:314-316: the handoff "requires exact source proof
\* for every selected ID" of a partial answer.
PartialScopeProved ==
    outcome.kind = "partial" => \A d \in outcome.scope : Confirmed(outcome.check[d])
=============================================================================
