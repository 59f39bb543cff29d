---------------------------- MODULE ReportReview ----------------------------
(***************************************************************************)
(* The deterministic review of a report against the evidence of its run,   *)
(* and the loop that plans a revision, applies it and reviews the result   *)
(* (runtime/review/reviewer.py, runtime/artifacts/pipeline.py).            *)
(* A report is a sequence of lines.  A line is a heading or a sequence of  *)
(* words, a word being a sentence or the id of an evidence item.           *)
(***************************************************************************)
EXTENDS Naturals, Sequences, FiniteSets, SequencesExt

CONSTANTS
    Words,        \* sentences, titles and evidence ids
    Reports,      \* the reports that may be reviewed
    Evidences,    \* the evidence lists: sequences of known ids
    Ids,          \* words that are evidence ids
    Short,        \* sentences of fewer than 20 characters
    Lacks,        \* what a skill's report may lack
    MaxRevisions  \* values of revise_attempts

Kinds == {"heading", "bullet", "text"}
Line(kind, words) == [kind |-> kind, words |-> words]
Lines == [kind : Kinds, words : Seq(Words)]

(* Spellings of a heading: "## Result", one the case-insensitive search of *)
(* _has_heading takes as well, its Chinese name, and one that only begins  *)
(* like it ("## Results").  None has 20 characters.                        *)
Spellings == [Result   |-> [exact |-> "Result", loose |-> "RESULT",
                            zh |-> "zhResult", longer |-> "Results"],
              Evidence |-> [exact |-> "Evidence", loose |-> "EVIDENCE",
                            zh |-> "zhEvidence", longer |-> "Evidences"]]
Titles == UNION {{s.exact, s.loose, s.zh, s.longer} :
                    s \in {Spellings.Result, Spellings.Evidence}}

\* What the reviser writes of its own.
Stock == {"preview", "No evidence items available.", "Task completed.",
          "See evidence references below."}

ASSUME ReportReviewAssumption ==
    /\ Reports \subseteq Seq(Lines) /\ Evidences \subseteq Seq(Ids)
    /\ Ids \cup Short \cup Stock \subseteq Words
    /\ Ids \cap (Short \cup Stock) = {} /\ Titles \subseteq Short
    /\ MaxRevisions \subseteq Nat

VARIABLES
    phase,     \* the place of the run
    report,    \* report_text, and report.md
    evidence,  \* evidence_items, by id
    skill,     \* task.skill_id
    lacks,     \* what of the skill's contract the report lacks
    attempts,  \* revise_attempts
    reviewed,  \* review.json: the review with the task
    initial,   \* the loop's first review, without the task
    plan,      \* actions still to apply
    revised,   \* revised_report_markdown
    applied,   \* actions applied so far
    skipped,   \* actions skipped so far
    final      \* the loop's last review

reviewVars == <<phase, report, evidence, skill, lacks, attempts, reviewed, initial, plan,
          revised, applied, skipped, final>>

-----------------------------------------------------------------------------
(* Reading a report.                                                       *)

(* _has_heading: a line that is the heading and nothing else.              *)
HasHeading(r, name) ==
    LET s == Spellings[name]
    IN  \E n \in {s.exact, s.loose, s.zh} : Line("heading", <<n>>) \in ToSet(r)

(* "## Result" in report_markdown: a line that begins like the heading.    *)
HasText(r, name) ==
    LET s == Spellings[name]
    IN  \E line \in ToSet(r) : /\ line.kind = "heading" /\ line.words # <<>>
                               /\ line.words[1] \in {s.exact, s.longer}

(* The elements of a sequence that are in T, in their order.               *)
Among(s, T) ==
    FlattenSeq([i \in DOMAIN s |-> IF s[i] \in T THEN <<s[i]>> ELSE <<>>])

(* _section: the lines under the first heading that is spelled exactly so. *)
Section(r, name) ==
    LET Is(line) == line = Line("heading", <<name>>)
        first == SelectInSeq(r, Is)
        ends == {i \in (first + 1)..Len(r) : r[i].kind = "heading"}
        last == IF ends = {} THEN Len(r)
                ELSE (CHOOSE i \in ends : \A j \in ends : i <= j) - 1
    IN  IF first = 0 THEN <<>> ELSE SubSeq(r, first + 1, last)

IdsIn(words) == ToSet(words) \cap Ids
References(r) == UNION {IdsIn(r[i].words) : i \in DOMAIN r}

(* _claims_from_section: a bullet, and a line that cites evidence, is one  *)
(* claim; any other line is one claim a sentence.                          *)
ClaimsOf(line) ==
    IF line.words = <<>> THEN <<>>
    ELSE IF line.kind = "bullet" \/ IdsIn(line.words) # {} THEN <<line.words>>
    ELSE [i \in DOMAIN line.words |-> <<line.words[i]>>]

Claims(r) ==
    LET lines == Section(r, Spellings.Result.exact)
    IN  FlattenSeq([i \in DOMAIN lines |-> ClaimsOf(lines[i])])

(* Any id supports a claim, and a short sentence needs none.               *)
Supported(claim) ==
    IdsIn(claim) # {} \/ (Len(claim) = 1 /\ claim[1] \in Short)

Unsupported(r) ==
    LET claims == Claims(r) IN Among(claims, {c \in ToSet(claims) : ~Supported(c)})

-----------------------------------------------------------------------------
(* The review.                                                             *)

(* What the rules of a skill call an error.                                *)
SkillErrors(id, missing) ==
    CASE id = "docs_research" -> missing \cap {"source_heading", "source_url"}
      [] id = "github_issue_research" ->
           missing \cap {"source_heading", "source_url", "sections", "modules",
                         "difficulty", "contribution"}
      [] OTHER -> {}

Errors(r, ev) ==
    (IF ev = <<>> THEN {"empty_evidence"} ELSE {})
        \cup (IF HasHeading(r, "Evidence") THEN {} ELSE {"missing_evidence_section"})
        \cup (References(r) \ ToSet(ev))

Warnings(r) ==
    Len(Unsupported(r)) + (IF HasHeading(r, "Result") THEN 0 ELSE 1)

\* _contains_query_terms and _contains_expected, with the task alone.
TaskWarnings(id, missing) ==
    Cardinality(missing \cap ({"expected"} \cup IF id = "none" THEN {} ELSE {"query"}))

(* ReportReviewer.review with a task, and without one.                     *)
Review(r, ev) == [errors |-> Errors(r, ev), warnings |-> Warnings(r)]

ReviewOfTask(r, ev, id, missing) ==
    [errors   |-> Errors(r, ev) \cup SkillErrors(id, missing),
     warnings |-> Warnings(r) + TaskWarnings(id, missing)]

\* _score, in hundredths; an error costs 35 and a warning 15.
Score(review) ==
    LET cost == 35 * Cardinality(review.errors) + 15 * review.warnings
    IN  IF cost > 100 THEN 0 ELSE 100 - cost

(* Only errors fail a report: it may pass with a score of 0.               *)
Passed(review) == review.errors = {}

-----------------------------------------------------------------------------
(* The plan.                                                               *)

Actions == [type : {"evidence", "result", "cite", "rewrite", "remove", "no_op"},
            target : Seq(Words), by : Seq(Ids)]
Action(type, target, by) == [type |-> type, target |-> target, by |-> by]

First(ev) == IF ev = <<>> THEN <<>> ELSE <<ev[1]>>

\* Mutant: only the first unsupported claim is planned for.
ForFirstClaim(claims, ev) ==
    IF claims = <<>> THEN <<>>
    ELSE <<Action(IF ev = <<>> THEN "remove" ELSE "cite", claims[1], First(ev))>>

(* One action for every unsupported claim, and one for every unknown id.   *)
ForClaims(claims, ev) ==
    [i \in DOMAIN claims |->
        Action(IF ev = <<>> THEN "remove" ELSE "cite", claims[i], First(ev))]

\* Mutant: an unknown id is left in the report.
ForIdsNone(unknown, ev) == <<>>

ForIds(unknown, ev) ==
    LET ids == SetToSeq(unknown)
    IN  [i \in DOMAIN ids |-> Action("rewrite", <<ids[i]>>, First(ev))]

(* ReviewRevisionPlanner.build_plan.  It searches the text for "## Result" *)
(* where the reviewer looks for a heading.                                 *)
Plan(r, ev) ==
    (IF HasText(r, "Evidence") THEN <<>> ELSE <<Action("evidence", <<>>, ev)>>)
        \o (IF HasText(r, "Result") THEN <<>>
            ELSE <<Action("result", <<>>, First(ev))>>)
        \o ForIds(References(r) \ ToSet(ev), ev)
        \o ForClaims(Unsupported(r), ev)

-----------------------------------------------------------------------------
(* Its application.                                                        *)

(* _evidence_section and _append_section.                                  *)
WithEvidence(r, ev) ==
    r \o <<Line("heading", <<"Evidence">>)>>
      \o IF ev = <<>> THEN <<Line("bullet", <<"No evidence items available.">>)>>
         ELSE [i \in DOMAIN ev |-> Line("bullet", <<ev[i], "preview">>)]

(* _insert_after_title: before whatever the report has under its title,    *)
(* which becomes part of the section when no heading comes first.          *)
WithResult(r, by) ==
    <<Line("heading", <<"Result">>),
      Line("text", <<"Task completed.", "See evidence references below.">> \o by)>>
    \o r

\* The places in words where claim begins.
Begins(words, claim) ==
    {k \in 0..(Len(words) - Len(claim)) :
        SubSeq(words, k + 1, k + Len(claim)) = claim}

(* revised.replace(claim, claim + id, 1): the first place in the report    *)
(* where the text stands, under whatever heading.                          *)
Cited(r, claim, by) ==
    LET i == SelectInSeq(r, LAMBDA line : Begins(line.words, claim) # {})
        ks == IF i = 0 THEN {} ELSE Begins(r[i].words, claim)
        k == CHOOSE k \in ks : \A j \in ks : k <= j
        split == k + Len(claim)
    IN  IF i = 0 THEN r
        ELSE [r EXCEPT ![i].words = SubSeq(@, 1, split) \o by
                                    \o SubSeq(@, split + 1, Len(@))]

(* revised.replace(id, ...) in the whole report.                           *)
Rewritten(r, id, by) ==
    [i \in DOMAIN r |->
        [r[i] EXCEPT !.words =
            FlattenSeq([j \in DOMAIN @ |-> IF @[j] = id THEN by ELSE <<@[j]>>])]]

(* _remove_line_containing.                                                *)
Without(r, claim) ==
    Among(r, {line \in ToSet(r) : Begins(line.words, claim) = {}})

Apply(r, action, ev) ==
    CASE action.type = "evidence" -> WithEvidence(r, ev)
      [] action.type = "result"   -> WithResult(r, action.by)
      [] action.type = "cite"     -> Cited(r, action.target, action.by)
      [] action.type = "rewrite"  -> Rewritten(r, action.target[1], action.by)
      [] action.type = "remove"   -> Without(r, action.target)

-----------------------------------------------------------------------------
None == [errors |-> {}, warnings |-> 0]

ReviewInit ==
    /\ phase = "built" /\ report \in Reports /\ evidence \in Evidences
    /\ skill \in {"none", "docs_research", "github_issue_research"}
    /\ lacks \in Lacks /\ attempts \in MaxRevisions
    /\ reviewed = None /\ initial = None /\ final = None
    /\ plan = <<>> /\ applied = <<>> /\ skipped = <<>> /\ revised = report

\* Mutant: the loop runs although no revision is allowed.
ReviewAndLoop ==
    /\ phase = "built" /\ phase' = "reviewed"
    /\ reviewed' = ReviewOfTask(report, evidence, skill, lacks)
    /\ UNCHANGED <<report, evidence, skill, lacks, attempts, initial, plan,
                   revised, applied, skipped, final>>

(* persist_review_artifacts: the review of the task's report.              *)
ReviewReport ==
    /\ phase = "built"
    /\ reviewed' = ReviewOfTask(report, evidence, skill, lacks)
    /\ phase' = IF attempts = 0 THEN "done" ELSE "reviewed"
    /\ UNCHANGED <<report, evidence, skill, lacks, attempts, initial, plan,
                   revised, applied, skipped, final>>

(* ReviewReviseLoop.run reviews without the task and plans once, however   *)
(* many revisions are allowed.  What a model's review found is put in the  *)
(* plan as no_op, or left out.                                             *)
Begin(findings) ==
    /\ phase = "reviewed" /\ phase' = "revising"
    /\ initial' = Review(report, evidence)
    /\ plan' = Plan(report, evidence) \o findings
    /\ UNCHANGED <<report, evidence, skill, lacks, attempts, reviewed, revised,
                   applied, skipped, final>>

(* ReportReviser.apply_plan, one action: a section that has come to be     *)
(* there, a no_op and an action that changes nothing are skipped.          *)
Skips(action) ==
    \/ action.type = "no_op"
    \/ action.type = "evidence" /\ HasText(revised, "Evidence")
    \/ action.type = "result" /\ HasText(revised, "Result")

Revise ==
    /\ phase = "revising" /\ plan # <<>> /\ plan' = Tail(plan)
    /\ LET action == Head(plan)
           after == IF Skips(action) THEN revised
                    ELSE Apply(revised, action, evidence)
       IN  /\ revised' = after
           /\ IF after # revised
              THEN applied' = Append(applied, action) /\ UNCHANGED skipped
              ELSE skipped' = Append(skipped, action) /\ UNCHANGED applied
    /\ UNCHANGED <<phase, report, evidence, skill, lacks, attempts, reviewed,
                   initial, final>>

(* The review of what the revision made, and revise_loop.json.  report.md  *)
(* stays as it was.                                                        *)
Finish ==
    /\ phase = "revising" /\ plan = <<>> /\ phase' = "done"
    /\ final' = Review(revised, evidence)
    /\ UNCHANGED <<report, evidence, skill, lacks, attempts, reviewed, initial,
                   plan, revised, applied, skipped>>

Findings == {<<>>, <<Action("no_op", <<>>, <<>>)>>}

ReviewNext ==
    \/ ReviewReport
    \/ \E findings \in Findings : Begin(findings)
    \/ Revise
    \/ Finish

ReviewSpec == ReviewInit /\ [][ReviewNext]_reviewVars

-----------------------------------------------------------------------------
(* Properties.                                                             *)

Revised == phase = "done" /\ attempts > 0

ReviewTypeOK ==
    /\ phase \in {"built", "reviewed", "revising", "done"}
    /\ evidence \in Seq(Ids) /\ attempts \in Nat /\ revised \in Seq(Lines)
    /\ plan \in Seq(Actions) /\ applied \in Seq(Actions) /\ skipped \in Seq(Actions)
    /\ \A i \in DOMAIN applied : applied[i].type # "no_op"
    /\ attempts = 0 => phase \in {"built", "done"} /\ revised = report

(* A revision never costs a report its pass: whatever is added, rewritten  *)
(* or removed, no error is there that the first review did not have.       *)
NoNewError == Revised => final.errors \subseteq initial.errors

(* With evidence, one pass mends every error but one: a report whose       *)
(* "## Evidence..." heading is not the reviewer's is never given another.  *)
MendsWithEvidence ==
    Revised /\ evidence # <<>> =>
        \/ Passed(final)
        \/ final.errors = {"missing_evidence_section"} /\ HasText(report, "Evidence")

(* Every evidence id of a revised report is one of the run's.              *)
NoInventedEvidence == Revised => References(revised) \subseteq ToSet(evidence)

(* The loop may pass what the task's review failed, but only for what the  *)
(* skill asks, which the loop does not know; and it fails nothing that the *)
(* task's review passed.                                                   *)
LoopForgetsSkill ==
    Revised => /\ Passed(initial) /\ ~Passed(reviewed)
                    => reviewed.errors = SkillErrors(skill, lacks)
               /\ Passed(reviewed) => Passed(final)

(* A revision makes up no error and no evidence, mends what it can, and    *)
(* passes what the first review passed.                                    *)
RevisionMends ==
    NoNewError /\ MendsWithEvidence /\ NoInventedEvidence /\ LoopForgetsSkill

(* A claim of the Result that is still without evidence stood somewhere    *)
(* else first, or twice, or came into the section by the insertion of its  *)
(* heading: only the first place of a text is ever given the reference.    *)
ClaimsAreCited ==
    Revised /\ evidence # <<>> =>
        \A i \in DOMAIN Unsupported(revised) :
            LET claim == Unsupported(revised)[i]
                places == {j \in DOMAIN report : Begins(report[j].words, claim) # {}}
            IN  \/ Cardinality(places) > 1
                \/ ~HasText(report, "Result")

(* The score falls only where there was no evidence to cite, or where the  *)
(* text under the title became claims of the inserted Result section.      *)
ScoreKept ==
    Revised /\ Score(final) < Score(initial) =>
        \/ evidence = <<>>
        \/ ~HasText(report, "Result") /\ report # <<>> /\ report[1].kind # "heading"

(* What can be cited is cited, and the report is not the worse for it.     *)
ClaimsAnswered == ClaimsAreCited /\ ScoreKept
=============================================================================
