------------------------------ MODULE ChatTurn ------------------------------
(***************************************************************************)
(* One turn of a conversation, as a request or as a stream: the user's     *)
(* message is committed, evidence prepared, an answer drafted, verified    *)
(* claim by claim, corrected at most once per kind, reduced to what may be *)
(* published and committed, while a deadline may interrupt every await.    *)
(*                                                                         *)
(* A claim is an assertion in one of two wordings, the draft's or that of  *)
(* the quoted source; what a verification says of it is any verdict.       *)
(* Left out: texts (and with them answers withheld because they break off  *)
(* mid-sentence), citations, requirements and calculations.                *)
(***************************************************************************)
EXTENDS Naturals, Sequences, FiniteSets

CONSTANT Assertions    \* what a draft may assert

VARIABLES
    streamed,     \* the turn is a stream: its client may go away
    phase,        \* what the request is doing
    structured,   \* the draft is bound to reviewed proof
    draft,        \* assertions of the draft
    approval,     \* first verdict on each claim (publication_approvals)
    review,       \* a correction under review
    captured,     \* claims of the verified checkpoint
    corrections,  \* kinds of correction that were used (RequestWork)
    result,       \* the row to be committed
    users,        \* committed rows of the user's message
    assistant,    \* committed assistant rows
    marks,        \* commits that were acknowledged and noted
    cut,          \* history: commits that were interrupted
    proved,       \* history: publishable claims of the first verification
    refused       \* history: claims that some verification did not clear

turnVars == <<streamed, phase, structured, draft, approval, review, captured,
              corrections, result, users, assistant, marks, cut, proved, refused>>
draftVars == <<structured, draft>>
reviewVars == <<approval, review, captured, proved, refused>>
rowVars == <<users, assistant, marks, cut>>

-----------------------------------------------------------------------------
Claims == Assertions \X {"draft", "source"}
Verdicts == {"complete", "incomplete", "rejected", "unavailable"}
Supported(verdict) == verdict \in {"complete", "incomplete"}
TurnResults == [kind : {"none", "conversation", "clarification", "insufficient",
                    "answer", "error", "timeout"},
            claims : SUBSET Claims]
NoResult == [kind |-> "none", claims |-> {}]
NoReview == [pending |-> {}, retained |-> {}, fallback |-> {}, omitted |-> FALSE]
Phases == {"start", "noteUser", "prepare", "generate", "finalize", "shape", "verify",
           "correct", "commit", "refresh", "measure", "terminal", "answered",
           "failed", "gone"}

TurnInit ==
    /\ streamed \in BOOLEAN
    /\ phase = "start"
    /\ structured = FALSE /\ draft = {}
    /\ approval = [c \in Claims |-> "none"]
    /\ review = NoReview
    /\ captured = {} /\ corrections = {}
    /\ result = NoResult
    /\ users = 0 /\ assistant = <<>> /\ marks = {} /\ cut = {}
    /\ proved = {} /\ refused = {}

Enters(p) == phase' = p
Writes(r) == result' = r

-----------------------------------------------------------------------------
(* The user's message.                                                      *)

\* _commit_user_message: the commit, then two refreshes, then the note.
CommitUser ==
    /\ \/ phase = "start"
       \/ phase = "terminal" /\ marks = {}
    /\ users' = users + 1
    /\ Enters(IF phase = "start" THEN "noteUser" ELSE "terminal")
    /\ marks' = IF phase = "start" THEN marks ELSE {"user"}
    /\ UNCHANGED <<streamed, draftVars, reviewVars, corrections, result, assistant, cut>>

NoteUser ==
    /\ phase = "noteUser"
    /\ marks' = {"user"}
    /\ Enters("prepare")
    /\ UNCHANGED <<streamed, draftVars, reviewVars, corrections, result, users,
                   assistant, cut>>

-----------------------------------------------------------------------------
(* Evidence and draft.                                                      *)

Limits == {[kind |-> k, claims |-> {}] :
             k \in {"conversation", "clarification", "insufficient", "error"}}

\* _prepare_turn ends with evidence, with a limitation that
\* needs no model, or with a provider's error.
Prepare ==
    /\ phase = "prepare"
    /\ \/ Enters("generate") /\ UNCHANGED result
       \/ \E r \in Limits : Writes(r) /\ Enters("commit")
    /\ UNCHANGED <<streamed, draftVars, reviewVars, corrections, rowVars>>

\* The model answers, in prose or bound to reviewed proof, or its provider fails.
Generate ==
    /\ phase = "generate"
    /\ \/ /\ structured' \in BOOLEAN
          /\ draft' \in SUBSET Assertions
          /\ Enters("finalize")
          /\ UNCHANGED result
       \/ /\ Writes([kind |-> "error", claims |-> {}]) /\ Enters("commit")
          /\ UNCHANGED draftVars
    /\ UNCHANGED <<streamed, reviewVars, corrections, rowVars>>

Withheld == [kind |-> "insufficient", claims |-> {}]

\* finalize: a structured draft is parsed.  One that is malformed is corrected
\* once; one without an approved assertion is withheld; a prose answer without
\* claims stands as it is.
ParseDraft ==
    /\ phase = "finalize"
    /\ \/ draft # {} /\ Enters("verify") /\ UNCHANGED <<result, corrections>>
       \/ /\ structured /\ draft # {} /\ "malformed" \notin corrections
          /\ corrections' = corrections \cup {"malformed"}
          /\ Enters("shape") /\ UNCHANGED result
       \/ structured /\ Writes(Withheld) /\ Enters("commit") /\ UNCHANGED corrections
       \/ /\ ~structured /\ draft = {}
          /\ Writes([kind |-> "answer", claims |-> {}])
          /\ Enters("commit") /\ UNCHANGED corrections
    /\ UNCHANGED <<streamed, draftVars, reviewVars, rowVars>>

\* _correct_answer_draft: the same assertions and proof in another shape, or the
\* draft stays unverified; a provider's timeout counts as that.
CorrectShape ==
    /\ phase = "shape"
    /\ \/ Enters("verify") /\ UNCHANGED result
       \/ Writes(Withheld) /\ Enters("commit")
    /\ UNCHANGED <<streamed, draftVars, reviewVars, corrections, rowVars>>

-----------------------------------------------------------------------------
(* Verification.                                                            *)

\* A later verdict cannot replace the decision on the same claim.  The decision is
\* keyed by the assertion (in prose, its position), the wording and the proof.
\* MUTANT: the latest verdict is the decision.
LatestVerdict(v) ==
    [c \in Claims |-> IF c \in DOMAIN v THEN v[c] ELSE approval[c]]
Approve(v) ==
    [c \in Claims |-> IF c \in DOMAIN v /\ approval[c] = "none" THEN v[c]
                                                               ELSE approval[c]]

\* Claims a verification supports whose decision is to publish.
Publishable(v, ok) == {c \in DOMAIN v : Supported(v[c]) /\ ok[c] = "complete"}

\* _checkpoint_claims captures what there is to publish, if anything.
Captured(claims) == IF claims # {} THEN claims ELSE captured

\* Publication keeps the claims whose decision is complete; none withholds the
\* answer.
Publication(claims, ok) ==
    LET kept == {c \in claims : ok[c] = "complete"} IN
        IF kept = {} THEN Withheld ELSE [kind |-> "answer", claims |-> kept]

Publish(claims, ok) ==
    /\ Writes(Publication(claims, ok))
    /\ captured' = Captured(Publication(claims, ok).claims)
    /\ Enters("commit")
    /\ UNCHANGED review

Judge(v) ==
    /\ approval' = Approve(v)
    /\ refused' = refused \cup {c \in DOMAIN v : v[c] # "complete"}

\* What a correction may propose of a row that is not publishable: the quotes of
\* its proof, whose wording may be the row's own when it was rejected.
Proposals(v) ==
    {<<c[1], "source">> : c \in DOMAIN v} \cup {c \in DOMAIN v : v[c] = "rejected"}

Available(v) == \A c \in DOMAIN v : v[c] # "unavailable"

\* finalize, first verification.  The semantic correction is used once, when a
\* claim was rejected or a proven deliverable was omitted.
VerifyDraft ==
    /\ phase = "verify"
    /\ \E v \in [draft \X {"draft"} -> Verdicts],
          omitted \in SUBSET {a \in Assertions : structured /\ a \notin draft} :
         LET kept == Publishable(v, Approve(v))
             failed == \E c \in DOMAIN v : ~Supported(v[c])
             rejected == {c \in DOMAIN v : c \notin kept}
             supported == {c \in DOMAIN v : Supported(v[c])}
         IN
         /\ Judge(v)
         /\ proved' = kept
         /\ \/ /\ \/ ~failed
                  \/ ~Available(v)
                  \/ "semantic" \in corrections
                  \/ omitted # {}                  \* no time left to review them
               /\ Publish(supported, Approve(v))
               /\ UNCHANGED corrections
            \/ /\ failed \/ omitted # {}
               /\ Available(v) /\ "semantic" \notin corrections
               /\ corrections' = corrections \cup {"semantic"}
               /\ \E proposed \in SUBSET Proposals([c \in rejected |-> v[c]]) :
                    LET pending == proposed \cup omitted \X {"draft"} IN
                    IF pending = {} \/ (~structured /\ kept # {})
                      THEN Publish(IF kept # {} THEN kept ELSE supported, Approve(v))
                      ELSE /\ review' = [pending |-> pending, retained |-> kept,
                                         fallback |-> supported,
                                         omitted |-> omitted # {}]
                           /\ captured' = Captured(kept)
                           /\ Enters("correct")
                           /\ UNCHANGED result
    /\ UNCHANGED <<streamed, draftVars, rowVars>>

\* A correction cannot revoke independent support already obtained.
\* MUTANT: what the correction accepted replaces what was retained.
Replaced(accepted) == IF accepted # {} THEN accepted ELSE review.retained
Merged(accepted) == review.retained \cup accepted

\* finalize, review of the correction: what it cleared is captured first, then
\* what is published, when that merges it with what was retained.
VerifyCorrection ==
    /\ phase = "correct"
    /\ \E v \in [review.pending -> Verdicts] :
         LET kept == Publishable(v, Approve(v))
             accepted == IF Available(v) THEN kept ELSE {}
             merged == Publication(Merged(accepted), Approve(v))
         IN
         /\ Judge(v)
         /\ IF review.omitted \/ review.retained # {}
              THEN /\ Writes(merged)
                   /\ captured' = IF merged.claims # {} THEN merged.claims
                                                        ELSE Captured(kept)
              ELSE /\ Writes(Publication(
                        IF \A c \in DOMAIN v : Supported(v[c]) THEN review.pending
                                                               ELSE review.fallback,
                        Approve(v)))
                   /\ captured' = Captured(kept)
         /\ Enters("commit")
    /\ UNCHANGED <<streamed, draftVars, corrections, rowVars, proved, review>>

-----------------------------------------------------------------------------
(* Commit and response.                                                     *)

Row == result

\* _commit_assistant_message: the row commits and the commit is noted at once.
CommitAnswer ==
    /\ phase = "commit"
    /\ assistant' = Append(assistant, Row)
    /\ marks' = marks \cup {"answer"}
    /\ Enters("refresh")
    /\ UNCHANGED <<streamed, draftVars, reviewVars, corrections, result, users, cut>>

\* The row is refreshed; a failed execution answers 503.
RefreshAnswer ==
    /\ phase = "refresh"
    /\ Enters(CASE result.kind = "error" -> "failed"
              [] result.kind = "timeout" -> "answered"
              [] OTHER -> "measure")
    /\ UNCHANGED <<streamed, draftVars, reviewVars, corrections, result, rowVars>>

\* The measurement is written, or fails, or is cancelled: the answer stands.
Measure ==
    /\ phase = "measure"
    /\ Enters("answered")
    /\ UNCHANGED <<streamed, draftVars, reviewVars, corrections, result, rowVars>>

\* The database fails: the record of a failure is given up, an answer is a 500.
FailCommit ==
    /\ phase = "commit"
    /\ Enters("failed")
    /\ UNCHANGED <<streamed, draftVars, reviewVars, corrections, result, rowVars>>

-----------------------------------------------------------------------------
(* The deadline.                                                            *)

\* A commit that is interrupted may have taken effect.
CutCommit(p) ==
    \/ /\ phase = "start"
       /\ users' \in {users, users + 1} /\ cut' = cut \cup {"user"}
       /\ UNCHANGED assistant
    \/ /\ phase = "commit"
       /\ assistant' \in {assistant, Append(assistant, Row)} /\ cut' = cut \cup {"answer"}
       /\ UNCHANGED users
    \/ /\ phase \in p
       /\ UNCHANGED <<users, assistant, cut>>

\* The execution deadline strikes an await, or a provider's call times out.
StrikeDeadline ==
    /\ result.kind # "timeout"
    /\ CutCommit({"noteUser", "prepare", "generate", "shape", "verify", "correct",
                  "refresh"})
    /\ Enters("terminal")
    /\ UNCHANGED <<streamed, draftVars, reviewVars, corrections, result, marks>>

\* _deadline_terminal: an acknowledged answer is the answer.
\* MUTANT: the record of a failure is not noted.
NotedUnlessError == "answer" \in marks /\ result.kind # "error"
Noted == "answer" \in marks
ReturnCommitted ==
    /\ phase = "terminal"
    /\ Noted
    /\ Enters("answered")
    /\ UNCHANGED <<streamed, draftVars, reviewVars, corrections, result, rowVars>>

\* Otherwise the checkpoint, or the limitation, is committed.
DeadlineResult ==
    /\ phase = "terminal"
    /\ ~Noted /\ "user" \in marks
    /\ Writes([kind |-> "timeout", claims |-> captured])
    /\ Enters("commit")
    /\ UNCHANGED <<streamed, draftVars, reviewVars, corrections, rowVars>>

\* The request deadline ends the terminal as well: 503.
GiveUp ==
    /\ \/ /\ result.kind = "timeout"
          /\ CutCommit({"refresh"})
       \/ /\ phase = "terminal" /\ ~Noted
          /\ users' \in (IF marks = {} THEN {users, users + 1} ELSE {users})
          /\ UNCHANGED <<assistant, cut>>
    /\ Enters("failed")
    /\ UNCHANGED <<streamed, draftVars, reviewVars, corrections, result, marks>>

\* The client of a stream goes away: its generator is closed or cancelled.
Disconnect ==
    /\ streamed
    /\ CutCommit(Phases \ {"start", "commit", "answered", "failed", "gone"})
    /\ Enters("gone")
    /\ UNCHANGED <<streamed, draftVars, reviewVars, corrections, result, marks>>

TurnNext ==
    \/ CommitUser \/ NoteUser \/ Prepare \/ Generate \/ ParseDraft \/ CorrectShape
    \/ VerifyDraft \/ VerifyCorrection \/ CommitAnswer \/ RefreshAnswer \/ Measure \/ FailCommit
    \/ StrikeDeadline \/ ReturnCommitted \/ DeadlineResult \/ GiveUp \/ Disconnect

TurnSpec == TurnInit /\ [][TurnNext]_turnVars

-----------------------------------------------------------------------------
(* Properties.                                                              *)

\* Types.
TurnTypeOK ==
    /\ streamed \in BOOLEAN /\ phase \in Phases
    /\ structured \in BOOLEAN /\ draft \subseteq Assertions
    /\ approval \in [Claims -> Verdicts \cup {"none"}]
    /\ review \in [pending : SUBSET Claims, retained : SUBSET Claims,
                   fallback : SUBSET Claims, omitted : BOOLEAN]
    /\ captured \subseteq Claims
    /\ corrections \subseteq {"malformed", "semantic"}
    /\ result \in TurnResults
    /\ users \in 0 .. 2 /\ assistant \in Seq(TurnResults) /\ Len(assistant) \in 0 .. 2
    /\ marks \subseteq {"user", "answer"} /\ cut \subseteq {"user", "answer"}
    /\ proved \subseteq Claims /\ refused \subseteq Claims

Rows == {assistant[i] : i \in 1 .. Len(assistant)}

\* No answer, final or of the deadline, publishes a claim that a verification of
\* the turn did not clear, whatever a later review of the same claim said: the same
\* assertion in the same wording.
NothingRefusedPublished == \A row \in Rows : row.claims \cap refused = {}

\* A claim that the first verification cleared is in every answer the turn commits
\* from then on: neither a correction nor the deadline revokes it.
SupportSurvives ==
    \A row \in Rows : row.kind \in {"answer", "insufficient", "timeout"}
        => proved \subseteq row.claims

\* A turn has one answer: a second one is written only after the commit of the
\* first was interrupted before it was acknowledged.
OneAnswer == Len(assistant) > 1 => "answer" \in cut
=============================================================================
