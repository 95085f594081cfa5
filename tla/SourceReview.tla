---------------------------- MODULE SourceReview ----------------------------
(***************************************************************************)
(* How the reviews of a document's links survive corrections of its        *)
(* metadata.  A revision is derived from the selected one: what a request  *)
(* leaves out is carried over, and what was approved for one identity and  *)
(* one proof must not be taken for another.                                *)
(*                                                                         *)
(* The identity of a revision stands for its group, work, edition and      *)
(* effective dates; a proof for the effect, the spans and the provisions   *)
(* of a link.  Who may link to what is in SourceHistory.                   *)
(***************************************************************************)
EXTENDS Naturals, Sequences, FiniteSets

CONSTANTS
    Identities,    \* identities that revisions of the document may have
    Targets,       \* revisions of other documents
    Proofs,        \* proofs of a link
    NoProof,       \* a link without spans or without a typed effect
    MaxCorrections \* BOUND: revisions of the document

ASSUME ReviewAssumption == MaxCorrections \in Nat \ {0}

VARIABLES
    derived,   \* the revisions of the document
    chosen,    \* the revision that is selected
    approved   \* history: what a request vouched for, and was stored as verified

linkVars == <<derived, chosen, approved>>

-----------------------------------------------------------------------------
AnyProof == Proofs \cup {NoProof}
\* review: the revision whose request a reviewer signed, kept when it is carried.
StoredLink == [to : Targets, proof : AnyProof, verified : BOOLEAN,
               review : 1 .. MaxCorrections, invalidated : BOOLEAN]
Derived == [identity : Identities, links : SUBSET StoredLink]

Omitted == "omitted"
\* One link of a request; a copied review repeats that of a verified link.
\* SourceRelationshipCreate: what is verified has a proof of its own.
Asked ==
    {a \in [to : Targets, proof : AnyProof \cup {Omitted},
            verdict : {"verified", "not", Omitted}, review : {Omitted, "new", "copied"}] :
        a.verdict = "verified" => a.proof \in Proofs}

ReviewInit ==
    /\ derived \in {<<[identity |-> i, links |-> {}]>> : i \in Identities}
    /\ chosen = 1
    /\ approved = {}

-----------------------------------------------------------------------------
(* One relationship of a new revision r with the given identity.            *)

PriorLinks == derived[chosen].links
Prior(to) == {p \in PriorLinks : p.to = to}

\* MUTANT: a new edition or new dates count as the same source.
AnyIdentity(identity) == identity \in Identities
UnchangedIdentity(identity) == derived[chosen].identity = identity

\* What the request leaves out is carried from an unchanged revision, or neutral.
Carried(a, identity) ==
    LET carrying == UnchangedIdentity(identity) IN
    [to |-> a.to,
     proof |-> IF a.proof # Omitted THEN a.proof
               ELSE IF carrying /\ Prior(a.to) # {}
                 THEN (CHOOSE p \in Prior(a.to) : TRUE).proof ELSE NoProof,
     verified |-> IF a.verdict # Omitted THEN a.verdict = "verified"
                  ELSE carrying /\ \E p \in Prior(a.to) : p.verified]

\* A review copied to a link that did not exist, another identity or another proof.
ProofChanged(a, identity) ==
    \/ /\ Prior(a.to) = {}
       /\ a.review = "copied"
       /\ \E p \in PriorLinks : p.verified
    \/ \E p \in Prior(a.to) :
         ~UnchangedIdentity(identity) \/ p.proof # Carried(a, identity).proof

\* The authenticated review stays only if the request says nothing of it and
\* nothing that it covers has changed.
Preserved(a, identity) ==
    {p \in Prior(a.to) :
        /\ UnchangedIdentity(identity)
        /\ ~ProofChanged(a, identity)
        /\ a.review = Omitted
        /\ p.verified = Carried(a, identity).verified}

StoredAs(a, identity, r) ==
    LET link == Carried(a, identity)
        kept == Preserved(a, identity)
        changed == ProofChanged(a, identity)
    IN  [to |-> a.to, proof |-> link.proof, verified |-> link.verified /\ ~changed,
         review |-> IF kept # {} THEN (CHOOSE p \in kept : TRUE).review ELSE r,
         invalidated |-> IF kept # {} THEN (CHOOSE p \in kept : TRUE).invalidated
                                      ELSE changed]

\* Without a relationships field, the links of the selected revision are asked
\* for again, every field of them set.
Repeated == {[to |-> p.to, proof |-> p.proof, review |-> Omitted,
              verdict |-> IF p.verified THEN "verified" ELSE "not"] :
             p \in PriorLinks}

\* A link that is verified must be provable after it is carried, too.
Provable(asked, identity) ==
    \A a \in asked : Carried(a, identity).verified => Carried(a, identity).proof # NoProof

-----------------------------------------------------------------------------
Write(identity, asked, activates) ==
    LET r == Len(derived) + 1
        links == {StoredAs(a, identity, r) : a \in asked}
    IN  /\ Len(derived) < MaxCorrections
        /\ Provable(asked, identity)
        /\ derived' = Append(derived, [identity |-> identity, links |-> links])
        /\ chosen' = IF activates THEN r ELSE chosen

\* A sparse correction, and one that states its relationships.
CorrectMetadata(identity, activates) ==
    /\ Write(identity, Repeated, activates)
    /\ UNCHANGED approved

\* What the request itself vouches for: a verdict, or a review of its own.
Vouched(asked) == {a \in asked : a.verdict = "verified" \/ a.review # Omitted}

StateLinks(identity, asked, activates) ==
    /\ Write(identity, asked, activates)
    /\ LET r == Len(derived) + 1 IN
         approved' = approved \cup
            {<<r, identity, l.to, l.proof>> :
                l \in {x \in {StoredAs(a, identity, r) : a \in Vouched(asked)} : x.verified}}

\* activate, without a new revision.
ChooseAgain(r) ==
    /\ r # chosen
    /\ chosen' = r
    /\ UNCHANGED <<derived, approved>>

\* BOUND: a request states one relationship, or none.
Requests == {{}} \cup {{a} : a \in Asked}

ReviewNext ==
    \/ \E i \in Identities, activates \in BOOLEAN :
         \/ CorrectMetadata(i, activates)
         \/ \E asked \in Requests : StateLinks(i, asked, activates)
    \/ \E r \in DOMAIN derived : ChooseAgain(r)

ReviewSpec == ReviewInit /\ [][ReviewNext]_linkVars

-----------------------------------------------------------------------------
(* Properties.                                                              *)

\* Types.
ReviewTypeOK ==
    /\ derived \in Seq(Derived) /\ Len(derived) \in 1 .. MaxCorrections
    /\ chosen \in DOMAIN derived
    /\ approved \subseteq (1 .. MaxCorrections) \X Identities \X Targets \X Proofs

\* A link counts as verified only on the word of the revision its review names,
\* given for that identity and that proof, however often the metadata was
\* corrected, copied or restored since (docs/api/knowledge_api.md:185: "Changed
\* proof or source identity invalidates the previous approval").
ApprovedAsStated ==
    \A r \in DOMAIN derived : \A l \in derived[r].links :
        l.verified =>
            <<l.review, derived[r].identity, l.to, l.proof>> \in approved
=============================================================================
