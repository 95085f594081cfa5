---------------------------- MODULE SourceProofs ----------------------------
(***************************************************************************)
(* Proofs about the source metadata, for any documents, editors, revisions *)
(* and activations (SourceHistory) and any number of corrections           *)
(* (SourceReview).                                                         *)
(* ReviewInv: an approved row says what an editor stated for it.           *)
(* HistoryInv: the rows agree with each other and with their documents     *)
(* (RowsInv), one editor at most is inside its transaction (OneWriter), and*)
(* what it staged still fits the rows when it commits (EditInv).           *)
(* GraphInv: no group that escapes the mark of open removals is on a cycle *)
(* of modifications, neither now (AcyclicInv) nor when what an editor      *)
(* staged is committed (LinksInv, StagedAcyclic).                          *)
(***************************************************************************)
EXTENDS SourceHistory, SourceReview, TLAPS

-----------------------------------------------------------------------------
(* SourceReview: the types and ApprovedAsStated are inductive together.     *)

\* The rows of a request: any field may have been left out.
AskedRow ==
    [to : Targets, proof : AnyProof \cup {Omitted},
     verdict : {"verified", "not", Omitted}, review : {Omitted, "new", "copied"}]

LEMMA PriorTypes ==
    ASSUME ReviewTypeOK
    PROVE  /\ derived \in Seq(Derived)
           /\ derived[chosen].identity \in Identities
           /\ PriorLinks \subseteq StoredLink
           /\ \A to : Prior(to) \subseteq StoredLink /\ \A p \in Prior(to) : p.to = to
<1>1. chosen \in DOMAIN derived /\ derived[chosen] \in Derived
  BY DEF ReviewTypeOK
<1>2. derived[chosen].identity \in Identities /\ PriorLinks \subseteq StoredLink
  BY <1>1 DEF Derived, PriorLinks
<1>3. derived \in Seq(Derived)
  BY DEF ReviewTypeOK
<1> QED BY <1>2, <1>3 DEF Prior

LEMMA CarriedType ==
    ASSUME ReviewTypeOK, NEW a \in AskedRow, NEW i \in Identities
    PROVE  /\ Carried(a, i).to = a.to /\ a.to \in Targets
           /\ Carried(a, i).proof \in AnyProof
           /\ Carried(a, i).verified \in BOOLEAN
<1>1. a.proof \in AnyProof \/ a.proof = Omitted
  BY DEF AskedRow
<1>2. ASSUME Prior(a.to) # {}
      PROVE  (CHOOSE p \in Prior(a.to) : TRUE).proof \in AnyProof
  <2>1. (CHOOSE p \in Prior(a.to) : TRUE) \in Prior(a.to)
    BY <1>2
  <2> QED BY <2>1, PriorTypes DEF StoredLink
<1>3. Carried(a, i).proof \in AnyProof
  BY <1>1, <1>2 DEF Carried, AnyProof
<1>4. Carried(a, i).verified \in BOOLEAN
  BY DEF Carried, UnchangedIdentity
<1>5. Carried(a, i).to = a.to
  BY DEF Carried
<1> QED BY <1>3, <1>4, <1>5 DEF AskedRow

LEMMA RepeatedType ==
    ASSUME ReviewTypeOK PROVE Repeated \subseteq AskedRow
  BY PriorTypes DEF Repeated, AskedRow, StoredLink, Omitted

LEMMA StoredType ==
    ASSUME ReviewTypeOK, NEW a \in AskedRow, NEW i \in Identities,
           NEW r \in 1 .. MaxCorrections
    PROVE  StoredAs(a, i, r) \in StoredLink
<1> DEFINE kept == Preserved(a, i)
<1>1. kept \subseteq StoredLink
  BY PriorTypes DEF Preserved
<1>2. ProofChanged(a, i) \in BOOLEAN
  BY DEF ProofChanged
<1>3. ASSUME kept # {}
      PROVE  /\ (CHOOSE p \in kept : TRUE).review \in 1 .. MaxCorrections
             /\ (CHOOSE p \in kept : TRUE).invalidated \in BOOLEAN
  <2>1. (CHOOSE p \in kept : TRUE) \in kept
    BY <1>3
  <2> QED BY <2>1, <1>1 DEF StoredLink
<1> HIDE DEF kept
<1> QED BY <1>2, <1>3, CarriedType DEF StoredAs, StoredLink, kept

\* A link is stored as verified only if the carried one was, and nothing that its
\* approval covers has changed.
LEMMA StoredFields ==
    ASSUME NEW a, NEW i, NEW r
    PROVE  /\ StoredAs(a, i, r).to = a.to
           /\ StoredAs(a, i, r).proof = Carried(a, i).proof
           /\ StoredAs(a, i, r).verified =
                (Carried(a, i).verified /\ ~ProofChanged(a, i))
           /\ StoredAs(a, i, r).review =
                IF Preserved(a, i) # {} THEN (CHOOSE p \in Preserved(a, i) : TRUE).review
                                        ELSE r
  BY DEF StoredAs

\* A review that is kept was given for this identity and this proof.
LEMMA KeptReview ==
    ASSUME ReviewTypeOK, ApprovedAsStated, NEW a \in AskedRow, NEW i \in Identities,
           NEW r, StoredAs(a, i, r).verified, Preserved(a, i) # {}
    PROVE  <<StoredAs(a, i, r).review, i, a.to, StoredAs(a, i, r).proof>> \in approved
<1> DEFINE p == CHOOSE x \in Preserved(a, i) : TRUE
<1>1. p \in Preserved(a, i)
  OBVIOUS
<1>2. /\ p \in Prior(a.to) /\ derived[chosen].identity = i
      /\ ~ProofChanged(a, i) /\ p.verified = Carried(a, i).verified
  BY <1>1 DEF Preserved, UnchangedIdentity
<1>3. p.proof = Carried(a, i).proof
  BY <1>2 DEF ProofChanged
<1>4. p \in derived[chosen].links /\ p.to = a.to
  BY <1>2 DEF Prior, PriorLinks
<1>5. p.verified
  BY <1>2, StoredFields
<1>6. <<p.review, i, a.to, p.proof>> \in approved
  BY <1>2, <1>4, <1>5 DEF ApprovedAsStated, ReviewTypeOK
<1> QED BY <1>3, <1>6, StoredFields

\* What a request left out is verified only with the review it came with.
LEMMA CarriedReview ==
    ASSUME ReviewTypeOK, NEW a \in AskedRow, NEW i \in Identities,
           NEW r, StoredAs(a, i, r).verified,
           a.verdict = Omitted, a.review = Omitted
    PROVE  Preserved(a, i) # {}
<1>1. Carried(a, i).verified /\ ~ProofChanged(a, i)
  BY StoredFields
<1>2. PICK p \in Prior(a.to) : UnchangedIdentity(i) /\ p.verified
  BY <1>1 DEF Carried
<1>3. p.verified = TRUE /\ Carried(a, i).verified = TRUE
  BY <1>1, <1>2, PriorTypes, CarriedType DEF StoredLink
<1>4. p \in Preserved(a, i)
  BY <1>1, <1>2, <1>3 DEF Preserved
<1> QED BY <1>4

LEMMA RepeatedReview ==
    ASSUME ReviewTypeOK, NEW a \in Repeated, NEW i \in Identities,
           NEW r, StoredAs(a, i, r).verified
    PROVE  Preserved(a, i) # {}
<1>1. Carried(a, i).verified /\ ~ProofChanged(a, i)
  BY StoredFields
<1>2. PICK p \in PriorLinks :
         a = [to |-> p.to, proof |-> p.proof, review |-> Omitted,
              verdict |-> IF p.verified THEN "verified" ELSE "not"]
  BY DEF Repeated
<1>3. a.verdict = "verified" /\ a.verdict # Omitted /\ p.verified
  BY <1>1, <1>2 DEF Carried, Omitted
<1>4. p \in Prior(a.to) /\ p.verified = TRUE
  BY <1>2, <1>3, PriorTypes DEF Prior, StoredLink
<1>5. UnchangedIdentity(i)
  BY <1>1, <1>4 DEF ProofChanged
<1>6. Carried(a, i).verified = TRUE
  BY <1>1, CarriedType, RepeatedType
<1>7. p \in Preserved(a, i)
  BY <1>1, <1>2, <1>4, <1>5, <1>6 DEF Preserved
<1> QED BY <1>7

-----------------------------------------------------------------------------
\* A new revision keeps the types, and its verified links are approved by requests
\* that are in the history afterwards.
LEMMA WriteTypes ==
    ASSUME ReviewTypeOK, NEW i \in Identities, NEW asked \in SUBSET AskedRow,
           NEW activates \in BOOLEAN, Write(i, asked, activates)
    PROVE  /\ derived' \in Seq(Derived) /\ Len(derived') \in 1 .. MaxCorrections
           /\ chosen' \in DOMAIN derived'
<1> DEFINE r == Len(derived) + 1
           new == [identity |-> i, links |-> {StoredAs(a, i, r) : a \in asked}]
<1>1. /\ derived \in Seq(Derived) /\ Len(derived) \in Nat /\ chosen \in 1 .. Len(derived)
      /\ Len(derived) < MaxCorrections /\ r \in 1 .. MaxCorrections
  BY ReviewAssumption DEF ReviewTypeOK, Write
<1>2. \A a \in asked : StoredAs(a, i, r) \in StoredLink
  BY <1>1, StoredType
<1>3. new \in Derived
  BY <1>2 DEF Derived
<1>4. derived' = Append(derived, new) /\ chosen' = IF activates THEN r ELSE chosen
  BY DEF Write
<1> HIDE DEF new
<1>5. derived' \in Seq(Derived) /\ Len(derived') = r
  BY <1>1, <1>3, <1>4
<1> QED BY <1>1, <1>4, <1>5

LEMMA WriteApproved ==
    ASSUME ReviewTypeOK, ApprovedAsStated,
           NEW i \in Identities, NEW asked \in SUBSET AskedRow,
           NEW activates \in BOOLEAN, Write(i, asked, activates),
           approved \subseteq approved',
           \A a \in asked :
               StoredAs(a, i, Len(derived) + 1).verified
                   => \/ Preserved(a, i) # {}
                      \/ <<Len(derived) + 1, i, a.to,
                           StoredAs(a, i, Len(derived) + 1).proof>> \in approved'
    PROVE  ApprovedAsStated'
<1> DEFINE r == Len(derived) + 1
           new == [identity |-> i, links |-> {StoredAs(a, i, r) : a \in asked}]
<1>1. derived \in Seq(Derived) /\ Len(derived) \in Nat
  BY DEF ReviewTypeOK
<1>2. derived' = Append(derived, new)
  BY DEF Write
<1>3. /\ DOMAIN derived' = DOMAIN derived \cup {r}
      /\ \A x \in DOMAIN derived : derived'[x] = derived[x]
      /\ derived'[r] = new
  <2> HIDE DEF new
  <2> QED BY <1>1, <1>2
<1>4. ASSUME NEW a \in asked, StoredAs(a, i, r).verified
      PROVE  <<StoredAs(a, i, r).review, i, StoredAs(a, i, r).to, StoredAs(a, i, r).proof>>
                 \in approved'
  <2>1. StoredAs(a, i, r).to = a.to
    BY DEF StoredAs
  <2>2. CASE Preserved(a, i) # {}
    BY <1>4, <2>1, <2>2, KeptReview
  <2>3. CASE Preserved(a, i) = {}
    BY <1>4, <2>1, <2>3, StoredFields
  <2> QED BY <2>2, <2>3
<1>5. \A l \in new.links : l.verified => <<l.review, i, l.to, l.proof>> \in approved'
  BY <1>4
<1>6. new.identity = i
  OBVIOUS
<1> HIDE DEF new
<1> QED BY <1>3, <1>5, <1>6 DEF ApprovedAsStated

\* A verified link of a request has a proof: it passed the validation again.
LEMMA VerifiedHasProof ==
    ASSUME ReviewTypeOK, NEW i \in Identities, NEW asked \in SUBSET AskedRow,
           Provable(asked, i), NEW a \in asked, NEW r, StoredAs(a, i, r).verified
    PROVE  StoredAs(a, i, r).proof \in Proofs
<1>1. Carried(a, i).verified /\ StoredAs(a, i, r).proof = Carried(a, i).proof
  BY StoredFields
<1>2. Carried(a, i).proof # NoProof
  BY <1>1 DEF Provable
<1> QED BY <1>1, <1>2, CarriedType DEF AnyProof

ReviewInv == ReviewTypeOK /\ ApprovedAsStated

LEMMA CorrectStep ==
    ASSUME ReviewInv, NEW i \in Identities, NEW activates \in BOOLEAN,
           CorrectMetadata(i, activates)
    PROVE  ReviewInv'
<1>1. ReviewTypeOK /\ ApprovedAsStated /\ Repeated \in SUBSET AskedRow
  BY RepeatedType DEF ReviewInv
<1>2. Write(i, Repeated, activates) /\ approved' = approved
  BY DEF CorrectMetadata
<1>3. ReviewTypeOK'
  BY <1>1, <1>2, WriteTypes DEF ReviewTypeOK
<1>4. \A a \in Repeated :
         StoredAs(a, i, Len(derived) + 1).verified => Preserved(a, i) # {}
  BY <1>1, RepeatedReview
<1>5. ApprovedAsStated'
  BY <1>1, <1>2, <1>4, WriteApproved
<1> QED BY <1>3, <1>5 DEF ReviewInv

LEMMA StateStep ==
    ASSUME ReviewInv, NEW i \in Identities, NEW activates \in BOOLEAN,
           NEW asked \in SUBSET AskedRow, StateLinks(i, asked, activates)
    PROVE  ReviewInv'
<1> DEFINE r == Len(derived) + 1
           new == {<<r, i, l.to, l.proof>> :
                     l \in {x \in {StoredAs(a, i, r) : a \in Vouched(asked)} : x.verified}}
<1>1. ReviewTypeOK /\ ApprovedAsStated /\ Write(i, asked, activates)
  BY DEF ReviewInv, StateLinks
<1>2. approved' = approved \cup new
  BY DEF StateLinks
<1>3. /\ r \in 1 .. MaxCorrections /\ Provable(asked, i)
      /\ approved \subseteq (1 .. MaxCorrections) \X Identities \X Targets \X Proofs
  BY <1>1, ReviewAssumption DEF ReviewTypeOK, Write
<1>4. \A a \in asked : StoredAs(a, i, r).to \in Targets
  BY DEF StoredAs, AskedRow
<1>5. \A a \in asked : StoredAs(a, i, r).verified => StoredAs(a, i, r).proof \in Proofs
  BY <1>1, <1>3, VerifiedHasProof
<1>6. Vouched(asked) \subseteq asked
  BY DEF Vouched
<1>7. new \subseteq (1 .. MaxCorrections) \X Identities \X Targets \X Proofs
  BY <1>3, <1>4, <1>5, <1>6
<1>8. ASSUME NEW a \in asked, StoredAs(a, i, r).verified, Preserved(a, i) = {}
      PROVE  <<r, i, a.to, StoredAs(a, i, r).proof>> \in new
  <2>1. a \in Vouched(asked)
    <3>1. ASSUME a.verdict # "verified" PROVE a.review # Omitted
      <4>1. Carried(a, i).verified
        BY <1>8, StoredFields
      <4>2. a.verdict = Omitted
        BY <3>1, <4>1 DEF Carried
      <4> QED BY <1>1, <1>8, <4>2, CarriedReview
    <3> QED BY <3>1 DEF Vouched
  <2>2. StoredAs(a, i, r).to = a.to
    BY StoredFields
  <2> QED BY <1>8, <2>1, <2>2
<1> HIDE DEF new
<1>9. ReviewTypeOK'
  BY <1>1, <1>2, <1>3, <1>7, WriteTypes DEF ReviewTypeOK
<1>10. ApprovedAsStated'
  BY <1>1, <1>2, <1>8, WriteApproved
<1> QED BY <1>9, <1>10 DEF ReviewInv

LEMMA ReviewStep ==
    ASSUME ReviewInv, [ReviewNext]_linkVars
    PROVE  ReviewInv'
<1>1. ASSUME NEW i \in Identities, NEW activates \in BOOLEAN, CorrectMetadata(i, activates)
      PROVE  ReviewInv'
  BY <1>1, CorrectStep
<1>2. ASSUME NEW i \in Identities, NEW activates \in BOOLEAN, NEW asked \in Requests,
             StateLinks(i, asked, activates)
      PROVE  ReviewInv'
  <2>1. asked \in SUBSET AskedRow
    BY DEF Requests, Asked, AskedRow
  <2> QED BY <1>2, <2>1, StateStep
<1>3. ASSUME NEW r \in DOMAIN derived, ChooseAgain(r)
      PROVE  ReviewInv'
  BY <1>3 DEF ChooseAgain, ReviewInv, ReviewTypeOK, ApprovedAsStated
<1>4. CASE UNCHANGED linkVars
  BY <1>4 DEF linkVars, ReviewInv, ReviewTypeOK, ApprovedAsStated
<1> QED BY <1>1, <1>2, <1>3, <1>4 DEF ReviewNext

LEMMA ReviewStart == ReviewInit => ReviewInv
<1> SUFFICES ASSUME ReviewInit PROVE ReviewInv
  OBVIOUS
<1>1. PICK i \in Identities : derived = <<[identity |-> i, links |-> {}]>>
  BY DEF ReviewInit
<1> DEFINE first == [identity |-> i, links |-> {}]
<1>2. first \in Derived /\ first.links = {}
  BY DEF Derived
<1>3. derived = <<first>> /\ chosen = 1 /\ approved = {}
  BY <1>1 DEF ReviewInit
<1> HIDE DEF first
<1>4. /\ derived \in Seq(Derived) /\ Len(derived) = 1 /\ DOMAIN derived = {1}
      /\ derived[1].links = {}
  BY <1>2, <1>3
<1> QED BY <1>3, <1>4, ReviewAssumption DEF ReviewInv, ReviewTypeOK, ApprovedAsStated

\* Corrections, copies and restorations keep the types of the stored links.
THEOREM ReviewTypeCorrect == ReviewSpec => []ReviewTypeOK
<1>1. ReviewInv => ReviewTypeOK
  BY DEF ReviewInv
<1> QED BY <1>1, ReviewStart, ReviewStep, PTL DEF ReviewSpec

\* A verified link rests on the word of the revision that its review names, given for
\* its identity and its proof, however _stage_revision carried it along.
THEOREM ReviewsAreGenuine == ReviewSpec => []ApprovedAsStated
<1>1. ReviewInv => ApprovedAsStated
  BY DEF ReviewInv
<1> QED BY <1>1, ReviewStart, ReviewStep, PTL DEF ReviewSpec

-----------------------------------------------------------------------------
(* SourceHistory: the invariant of its rows and of the writer's transaction. *)

RowsInv ==
    /\ \A r \in DOMAIN revisions :
         /\ r <= minted /\ revisions[r].number <= r
         /\ source[revisions[r].doc] \in {"live", "deleted"}
    /\ \A a \in activation :
         a.at <= sourceGen /\ a.rev \in DOMAIN revisions /\ revisions[a.rev].doc = a.doc

\* What the holder of the Project's row is about to write.
EditInv(e) ==
    edit[e].pc = "staged" =>
        /\ edit[e].at = sourceGen + 1
        /\ edit[e].activates => edit[e].at <= MaxGeneration
        /\ \/ edit[e].written = {} /\ edit[e].rev \in DOMAIN revisions
           \/ /\ edit[e].rev = minted /\ minted \notin DOMAIN revisions
              /\ \E w \in Revision :
                   /\ edit[e].written = {w} /\ w.number <= minted
                   /\ source[w.doc] \in {"absent", "live", "deleted"}

OneWriter ==
    \A e, f \in Editors : edit[e].pc = "staged" /\ edit[f].pc = "staged" => e = f

HistoryInv ==
    /\ HistoryTypeOK /\ RowsInv /\ OneWriter
    /\ \A e \in Editors : EditInv(e)

LEMMA RevisionFields ==
    ASSUME HistoryTypeOK, NEW r \in DOMAIN revisions
    PROVE  /\ revisions[r] \in Revision /\ r \in Ids /\ r \in Nat
           /\ revisions[r].doc \in Sources /\ revisions[r].group \in Ids
           /\ revisions[r].number \in Nat /\ revisions[r].links \subseteq Link
  BY HistoryAssumption DEF HistoryTypeOK, Revision, Ids

LEMMA EditFields ==
    ASSUME HistoryTypeOK, NEW e \in Editors, edit[e].pc = "staged"
    PROVE  /\ edit[e] \in [pc : {"staged"}, rev : Ids, written : SUBSET Revision,
                           activates : BOOLEAN, at : 1 .. MaxGeneration + 1,
                           clears : BOOLEAN]
           /\ edit[e].rev \in Ids /\ edit[e].at \in Nat /\ edit[e].activates \in BOOLEAN
  BY HistoryAssumption DEF HistoryTypeOK, Edit, Ids

LEMMA LeftType ==
    ASSUME HistoryTypeOK, RowsInv, NEW d, NEW g
    PROVE  Left(d, g) \subseteq Ids
<1>1. Current(d) \subseteq DOMAIN revisions
  BY DEF Current, Selected, UpTo, RowsInv
<1> QED BY <1>1, RevisionFields DEF Left

-----------------------------------------------------------------------------
\* One step of an editor leaves the others idle.
LEMMA Staged ==
    ASSUME HistoryInv, NEW e \in Editors, Locked(e), NEW entry \in Edit,
           edit' = [edit EXCEPT ![e] = entry]
    PROVE  /\ edit' \in [Editors -> Edit] /\ edit'[e] = entry
           /\ OneWriter'
           /\ \A f \in Editors : f # e => edit'[f].pc = "idle"
  BY DEF HistoryInv, HistoryTypeOK, Locked, OneWriter

LEMMA StageRevisionStep ==
    ASSUME HistoryInv, NEW e \in Editors, Locked(e), minted < MaxRevisions,
           NEW d \in Sources, NEW activates \in BOOLEAN, NEW links \in LinkChoices,
           NEW g \in {revisions[r].group : r \in DOMAIN revisions} \cup {minted + 1},
           NEW n \in 1 .. minted + 1,
           StageRevision(e, d, g, n, links, activates)
    PROVE  HistoryInv'
<1> DEFINE new == [doc |-> d, group |-> g, number |-> n, links |-> links]
           entry == [pc |-> "staged", rev |-> minted + 1, written |-> {new},
                     activates |-> activates, at |-> sourceGen + 1, clears |-> TRUE]
<1>1. HistoryTypeOK /\ RowsInv
  BY DEF HistoryInv
<1>2. /\ minted \in Nat /\ minted + 1 \in Ids /\ sourceGen \in Nat
      /\ sourceGen + 1 \in 1 .. MaxGeneration + 1
  BY <1>1, HistoryAssumption DEF HistoryTypeOK, Ids
<1>3. g \in Ids
  BY <1>1, <1>2, RevisionFields
<1>4. links \in SUBSET Link
  BY <1>1 DEF LinkChoices, Link, HistoryTypeOK
<1>5. n \in Ids /\ n \in Nat /\ n <= minted + 1
  BY <1>2, HistoryAssumption DEF Ids
<1>6. new \in Revision
  BY <1>3, <1>4, <1>5 DEF Revision
<1>7. entry \in Edit
  BY <1>2, <1>6 DEF Edit
<1>8. /\ edit' = [edit EXCEPT ![e] = entry] /\ minted' = minted + 1
      /\ UNCHANGED <<source, revisions, activation, sourceGen, thinned>>
      /\ source[d] \in {"absent", "live"}
      /\ activates => sourceGen < MaxGeneration
  BY DEF StageRevision
<1>9. new.doc = d /\ new.number = n
  OBVIOUS
<1>10. entry.pc = "staged" /\ entry.rev = minted + 1 /\ entry.written = {new}
       /\ entry.activates = activates /\ entry.at = sourceGen + 1
  OBVIOUS
<1> HIDE DEF new, entry
<1>11. /\ edit' \in [Editors -> Edit] /\ edit'[e] = entry /\ OneWriter'
       /\ \A f \in Editors : f # e => edit'[f].pc = "idle"
  BY <1>7, <1>8, Staged
<1>12. HistoryTypeOK'
  BY <1>1, <1>2, <1>8, <1>11, HistoryAssumption DEF HistoryTypeOK, Ids
<1>13. RowsInv'
  BY <1>1, <1>2, <1>8, RevisionFields DEF RowsInv
<1>14. EditInv(e)'
  <2>1. minted + 1 \notin DOMAIN revisions
    BY <1>1, <1>2, RevisionFields DEF RowsInv
  <2>2. entry.activates => entry.at <= MaxGeneration
    BY <1>2, <1>8, <1>10, HistoryAssumption
  <2> QED BY <1>5, <1>6, <1>8, <1>9, <1>10, <1>11, <2>1, <2>2 DEF EditInv
<1>15. \A f \in Editors : EditInv(f)'
  BY <1>11, <1>14 DEF EditInv
<1> QED BY <1>11, <1>12, <1>13, <1>15 DEF HistoryInv

LEMMA StageActivationStep ==
    ASSUME HistoryInv, NEW e \in Editors, Locked(e), NEW r \in DOMAIN revisions,
           StageActivation(e, r)
    PROVE  HistoryInv'
<1> DEFINE entry == [pc |-> "staged", rev |-> r, written |-> {}, activates |-> TRUE,
                     at |-> sourceGen + 1, clears |-> source[revisions[r].doc] = "live"]
<1>1. HistoryTypeOK /\ RowsInv
  BY DEF HistoryInv
<1>2. sourceGen \in Nat /\ sourceGen + 1 \in 1 .. MaxGeneration + 1 /\ r \in Ids
  BY <1>1, HistoryAssumption DEF HistoryTypeOK
<1>3. entry \in Edit
  BY <1>2 DEF Edit
<1>4. /\ edit' = [edit EXCEPT ![e] = entry] /\ sourceGen < MaxGeneration
      /\ UNCHANGED <<source, revisions, minted, activation, sourceGen, thinned>>
  BY DEF StageActivation
<1>5. entry.pc = "staged" /\ entry.rev = r /\ entry.written = {}
      /\ entry.at = sourceGen + 1
  OBVIOUS
<1> HIDE DEF entry
<1>6. /\ edit' \in [Editors -> Edit] /\ edit'[e] = entry /\ OneWriter'
      /\ \A f \in Editors : f # e => edit'[f].pc = "idle"
  BY <1>3, <1>4, Staged
<1>7. HistoryTypeOK' /\ RowsInv'
  BY <1>1, <1>4, <1>6 DEF HistoryTypeOK, RowsInv
<1>8. EditInv(e)'
  BY <1>2, <1>4, <1>5, <1>6, HistoryAssumption DEF EditInv
<1>9. \A f \in Editors : EditInv(f)'
  BY <1>6, <1>8 DEF EditInv
<1> QED BY <1>6, <1>7, <1>9 DEF HistoryInv

\* The editor that ends was the only one.
LEMMA Ended ==
    ASSUME HistoryInv, NEW e \in Editors, edit[e].pc = "staged",
           edit' = [edit EXCEPT ![e] = [pc |-> "idle"]]
    PROVE  /\ edit' \in [Editors -> Edit] /\ OneWriter'
           /\ \A f \in Editors : edit'[f].pc = "idle"
           /\ \A f \in Editors : EditInv(f)'
<1>1. /\ edit \in [Editors -> Edit] /\ OneWriter
      /\ \A f \in Editors : f # e => edit[f].pc = "idle"
  BY DEF HistoryInv, HistoryTypeOK, OneWriter, Edit
<1>2. [pc |-> "idle"] \in Edit
  BY DEF Edit
<1>3. edit' \in [Editors -> Edit] /\ \A f \in Editors : edit'[f].pc = "idle"
  BY <1>1, <1>2
<1> QED BY <1>3 DEF OneWriter, EditInv

LEMMA RollBackStep ==
    ASSUME HistoryInv, NEW e \in Editors, RollBackEdit(e)
    PROVE  HistoryInv'
<1>1. /\ HistoryTypeOK /\ RowsInv /\ EditInv(e) /\ edit[e].pc = "staged"
      /\ edit' = [edit EXCEPT ![e] = [pc |-> "idle"]]
      /\ UNCHANGED <<source, revisions, activation, sourceGen, thinned>>
      /\ minted' = IF edit[e].rev = minted /\ edit[e].written # {} THEN minted - 1
                                                                   ELSE minted
  BY DEF HistoryInv, RollBackEdit
<1>2. /\ edit' \in [Editors -> Edit] /\ OneWriter' /\ \A f \in Editors : EditInv(f)'
  BY <1>1, Ended
<1>3. /\ minted' \in 0 .. MaxRevisions
      /\ \A r \in DOMAIN revisions : r <= minted'
  <2>1. minted \in 0 .. MaxRevisions /\ MaxRevisions \in Nat /\ edit[e].rev \in 1 .. MaxRevisions
    BY <1>1, EditFields, HistoryAssumption DEF HistoryTypeOK, Ids
  <2>2. \A r \in DOMAIN revisions : r \in Nat /\ r <= minted
    BY <1>1, RevisionFields DEF RowsInv
  <2>3. CASE edit[e].rev = minted /\ edit[e].written # {}
    <3>1. minted \notin DOMAIN revisions
      BY <1>1, <2>3 DEF EditInv
    <3> QED BY <1>1, <2>1, <2>2, <2>3, <3>1
  <2> QED BY <1>1, <2>1, <2>2, <2>3
<1>4. HistoryTypeOK'
  BY <1>1, <1>2, <1>3 DEF HistoryTypeOK
<1>5. RowsInv'
  BY <1>1, <1>3 DEF RowsInv
<1> QED BY <1>2, <1>4, <1>5 DEF HistoryInv

\* What a commit writes: the revisions that were there, and the staged one.
LEMMA CommitEffect ==
    ASSUME HistoryInv, NEW e \in Editors, CommitEdit(e)
    PROVE  /\ edit[e].pc = "staged" /\ minted' = minted
           /\ edit' = [edit EXCEPT ![e] = [pc |-> "idle"]]
           /\ edit[e].rev \in Ids /\ edit[e].rev <= minted
           /\ DOMAIN revisions' = DOMAIN revisions \cup {edit[e].rev}
           /\ \A x \in DOMAIN revisions : revisions'[x] = revisions[x]
           /\ revisions'[edit[e].rev] \in Revision
           /\ revisions'[edit[e].rev].number <= minted
           /\ edit[e].rev \notin DOMAIN revisions => edit[e].rev = minted
           /\ source[revisions'[edit[e].rev].doc] \in {"absent", "live", "deleted"}
           /\ source' = [source EXCEPT ![revisions'[edit[e].rev].doc] =
                             IF @ = "absent" THEN "live" ELSE @]
           /\ IF edit[e].activates
                THEN /\ activation' = activation \cup
                          {[doc |-> revisions'[edit[e].rev].doc, rev |-> edit[e].rev,
                            at |-> edit[e].at]}
                     /\ sourceGen' = edit[e].at
                     /\ thinned' \subseteq Ids
                ELSE UNCHANGED <<activation, sourceGen, thinned>>
<1> DEFINE r == edit[e].rev
           new == CHOOSE w \in edit[e].written : TRUE
           revs == [x \in DOMAIN revisions \cup {r} |->
                      IF x \in DOMAIN revisions THEN revisions[x] ELSE new]
<1>1. /\ HistoryTypeOK /\ RowsInv /\ EditInv(e) /\ edit[e].pc = "staged"
      /\ minted \in Nat /\ r \in Ids /\ r \in Nat
  BY EditFields, HistoryAssumption DEF HistoryInv, CommitEdit, HistoryTypeOK, Ids
<1>2. /\ revisions' = revs
      /\ source' = [source EXCEPT ![revs[r].doc] = IF @ = "absent" THEN "live" ELSE @]
      /\ IF edit[e].activates
           THEN /\ activation' = activation \cup
                     {[doc |-> revs[r].doc, rev |-> r, at |-> edit[e].at]}
                /\ sourceGen' = edit[e].at
                /\ thinned' = Left(revs[r].doc, revs[r].group) \cup
                     (IF edit[e].clears THEN thinned \ {revs[r].group} ELSE thinned)
           ELSE UNCHANGED <<activation, sourceGen, thinned>>
      /\ edit' = [edit EXCEPT ![e] = [pc |-> "idle"]] /\ minted' = minted
  BY DEF CommitEdit
<1>3. thinned \subseteq Ids /\ Left(revs[r].doc, revs[r].group) \subseteq Ids
  BY <1>1, LeftType DEF HistoryTypeOK
<1>4. /\ r <= minted /\ revs[r] \in Revision /\ revs[r].number <= minted
      /\ r \notin DOMAIN revisions => r = minted
      /\ source[revs[r].doc] \in {"absent", "live", "deleted"}
  <2>1. CASE r \in DOMAIN revisions
    <3>1. /\ revs[r] = revisions[r] /\ revisions[r] \in Revision
          /\ revisions[r].number \in Nat
      BY <1>1, <2>1, RevisionFields
    <3>2. r <= minted /\ revisions[r].number <= r /\ source[revisions[r].doc] \in {"live", "deleted"}
      BY <1>1, <2>1 DEF RowsInv
    <3>3. revisions[r].number <= minted
      BY <1>1, <3>1, <3>2
    <3> HIDE DEF revs
    <3> QED BY <2>1, <3>1, <3>2, <3>3
  <2>2. CASE r \notin DOMAIN revisions
    <3>1. PICK w \in Revision :
             /\ edit[e].written = {w} /\ w.number <= minted
             /\ source[w.doc] \in {"absent", "live", "deleted"}
      BY <1>1, <2>2 DEF EditInv
    <3>2. new = w
      BY <3>1
    <3>3. revs[r] = w /\ r = minted
      BY <1>1, <2>2, <3>2 DEF EditInv
    <3> HIDE DEF revs
    <3> QED BY <1>1, <3>1, <3>3
  <2> QED BY <2>1, <2>2
<1>5. /\ DOMAIN revs = DOMAIN revisions \cup {r}
      /\ \A x \in DOMAIN revisions : revs[x] = revisions[x]
  OBVIOUS
<1> HIDE DEF revs, new
<1>6. edit[e].activates => thinned' \subseteq Ids
  BY <1>2, <1>3
<1> QED BY <1>1, <1>2, <1>4, <1>5, <1>6

LEMMA CommitStep ==
    ASSUME HistoryInv, NEW e \in Editors, CommitEdit(e)
    PROVE  HistoryInv'
<1> DEFINE r == edit[e].rev
           d == revisions'[r].doc
<1>1. /\ HistoryTypeOK /\ RowsInv /\ EditInv(e) /\ edit[e].pc = "staged"
      /\ minted \in Nat /\ sourceGen \in Nat
  BY HistoryAssumption DEF HistoryInv, HistoryTypeOK, CommitEdit
<1>2. /\ edit' = [edit EXCEPT ![e] = [pc |-> "idle"]] /\ minted' = minted
      /\ r \in Ids /\ r <= minted /\ (r \notin DOMAIN revisions => r = minted)
  BY CommitEffect
<1>3. /\ DOMAIN revisions' = DOMAIN revisions \cup {r}
      /\ \A x \in DOMAIN revisions : revisions'[x] = revisions[x]
      /\ revisions'[r] \in Revision /\ revisions'[r].number <= minted
  BY CommitEffect
<1>4. /\ source[d] \in {"absent", "live", "deleted"}
      /\ source' = [source EXCEPT ![d] = IF @ = "absent" THEN "live" ELSE @]
  BY CommitEffect
<1>5. IF edit[e].activates
        THEN /\ activation' = activation \cup {[doc |-> d, rev |-> r, at |-> edit[e].at]}
             /\ sourceGen' = edit[e].at /\ thinned' \subseteq Ids
        ELSE UNCHANGED <<activation, sourceGen, thinned>>
  BY CommitEffect
<1>6. d \in Sources
  BY <1>3 DEF Revision
<1> HIDE DEF r, d
<1>7. /\ edit' \in [Editors -> Edit] /\ OneWriter' /\ \A f \in Editors : EditInv(f)'
  BY <1>1, <1>2, Ended
<1>8. /\ source' \in [Sources -> {"absent", "live", "deleted", "purged"}]
      /\ \A x \in Sources : source[x] \in {"live", "deleted"} => source'[x] = source[x]
      /\ source'[d] \in {"live", "deleted"}
  BY <1>1, <1>4, <1>6 DEF HistoryTypeOK
<1>9. edit[e].at = sourceGen + 1 /\ (edit[e].activates => edit[e].at \in 1 .. MaxGeneration)
  BY <1>1, HistoryAssumption DEF EditInv
<1>10. activation' \subseteq Activation /\ sourceGen' \in 0 .. MaxGeneration
       /\ thinned' \subseteq Ids
  <2>1. CASE edit[e].activates
    <3>1. [doc |-> d, rev |-> r, at |-> edit[e].at] \in Activation
      BY <1>2, <1>6, <1>9, <2>1 DEF Activation
    <3> QED BY <1>1, <1>5, <1>9, <2>1, <3>1, HistoryAssumption DEF HistoryTypeOK
  <2>2. CASE ~edit[e].activates
    BY <1>1, <1>5, <2>2 DEF HistoryTypeOK
  <2> QED BY <2>1, <2>2
<1>11. \A x \in DOMAIN revisions' : revisions'[x] \in Revision /\ x \in Ids
  BY <1>1, <1>2, <1>3, RevisionFields
<1>12. HistoryTypeOK'
  BY <1>1, <1>2, <1>7, <1>8, <1>10, <1>11 DEF HistoryTypeOK
<1>13. ASSUME NEW x \in DOMAIN revisions'
       PROVE  /\ x <= minted' /\ revisions'[x].number <= x
              /\ source'[revisions'[x].doc] \in {"live", "deleted"}
  <2>1. CASE x \in DOMAIN revisions
    <3>1. /\ revisions'[x] = revisions[x] /\ revisions[x].doc \in Sources
          /\ x <= minted /\ revisions[x].number <= x
          /\ source[revisions[x].doc] \in {"live", "deleted"}
      BY <1>1, <1>3, <2>1, RevisionFields DEF RowsInv
    <3> QED BY <1>2, <1>8, <3>1
  <2>2. CASE x \notin DOMAIN revisions
    <3>1. x = r /\ x = minted
      BY <1>2, <1>3, <2>2
    <3>2. revisions'[x].doc = d
      BY <3>1 DEF d, r
    <3> QED BY <1>1, <1>2, <1>3, <1>8, <3>1, <3>2
  <2> QED BY <2>1, <2>2
<1>14. ASSUME NEW a \in activation'
       PROVE  a.at <= sourceGen' /\ a.rev \in DOMAIN revisions'
              /\ revisions'[a.rev].doc = a.doc
  <2>1. CASE a \in activation
    <3>1. a.at <= sourceGen /\ a.rev \in DOMAIN revisions /\ revisions[a.rev].doc = a.doc
      BY <1>1, <2>1 DEF RowsInv
    <3>2. a.at \in Nat
      BY <1>1, <2>1, HistoryAssumption DEF HistoryTypeOK, Activation
    <3>3. sourceGen <= sourceGen' /\ sourceGen' \in Nat
      BY <1>1, <1>5, <1>9
    <3> QED BY <1>1, <1>3, <3>1, <3>2, <3>3
  <2>2. CASE a \notin activation
    <3>1. a = [doc |-> d, rev |-> r, at |-> edit[e].at] /\ sourceGen' = edit[e].at
      BY <1>5, <2>2
    <3>2. a.at = sourceGen' /\ a.rev = r /\ a.doc = d
      BY <3>1
    <3>3. revisions'[r].doc = d
      BY DEF d, r
    <3> QED BY <1>1, <1>3, <1>9, <3>1, <3>2, <3>3
  <2> QED BY <2>1, <2>2
<1>15. RowsInv'
  BY <1>13, <1>14 DEF RowsInv
<1> QED BY <1>7, <1>12, <1>15 DEF HistoryInv

-----------------------------------------------------------------------------
(* Removals: the editors only learn that their check is overtaken.           *)

LEMMA OvertakenEdits ==
    ASSUME HistoryInv, edit' = Overtaken
    PROVE  /\ edit' \in [Editors -> Edit] /\ OneWriter'
           /\ \A e \in Editors :
                /\ edit'[e].pc = edit[e].pc
                /\ edit[e].pc = "staged" =>
                     /\ edit'[e].at = edit[e].at /\ edit'[e].rev = edit[e].rev
                     /\ edit'[e].written = edit[e].written
                     /\ edit'[e].activates = edit[e].activates
<1>1. HistoryTypeOK
  BY DEF HistoryInv
<1>2. ASSUME NEW e \in Editors
      PROVE  /\ edit'[e] \in Edit /\ edit'[e].pc = edit[e].pc
             /\ edit[e].pc = "staged" =>
                  /\ edit'[e].at = edit[e].at /\ edit'[e].rev = edit[e].rev
                  /\ edit'[e].written = edit[e].written
                  /\ edit'[e].activates = edit[e].activates
  <2>1. edit[e] \in Edit
    BY <1>1 DEF HistoryTypeOK
  <2>2. edit'[e] = IF edit[e].pc = "staged" THEN [edit[e] EXCEPT !.clears = FALSE] ELSE edit[e]
    BY DEF Overtaken
  <2>3. CASE edit[e].pc = "staged"
    BY <1>1, <2>2, <2>3, EditFields DEF Edit
  <2>4. CASE edit[e].pc # "staged"
    BY <2>1, <2>2, <2>4
  <2> QED BY <2>3, <2>4
<1>3. edit' \in [Editors -> Edit]
  BY <1>2 DEF Overtaken
<1> QED BY <1>2, <1>3 DEF OneWriter, HistoryInv

LEMMA DeleteStep ==
    ASSUME HistoryInv, NEW d \in Sources, DeleteDocument(d)
    PROVE  HistoryInv'
<1>1. /\ HistoryTypeOK /\ RowsInv
      /\ source[d] = "live" /\ source' = [source EXCEPT ![d] = "deleted"]
      /\ thinned' = thinned \cup Left(d, 0) /\ edit' = Overtaken
      /\ UNCHANGED <<revisions, minted, activation, sourceGen>>
  BY DEF HistoryInv, DeleteDocument
<1>2. /\ edit' \in [Editors -> Edit] /\ OneWriter'
  BY <1>1, OvertakenEdits
<1>3. HistoryTypeOK'
  BY <1>1, <1>2, LeftType DEF HistoryTypeOK
<1>4. /\ \A x \in Sources : source[x] \in {"live", "deleted"} => source'[x] \in {"live", "deleted"}
      /\ \A x \in Sources : source[x] = "absent" => source'[x] = "absent"
  BY <1>1 DEF HistoryTypeOK
<1>5. RowsInv'
  BY <1>1, <1>4, RevisionFields DEF RowsInv
<1>6. ASSUME NEW e \in Editors PROVE EditInv(e)'
  <2>1. EditInv(e)
    BY DEF HistoryInv
  <2>2. \A w \in Revision : source[w.doc] \in {"absent", "live", "deleted"}
                               => source'[w.doc] \in {"absent", "live", "deleted"}
    BY <1>4 DEF Revision
  <2> QED BY <1>1, <2>1, <2>2, OvertakenEdits DEF EditInv
<1> QED BY <1>2, <1>3, <1>5, <1>6 DEF HistoryInv

\* A purge keeps the documents, groups and numbers of the other revisions.
LEMMA PurgeEffect ==
    ASSUME HistoryInv, NEW d \in Sources, PurgeDocument(d)
    PROVE  /\ DOMAIN revisions' = {r \in DOMAIN revisions : revisions[r].doc # d}
           /\ \A r \in DOMAIN revisions' :
                /\ revisions'[r] \in Revision
                /\ revisions'[r].doc = revisions[r].doc
                /\ revisions'[r].group = revisions[r].group
                /\ revisions'[r].number = revisions[r].number
           /\ activation' = {a \in activation : a.doc # d}
           /\ source' = [source EXCEPT ![d] = "purged"]
           /\ edit' = Overtaken /\ UNCHANGED <<minted, sourceGen>>
           /\ thinned' \subseteq Ids
<1> DEFINE kept == {r \in DOMAIN revisions : revisions[r].doc # d}
<1>1. HistoryTypeOK /\ RowsInv
  BY DEF HistoryInv
<1>2. /\ revisions' = [r \in kept |->
              [revisions[r] EXCEPT !.links = {l \in @ : l.to \in kept}]]
      /\ activation' = {a \in activation : a.doc # d}
      /\ source' = [source EXCEPT ![d] = "purged"]
      /\ edit' = Overtaken /\ UNCHANGED <<minted, sourceGen>>
      /\ thinned' = thinned \cup (IF source[d] = "live" THEN Left(d, 0) ELSE {})
  BY DEF PurgeDocument
<1>3. ASSUME NEW r \in kept
      PROVE  /\ revisions'[r] \in Revision
             /\ revisions'[r].doc = revisions[r].doc
             /\ revisions'[r].group = revisions[r].group
             /\ revisions'[r].number = revisions[r].number
  <2>1. revisions[r] \in Revision
    BY <1>1, RevisionFields
  <2>2. revisions'[r] = [revisions[r] EXCEPT !.links = {l \in revisions[r].links : l.to \in kept}]
    BY <1>2
  <2> HIDE DEF kept
  <2> QED BY <2>1, <2>2 DEF Revision
<1>4. thinned' \subseteq Ids
  BY <1>1, <1>2, LeftType DEF HistoryTypeOK
<1> QED BY <1>2, <1>3, <1>4

LEMMA PurgeStep ==
    ASSUME HistoryInv, NEW d \in Sources, PurgeDocument(d)
    PROVE  HistoryInv'
<1>1. HistoryTypeOK /\ RowsInv /\ \A e \in Editors : ~Refers(e, d)
  BY DEF HistoryInv, PurgeDocument
<1>2. edit' \in [Editors -> Edit] /\ OneWriter'
  BY PurgeEffect, OvertakenEdits
<1>3. HistoryTypeOK'
  BY <1>1, <1>2, PurgeEffect, RevisionFields DEF HistoryTypeOK
<1>4. \A x \in Sources : x # d => source'[x] = source[x]
  BY <1>1, PurgeEffect DEF HistoryTypeOK
<1>5. ASSUME NEW r \in DOMAIN revisions'
      PROVE  /\ r <= minted' /\ revisions'[r].number <= r
             /\ source'[revisions'[r].doc] \in {"live", "deleted"}
  <2>1. /\ r \in DOMAIN revisions /\ revisions[r].doc # d /\ minted' = minted
        /\ revisions'[r].doc = revisions[r].doc
        /\ revisions'[r].number = revisions[r].number
    BY PurgeEffect
  <2>2. /\ r <= minted /\ revisions[r].number <= r /\ revisions[r].doc \in Sources
        /\ source[revisions[r].doc] \in {"live", "deleted"}
    BY <1>1, <2>1, RevisionFields DEF RowsInv
  <2> QED BY <1>4, <2>1, <2>2
<1>6. ASSUME NEW a \in activation'
      PROVE  a.at <= sourceGen' /\ a.rev \in DOMAIN revisions'
             /\ revisions'[a.rev].doc = a.doc
  <2>1. a \in activation /\ a.doc # d /\ sourceGen' = sourceGen
    BY PurgeEffect
  <2>2. a.at <= sourceGen /\ a.rev \in DOMAIN revisions /\ revisions[a.rev].doc = a.doc
    BY <1>1, <2>1 DEF RowsInv
  <2>3. a.rev \in DOMAIN revisions'
    BY <2>1, <2>2, PurgeEffect
  <2>4. revisions'[a.rev].doc = revisions[a.rev].doc
    BY <2>3, PurgeEffect
  <2> QED BY <2>1, <2>2, <2>3, <2>4
<1>7. ASSUME NEW e \in Editors, edit[e].pc = "staged" PROVE EditInv(e)'
  <2>1. EditInv(e) /\ ~Refers(e, d)
    BY <1>1 DEF HistoryInv
  <2>2. /\ edit'[e].at = edit[e].at /\ edit'[e].rev = edit[e].rev
        /\ edit'[e].written = edit[e].written
        /\ edit'[e].activates = edit[e].activates
    BY <1>7, PurgeEffect, OvertakenEdits
  <2>3. edit'[e].at = sourceGen' + 1
        /\ (edit'[e].activates => edit'[e].at <= MaxGeneration)
    BY <1>7, <2>1, <2>2, PurgeEffect DEF EditInv
  <2>4. CASE edit[e].written = {} /\ edit[e].rev \in DOMAIN revisions
    <3>1. edit[e].rev \in DOMAIN revisions'
      BY <1>7, <2>1, <2>4, PurgeEffect DEF Refers
    <3> QED BY <2>2, <2>3, <2>4, <3>1 DEF EditInv
  <2>5. CASE /\ edit[e].rev = minted /\ minted \notin DOMAIN revisions
             /\ \E w \in Revision :
                  /\ edit[e].written = {w} /\ w.number <= minted
                  /\ source[w.doc] \in {"absent", "live", "deleted"}
    <3>1. PICK w \in Revision :
             /\ edit[e].written = {w} /\ w.number <= minted
             /\ source[w.doc] \in {"absent", "live", "deleted"}
      BY <2>5
    <3>2. w.doc # d /\ w.doc \in Sources
      BY <1>7, <2>1, <3>1 DEF Refers, Revision
    <3>3. source'[w.doc] = source[w.doc]
      BY <1>4, <3>2
    <3>4. minted \notin DOMAIN revisions' /\ minted' = minted
      BY <2>5, PurgeEffect
    <3> QED BY <2>2, <2>3, <2>5, <3>1, <3>3, <3>4 DEF EditInv
  <2> QED BY <1>7, <2>1, <2>4, <2>5 DEF EditInv
<1>8. \A e \in Editors : EditInv(e)'
  <2>1. \A e \in Editors : edit'[e].pc = edit[e].pc
    BY PurgeEffect, OvertakenEdits
  <2> QED BY <1>7, <2>1 DEF EditInv
<1> QED BY <1>2, <1>3, <1>5, <1>6, <1>8 DEF HistoryInv, RowsInv

-----------------------------------------------------------------------------
LEMMA HistoryStart == HistoryInit => HistoryInv
<1> SUFFICES ASSUME HistoryInit PROVE HistoryInv
  OBVIOUS
<1>1. /\ source = [d \in Sources |-> "absent"] /\ DOMAIN revisions = {}
      /\ minted = 0 /\ activation = {} /\ sourceGen = 0 /\ thinned = {}
      /\ edit = [e \in Editors |-> [pc |-> "idle"]]
  BY DEF HistoryInit
<1>2. [pc |-> "idle"] \in Edit
  BY DEF Edit
<1>3. edit \in [Editors -> Edit] /\ \A e \in Editors : edit[e].pc = "idle"
  BY <1>1, <1>2
<1>4. HistoryTypeOK
  BY <1>1, <1>3, HistoryAssumption DEF HistoryTypeOK
<1> QED BY <1>1, <1>3, <1>4 DEF HistoryInv, RowsInv, OneWriter, EditInv

LEMMA StageStep ==
    ASSUME HistoryInv, NEW e \in Editors, StageEdit(e)
    PROVE  HistoryInv'
<1>1. Locked(e)
  BY DEF StageEdit
<1>2. CASE \E r \in DOMAIN revisions : StageActivation(e, r)
  BY <1>1, <1>2, StageActivationStep
<1>3. CASE /\ minted < MaxRevisions
           /\ \E d \in Sources, activates \in BOOLEAN, links \in LinkChoices,
                 g \in {revisions[r].group : r \in DOMAIN revisions} \cup {minted + 1} :
                \E n \in 1 .. minted + 1 : StageRevision(e, d, g, n, links, activates)
  BY <1>1, <1>3, StageRevisionStep
<1> QED BY <1>2, <1>3 DEF StageEdit

LEMMA HistoryStep == HistoryInv /\ [HistoryNext]_historyVars => HistoryInv'
<1> SUFFICES ASSUME HistoryInv, [HistoryNext]_historyVars PROVE HistoryInv'
  OBVIOUS
<1>1. ASSUME NEW e \in Editors, StageEdit(e) PROVE HistoryInv'
  BY <1>1, StageStep
<1>2. ASSUME NEW e \in Editors, CommitEdit(e) PROVE HistoryInv'
  BY <1>2, CommitStep
<1>3. ASSUME NEW e \in Editors, RollBackEdit(e) PROVE HistoryInv'
  BY <1>3, RollBackStep
<1>4. ASSUME NEW d \in Sources, DeleteDocument(d) PROVE HistoryInv'
  BY <1>4, DeleteStep
<1>5. ASSUME NEW d \in Sources, PurgeDocument(d) PROVE HistoryInv'
  BY <1>5, PurgeStep
<1>6. CASE UNCHANGED historyVars
  BY <1>6 DEF historyVars, HistoryInv, HistoryTypeOK, RowsInv, OneWriter, EditInv
<1> QED BY <1>1, <1>2, <1>3, <1>4, <1>5, <1>6 DEF HistoryNext

\* HistoryTypeOK: the types of revisions, activations and staged edits.
THEOREM HistoryTypeCorrect == HistorySpec => []HistoryTypeOK
<1>1. HistoryInv => HistoryTypeOK
  BY DEF HistoryInv
<1> QED BY <1>1, HistoryStart, HistoryStep, PTL DEF HistorySpec

-----------------------------------------------------------------------------
(* What a reader captured.                                                  *)

\* The activations up to g lose those of purged documents, and the rows that are
\* left keep their groups and numbers.
LEMMA SameCapture ==
    ASSUME NEW g,
           UpTo(g)' = {a \in UpTo(g) : source'[a.doc] # "purged"},
           \A a \in UpTo(g)' : /\ revisions'[a.rev].group = revisions[a.rev].group
                              /\ revisions'[a.rev].number = revisions[a.rev].number
    PROVE  Pinned(g)' = {p \in Pinned(g) : source'[p[1]] # "purged"}
<1>1. Selected(g)' = {a \in Selected(g) : source'[a.doc] # "purged"}
  BY DEF Selected
<1>2. \A a \in Selected(g)' : /\ revisions'[a.rev].group = revisions[a.rev].group
                             /\ revisions'[a.rev].number = revisions[a.rev].number
  BY DEF Selected
<1>3. Pinned(g)' =
         {<<a.doc, a.rev, revisions'[a.rev].group, revisions'[a.rev].number>> :
          a \in Selected(g)'}
  BY DEF Pinned
<1> QED BY <1>1, <1>2, <1>3 DEF Pinned

\* Activations select revisions of documents that are not purged.
LEMMA NonePurged ==
    ASSUME HistoryInv, NEW a \in activation
    PROVE  source[a.doc] \in {"live", "deleted"} /\ a.doc \in Sources
<1>1. a.rev \in DOMAIN revisions /\ revisions[a.rev].doc = a.doc
  BY DEF HistoryInv, RowsInv
<1> QED BY <1>1, RevisionFields DEF HistoryInv, RowsInv

LEMMA QuietCapture ==
    ASSUME HistoryInv, NEW g, UNCHANGED <<revisions, activation>>,
           \A d \in Sources : source[d] \in {"live", "deleted"} => source'[d] # "purged"
    PROVE  Pinned(g)' = {p \in Pinned(g) : source'[p[1]] # "purged"}
<1>1. UpTo(g)' = {a \in UpTo(g) : source'[a.doc] # "purged"}
  BY NonePurged DEF UpTo
<1> QED BY <1>1, SameCapture

\* A commit adds an activation after every generation that was captured.
LEMMA CommitCapture ==
    ASSUME HistoryInv, NEW g \in 0 .. sourceGen, NEW e \in Editors, CommitEdit(e)
    PROVE  Pinned(g)' = {p \in Pinned(g) : source'[p[1]] # "purged"}
<1>1. /\ HistoryTypeOK /\ RowsInv /\ EditInv(e) /\ edit[e].pc = "staged"
      /\ sourceGen \in Nat /\ g \in Nat /\ g <= sourceGen
  BY HistoryAssumption DEF HistoryInv, HistoryTypeOK, CommitEdit
<1>2. edit[e].at = sourceGen + 1
  BY <1>1 DEF EditInv
<1>3. ASSUME NEW a \in activation', a \notin activation
      PROVE  a.at = edit[e].at
  <2>1. CASE edit[e].activates
    <3>1. activation' = activation \cup
             {[doc |-> revisions'[edit[e].rev].doc, rev |-> edit[e].rev, at |-> edit[e].at]}
      BY <2>1, CommitEffect
    <3> QED BY <1>3, <3>1
  <2>2. CASE ~edit[e].activates
    <3>1. activation' = activation
      BY <2>2, CommitEffect
    <3> QED BY <1>3, <3>1
  <2> QED BY <2>1, <2>2
<1>4. activation \subseteq activation'
  BY CommitEffect
<1>5. UpTo(g)' = UpTo(g)
  BY <1>1, <1>2, <1>3, <1>4 DEF UpTo
<1>6. \A d \in Sources : source[d] \in {"live", "deleted"} => source'[d] # "purged"
  BY <1>1, CommitEffect DEF HistoryTypeOK
<1>7. UpTo(g)' = {a \in UpTo(g) : source'[a.doc] # "purged"}
  BY <1>5, <1>6, NonePurged DEF UpTo
<1>8. \A a \in UpTo(g) : revisions'[a.rev] = revisions[a.rev]
  BY <1>1, CommitEffect DEF UpTo, RowsInv
<1> QED BY <1>5, <1>7, <1>8, SameCapture

LEMMA PurgeCapture ==
    ASSUME HistoryInv, NEW g, NEW d \in Sources, PurgeDocument(d)
    PROVE  Pinned(g)' = {p \in Pinned(g) : source'[p[1]] # "purged"}
<1>1. /\ DOMAIN revisions' = {r \in DOMAIN revisions : revisions[r].doc # d}
      /\ activation' = {a \in activation : a.doc # d}
      /\ source' = [source EXCEPT ![d] = "purged"]
  BY PurgeEffect
<1>2. \A a \in activation : source'[a.doc] = "purged" <=> a.doc = d
  BY <1>1, NonePurged DEF HistoryInv, HistoryTypeOK
<1>3. UpTo(g)' = {a \in UpTo(g) : source'[a.doc] # "purged"}
  BY <1>1, <1>2 DEF UpTo
<1>4. \A a \in UpTo(g)' : a.rev \in DOMAIN revisions'
  BY <1>1 DEF UpTo, HistoryInv, RowsInv
<1>5. \A a \in UpTo(g)' : /\ revisions'[a.rev].group = revisions[a.rev].group
                         /\ revisions'[a.rev].number = revisions[a.rev].number
  BY <1>4, PurgeEffect
<1> QED BY <1>3, <1>5, SameCapture

\* CaptureStable: what a reader captured at a generation stays what it was, but for
\* the rows of documents that are purged.
THEOREM CapturesStay == HistorySpec => CaptureStable
<1> DEFINE Stays == \A g \in 0 .. sourceGen :
                       Pinned(g)' = {p \in Pinned(g) : source'[p[1]] # "purged"}
<1>1. ASSUME HistoryInv, HistoryNext PROVE Stays
  <2> SUFFICES ASSUME NEW g \in 0 .. sourceGen
               PROVE  Pinned(g)' = {p \in Pinned(g) : source'[p[1]] # "purged"}
    OBVIOUS
  <2>1. ASSUME NEW e \in Editors, StageEdit(e)
        PROVE  UNCHANGED <<source, revisions, activation>>
    BY <2>1 DEF StageEdit, StageRevision, StageActivation
  <2>2. ASSUME NEW e \in Editors, RollBackEdit(e)
        PROVE  UNCHANGED <<source, revisions, activation>>
    BY <2>2 DEF RollBackEdit
  <2>3. ASSUME NEW d \in Sources, DeleteDocument(d)
        PROVE  /\ UNCHANGED <<revisions, activation>>
               /\ \A x \in Sources : source[x] \in {"live", "deleted"} => source'[x] # "purged"
    BY <1>1, <2>3 DEF DeleteDocument, HistoryInv, HistoryTypeOK
  <2>4. CASE UNCHANGED <<source, revisions, activation>>
    <3>1. \A x \in Sources : source[x] \in {"live", "deleted"} => source'[x] # "purged"
      BY <2>4
    <3> QED BY <1>1, <2>4, <3>1, QuietCapture
  <2>5. ASSUME NEW d \in Sources, DeleteDocument(d)
        PROVE  Pinned(g)' = {p \in Pinned(g) : source'[p[1]] # "purged"}
    BY <1>1, <2>3, <2>5, QuietCapture
  <2> QED
    BY <1>1, <2>1, <2>2, <2>4, <2>5, CommitCapture, PurgeCapture DEF HistoryNext
<1>2. HistoryInv /\ [HistoryNext]_historyVars => [Stays]_historyVars
  BY <1>1
<1> QED BY <1>2, HistoryStart, HistoryStep, PTL DEF HistorySpec, CaptureStable

-----------------------------------------------------------------------------
(* No cycle of modifications shows.                                         *)

\* A set that holds what a group reaches and not the group shows that it is on no cycle.
Avoids(edges, g, reached) ==
    /\ reached \subseteq Ids /\ g \notin reached
    /\ \A e \in edges : e[1] \in reached \cup {g} => e[2] \in reached

LEMMA Avoiding ==
    ASSUME NEW edges, NEW g
    PROVE  ~OnCycle(edges, g) <=> \E reached \in SUBSET Ids : Avoids(edges, g, reached)
  BY DEF OnCycle, Avoids

LEMMA FewerEdges ==
    ASSUME NEW edges, NEW fewer \in SUBSET edges, NEW g, ~OnCycle(edges, g)
    PROVE  ~OnCycle(fewer, g)
  BY DEF OnCycle

\* Edges from a single group may change, when that group is on no cycle afterwards:
\* no other group comes to be on one.
LEMMA OneGroupChanged ==
    ASSUME NEW before, NEW after, NEW g \in Ids, NEW x,
           \A e \in after : e[1] # g => e \in before,
           ~OnCycle(after, g), ~OnCycle(before, x), x # g
    PROVE  ~OnCycle(after, x)
<1>1. PICK P \in SUBSET Ids : Avoids(after, g, P)
  BY Avoiding
<1>2. PICK A \in SUBSET Ids : Avoids(before, x, A)
  BY Avoiding
<1>3. CASE x \in P
  <2>1. Avoids(after, x, A \cap P)
    BY <1>1, <1>2, <1>3 DEF Avoids
  <2> QED BY <2>1, Avoiding
<1>4. CASE x \notin P
  <2>1. Avoids(after, x, A \cup P \cup {g})
    BY <1>1, <1>2, <1>4 DEF Avoids
  <2>2. A \cup P \cup {g} \in SUBSET Ids
    BY <1>1, <1>2
  <2> QED BY <2>1, <2>2, Avoiding
<1> QED BY <1>3, <1>4

-----------------------------------------------------------------------------
(* The edges of a group depend on the revisions selected in it.             *)

\* A document has one selected revision, and replaces revisions of its group.
Whole(revs, choice) ==
    /\ \A c, s \in choice : revs[c].doc = revs[s].doc => c = s
    /\ \A s \in choice : \A t \in Linked(revs, s, "replaces") : t.group = revs[s].group

IsReplaced(revs, choice, c) ==
    \E s \in choice :
        /\ revs[s].doc # revs[c].doc
        /\ \E t \in Linked(revs, s, "replaces") :
             t.doc = revs[c].doc /\ t.group = revs[c].group

LEMMA SpeakingFor ==
    ASSUME NEW revs, NEW choice, Whole(revs, choice)
    PROVE  \A r : r \in Speaking(revs, choice) <=>
             /\ r \in choice /\ ~IsReplaced(revs, choice, r)
             /\ \A s \in choice :
                  ~IsReplaced(revs, choice, s) /\ revs[s].group = revs[r].group
                      => revs[s].number <= revs[r].number
<1>1. \A r \in choice :
         revs[r].doc \in ReplacedBy(revs, choice) <=> IsReplaced(revs, choice, r)
  <2> TAKE r \in choice
  <2>1. ASSUME NEW c \in choice, revs[c].doc = revs[r].doc PROVE c = r
    BY <2>1 DEF Whole
  <2> QED BY <2>1 DEF ReplacedBy, IsReplaced
<1> QED BY <1>1 DEF Speaking

\* For group g, the second graph selects the same revisions as the first; their links
\* are among the first's, and those to documents of the group are all there.
SameIn(g, revs, choice, revs2, choice2) ==
    /\ \A c : c \in choice2 /\ revs2[c].group = g <=> c \in choice /\ revs[c].group = g
    /\ \A c \in choice : revs[c].group = g =>
         /\ revs2[c].doc = revs[c].doc /\ revs2[c].number = revs[c].number
         /\ \A k \in {"modifies", "replaces"} : \A t2 \in Linked(revs2, c, k) :
              \E t \in Linked(revs, c, k) : t.doc = t2.doc /\ t.group = t2.group
         /\ \A x \in choice : \A t \in Linked(revs, c, "replaces") :
              revs[x].group = g /\ t.doc = revs[x].doc
                => \E t2 \in Linked(revs2, c, "replaces") :
                     t2.doc = t.doc /\ t2.group = t.group

LEMMA SameReplaced ==
    ASSUME NEW revs, NEW choice, NEW revs2, NEW choice2, NEW g,
           Whole(revs, choice), Whole(revs2, choice2),
           SameIn(g, revs, choice, revs2, choice2),
           NEW c \in choice, revs[c].group = g
    PROVE  IsReplaced(revs2, choice2, c) <=> IsReplaced(revs, choice, c)
<1>1. c \in choice2 /\ revs2[c].group = g /\ revs2[c].doc = revs[c].doc
  BY DEF SameIn
<1>2. ASSUME IsReplaced(revs, choice, c) PROVE IsReplaced(revs2, choice2, c)
  <2>0. PICK s \in choice :
           /\ revs[s].doc # revs[c].doc
           /\ \E t \in Linked(revs, s, "replaces") :
                t.doc = revs[c].doc /\ t.group = revs[c].group
    BY <1>2 DEF IsReplaced
  <2>1. PICK t \in Linked(revs, s, "replaces") :
           t.doc = revs[c].doc /\ t.group = revs[c].group
    BY <2>0
  <2>2. revs[s].group = g
    BY <2>1 DEF Whole
  <2>3. s \in choice2 /\ revs2[s].doc = revs[s].doc
    BY <2>2 DEF SameIn
  <2>4. PICK t2 \in Linked(revs2, s, "replaces") : t2.doc = t.doc /\ t2.group = t.group
    BY <2>1, <2>2 DEF SameIn
  <2> QED BY <1>1, <2>0, <2>1, <2>3, <2>4 DEF IsReplaced
<1>3. ASSUME IsReplaced(revs2, choice2, c) PROVE IsReplaced(revs, choice, c)
  <2>0. PICK s \in choice2 :
           /\ revs2[s].doc # revs2[c].doc
           /\ \E t \in Linked(revs2, s, "replaces") :
                t.doc = revs2[c].doc /\ t.group = revs2[c].group
    BY <1>3 DEF IsReplaced
  <2>1. PICK t \in Linked(revs2, s, "replaces") :
           t.doc = revs2[c].doc /\ t.group = revs2[c].group
    BY <2>0
  <2>2. revs2[s].group = g
    BY <1>1, <2>1 DEF Whole
  <2>3. s \in choice /\ revs[s].group = g /\ revs2[s].doc = revs[s].doc
    BY <2>2 DEF SameIn
  <2>4. PICK t1 \in Linked(revs, s, "replaces") : t1.doc = t.doc /\ t1.group = t.group
    BY <2>3 DEF SameIn
  <2> QED BY <1>1, <2>0, <2>1, <2>3, <2>4 DEF IsReplaced
<1> QED BY <1>2, <1>3

LEMMA SameEdges ==
    ASSUME NEW revs, NEW choice, NEW revs2, NEW choice2, NEW g,
           Whole(revs, choice), Whole(revs2, choice2),
           SameIn(g, revs, choice, revs2, choice2),
           NEW e \in Modifies(revs2, choice2), e[1] = g
    PROVE  e \in Modifies(revs, choice)
<1>0. PICK r \in Speaking(revs2, choice2) :
         \E t \in Linked(revs2, r, "modifies") : e = <<revs2[r].group, t.group>>
  BY DEF Modifies
<1>1. PICK t2 \in Linked(revs2, r, "modifies") : e = <<revs2[r].group, t2.group>>
  BY <1>0
<1>2. /\ r \in choice2 /\ ~IsReplaced(revs2, choice2, r) /\ revs2[r].group = g
      /\ \A s \in choice2 : ~IsReplaced(revs2, choice2, s) /\ revs2[s].group = g
                              => revs2[s].number <= revs2[r].number
  BY <1>1, SpeakingFor
<1>3. r \in choice /\ revs[r].group = g /\ revs2[r].number = revs[r].number
  BY <1>2 DEF SameIn
<1>4. ~IsReplaced(revs, choice, r)
  BY <1>2, <1>3, SameReplaced
<1>5. ASSUME NEW s \in choice, ~IsReplaced(revs, choice, s), revs[s].group = g
      PROVE  revs[s].number <= revs[r].number
  <2>1. ~IsReplaced(revs2, choice2, s)
    BY <1>5, SameReplaced
  <2>2. s \in choice2 /\ revs2[s].group = g /\ revs2[s].number = revs[s].number
    BY <1>5 DEF SameIn
  <2> QED BY <1>2, <1>3, <2>1, <2>2
<1>6. r \in Speaking(revs, choice)
  BY <1>3, <1>4, <1>5, SpeakingFor
<1>7. PICK t \in Linked(revs, r, "modifies") : t.group = t2.group
  BY <1>3 DEF SameIn
<1> QED BY <1>1, <1>3, <1>6, <1>7, <1>2 DEF Modifies

Unthinned(revs, choice, t) == {e \in Modifies(revs, choice) : e[1] \notin t}

LEMMA StaysAcyclic ==
    ASSUME NEW revs, NEW choice, NEW revs2, NEW choice2, NEW t, NEW t2, NEW x,
           Whole(revs, choice), Whole(revs2, choice2), t \subseteq t2,
           \A g \in Ids \ t2 : SameIn(g, revs, choice, revs2, choice2),
           \A e \in Modifies(revs2, choice2) : e[1] \in Ids,
           ~OnCycle(Unthinned(revs, choice, t), x)
    PROVE  ~OnCycle(Unthinned(revs2, choice2, t2), x)
<1>1. ASSUME NEW e \in Unthinned(revs2, choice2, t2)
      PROVE  e \in Unthinned(revs, choice, t)
  <2>1. e \in Modifies(revs2, choice2) /\ e[1] \in Ids \ t2
    BY DEF Unthinned
  <2>2. e \in Modifies(revs, choice)
    BY <2>1, SameEdges
  <2> QED BY <2>1, <2>2 DEF Unthinned
<1> QED BY <1>1, FewerEdges

LEMMA EdgeSources ==
    ASSUME NEW revs, NEW choice, \A c \in choice : revs[c].group \in Ids
    PROVE  \A e \in Modifies(revs, choice) : e[1] \in Ids
<1>1. Speaking(revs, choice) \subseteq choice
  BY DEF Speaking
<1> SUFFICES ASSUME NEW e \in Modifies(revs, choice) PROVE e[1] \in Ids
  OBVIOUS
<1>2. PICK r \in Speaking(revs, choice) :
         \E t \in Linked(revs, r, "modifies") : e = <<revs[r].group, t.group>>
  BY DEF Modifies
<1> QED BY <1>1, <1>2

\* Only rows of d, and links to them, are gone.
Trims(revs, revs2, d) ==
    /\ DOMAIN revs2 \subseteq DOMAIN revs
    /\ \A r \in DOMAIN revs2 :
         /\ revs2[r].doc = revs[r].doc /\ revs2[r].group = revs[r].group
         /\ revs2[r].number = revs[r].number
         /\ revs2[r].links \subseteq revs[r].links
         /\ \A l \in revs[r].links : l.to \in DOMAIN revs /\ revs[l.to].doc # d
              => l \in revs2[r].links /\ l.to \in DOMAIN revs2

\* A document leaves the choice, its rows too perhaps: nothing changes for the groups
\* it was not selected in.
LEMMA DocumentLeaves ==
    ASSUME NEW revs, NEW choice, NEW revs2, NEW d, NEW g,
           NEW choice2, choice2 = {c \in choice : revs[c].doc # d},
           choice2 \subseteq DOMAIN revs2, Trims(revs, revs2, d),
           \A c \in choice : revs[c].doc = d => revs[c].group # g
    PROVE  SameIn(g, revs, choice, revs2, choice2)
<1>0. Trims(revs, revs2, d)
  OBVIOUS
<1>1. \A c : c \in choice2 /\ revs2[c].group = g <=> c \in choice /\ revs[c].group = g
  BY <1>0 DEF Trims
<1>2. ASSUME NEW c \in choice, revs[c].group = g
      PROVE  /\ c \in DOMAIN revs2 /\ revs2[c].doc = revs[c].doc
             /\ revs2[c].number = revs[c].number
  BY <1>0, <1>2 DEF Trims
<1>3. ASSUME NEW c \in choice, revs[c].group = g, NEW k \in {"modifies", "replaces"},
             NEW t2 \in Linked(revs2, c, k)
      PROVE  \E t \in Linked(revs, c, k) : t.doc = t2.doc /\ t.group = t2.group
  <2>1. PICK l \in revs2[c].links : l.kind = k /\ l.to \in DOMAIN revs2 /\ t2 = revs2[l.to]
    BY DEF Linked
  <2>2. l \in revs[c].links /\ l.to \in DOMAIN revs
    BY <1>0, <1>2, <1>3, <2>1 DEF Trims
  <2>3. revs[l.to] \in Linked(revs, c, k)
    BY <2>1, <2>2 DEF Linked
  <2> QED BY <1>0, <2>1, <2>3 DEF Trims
<1>4. ASSUME NEW c \in choice, revs[c].group = g, NEW x \in choice,
             NEW t \in Linked(revs, c, "replaces"),
             revs[x].group = g /\ t.doc = revs[x].doc
      PROVE  \E t2 \in Linked(revs2, c, "replaces") : t2.doc = t.doc /\ t2.group = t.group
  <2>1. PICK l \in revs[c].links : l.kind = "replaces" /\ l.to \in DOMAIN revs /\ t = revs[l.to]
    BY DEF Linked
  <2>2. l \in revs2[c].links /\ l.to \in DOMAIN revs2
    BY <1>0, <1>2, <1>4, <2>1 DEF Trims
  <2>3. revs2[l.to] \in Linked(revs2, c, "replaces")
    BY <2>1, <2>2 DEF Linked
  <2> QED BY <1>0, <2>1, <2>2, <2>3 DEF Trims
<1> QED BY <1>1, <1>2, <1>3, <1>4 DEF SameIn

-----------------------------------------------------------------------------
(* The invariant.                                                           *)

\* Links lead to rows that exist, and a replacement stays in its group.
LinkInv ==
    \A r \in DOMAIN revisions : \A l \in revisions[r].links :
        /\ l.to \in DOMAIN revisions
        /\ l.kind = "replaces" => revisions[l.to].group = revisions[r].group

OneActivation == \A a, b \in activation : a.at = b.at => a = b

\* The rows, the choice and the thinned groups that a staged edit leaves when it commits.
StagedRevs(e) ==
    [x \in DOMAIN revisions \cup {edit[e].rev} |->
        IF x \in DOMAIN revisions THEN revisions[x] ELSE CHOOSE w \in edit[e].written : TRUE]
StagedDoc(e) == StagedRevs(e)[edit[e].rev].doc
StagedGroup(e) == StagedRevs(e)[edit[e].rev].group
StagedChoice(e) ==
    {c \in LiveChoice : revisions[c].doc # StagedDoc(e)} \cup {edit[e].rev}
StagedThinned(e) ==
    IF edit[e].clears THEN thinned \ {StagedGroup(e)} ELSE thinned

\* What is staged links to rows that exist, appears at once if its document is new, and
\* clears its group only as the choice of a document that is there.
StagedInv(e) ==
    edit[e].pc = "staged" =>
        /\ \A w \in edit[e].written :
             /\ source[w.doc] = "absent" => edit[e].activates
             /\ \A l \in w.links :
                  /\ l.to \in DOMAIN revisions
                  /\ l.kind = "replaces" => revisions[l.to].group = w.group
        /\ edit[e].clears => source[StagedDoc(e)] \in {"absent", "live"}

\* Its group is on no cycle that is not marked.
StagedAcyclic(e) ==
    edit[e].pc = "staged" /\ edit[e].activates /\ StagedGroup(e) \notin StagedThinned(e) =>
        ~OnCycle(Unthinned(StagedRevs(e), StagedChoice(e), StagedThinned(e)), StagedGroup(e))

LinksInv == LinkInv /\ OneActivation /\ \A e \in Editors : StagedInv(e)
AcyclicInv == (\A e \in Editors : StagedAcyclic(e)) /\ ModificationsAcyclic

LEMMA InForce ==
    ModificationsAcyclic <=>
        \A g \in Ids \ thinned : ~OnCycle(Unthinned(revisions, LiveChoice, thinned), g)
  BY DEF ModificationsAcyclic, Unthinned

LEMMA LiveFacts ==
    ASSUME HistoryInv, OneActivation
    PROVE  /\ \A c \in LiveChoice :
                /\ c \in DOMAIN revisions /\ revisions[c].group \in Ids
                /\ revisions[c].doc \in Sources /\ source[revisions[c].doc] = "live"
                /\ c \in Current(revisions[c].doc)
           /\ \A c, s \in LiveChoice : revisions[c].doc = revisions[s].doc => c = s
<1>1. HistoryTypeOK /\ RowsInv
  BY DEF HistoryInv
<1>2. \A a \in activation : /\ a.rev \in DOMAIN revisions /\ revisions[a.rev].doc = a.doc
                            /\ a.at \in Nat
  BY <1>1, HistoryAssumption DEF RowsInv, HistoryTypeOK, Activation
<1>3. Selected(sourceGen) \subseteq activation
  BY DEF Selected, UpTo
<1>4. ASSUME NEW a \in Selected(sourceGen), NEW b \in Selected(sourceGen), a.doc = b.doc
      PROVE  a = b
  <2>1. a.at <= b.at /\ b.at <= a.at
    BY <1>4 DEF Selected
  <2>2. a.at = b.at
    BY <1>2, <1>3, <2>1
  <2> QED BY <1>3, <2>2 DEF OneActivation
<1>5. ASSUME NEW c \in LiveChoice
      PROVE  \E a \in Selected(sourceGen) : a.rev = c /\ source[a.doc] = "live"
  BY DEF LiveChoice
<1>6. ASSUME NEW c \in LiveChoice
      PROVE  /\ c \in DOMAIN revisions /\ revisions[c].group \in Ids
             /\ revisions[c].doc \in Sources /\ source[revisions[c].doc] = "live"
             /\ c \in Current(revisions[c].doc)
  BY <1>1, <1>2, <1>3, <1>5, RevisionFields DEF Current
<1>7. ASSUME NEW c \in LiveChoice, NEW s \in LiveChoice, revisions[c].doc = revisions[s].doc
      PROVE  c = s
  BY <1>2, <1>3, <1>4, <1>5, <1>7
<1> QED BY <1>6, <1>7

LEMMA WholeInForce ==
    ASSUME HistoryInv, LinksInv
    PROVE  Whole(revisions, LiveChoice)
<1>1. \A c \in LiveChoice : c \in DOMAIN revisions
  BY LiveFacts DEF LinksInv
<1>2. \A c \in LiveChoice : \A t \in Linked(revisions, c, "replaces") :
         t.group = revisions[c].group
  BY <1>1 DEF LinksInv, LinkInv, Linked
<1> QED BY <1>2, LiveFacts DEF Whole, LinksInv

\* The staged rows: those that are there and one that may be new.
LEMMA StagedRows ==
    ASSUME HistoryInv, LinksInv, NEW e \in Editors, edit[e].pc = "staged"
    PROVE  /\ DOMAIN StagedRevs(e) = DOMAIN revisions \cup {edit[e].rev}
           /\ \A x \in DOMAIN revisions : StagedRevs(e)[x] = revisions[x]
           /\ StagedRevs(e)[edit[e].rev] \in Revision
           /\ edit[e].rev \notin DOMAIN revisions =>
                edit[e].written = {StagedRevs(e)[edit[e].rev]}
           /\ \A r \in DOMAIN StagedRevs(e) : \A l \in StagedRevs(e)[r].links :
                /\ l.to \in DOMAIN revisions
                /\ l.kind = "replaces" => revisions[l.to].group = StagedRevs(e)[r].group
<1> DEFINE r == edit[e].rev
<1>1. HistoryTypeOK /\ EditInv(e) /\ StagedInv(e) /\ LinkInv
  BY DEF HistoryInv, LinksInv
<1>2. /\ DOMAIN StagedRevs(e) = DOMAIN revisions \cup {r}
      /\ \A x \in DOMAIN revisions : StagedRevs(e)[x] = revisions[x]
      /\ r \notin DOMAIN revisions => StagedRevs(e)[r] = CHOOSE w \in edit[e].written : TRUE
  BY DEF StagedRevs
<1>3. CASE r \in DOMAIN revisions
  <2>1. StagedRevs(e)[r] \in Revision
    BY <1>1, <1>2, <1>3, RevisionFields
  <2> QED BY <1>1, <1>2, <1>3, <2>1 DEF LinkInv
<1>4. CASE r \notin DOMAIN revisions
  <2>1. PICK w \in Revision : edit[e].written = {w}
    BY <1>1, <1>4 DEF EditInv
  <2>2. StagedRevs(e)[r] = w
    BY <1>2, <1>4, <2>1
  <2>3. \A l \in w.links : /\ l.to \in DOMAIN revisions
                           /\ l.kind = "replaces" => revisions[l.to].group = w.group
    BY <1>1, <2>1 DEF StagedInv
  <2> QED BY <1>1, <1>2, <2>1, <2>2, <2>3 DEF LinkInv
<1> QED BY <1>3, <1>4

LEMMA StagedFacts ==
    ASSUME HistoryInv, LinksInv, NEW e \in Editors, edit[e].pc = "staged"
    PROVE  /\ Whole(StagedRevs(e), StagedChoice(e))
           /\ StagedChoice(e) \subseteq DOMAIN StagedRevs(e)
           /\ \A c \in StagedChoice(e) : StagedRevs(e)[c].group \in Ids
           /\ StagedDoc(e) \in Sources /\ StagedGroup(e) \in Ids
<1> DEFINE r == edit[e].rev
           revs == StagedRevs(e)
<1>1. /\ DOMAIN revs = DOMAIN revisions \cup {r}
      /\ \A x \in DOMAIN revisions : revs[x] = revisions[x]
      /\ revs[r] \in Revision
      /\ \A x \in DOMAIN revs : \A l \in revs[x].links :
           /\ l.to \in DOMAIN revisions
           /\ l.kind = "replaces" => revisions[l.to].group = revs[x].group
  BY StagedRows
<1>2. StagedDoc(e) = revs[r].doc /\ StagedGroup(e) = revs[r].group
  BY DEF StagedDoc, StagedGroup
<1>3. \A c \in LiveChoice : c \in DOMAIN revisions /\ revisions[c].group \in Ids
  BY LiveFacts DEF LinksInv
<1>4. \A c, s \in LiveChoice : revisions[c].doc = revisions[s].doc => c = s
  BY LiveFacts DEF LinksInv
<1> HIDE DEF revs
<1>5. revs[r].doc \in Sources /\ revs[r].group \in Ids
  BY <1>1 DEF Revision
<1>6. \A c \in StagedChoice(e) : c \in DOMAIN revs /\ revs[c].group \in Ids
  BY <1>1, <1>3, <1>5 DEF StagedChoice
<1>7. \A c, s \in StagedChoice(e) : revs[c].doc = revs[s].doc => c = s
  BY <1>1, <1>2, <1>3, <1>4 DEF StagedChoice
<1>8. ASSUME NEW s \in StagedChoice(e), NEW t \in Linked(revs, s, "replaces")
      PROVE  t.group = revs[s].group
  <2>1. PICK l \in revs[s].links : l.kind = "replaces" /\ t = revs[l.to]
    BY DEF Linked
  <2> QED BY <1>1, <1>6, <2>1
<1> QED BY <1>2, <1>5, <1>6, <1>7, <1>8 DEF Whole, revs

-----------------------------------------------------------------------------
(* Steps that leave the rows in force and the thinned groups alone.         *)

LEMMA SameInForce ==
    ASSUME UNCHANGED <<source, revisions, activation, sourceGen, thinned>>
    PROVE  /\ LiveChoice' = LiveChoice
           /\ (LinkInv /\ OneActivation) => LinkInv' /\ OneActivation'
           /\ ModificationsAcyclic => ModificationsAcyclic'
<1>1. LiveChoice' = LiveChoice
  BY DEF LiveChoice, Selected, UpTo
<1>2. (LinkInv /\ OneActivation) => LinkInv' /\ OneActivation'
  BY DEF LinkInv, OneActivation
<1>3. ModificationsAcyclic => ModificationsAcyclic'
  BY <1>1 DEF ModificationsAcyclic
<1> QED BY <1>1, <1>2, <1>3

LEMMA AllIdle ==
    ASSUME \A f \in Editors : edit'[f].pc = "idle"
    PROVE  \A f \in Editors : StagedInv(f)' /\ StagedAcyclic(f)'
  BY DEF StagedInv, StagedAcyclic

LEMMA GraphRollBack ==
    ASSUME HistoryInv, LinksInv, AcyclicInv, NEW e \in Editors, RollBackEdit(e)
    PROVE  LinksInv' /\ AcyclicInv'
<1>1. /\ UNCHANGED <<source, revisions, activation, sourceGen, thinned>>
      /\ edit[e].pc = "staged" /\ edit' = [edit EXCEPT ![e] = [pc |-> "idle"]]
  BY DEF RollBackEdit
<1>2. \A f \in Editors : edit'[f].pc = "idle"
  BY <1>1, Ended
<1> QED BY <1>1, <1>2, SameInForce, AllIdle DEF LinksInv, AcyclicInv

LEMMA GraphStageRevision ==
    ASSUME HistoryInv, LinksInv, AcyclicInv, NEW e \in Editors, Locked(e),
           minted < MaxRevisions,
           NEW d \in Sources, NEW activates \in BOOLEAN, NEW links \in LinkChoices,
           NEW g \in {revisions[r].group : r \in DOMAIN revisions} \cup {minted + 1},
           NEW n \in 1 .. minted + 1,
           StageRevision(e, d, g, n, links, activates)
    PROVE  LinksInv' /\ AcyclicInv'
<1> DEFINE r == minted + 1
           new == [doc |-> d, group |-> g, number |-> n, links |-> links]
           entry == [pc |-> "staged", rev |-> r, written |-> {new},
                     activates |-> activates, at |-> sourceGen + 1, clears |-> TRUE]
           revs == [x \in DOMAIN revisions \cup {r} |->
                      IF x = r THEN new ELSE revisions[x]]
           choice == {c \in LiveChoice : revs[c].doc # d} \cup {r}
<1>1. HistoryTypeOK /\ RowsInv /\ \A f \in Editors : edit[f].pc = "idle"
  BY DEF HistoryInv, Locked
<1>2. /\ edit' = [edit EXCEPT ![e] = entry]
      /\ UNCHANGED <<source, revisions, activation, sourceGen, thinned>>
      /\ source[d] \in {"absent", "live"} /\ (source[d] = "absent" => activates)
      /\ ValidLinks(d, g, links)
      /\ activates => Passes(revs, r)
  BY DEF StageRevision
<1>3. r \notin DOMAIN revisions
  <2>1. minted \in Nat
    BY <1>1 DEF HistoryTypeOK
  <2>2. \A x \in DOMAIN revisions : x \in Nat /\ x <= minted
    BY <1>1, RevisionFields DEF RowsInv
  <2> QED BY <2>1, <2>2
<1>4. /\ edit'[e] = entry /\ \A f \in Editors : f # e => edit'[f].pc = "idle"
  BY <1>1, <1>2 DEF HistoryTypeOK
<1>5. /\ edit'[e].pc = "staged" /\ edit'[e].rev = r /\ edit'[e].written = {new}
      /\ edit'[e].activates = activates /\ edit'[e].clears
  BY <1>4
<1>6. StagedRevs(e)' = revs
  <2>1. (CHOOSE w \in {new} : TRUE) = new
    OBVIOUS
  <2>2. StagedRevs(e)' = [x \in DOMAIN revisions \cup {r} |->
            IF x \in DOMAIN revisions THEN revisions[x] ELSE CHOOSE w \in {new} : TRUE]
    BY <1>2, <1>5 DEF StagedRevs
  <2> QED BY <1>3, <2>1, <2>2
<1>7. revs[r] = new /\ new.doc = d /\ new.group = g /\ new.links = links
  OBVIOUS
<1>8. StagedDoc(e)' = d /\ StagedGroup(e)' = g
  BY <1>5, <1>6, <1>7 DEF StagedDoc, StagedGroup
<1>9. LiveChoice' = LiveChoice
  BY <1>2, SameInForce
<1>10. \A c \in LiveChoice : revs[c].doc = revisions[c].doc
  BY <1>3, LiveFacts DEF LinksInv
<1>11. StagedChoice(e)' = choice
  <2> HIDE DEF revs
  <2> QED BY <1>2, <1>5, <1>8, <1>9, <1>10 DEF StagedChoice
<1>12. activates => ~OnCycle(Modifies(revs, choice), g)
  <2> HIDE DEF new
  <2> QED BY <1>2, <1>7 DEF Passes
<1> HIDE DEF revs, choice, entry
<1>13. StagedAcyclic(e)'
  <2> SUFFICES ASSUME activates
               PROVE  ~OnCycle(Unthinned(revs, choice, StagedThinned(e)'), g)
    BY <1>5, <1>6, <1>8, <1>11 DEF StagedAcyclic, Unthinned
  <2> QED BY <1>12, FewerEdges DEF Unthinned
<1>14. StagedInv(e)'
  <2>1. ASSUME NEW l \in links
        PROVE  /\ l.to \in DOMAIN revisions
               /\ l.kind = "replaces" => revisions[l.to].group = g
    <3>1. l.to \in DOMAIN revisions
      BY DEF LinkChoices
    <3>2. l.kind = "replaces" => revisions[l.to].group = g
      BY <1>2 DEF ValidLinks
    <3> QED BY <3>1, <3>2
  <2> HIDE DEF new
  <2> QED BY <1>2, <1>5, <1>7, <1>8, <2>1 DEF StagedInv
<1>15. \A f \in Editors : StagedInv(f)' /\ StagedAcyclic(f)'
  BY <1>4, <1>13, <1>14 DEF StagedInv, StagedAcyclic
<1> QED BY <1>2, <1>15, SameInForce DEF LinksInv, AcyclicInv

StagedWhole ==
    \A e \in Editors : edit[e].pc = "staged" =>
        /\ Whole(StagedRevs(e), StagedChoice(e))
        /\ StagedChoice(e) \subseteq DOMAIN StagedRevs(e)
        /\ \A c \in StagedChoice(e) : StagedRevs(e)[c].group \in Ids

WholeNow ==
    /\ Whole(revisions, LiveChoice)
    /\ \A c \in LiveChoice : c \in DOMAIN revisions /\ revisions[c].group \in Ids

LEMMA WholeNext ==
    (HistoryInv /\ LinksInv)' => WholeNow'
<1>1. HistoryInv /\ LinksInv => WholeNow
  BY WholeInForce, LiveFacts DEF WholeNow, LinksInv
<1> QED BY <1>1, PTL

LEMMA StagedWholeNext ==
    (HistoryInv /\ LinksInv)' => StagedWhole'
<1>1. HistoryInv /\ LinksInv => StagedWhole
  BY StagedFacts DEF StagedWhole
<1> QED BY <1>1, PTL

LEMMA GraphStageActivation ==
    ASSUME HistoryInv, LinksInv, AcyclicInv, NEW e \in Editors, Locked(e),
           NEW r \in DOMAIN revisions, StageActivation(e, r), HistoryInv'
    PROVE  LinksInv' /\ AcyclicInv'
<1> DEFINE entry == [pc |-> "staged", rev |-> r, written |-> {}, activates |-> TRUE,
                     at |-> sourceGen + 1,
                     clears |-> source[revisions[r].doc] = "live"]
           d == revisions[r].doc
           g == revisions[r].group
           choice == {c \in LiveChoice : revisions[c].doc # d} \cup {r}
<1>1. HistoryTypeOK /\ \A f \in Editors : edit[f].pc = "idle"
  BY DEF HistoryInv, Locked
<1>2. /\ edit' = [edit EXCEPT ![e] = entry] /\ Passes(revisions, r)
      /\ UNCHANGED <<source, revisions, activation, sourceGen, thinned>>
  BY DEF StageActivation
<1>3. /\ edit'[e] = entry /\ \A f \in Editors : f # e => edit'[f].pc = "idle"
  BY <1>1, <1>2 DEF HistoryTypeOK
<1>4. /\ edit'[e].pc = "staged" /\ edit'[e].rev = r /\ edit'[e].written = {}
      /\ edit'[e].clears = (source[d] = "live")
  BY <1>3
<1> HIDE DEF entry
<1>5. /\ DOMAIN StagedRevs(e)' = DOMAIN revisions
      /\ \A x \in DOMAIN revisions : StagedRevs(e)'[x] = revisions[x]
  BY <1>2, <1>4 DEF StagedRevs
<1>6. StagedDoc(e)' = d /\ StagedGroup(e)' = g
  BY <1>4, <1>5 DEF StagedDoc, StagedGroup
<1>7. LiveChoice' = LiveChoice
  BY <1>2, SameInForce
<1>8. StagedChoice(e)' = choice
  BY <1>2, <1>4, <1>6, <1>7 DEF StagedChoice
<1>9. ~OnCycle(Modifies(revisions, choice), g)
  BY <1>2 DEF Passes
<1>10. StagedInv(e)'
  BY <1>2, <1>4, <1>6 DEF StagedInv
<1>11. LinksInv'
  BY <1>2, <1>3, <1>10, SameInForce DEF LinksInv, StagedInv
<1>12. /\ Whole(StagedRevs(e)', StagedChoice(e)')
       /\ StagedChoice(e)' \subseteq DOMAIN StagedRevs(e)'
       /\ \A c \in StagedChoice(e)' : StagedRevs(e)'[c].group \in Ids
  BY <1>4, <1>11, StagedWholeNext DEF StagedWhole
<1> HIDE DEF d, g, choice
<1>13. \A k : \A c \in choice : Linked(StagedRevs(e)', c, k) = Linked(revisions, c, k)
  BY <1>5, <1>8, <1>12 DEF Linked
<1>14. \A c \in choice : StagedRevs(e)'[c] = revisions[c]
  BY <1>5, <1>8, <1>12
<1>15. Whole(revisions, choice)
  BY <1>8, <1>12, <1>13, <1>14 DEF Whole
<1>16. \A h : SameIn(h, revisions, choice, StagedRevs(e)', StagedChoice(e)')
  BY <1>8, <1>13, <1>14 DEF SameIn
<1>17. ~OnCycle(Unthinned(revisions, choice, {}), g)
  BY <1>9, FewerEdges DEF Unthinned
<1>18. \A x \in Modifies(StagedRevs(e)', StagedChoice(e)') : x[1] \in Ids
  BY <1>12, EdgeSources
<1>19. ~OnCycle(Unthinned(StagedRevs(e)', StagedChoice(e)', StagedThinned(e)'), g)
  BY <1>8, <1>12, <1>15, <1>16, <1>17, <1>18, StaysAcyclic
<1>20. StagedAcyclic(e)'
  BY <1>6, <1>19 DEF StagedAcyclic, Unthinned
<1>21. \A f \in Editors : StagedAcyclic(f)'
  BY <1>3, <1>20 DEF StagedAcyclic
<1> QED BY <1>2, <1>11, <1>21, SameInForce DEF AcyclicInv

-----------------------------------------------------------------------------
(* Removals.                                                                *)

LEMMA OvertakenClears ==
    ASSUME HistoryInv, edit' = Overtaken, NEW e \in Editors, edit[e].pc = "staged"
    PROVE  edit'[e].clears = FALSE
<1>1. edit[e] \in [pc : {"staged"}, rev : Ids, written : SUBSET Revision,
                   activates : BOOLEAN, at : 1 .. MaxGeneration + 1, clears : BOOLEAN]
  BY EditFields DEF HistoryInv
<1>2. edit'[e] = [edit[e] EXCEPT !.clears = FALSE]
  BY DEF Overtaken
<1> QED BY <1>1, <1>2

\* A document that is removed leaves the graph in force and the staged one, and marks
\* the group it leaves.
LEMMA RemovalAcyclic ==
    ASSUME HistoryInv, LinksInv, AcyclicInv, NEW d \in Sources, HistoryInv', LinksInv',
           edit' = Overtaken, thinned \subseteq thinned',
           LiveChoice' = {c \in LiveChoice : revisions[c].doc # d},
           \A c \in LiveChoice : revisions[c].doc = d => revisions[c].group \in thinned',
           Trims(revisions, revisions', d),
           \A e \in Editors : edit[e].pc = "staged" =>
              /\ Trims(StagedRevs(e), StagedRevs(e)', d)
              /\ StagedDoc(e) = d => revisions' = revisions
    PROVE  AcyclicInv'
<1>1. Whole(revisions, LiveChoice) /\ \A c \in LiveChoice : c \in DOMAIN revisions
  BY WholeInForce, LiveFacts DEF LinksInv
<1>2. /\ Whole(revisions, LiveChoice)'
      /\ \A c \in LiveChoice' : c \in DOMAIN revisions' /\ revisions'[c].group \in Ids
  BY WholeNext DEF WholeNow
<1>3. \A g \in Ids \ thinned' : SameIn(g, revisions, LiveChoice, revisions', LiveChoice')
  <2> TAKE g \in Ids \ thinned'
  <2>1. \A c \in LiveChoice : revisions[c].doc = d => revisions[c].group # g
    OBVIOUS
  <2>2. LiveChoice' \subseteq DOMAIN revisions'
    BY <1>2
  <2> QED BY <2>1, <2>2, DocumentLeaves
<1>4. \A x \in Modifies(revisions', LiveChoice') : x[1] \in Ids
  BY <1>2, EdgeSources
<1>5. ModificationsAcyclic'
  <2>1. ASSUME NEW g \in Ids \ thinned'
        PROVE  ~OnCycle(Unthinned(revisions', LiveChoice', thinned'), g)
    <3>1. ~OnCycle(Unthinned(revisions, LiveChoice, thinned), g)
      BY InForce DEF AcyclicInv
    <3> QED BY <1>1, <1>2, <1>3, <1>4, <3>1, StaysAcyclic
  <2> QED BY <2>1 DEF ModificationsAcyclic, Unthinned
<1>6. ASSUME NEW e \in Editors, edit[e].pc = "staged" PROVE StagedAcyclic(e)'
  <2> DEFINE r == edit[e].rev
             revs == StagedRevs(e)
             choice == StagedChoice(e)
             revs2 == StagedRevs(e)'
             choice2 == StagedChoice(e)'
             t == StagedThinned(e)
             t2 == StagedThinned(e)'
             g == StagedGroup(e)
  <2>1. /\ edit'[e].pc = "staged" /\ edit'[e].rev = r
        /\ edit'[e].activates = edit[e].activates /\ edit'[e].clears = FALSE
    BY <1>6, OvertakenEdits, OvertakenClears
  <2>2. t2 = thinned' /\ t \subseteq t2
    BY <2>1 DEF StagedThinned
  <2>3. /\ Whole(revs, choice) /\ choice \subseteq DOMAIN revs
        /\ DOMAIN revs = DOMAIN revisions \cup {r}
        /\ \A x \in DOMAIN revisions : revs[x] = revisions[x]
    BY <1>6, StagedFacts, StagedRows
  <2>4. /\ Whole(revs2, choice2) /\ choice2 \subseteq DOMAIN revs2
        /\ \A c \in choice2 : revs2[c].group \in Ids
    BY <2>1, StagedWholeNext DEF StagedWhole
  <2>5. Trims(revs, revs2, d) /\ r \in DOMAIN revs2
    BY <1>6, <2>1 DEF StagedRevs
  <2>6. StagedDoc(e)' = StagedDoc(e) /\ StagedGroup(e)' = g
    BY <2>1, <2>5 DEF StagedDoc, StagedGroup, Trims
  <2>7. StagedDoc(e) = revs[r].doc
    BY DEF StagedDoc
  <2>8. choice = {c \in LiveChoice : revisions[c].doc # StagedDoc(e)} \cup {r}
    BY DEF StagedChoice
  <2>9. choice2 = {c \in LiveChoice' : revisions'[c].doc # StagedDoc(e)} \cup {r}
    BY <2>1, <2>6 DEF StagedChoice
  <2>10. \A c \in LiveChoice' : revisions'[c].doc = revisions[c].doc
    BY <1>2 DEF Trims
  <2>14. StagedDoc(e) = d => revs2 = revs
    <3> SUFFICES ASSUME StagedDoc(e) = d PROVE StagedRevs(e)' = StagedRevs(e)
      OBVIOUS
    <3>1. /\ revisions' = revisions /\ edit'[e].rev = edit[e].rev
          /\ edit'[e].written = edit[e].written
      BY <1>6, OvertakenEdits
    <3> QED BY <3>1 DEF StagedRevs
  <2> HIDE DEF revs, choice, revs2, choice2, t, t2, g, r
  <2>11. ASSUME NEW h \in Ids \ t2 PROVE SameIn(h, revs, choice, revs2, choice2)
    <3>1. CASE StagedDoc(e) = d
      <4>1. choice2 = choice
        BY <2>8, <2>9, <2>10, <3>1
      <4>2. revs2 = revs
        BY <2>14, <3>1
      <4> QED BY <4>1, <4>2 DEF SameIn
    <3>2. CASE StagedDoc(e) # d
      <4>1. choice2 = {c \in choice : revs[c].doc # d}
        BY <1>1, <2>3, <2>7, <2>8, <2>9, <2>10, <3>2
      <4>2. \A c \in choice : revs[c].doc = d => revs[c].group # h
        BY <1>1, <2>2, <2>3, <2>7, <2>8, <2>11, <3>2
      <4> QED BY <2>4, <2>5, <4>1, <4>2, DocumentLeaves
    <3> QED BY <3>1, <3>2
  <2>12. \A x \in Modifies(revs2, choice2) : x[1] \in Ids
    BY <2>4, EdgeSources
  <2>13. ASSUME edit[e].activates, g \notin t2
         PROVE  ~OnCycle(Unthinned(revs2, choice2, t2), g)
    <3>1. ~OnCycle(Unthinned(revs, choice, t), g)
      BY <1>6, <2>2, <2>13 DEF AcyclicInv, StagedAcyclic, revs, choice, t, g
    <3> QED BY <2>2, <2>3, <2>4, <2>11, <2>12, <3>1, StaysAcyclic
  <2> QED BY <2>1, <2>6, <2>13 DEF StagedAcyclic, revs2, choice2, t2
<1>7. \A e \in Editors : StagedAcyclic(e)'
  <2>1. \A e \in Editors : edit'[e].pc = edit[e].pc
    BY OvertakenEdits
  <2> QED BY <1>6, <2>1 DEF StagedAcyclic
<1> QED BY <1>5, <1>7 DEF AcyclicInv

LEMMA GraphDelete ==
    ASSUME HistoryInv, LinksInv, AcyclicInv, NEW d \in Sources, DeleteDocument(d),
           HistoryInv'
    PROVE  LinksInv' /\ AcyclicInv'
<1>1. /\ HistoryTypeOK /\ RowsInv
      /\ source[d] = "live" /\ source' = [source EXCEPT ![d] = "deleted"]
      /\ thinned' = thinned \cup Left(d, 0) /\ edit' = Overtaken
      /\ UNCHANGED <<revisions, minted, activation, sourceGen>>
  BY DEF HistoryInv, DeleteDocument
<1>2. \A x \in Sources : source'[x] = IF x = d THEN "deleted" ELSE source[x]
  BY <1>1 DEF HistoryTypeOK
<1>3. \A a \in activation : a.rev \in DOMAIN revisions /\ revisions[a.rev].doc = a.doc
                            /\ a.doc \in Sources
  BY <1>1, RevisionFields DEF RowsInv
<1>4. Selected(sourceGen)' = Selected(sourceGen) /\ Selected(sourceGen) \subseteq activation
  BY <1>1 DEF Selected, UpTo
<1>5. LiveChoice' = {c \in LiveChoice : revisions[c].doc # d}
  BY <1>2, <1>3, <1>4 DEF LiveChoice
<1>6. ASSUME NEW e \in Editors, edit[e].pc = "staged"
      PROVE  /\ StagedRevs(e)' = StagedRevs(e) /\ StagedDoc(e)' = StagedDoc(e)
             /\ StagedInv(e)'
  <2>1. /\ edit'[e].rev = edit[e].rev /\ edit'[e].written = edit[e].written
        /\ edit'[e].activates = edit[e].activates /\ edit'[e].clears = FALSE
    BY <1>1, <1>6, OvertakenEdits, OvertakenClears
  <2>2. StagedRevs(e)' = StagedRevs(e)
    BY <1>1, <2>1 DEF StagedRevs
  <2>3. StagedDoc(e)' = StagedDoc(e)
    BY <2>1, <2>2 DEF StagedDoc
  <2>4. edit[e].written \subseteq Revision
    BY <1>1, <1>6, EditFields
  <2>5. \A w \in edit[e].written : w.doc \in Sources /\ (source'[w.doc] = "absent" => source[w.doc] = "absent")
    BY <1>2, <2>4 DEF Revision
  <2>6. StagedInv(e)'
    BY <1>1, <1>6, <2>1, <2>5 DEF StagedInv, LinksInv
  <2> QED BY <2>2, <2>3, <2>6
<1>7. LinksInv'
  <2>1. \A e \in Editors : edit'[e].pc = edit[e].pc
    BY <1>1, OvertakenEdits
  <2>2. \A e \in Editors : StagedInv(e)'
    BY <1>6, <2>1 DEF StagedInv
  <2> QED BY <1>1, <2>2 DEF LinksInv, LinkInv, OneActivation
<1>8. \A c \in LiveChoice : revisions[c].doc = d => revisions[c].group \in thinned'
  BY <1>1, LiveFacts DEF Left, Ids, LinksInv
<1>9. \A revs : Trims(revs, revs, d)
  BY DEF Trims
<1>10. /\ Trims(revisions, revisions', d)
       /\ \A e \in Editors : edit[e].pc = "staged" =>
            /\ Trims(StagedRevs(e), StagedRevs(e)', d)
            /\ StagedDoc(e) = d => revisions' = revisions
  BY <1>1, <1>6, <1>9
<1>11. AcyclicInv'
  BY <1>1, <1>5, <1>7, <1>8, <1>10, RemovalAcyclic
<1> QED BY <1>7, <1>11

LEMMA PurgedRows ==
    ASSUME HistoryInv, LinksInv, NEW d \in Sources, PurgeDocument(d)
    PROVE  /\ DOMAIN revisions' = {r \in DOMAIN revisions : revisions[r].doc # d}
           /\ \A r \in DOMAIN revisions' :
                revisions'[r].links = {l \in revisions[r].links : l.to \in DOMAIN revisions'}
           /\ Trims(revisions, revisions', d)
<1> DEFINE kept == {r \in DOMAIN revisions : revisions[r].doc # d}
<1>1. revisions' = [r \in kept |-> [revisions[r] EXCEPT !.links = {l \in @ : l.to \in kept}]]
  BY DEF PurgeDocument
<1>2. DOMAIN revisions' = kept
  BY <1>1
<1>3. ASSUME NEW r \in kept
      PROVE  revisions'[r].links = {l \in revisions[r].links : l.to \in kept}
  <2>1. revisions[r] \in Revision
    BY RevisionFields DEF HistoryInv
  <2>2. revisions'[r] = [revisions[r] EXCEPT !.links = {l \in revisions[r].links : l.to \in kept}]
    BY <1>1
  <2> HIDE DEF kept
  <2> QED BY <2>1, <2>2 DEF Revision
<1>4. \A r \in kept : /\ revisions'[r].doc = revisions[r].doc
                      /\ revisions'[r].group = revisions[r].group
                      /\ revisions'[r].number = revisions[r].number
  BY <1>2, PurgeEffect
<1>5. Trims(revisions, revisions', d)
  BY <1>2, <1>3, <1>4 DEF Trims
<1> QED BY <1>2, <1>3, <1>5

LEMMA GraphPurge ==
    ASSUME HistoryInv, LinksInv, AcyclicInv, NEW d \in Sources, PurgeDocument(d),
           HistoryInv'
    PROVE  LinksInv' /\ AcyclicInv'
<1> DEFINE kept == DOMAIN revisions'
<1>1. /\ HistoryTypeOK /\ RowsInv
      /\ kept = {r \in DOMAIN revisions : revisions[r].doc # d}
      /\ activation' = {a \in activation : a.doc # d}
      /\ source' = [source EXCEPT ![d] = "purged"]
      /\ edit' = Overtaken /\ UNCHANGED <<minted, sourceGen>>
  BY PurgeEffect DEF HistoryInv
<1>2. /\ thinned' = thinned \cup (IF source[d] = "live" THEN Left(d, 0) ELSE {})
      /\ \A e \in Editors : ~Refers(e, d)
      /\ source[d] \in {"live", "deleted"}
  BY DEF PurgeDocument
<1>3. \A r \in kept :
         /\ revisions'[r].doc = revisions[r].doc /\ revisions'[r].group = revisions[r].group
         /\ revisions'[r].links = {l \in revisions[r].links : l.to \in kept}
  BY PurgeEffect, PurgedRows
<1>4. Trims(revisions, revisions', d)
  BY PurgedRows
<1>5. \A x \in Sources : source'[x] = IF x = d THEN "purged" ELSE source[x]
  BY <1>1 DEF HistoryTypeOK
<1>6. \A a \in activation : /\ a.rev \in DOMAIN revisions /\ revisions[a.rev].doc = a.doc
                            /\ a.doc \in Sources
  BY <1>1, RevisionFields DEF RowsInv
<1>7. LiveChoice' = {c \in LiveChoice : revisions[c].doc # d}
  <2>1. Selected(sourceGen)' = {a \in Selected(sourceGen) : a.doc # d}
    BY <1>1 DEF Selected, UpTo
  <2>2. Selected(sourceGen) \subseteq activation
    BY DEF Selected, UpTo
  <2>3. \A a \in Selected(sourceGen)' : source'[a.doc] = source[a.doc]
    BY <1>5, <1>6, <2>1, <2>2
  <2>4. LiveChoice' = {a.rev : a \in {x \in Selected(sourceGen)' : source[x.doc] = "live"}}
    BY <2>3 DEF LiveChoice
  <2> QED BY <1>6, <2>1, <2>2, <2>4 DEF LiveChoice
<1> HIDE DEF kept
<1>8. ASSUME NEW e \in Editors, edit[e].pc = "staged"
      PROVE  /\ edit'[e].rev = edit[e].rev /\ edit'[e].written = edit[e].written
             /\ edit'[e].activates = edit[e].activates /\ edit'[e].clears = FALSE
             /\ edit[e].written \subseteq Revision
             /\ edit[e].rev \in DOMAIN revisions => edit[e].rev \in kept
             /\ \A w \in edit[e].written :
                  w.doc # d /\ \A l \in w.links : revisions[l.to].doc # d
             /\ StagedInv(e)
  <2>1. /\ edit'[e].rev = edit[e].rev /\ edit'[e].written = edit[e].written
        /\ edit'[e].activates = edit[e].activates /\ edit'[e].clears = FALSE
    BY <1>1, <1>8, OvertakenEdits, OvertakenClears
  <2>2. edit[e].written \subseteq Revision
    BY <1>1, <1>8, EditFields
  <2>3. /\ edit[e].rev \in DOMAIN revisions => revisions[edit[e].rev].doc # d
        /\ \A w \in edit[e].written : w.doc # d /\ \A l \in w.links : revisions[l.to].doc # d
    BY <1>2, <1>8 DEF Refers
  <2> QED BY <1>1, <2>1, <2>2, <2>3 DEF LinksInv
<1>9. ASSUME NEW e \in Editors, edit[e].pc = "staged" PROVE StagedInv(e)'
  <2>1. ASSUME NEW w \in edit[e].written
        PROVE  /\ source'[w.doc] = "absent" => edit[e].activates
               /\ \A l \in w.links :
                    /\ l.to \in DOMAIN revisions'
                    /\ l.kind = "replaces" => revisions'[l.to].group = w.group
    <3>1. w.doc \in Sources /\ w.doc # d
      BY <1>8, <1>9 DEF Revision
    <3>2. source'[w.doc] = source[w.doc]
      BY <1>5, <3>1
    <3>3. \A l \in w.links :
             /\ l.to \in DOMAIN revisions /\ revisions[l.to].doc # d
             /\ l.kind = "replaces" => revisions[l.to].group = w.group
      BY <1>8, <1>9 DEF StagedInv
    <3>4. source[w.doc] = "absent" => edit[e].activates
      BY <1>8, <1>9 DEF StagedInv
    <3> QED BY <1>1, <1>3, <3>2, <3>3, <3>4 DEF kept
  <2> QED BY <1>8, <1>9, <2>1 DEF StagedInv
<1>10. LinksInv'
  <2>1. \A e \in Editors : edit'[e].pc = edit[e].pc
    BY <1>1, OvertakenEdits
  <2>2. \A e \in Editors : StagedInv(e)'
    BY <1>9, <2>1 DEF StagedInv
  <2>3. LinkInv'
    BY <1>1, <1>3 DEF LinkInv, LinksInv, kept
  <2>4. OneActivation'
    BY <1>1 DEF OneActivation, LinksInv
  <2> QED BY <2>2, <2>3, <2>4 DEF LinksInv
<1>11. \A c \in LiveChoice : revisions[c].doc = d => revisions[c].group \in thinned'
  BY <1>2, LiveFacts DEF Left, Ids, LinksInv
<1>12. ASSUME NEW e \in Editors, edit[e].pc = "staged"
       PROVE  /\ Trims(StagedRevs(e), StagedRevs(e)', d)
              /\ StagedDoc(e) # d
  <2> DEFINE r == edit[e].rev
             revs == StagedRevs(e)
             revs2 == StagedRevs(e)'
  <2>1. /\ DOMAIN revs = DOMAIN revisions \cup {r}
        /\ \A x \in DOMAIN revisions : revs[x] = revisions[x]
        /\ \A x \in DOMAIN revs : \A l \in revs[x].links : l.to \in DOMAIN revisions
        /\ r \notin DOMAIN revisions => edit[e].written = {revs[r]}
    BY <1>12, StagedRows
  <2>2. /\ DOMAIN revs2 = kept \cup {r}
        /\ \A x \in kept : revs2[x] = revisions'[x]
        /\ r \notin kept => revs2[r] = CHOOSE w \in edit[e].written : TRUE
    BY <1>8, <1>12 DEF StagedRevs, kept
  <2> HIDE DEF revs, revs2
  <2>3. r \notin DOMAIN revisions => revs2[r] = revs[r]
    BY <1>1, <2>1, <2>2
  <2>4. DOMAIN revs2 \subseteq DOMAIN revs
    BY <1>1, <2>1, <2>2
  <2>5. ASSUME NEW x \in kept
        PROVE  /\ revs2[x].doc = revs[x].doc /\ revs2[x].group = revs[x].group
               /\ revs2[x].number = revs[x].number
               /\ revs2[x].links \subseteq revs[x].links
               /\ \A l \in revs[x].links : l.to \in DOMAIN revs /\ revs[l.to].doc # d
                    => l \in revs2[x].links /\ l.to \in DOMAIN revs2
    <3>1. x \in DOMAIN revisions /\ revs[x] = revisions[x] /\ revs2[x] = revisions'[x]
      BY <1>1, <2>1, <2>2
    <3>2. revisions'[x].number = revisions[x].number
      BY <1>4 DEF Trims, kept
    <3>3. \A l \in revs[x].links : l.to \in DOMAIN revisions /\ revs[l.to] = revisions[l.to]
      BY <2>1, <3>1
    <3> QED BY <1>1, <1>3, <2>2, <3>1, <3>2, <3>3
  <2>6. ASSUME r \notin DOMAIN revisions
        PROVE  /\ revs2[r] = revs[r] /\ revs[r].doc # d
               /\ \A l \in revs[r].links : l.to \in kept
    BY <1>1, <1>8, <1>12, <2>1, <2>3, <2>6
  <2>7. r \in DOMAIN revisions => r \in kept /\ revs[r].doc # d
    BY <1>1, <1>8, <1>12, <2>1
  <2>8. Trims(revs, revs2, d)
    <3> SUFFICES ASSUME NEW x \in DOMAIN revs2
                 PROVE  /\ revs2[x].doc = revs[x].doc /\ revs2[x].group = revs[x].group
                        /\ revs2[x].number = revs[x].number
                        /\ revs2[x].links \subseteq revs[x].links
                        /\ \A l \in revs[x].links : l.to \in DOMAIN revs /\ revs[l.to].doc # d
                             => l \in revs2[x].links /\ l.to \in DOMAIN revs2
      BY <2>4 DEF Trims
    <3>1. CASE x \in kept
      BY <2>5, <3>1
    <3>2. CASE x \notin kept
      <4>1. x = r /\ r \notin DOMAIN revisions
        BY <2>2, <2>7, <3>2
      <4> QED BY <2>2, <2>6, <4>1
    <3> QED BY <3>1, <3>2
  <2>9. StagedDoc(e) # d
    BY <2>6, <2>7 DEF StagedDoc, revs
  <2> QED BY <2>8, <2>9 DEF revs, revs2
<1>13. thinned \subseteq thinned'
  BY <1>2
<1>14. AcyclicInv'
  BY <1>1, <1>4, <1>7, <1>10, <1>11, <1>12, <1>13, RemovalAcyclic
<1> QED BY <1>10, <1>14

-----------------------------------------------------------------------------
(* The commit.                                                              *)

\* What is in force after a commit is what was checked when it was staged, or what was
\* in force before, when nothing is activated or the document is deleted.
LEMMA CommitChoice ==
    ASSUME HistoryInv, LinksInv, NEW e \in Editors, CommitEdit(e)
    PROVE  /\ revisions' = StagedRevs(e)
           /\ LiveChoice' = IF edit[e].activates /\ source[StagedDoc(e)] \in {"absent", "live"}
                              THEN StagedChoice(e) ELSE LiveChoice
           /\ edit[e].activates =>
                thinned' = Left(StagedDoc(e), StagedGroup(e)) \cup StagedThinned(e)
           /\ ~edit[e].activates => thinned' = thinned
           /\ OneActivation'
<1> DEFINE r == edit[e].rev
           d == StagedDoc(e)
           new == [doc |-> d, rev |-> r, at |-> edit[e].at]
<1>1. /\ HistoryTypeOK /\ RowsInv /\ EditInv(e) /\ edit[e].pc = "staged"
      /\ OneActivation /\ StagedInv(e) /\ sourceGen \in Nat
  BY HistoryAssumption DEF HistoryInv, LinksInv, CommitEdit, HistoryTypeOK
<1>2. /\ revisions' = StagedRevs(e)
      /\ source' = [source EXCEPT ![d] = IF @ = "absent" THEN "live" ELSE @]
      /\ edit[e].activates =>
           /\ activation' = activation \cup {new} /\ sourceGen' = edit[e].at
           /\ thinned' = Left(d, StagedGroup(e)) \cup StagedThinned(e)
      /\ ~edit[e].activates => UNCHANGED <<activation, sourceGen, thinned>>
  BY DEF CommitEdit, StagedRevs, StagedDoc, StagedGroup, StagedThinned
<1>3. d \in Sources
  BY <1>1, StagedFacts
<1>4. \A x \in Sources : source'[x] = IF x = d /\ source[d] = "absent" THEN "live" ELSE source[x]
  BY <1>1, <1>2, <1>3 DEF HistoryTypeOK
<1>5. \A a \in activation :
         /\ a.rev \in DOMAIN revisions /\ revisions[a.rev].doc = a.doc
         /\ a.doc \in Sources /\ source[a.doc] \in {"live", "deleted"}
         /\ a.at \in Nat /\ a.at <= sourceGen
  BY <1>1, NonePurged, HistoryAssumption DEF RowsInv, HistoryTypeOK, Activation
<1>6. UpTo(sourceGen) = activation
  BY <1>5 DEF UpTo
<1>7. Selected(sourceGen) = {a \in activation : \A b \in activation : b.doc = a.doc => b.at <= a.at}
  BY <1>6 DEF Selected
<1>8. edit[e].at = sourceGen + 1
  BY <1>1 DEF EditInv
<1>9. new.doc = d /\ new.rev = r /\ new.at = sourceGen + 1
  BY <1>8
<1> HIDE DEF new, d, r
<1>10. CASE ~edit[e].activates
  <2>1. Selected(sourceGen)' = Selected(sourceGen)
    BY <1>2, <1>10 DEF Selected, UpTo
  <2>2. \A a \in Selected(sourceGen) : source'[a.doc] = "live" <=> source[a.doc] = "live"
    BY <1>4, <1>5, <1>7
  <2>3. LiveChoice' = LiveChoice
    BY <2>1, <2>2 DEF LiveChoice
  <2>4. OneActivation'
    BY <1>1, <1>2, <1>10 DEF OneActivation
  <2> QED BY <1>2, <1>10, <2>3, <2>4
<1>11. CASE edit[e].activates
  <2>1. activation' = activation \cup {new} /\ sourceGen' = sourceGen + 1
    BY <1>2, <1>8, <1>11
  <2>2. UpTo(sourceGen)' = activation'
    BY <1>1, <1>5, <1>9, <2>1 DEF UpTo
  <2>3. Selected(sourceGen)' =
           {a \in activation' : \A b \in activation' : b.doc = a.doc => b.at <= a.at}
    BY <2>2 DEF Selected
  <2>4. ASSUME NEW a \in activation
        PROVE  a \in Selected(sourceGen)' <=> a \in Selected(sourceGen) /\ a.doc # d
    <3>1. CASE a.doc = d
      <4>1. ~(new.at <= a.at)
        BY <1>1, <1>5, <1>9
      <4> QED BY <1>9, <2>1, <2>3, <3>1, <4>1
    <3>2. CASE a.doc # d
      BY <1>7, <1>9, <2>1, <2>3, <3>2
    <3> QED BY <3>1, <3>2
  <2>5. new \in Selected(sourceGen)'
    <3>1. \A b \in activation' : b.at <= new.at
      BY <1>1, <1>5, <1>9, <2>1
    <3> QED BY <2>1, <2>3, <3>1
  <2>6. Selected(sourceGen)' = {a \in Selected(sourceGen) : a.doc # d} \cup {new}
    <3>1. Selected(sourceGen)' \subseteq activation \cup {new} /\ Selected(sourceGen) \subseteq activation
      BY <1>7, <2>1, <2>3
    <3> QED BY <2>4, <2>5, <3>1
  <2>7. \A a \in Selected(sourceGen) : a.doc # d => source'[a.doc] = source[a.doc]
    BY <1>4, <1>5, <1>7
  <2>8. LiveChoice' =
           {a.rev : a \in {x \in Selected(sourceGen) : source[x.doc] = "live" /\ x.doc # d}}
             \cup (IF source'[d] = "live" THEN {r} ELSE {})
    BY <1>9, <2>6, <2>7 DEF LiveChoice
  <2>9. {a.rev : a \in {x \in Selected(sourceGen) : source[x.doc] = "live" /\ x.doc # d}}
          = {c \in LiveChoice : revisions[c].doc # d}
    BY <1>5, <1>7 DEF LiveChoice
  <2>10. source'[d] = "live" <=> source[d] \in {"absent", "live"}
    BY <1>3, <1>4
  <2>11. CASE source[d] \in {"absent", "live"}
    <3>1. LiveChoice' = StagedChoice(e)
      BY <2>8, <2>9, <2>10, <2>11 DEF StagedChoice, d, r
    <3> QED BY <1>1, <1>2, <1>5, <1>9, <1>11, <2>1, <2>11, <3>1 DEF OneActivation, d
  <2>12. CASE source[d] \notin {"absent", "live"}
    <3>1. \A c \in LiveChoice : revisions[c].doc # d
      BY <1>1, <2>12, LiveFacts
    <3>2. LiveChoice' = LiveChoice
      BY <2>8, <2>9, <2>10, <2>12, <3>1
    <3> QED BY <1>1, <1>2, <1>5, <1>9, <1>11, <2>1, <2>12, <3>2 DEF OneActivation, d
  <2> QED BY <2>11, <2>12
<1> QED BY <1>10, <1>11

LEMMA GraphCommit ==
    ASSUME HistoryInv, LinksInv, AcyclicInv, NEW e \in Editors, CommitEdit(e), HistoryInv'
    PROVE  LinksInv' /\ AcyclicInv'
<1> DEFINE r == edit[e].rev
           d == StagedDoc(e)
           g == StagedGroup(e)
           takes == edit[e].activates /\ source[d] \in {"absent", "live"}
<1>1. /\ edit[e].pc = "staged" /\ edit' = [edit EXCEPT ![e] = [pc |-> "idle"]]
      /\ StagedInv(e) /\ StagedAcyclic(e)
  BY CommitEffect DEF LinksInv, AcyclicInv
<1>2. /\ revisions' = StagedRevs(e)
      /\ LiveChoice' = IF takes THEN StagedChoice(e) ELSE LiveChoice
      /\ edit[e].activates => thinned' = Left(d, g) \cup StagedThinned(e)
      /\ ~edit[e].activates => thinned' = thinned
      /\ OneActivation'
  BY CommitChoice
<1>3. \A f \in Editors : StagedInv(f)' /\ StagedAcyclic(f)'
  BY <1>1, Ended, AllIdle
<1>4. /\ DOMAIN revisions' = DOMAIN revisions \cup {r}
      /\ \A x \in DOMAIN revisions : revisions'[x] = revisions[x]
      /\ \A x \in DOMAIN revisions' : \A l \in revisions'[x].links :
           /\ l.to \in DOMAIN revisions
           /\ l.kind = "replaces" => revisions[l.to].group = revisions'[x].group
  BY <1>1, <1>2, StagedRows
<1>5. LinksInv'
  BY <1>2, <1>3, <1>4 DEF LinksInv, LinkInv
<1>6. /\ Whole(revisions, LiveChoice) /\ \A c \in LiveChoice : c \in DOMAIN revisions
      /\ \A c \in LiveChoice : c \in Current(revisions[c].doc)
  BY WholeInForce, LiveFacts DEF LinksInv
<1>7. /\ Whole(revisions', LiveChoice')
      /\ \A c \in LiveChoice' : c \in DOMAIN revisions' /\ revisions'[c].group \in Ids
  BY <1>5, WholeNext DEF WholeNow
<1>8. \A x \in Modifies(revisions', LiveChoice') : x[1] \in Ids
  BY <1>7, EdgeSources
<1>9. \A c \in DOMAIN revisions : \A k :
         Linked(revisions', c, k) = Linked(revisions, c, k)
  BY <1>4, <1>5 DEF Linked, LinksInv, LinkInv
<1>10. g \in Ids /\ d = revisions'[r].doc /\ g = revisions'[r].group
  BY <1>1, <1>2, StagedFacts DEF StagedDoc, StagedGroup
<1> HIDE DEF r, d, g
<1>11. \A x \in Ids \ thinned' : ~OnCycle(Unthinned(revisions', LiveChoice', thinned'), x)
  <2>1. CASE ~takes
    <3>1. LiveChoice' = LiveChoice
      BY <1>2, <2>1
    <3>2. thinned \subseteq thinned'
      BY <1>1, <1>2, <2>1 DEF StagedInv, StagedThinned, d
    <3>3. \A h : SameIn(h, revisions, LiveChoice, revisions', LiveChoice')
      BY <1>4, <1>6, <1>9, <3>1 DEF SameIn
    <3>4. \A x \in Ids \ thinned' : ~OnCycle(Unthinned(revisions, LiveChoice, thinned), x)
      BY <3>2, InForce DEF AcyclicInv
    <3> QED BY <1>6, <1>7, <1>8, <3>2, <3>3, <3>4, StaysAcyclic
  <2>2. CASE takes
    <3>1. /\ LiveChoice' = {c \in LiveChoice : revisions[c].doc # d} \cup {r}
          /\ thinned' = Left(d, g) \cup StagedThinned(e)
      BY <1>2, <2>2 DEF StagedChoice, d, r
    <3>2. thinned \subseteq thinned' \cup {g} /\ StagedThinned(e) \subseteq thinned'
      BY <3>1 DEF StagedThinned, g
    <3>3. ASSUME NEW h \in Ids \ (thinned' \cup {g})
          PROVE  SameIn(h, revisions, LiveChoice, revisions', LiveChoice')
      <4>1. \A c \in LiveChoice : revisions[c].doc = d => revisions[c].group # h
        BY <1>6, <3>1, <3>3 DEF Left
      <4>2. \A c : c \in LiveChoice' /\ revisions'[c].group = h
                     <=> c \in LiveChoice /\ revisions[c].group = h
        BY <1>4, <1>6, <1>10, <3>1, <3>3, <4>1
      <4> QED BY <1>4, <1>6, <1>9, <4>2 DEF SameIn
    <3> DEFINE before == Unthinned(revisions, LiveChoice, thinned)
               after == Unthinned(revisions', LiveChoice', thinned')
    <3>4. ASSUME NEW x \in after, x[1] # g PROVE x \in before
      <4>1. x \in Modifies(revisions', LiveChoice') /\ x[1] \in Ids \ (thinned' \cup {g})
        BY <1>8, <3>4 DEF Unthinned
      <4>2. x \in Modifies(revisions, LiveChoice)
        BY <1>6, <1>7, <3>3, <4>1, SameEdges
      <4> QED BY <3>2, <4>1, <4>2 DEF Unthinned
    <3>5. \A x \in after : x[1] \notin thinned'
      BY DEF Unthinned
    <3>6. \A x \in Ids \ (thinned' \cup {g}) : ~OnCycle(before, x)
      BY <3>2, InForce DEF AcyclicInv
    <3>7. CASE g \notin thinned'
      <4>1. ~OnCycle(Unthinned(revisions', LiveChoice', StagedThinned(e)), g)
        BY <1>1, <1>2, <2>2, <3>2, <3>7 DEF StagedAcyclic, g
      <4>2. ~OnCycle(after, g)
        BY <3>2, <4>1, FewerEdges DEF Unthinned
      <4> HIDE DEF before, after
      <4>3. ASSUME NEW x \in Ids \ thinned', x # g PROVE ~OnCycle(after, x)
        BY <1>10, <3>4, <3>6, <4>2, <4>3, OneGroupChanged
      <4> QED BY <4>2, <4>3 DEF after
    <3>8. CASE g \in thinned'
      <4>1. after \subseteq before
        BY <3>4, <3>5, <3>8
      <4> HIDE DEF before, after
      <4>2. \A x \in Ids \ thinned' : ~OnCycle(after, x)
        BY <3>6, <3>8, <4>1, FewerEdges
      <4> QED BY <4>2 DEF after
    <3> QED BY <3>7, <3>8
  <2> QED BY <2>1, <2>2
<1>12. ModificationsAcyclic'
  BY <1>11 DEF ModificationsAcyclic, Unthinned
<1> QED BY <1>3, <1>5, <1>12 DEF AcyclicInv

-----------------------------------------------------------------------------
GraphInv == HistoryInv /\ LinksInv /\ AcyclicInv

LEMMA GraphStart == HistoryInit => GraphInv
<1> SUFFICES ASSUME HistoryInit PROVE GraphInv
  OBVIOUS
<1>1. /\ DOMAIN revisions = {} /\ activation = {}
      /\ \A e \in Editors : edit[e].pc = "idle"
  BY DEF HistoryInit
<1>2. LiveChoice = {}
  BY <1>1 DEF LiveChoice, Selected, UpTo
<1>3. Modifies(revisions, LiveChoice) = {}
  BY <1>2 DEF Modifies, Speaking
<1>4. \A g \in Ids : Avoids({}, g, {})
  BY DEF Avoids
<1>5. \A g \in Ids : ~OnCycle({}, g)
  BY <1>4, Avoiding
<1>6. ModificationsAcyclic
  BY <1>3, <1>5 DEF ModificationsAcyclic
<1> QED BY <1>1, <1>6, HistoryStart
        DEF GraphInv, LinksInv, LinkInv, OneActivation, StagedInv, AcyclicInv, StagedAcyclic

LEMMA GraphStep == GraphInv /\ [HistoryNext]_historyVars => GraphInv'
<1> SUFFICES ASSUME GraphInv, [HistoryNext]_historyVars PROVE GraphInv'
  OBVIOUS
<1>1. /\ HistoryInv /\ LinksInv /\ AcyclicInv /\ HistoryInv'
  BY HistoryStep DEF GraphInv
<1>2. ASSUME NEW e \in Editors, StageEdit(e) PROVE LinksInv' /\ AcyclicInv'
  <2>1. Locked(e)
    BY <1>2 DEF StageEdit
  <2>2. CASE \E r \in DOMAIN revisions : StageActivation(e, r)
    BY <1>1, <2>1, <2>2, GraphStageActivation
  <2>3. CASE /\ minted < MaxRevisions
             /\ \E d \in Sources, activates \in BOOLEAN, links \in LinkChoices,
                   g \in {revisions[r].group : r \in DOMAIN revisions} \cup {minted + 1} :
                  \E n \in 1 .. minted + 1 : StageRevision(e, d, g, n, links, activates)
    BY <1>1, <2>1, <2>3, GraphStageRevision
  <2> QED BY <1>2, <2>2, <2>3 DEF StageEdit
<1>3. ASSUME NEW e \in Editors, CommitEdit(e) PROVE LinksInv' /\ AcyclicInv'
  BY <1>1, <1>3, GraphCommit
<1>4. ASSUME NEW e \in Editors, RollBackEdit(e) PROVE LinksInv' /\ AcyclicInv'
  BY <1>1, <1>4, GraphRollBack
<1>5. ASSUME NEW d \in Sources, DeleteDocument(d) PROVE LinksInv' /\ AcyclicInv'
  BY <1>1, <1>5, GraphDelete
<1>6. ASSUME NEW d \in Sources, PurgeDocument(d) PROVE LinksInv' /\ AcyclicInv'
  BY <1>1, <1>6, GraphPurge
<1>7. ASSUME UNCHANGED historyVars PROVE LinksInv' /\ AcyclicInv'
  <2>1. UNCHANGED <<source, revisions, activation, sourceGen, thinned>> /\ edit' = edit
    BY <1>7 DEF historyVars
  <2>2. LiveChoice' = LiveChoice
    BY <2>1, SameInForce
  <2>3. \A e \in Editors : /\ StagedRevs(e)' = StagedRevs(e)
                           /\ StagedDoc(e)' = StagedDoc(e)
                           /\ StagedGroup(e)' = StagedGroup(e)
    BY <2>1 DEF StagedRevs, StagedDoc, StagedGroup
  <2>4. \A e \in Editors : /\ StagedChoice(e)' = StagedChoice(e)
                           /\ StagedThinned(e)' = StagedThinned(e)
    BY <2>1, <2>2, <2>3 DEF StagedChoice, StagedThinned
  <2>5. \A e \in Editors : StagedInv(e)' /\ StagedAcyclic(e)'
    BY <1>1, <2>1, <2>3, <2>4 DEF StagedInv, StagedAcyclic, Unthinned, LinksInv, AcyclicInv
  <2>6. LinkInv' /\ OneActivation' /\ ModificationsAcyclic'
    <3>1. LinkInv /\ OneActivation /\ ModificationsAcyclic
      BY <1>1 DEF LinksInv, AcyclicInv
    <3> QED BY <2>1, <3>1, SameInForce
  <2> QED BY <2>5, <2>6 DEF LinksInv, AcyclicInv
<1>8. LinksInv' /\ AcyclicInv'
  BY <1>2, <1>3, <1>4, <1>5, <1>6, <1>7 DEF HistoryNext
<1> QED BY <1>1, <1>8 DEF GraphInv

\* ModificationsAcyclic: checking one group when it is activated keeps every group off a
\* cycle, but for those marked as having lost a document.
THEOREM NoHiddenCycle == HistorySpec => []ModificationsAcyclic
<1>1. GraphInv => ModificationsAcyclic
  BY DEF GraphInv, AcyclicInv
<1> QED BY <1>1, GraphStart, GraphStep, PTL DEF HistorySpec
=============================================================================
