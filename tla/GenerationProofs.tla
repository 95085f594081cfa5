-------------------------- MODULE GenerationProofs --------------------------
(***************************************************************************)
(* Proofs about paid generation.                                           *)
(* GenerationRequests, for any set of keys, bodies, callers and revisions, *)
(* among them that it implements IdempotencyPromise: RowInv and CallInv    *)
(* say what a row and a request carry at each stage; OwnInv, that only the *)
(* request that reserved a row works past the reservation; PaidInv counts  *)
(* the provider calls of a row.                                            *)
(* ProviderSpending, for any calls, estimates and budgets: the charge of   *)
(* an attempt covers what was spent (LedgerInv), only the holder of the    *)
(* lock is being admitted (PlaceInv), so that what it found affordable     *)
(* stays so until it is reserved (RoomInv), and the sums of the charges    *)
(* stay within the budgets (BudgetInv).                                    *)
(* StoredStateMC: a behaviour of the whole is one of each part.            *)
(***************************************************************************)
EXTENDS StoredStateMC, CacheProofs, SourceProofs, FiniteSetTheorems,
        WellFoundedInduction, TLAPS

-----------------------------------------------------------------------------
(* GenerationRequests.                                                      *)

Answered(k) == generation[k].status \in {"succeeded", "failed"}
Owns(r, k) == Works(r, "resolve", k) \/ Works(r, "finish", k)

RowInv ==
    \A k \in IdemKeys :
        /\ generation[k].status = "absent" => generation[k].hash = {}
        /\ generation[k].status # "absent" => \E h \in Hashes : generation[k].hash = {h}
        /\ Answered(k) => generation[k].result \in Results

CallInv ==
    \A r \in Callers :
        /\ call[r].pc # "idle" => \E h \in Hashes : call[r].hash = {h}
        /\ call[r].pc = "finish" => call[r].result \in Results

OwnInv ==
    \A r \in Callers, k \in IdemKeys :
        Owns(r, k) => /\ generation[k].status = "processing"
                      /\ generation[k].by = r
                      /\ generation[k].hash = call[r].hash

PaidInv ==
    \A k \in IdemKeys :
        /\ calls[k] <= 1
        /\ generation[k].status = "absent" => calls[k] = 0
        /\ \A r \in Callers : Works(r, "resolve", k) => calls[k] = 0

Shapes == GenTypeOK /\ RowInv /\ CallInv

-----------------------------------------------------------------------------
LEMMA RowFields ==
    ASSUME GenTypeOK, NEW k \in IdemKeys
    PROVE  /\ generation[k] \in Generation
           /\ generation[k].status \in GenStatus
           /\ generation[k].hash \subseteq Hashes
           /\ generation[k].result \in Results \cup {"none"}
  BY DEF GenTypeOK, Generation

LEMMA CallFields ==
    ASSUME GenTypeOK, NEW r \in Callers
    PROVE  /\ call[r] \in GenCall
           /\ call[r].idem \subseteq IdemKeys /\ call[r].hash \subseteq Hashes
           /\ call[r].result \in Results \cup {"none"}
  BY DEF GenTypeOK, GenCall

Places == {"idle", "lookup", "insert", "again", "resolve", "finish"}

LEMMA Proceeding ==
    ASSUME GenTypeOK, NEW r \in Callers, NEW place \in Places, Proceed(r, place)
    PROVE  /\ call' \in [Callers -> GenCall]
           /\ call'[r].pc = place
           /\ call'[r].idem = call[r].idem /\ call'[r].hash = call[r].hash
           /\ call'[r].result = call[r].result
           /\ \A c \in Callers : c # r => call'[c] = call[c]
  BY CallFields DEF GenTypeOK, GenCall, Proceed, Places

LEMMA Leaving ==
    ASSUME GenTypeOK, NEW r \in Callers, call' = [call EXCEPT ![r] = NoRequest]
    PROVE  /\ call' \in [Callers -> GenCall]
           /\ call'[r] = NoRequest /\ call'[r].pc = "idle"
           /\ \A c \in Callers : c # r => call'[c] = call[c]
  BY DEF GenTypeOK, GenCall, NoRequest

LEMMA Ending ==
    ASSUME GenTypeOK, NEW r \in Callers, NEW x \in Results, Outcomed(r, x)
    PROVE  /\ call' \in [Callers -> GenCall]
           /\ call'[r].pc = "finish" /\ call'[r].result = x
           /\ call'[r].idem = call[r].idem /\ call'[r].hash = call[r].hash
           /\ \A c \in Callers : c # r => call'[c] = call[c]
  BY CallFields DEF GenTypeOK, GenCall, Outcomed

\* A stored outcome is returned only to a request with the hash of the row.
LEMMA Existing ==
    ASSUME Shapes, NEW r \in Callers, NEW k \in IdemKeys, HandleExisting(r, k),
           call[r].pc # "idle"
    PROVE  /\ call' = [call EXCEPT ![r] = NoRequest]
           /\ \/ UNCHANGED answers
              \/ /\ Answered(k) /\ generation[k].hash = call[r].hash
                 /\ answers' = answers \cup {<<k, h, generation[k].result>> : h \in call[r].hash}
<1>1. CASE generation[k].hash # call[r].hash \/ generation[k].status = "processing"
  BY <1>1 DEF HandleExisting, Refuse
<1>2. CASE ~(generation[k].hash # call[r].hash \/ generation[k].status = "processing")
  <2>1. generation[k].status # "absent"
    BY <1>2 DEF Shapes, RowInv, CallInv
  <2>2. Answered(k)
    BY <1>2, <2>1, RowFields DEF Shapes, GenStatus, Answered
  <2> QED BY <1>2, <2>2 DEF HandleExisting, Respond, Outcome
<1> QED BY <1>1, <1>2

\* What one answer adds.
LEMMA AnswerTypes ==
    ASSUME GenTypeOK, NEW r \in Callers, NEW k \in IdemKeys, NEW x \in Results
    PROVE  answers \cup {<<k, h, x>> : h \in call[r].hash} \subseteq IdemKeys \X Hashes \X Results
  BY CallFields DEF GenTypeOK

-----------------------------------------------------------------------------
\* A request that leaves with an answer that is typed, and touches no row.
LEMMA LeavingShapes ==
    ASSUME Shapes, NEW r \in Callers, call' = [call EXCEPT ![r] = NoRequest],
           UNCHANGED <<generation, revision, calls>>,
           answers' \subseteq IdemKeys \X Hashes \X Results
    PROVE  Shapes'
<1>1. GenTypeOK'
  BY Leaving DEF Shapes, GenTypeOK
<1>2. CallInv'
  BY Leaving DEF Shapes, CallInv
<1> QED BY <1>1, <1>2 DEF Shapes, RowInv, Answered

LEMMA ProceedingShapes ==
    ASSUME Shapes, NEW r \in Callers, NEW place \in Places \ {"idle", "finish"},
           Proceed(r, place), call[r].pc # "idle",
           UNCHANGED <<generation, revision, calls, answers>>
    PROVE  Shapes'
<1>1. GenTypeOK'
  BY Proceeding DEF Shapes, GenTypeOK
<1>2. CallInv'
  BY Proceeding DEF Shapes, CallInv
<1> QED BY <1>1, <1>2 DEF Shapes, RowInv, Answered

LEMMA ExistingShapes ==
    ASSUME Shapes, NEW r \in Callers, NEW k \in IdemKeys, HandleExisting(r, k),
           call[r].pc # "idle", UNCHANGED <<generation, revision, calls>>
    PROVE  Shapes'
<1>1. answers' \subseteq IdemKeys \X Hashes \X Results
  <2>1. Answered(k) => generation[k].result \in Results
    BY DEF Shapes, RowInv
  <2>2. answers \subseteq IdemKeys \X Hashes \X Results
    BY DEF Shapes, GenTypeOK
  <2> QED BY <2>1, <2>2, Existing, AnswerTypes DEF Shapes
<1> QED BY <1>1, Existing, LeavingShapes

LEMMA ShapesPreserved ==
    ASSUME Shapes, OwnInv, [GenNext]_genVars
    PROVE  Shapes'
<1>1. ASSUME NEW r \in Callers, NEW k \in IdemKeys, NEW b \in Bodies, Create(r, k, b)
      PROVE  Shapes'
  <2> DEFINE asked == [pc |-> "lookup", idem |-> {k}, hash |-> {<<b, revision>>}, result |-> "none"]
  <2>1. <<b, revision>> \in Hashes
    BY DEF Shapes, GenTypeOK, Hashes
  <2>2. asked \in GenCall
    BY <2>1 DEF GenCall
  <2>3. call' = [call EXCEPT ![r] = asked]
    BY <1>1 DEF Create
  <2>4. GenTypeOK'
    BY <1>1, <2>2, <2>3 DEF Create, Shapes, GenTypeOK
  <2>5. CallInv'
    BY <2>1, <2>3 DEF Shapes, GenTypeOK, CallInv
  <2> QED BY <1>1, <2>4, <2>5 DEF Create, Shapes, RowInv, Answered
<1>2. ASSUME NEW r \in Callers, NEW k \in IdemKeys, LookupRow(r, k)
      PROVE  Shapes'
  <2>1. call[r].pc # "idle" /\ UNCHANGED <<generation, revision, calls>>
    BY <1>2 DEF LookupRow, Works
  <2>2. CASE generation[k].status = "absent"
    BY <1>2, <2>1, <2>2, ProceedingShapes DEF LookupRow, Places
  <2>3. CASE generation[k].status # "absent"
    BY <1>2, <2>1, <2>3, ExistingShapes DEF LookupRow
  <2> QED BY <2>2, <2>3
<1>3. ASSUME NEW r \in Callers, NEW k \in IdemKeys, Insert(r, k)
      PROVE  Shapes'
  <2>1. call[r].pc # "idle" /\ UNCHANGED <<revision, calls, answers>>
    BY <1>3 DEF Insert, Works
  <2>2. CASE Conflicts(k)
    BY <1>3, <2>1, <2>2, ProceedingShapes DEF Insert, Places
  <2>3. CASE ~Conflicts(k)
    <3> DEFINE row == [status |-> "processing", hash |-> call[r].hash,
                       result |-> "none", by |-> r]
    <3>1. Proceed(r, "resolve") /\ generation' = [generation EXCEPT ![k] = row]
      BY <1>3, <2>3 DEF Insert
    <3>2. row \in Generation
      BY CallFields DEF Shapes, Generation, GenStatus
    <3>3. GenTypeOK'
      BY <2>1, <3>1, <3>2, Proceeding DEF Shapes, GenTypeOK, Places
    <3>4. CallInv'
      BY <2>1, <3>1, Proceeding DEF Shapes, CallInv, Places
    <3>5. \E h \in Hashes : row.hash = {h}
      BY <2>1 DEF Shapes, CallInv
    <3>6. RowInv'
      BY <3>1, <3>5 DEF Shapes, GenTypeOK, RowInv, Answered
    <3> QED BY <3>3, <3>4, <3>6 DEF Shapes
  <2> QED BY <2>2, <2>3
<1>4. ASSUME NEW r \in Callers, NEW k \in IdemKeys, LookupAgain(r, k)
      PROVE  Shapes'
  BY <1>4, ExistingShapes DEF LookupAgain, Works
<1>5. ASSUME NEW r \in Callers, NEW k \in IdemKeys, ResolveFails(r, k) \/ CallProvider(r, k)
      PROVE  Shapes'
  <2>1. PICK x \in Results : Outcomed(r, x)
    BY <1>5 DEF ResolveFails, CallProvider, Results
  <2>2. /\ call[r].pc = "resolve" /\ UNCHANGED <<generation, revision, answers>>
        /\ calls' \in [IdemKeys -> Nat]
    BY <1>5 DEF ResolveFails, CallProvider, Works, Shapes, GenTypeOK
  <2>3. GenTypeOK'
    BY <2>1, <2>2, Ending DEF Shapes, GenTypeOK
  <2>4. CallInv'
    BY <2>1, <2>2, Ending DEF Shapes, CallInv
  <2> QED BY <2>2, <2>3, <2>4 DEF Shapes, RowInv, Answered
<1>6. ASSUME NEW r \in Callers, NEW k \in IdemKeys, Finish(r, k)
      PROVE  Shapes'
  <2> DEFINE x == call[r].result
             row == [generation[k] EXCEPT
                       !.status = IF x = "output" THEN "succeeded" ELSE "failed",
                       !.result = x]
  <2>1. x \in Results /\ call[r].pc # "idle"
    BY <1>6 DEF Finish, Works, Shapes, CallInv
  <2>2. generation' = [generation EXCEPT ![k] = row]
    BY <1>6 DEF Finish
  <2>3. row \in Generation /\ row.result = x /\ row.hash = generation[k].hash
        /\ row.status \in {"succeeded", "failed"}
    <3>1. generation[k] \in Generation
      BY RowFields DEF Shapes
    <3> HIDE DEF x
    <3> QED BY <2>1, <3>1 DEF Generation, GenStatus
  <2>4. /\ call' = [call EXCEPT ![r] = NoRequest]
        /\ UNCHANGED <<revision, calls>>
    BY <1>6 DEF Finish, Respond
  <2>5. answers' \subseteq IdemKeys \X Hashes \X Results
    <3>1. answers' = answers \cup {<<k, h, x>> : h \in call[r].hash}
      BY <1>6 DEF Finish, Respond
    <3> HIDE DEF x
    <3> QED BY <2>1, <3>1, AnswerTypes DEF Shapes
  <2>6. \E h \in Hashes : generation[k].hash = {h}
    BY <1>6 DEF Finish, OwnInv, Owns, Shapes, RowInv
  <2> HIDE DEF row, x
  <2>9. GenTypeOK'
    BY <2>2, <2>3, <2>4, <2>5, Leaving DEF Shapes, GenTypeOK
  <2>7. CallInv'
    BY <2>4, Leaving DEF Shapes, CallInv
  <2>8. RowInv'
    BY <2>1, <2>2, <2>3, <2>6 DEF Shapes, GenTypeOK, RowInv, Answered
  <2> QED BY <2>7, <2>8, <2>9 DEF Shapes
<1>7. ASSUME NEW r \in Callers, Die(r)
      PROVE  Shapes'
  BY <1>7, LeavingShapes DEF Die, Refuse, Shapes, GenTypeOK
<1>8. CASE ActivateConfig
  BY <1>8, GenerationAssumption DEF ActivateConfig, Shapes, GenTypeOK, RowInv, CallInv, Answered
<1>9. CASE UNCHANGED genVars
  BY <1>9 DEF genVars, Shapes, GenTypeOK, RowInv, CallInv, Answered
<1> QED BY <1>1, <1>2, <1>3, <1>4, <1>5, <1>6, <1>7, <1>8, <1>9 DEF GenNext, GenStep, Advance

-----------------------------------------------------------------------------
\* A request that owns no row afterwards, and a row that nobody touched.
LEMMA Disowned ==
    ASSUME Shapes, OwnInv, NEW r \in Callers, UNCHANGED generation,
           \A c \in Callers : c # r => call'[c] = call[c],
           call'[r].pc \notin {"resolve", "finish"}
    PROVE  OwnInv'
  BY DEF OwnInv, Owns, Works

LEMMA OwnPreserved ==
    ASSUME Shapes, OwnInv, [GenNext]_genVars
    PROVE  OwnInv'
<1>0. GenTypeOK
  BY DEF Shapes
<1>1. ASSUME NEW r \in Callers, NEW k \in IdemKeys, NEW b \in Bodies, Create(r, k, b)
      PROVE  OwnInv'
  <2>1. call'[r].pc = "lookup" /\ \A c \in Callers : c # r => call'[c] = call[c]
    BY <1>0, <1>1 DEF Create, GenTypeOK
  <2> QED BY <1>1, <2>1, Disowned DEF Create
<1>2. ASSUME NEW r \in Callers, NEW k \in IdemKeys, LookupRow(r, k) \/ LookupAgain(r, k)
      PROVE  OwnInv'
  <2>1. CASE Proceed(r, "insert")
    BY <1>0, <1>2, <2>1, Proceeding, Disowned DEF LookupRow, LookupAgain, Places
  <2>2. CASE HandleExisting(r, k)
    <3>1. call'[r].pc = "idle" /\ \A c \in Callers : c # r => call'[c] = call[c]
      BY <1>0, <1>2, <2>2, Existing, Leaving DEF LookupRow, LookupAgain, Works
    <3> QED BY <1>2, <3>1, Disowned DEF LookupRow, LookupAgain
  <2> QED BY <1>2, <2>1, <2>2 DEF LookupRow, LookupAgain
<1>3. ASSUME NEW r \in Callers, NEW k \in IdemKeys, Insert(r, k)
      PROVE  OwnInv'
  <2>1. CASE Conflicts(k)
    BY <1>0, <1>3, <2>1, Proceeding, Disowned DEF Insert, Places
  <2>2. CASE ~Conflicts(k)
    <3> DEFINE row == [status |-> "processing", hash |-> call[r].hash,
                       result |-> "none", by |-> r]
    <3>1. /\ generation[k].status = "absent" /\ call[r].idem = {k}
          /\ Proceed(r, "resolve") /\ generation' = [generation EXCEPT ![k] = row]
      BY <1>3, <2>2 DEF Insert, Works, Conflicts
    <3>2. \A c \in Callers : ~Owns(c, k)
      BY <3>1 DEF OwnInv
    <3>3. /\ generation'[k] = row
          /\ \A l \in IdemKeys : l # k => generation'[l] = generation[l]
      BY <1>0, <3>1 DEF GenTypeOK
    <3>4. ASSUME NEW c \in Callers, NEW l \in IdemKeys, Owns(c, l)'
          PROVE  /\ generation'[l].status = "processing"
                 /\ generation'[l].by = c /\ generation'[l].hash = call'[c].hash
      <4>1. CASE c = r
        <5>1. l = k /\ call'[r].hash = call[r].hash
          BY <1>0, <3>1, <3>4, <4>1, Proceeding DEF Owns, Works, Places
        <5> QED BY <3>3, <4>1, <5>1
      <4>2. CASE c # r
        <5>1. call'[c] = call[c] /\ Owns(c, l) /\ l # k
          BY <1>0, <3>1, <3>2, <3>4, <4>2, Proceeding DEF Owns, Works, Places
        <5> QED BY <3>3, <5>1 DEF OwnInv
      <4> QED BY <4>1, <4>2
    <3> QED BY <3>4 DEF OwnInv
  <2> QED BY <2>1, <2>2
<1>4. ASSUME NEW r \in Callers, NEW k \in IdemKeys, ResolveFails(r, k) \/ CallProvider(r, k)
      PROVE  OwnInv'
  <2>1. PICK x \in Results : Outcomed(r, x)
    BY <1>4 DEF ResolveFails, CallProvider, Results
  <2>2. Owns(r, k) /\ UNCHANGED generation
    BY <1>4 DEF ResolveFails, CallProvider, Owns
  <2> QED BY <1>0, <2>1, <2>2, Ending DEF OwnInv, Owns, Works
<1>5. ASSUME NEW r \in Callers, NEW k \in IdemKeys, Finish(r, k)
      PROVE  OwnInv'
  <2>1. Owns(r, k) /\ generation[k].by = r
    BY <1>5 DEF Finish, Owns, OwnInv
  <2>2. /\ call'[r].pc = "idle"
        /\ \A c \in Callers : c # r => call'[c] = call[c] /\ ~Owns(c, k)
    BY <1>0, <1>5, <2>1, Leaving DEF Finish, Respond, OwnInv
  <2>3. \A l \in IdemKeys : l # k => generation'[l] = generation[l]
    BY <1>0, <1>5 DEF Finish, GenTypeOK
  <2> QED BY <2>2, <2>3 DEF OwnInv, Owns, Works
<1>6. ASSUME NEW r \in Callers, Die(r)
      PROVE  OwnInv'
  BY <1>0, <1>6, Leaving, Disowned DEF Die, Refuse
<1>7. CASE ActivateConfig
  BY <1>7 DEF ActivateConfig, OwnInv, Owns, Works
<1>8. CASE UNCHANGED genVars
  BY <1>8 DEF genVars, OwnInv, Owns, Works
<1> QED BY <1>1, <1>2, <1>3, <1>4, <1>5, <1>6, <1>7, <1>8 DEF GenNext, GenStep, Advance

\* Every variable keeps its type; a row past "processing" has an outcome, and only the
\* request that reserved a row works on it.
THEOREM GenTypeCorrect == GenSpec => [](GenTypeOK /\ RowInv /\ CallInv /\ OwnInv)
<1>1. GenInit => Shapes /\ OwnInv
  <2> SUFFICES ASSUME GenInit PROVE Shapes /\ OwnInv
    OBVIOUS
  <2>1. GenTypeOK
    BY GenerationAssumption DEF GenInit, GenTypeOK, Generation, GenCall, GenStatus, Absent, NoRequest
  <2>2. RowInv /\ CallInv /\ OwnInv
    BY DEF GenInit, RowInv, CallInv, OwnInv, Owns, Works, Answered, Absent, NoRequest
  <2> QED BY <2>1, <2>2 DEF Shapes
<1>2. Shapes /\ OwnInv /\ [GenNext]_genVars => Shapes' /\ OwnInv'
  BY ShapesPreserved, OwnPreserved
<1>3. Shapes /\ OwnInv => GenTypeOK /\ RowInv /\ CallInv /\ OwnInv
  BY DEF Shapes
<1> QED BY <1>1, <1>2, <1>3, PTL DEF GenSpec

-----------------------------------------------------------------------------
\* A step without a call to the provider, after which nobody new may call.
LEMMA NotPaid ==
    ASSUME PaidInv, UNCHANGED calls,
           \A k \in IdemKeys : generation'[k].status = "absent" => generation[k].status = "absent",
           \A k \in IdemKeys, r \in Callers : Works(r, "resolve", k)' =>
               Works(r, "resolve", k) \/ generation[k].status = "absent"
    PROVE  PaidInv'
  BY DEF PaidInv

LEMMA PaidPreserved ==
    ASSUME Shapes, OwnInv, PaidInv, [GenNext]_genVars
    PROVE  PaidInv'
<1>0. GenTypeOK
  BY DEF Shapes
<1>1. ASSUME NEW r \in Callers, NEW k \in IdemKeys, NEW b \in Bodies, Create(r, k, b)
      PROVE  PaidInv'
  <2>1. call'[r].pc = "lookup" /\ \A c \in Callers : c # r => call'[c] = call[c]
    BY <1>0, <1>1 DEF Create, GenTypeOK
  <2> QED BY <1>1, <2>1, NotPaid DEF Create, Works
<1>2. ASSUME NEW r \in Callers, NEW k \in IdemKeys, LookupRow(r, k) \/ LookupAgain(r, k)
      PROVE  PaidInv'
  <2>1. /\ call'[r].pc # "resolve"
        /\ \A c \in Callers : c # r => call'[c] = call[c]
    <3>1. CASE Proceed(r, "insert")
      BY <1>0, <3>1, Proceeding DEF Places
    <3>2. CASE HandleExisting(r, k)
      BY <1>0, <1>2, <3>2, Existing, Leaving DEF LookupRow, LookupAgain, Works
    <3> QED BY <1>2, <3>1, <3>2 DEF LookupRow, LookupAgain
  <2> QED BY <1>2, <2>1, NotPaid DEF LookupRow, LookupAgain, Works
<1>3. ASSUME NEW r \in Callers, NEW k \in IdemKeys, Insert(r, k)
      PROVE  PaidInv'
  <2>1. CASE Conflicts(k)
    BY <1>0, <1>3, <2>1, Proceeding, NotPaid DEF Insert, Places, Works
  <2>2. CASE ~Conflicts(k)
    <3>1. /\ generation[k].status = "absent" /\ call[r].idem = {k}
          /\ Proceed(r, "resolve") /\ UNCHANGED calls
      BY <1>3, <2>2 DEF Insert, Works, Conflicts
    <3>2. \A l \in IdemKeys : generation'[l].status = "absent" => generation[l].status = "absent"
      BY <1>0, <1>3, <2>2 DEF Insert, GenTypeOK
    <3>3. \A l \in IdemKeys, c \in Callers : Works(c, "resolve", l)' =>
              Works(c, "resolve", l) \/ generation[l].status = "absent"
      BY <1>0, <3>1, Proceeding DEF Works, Places
    <3> QED BY <3>1, <3>2, <3>3, NotPaid
  <2> QED BY <2>1, <2>2
<1>4. ASSUME NEW r \in Callers, NEW k \in IdemKeys, ResolveFails(r, k)
      PROVE  PaidInv'
  BY <1>0, <1>4, Ending, NotPaid DEF ResolveFails, Results, Works
<1>5. ASSUME NEW r \in Callers, NEW k \in IdemKeys, CallProvider(r, k)
      PROVE  PaidInv'
  <2>1. PICK x \in Results : Outcomed(r, x)
    BY <1>5 DEF CallProvider
  <2>2. /\ generation[k].status = "processing" /\ generation[k].by = r /\ calls[k] = 0
        /\ UNCHANGED generation
    BY <1>5 DEF CallProvider, OwnInv, Owns, PaidInv
  <2>3. /\ calls'[k] = 1
        /\ \A l \in IdemKeys : l # k => calls'[l] = calls[l]
    BY <1>0, <1>5, <2>2 DEF CallProvider, GenTypeOK
  <2>4. \A c \in Callers, l \in IdemKeys : Works(c, "resolve", l)' => l # k /\ Works(c, "resolve", l)
    <3> SUFFICES ASSUME NEW c \in Callers, NEW l \in IdemKeys, Works(c, "resolve", l)'
                 PROVE  l # k /\ Works(c, "resolve", l)
      OBVIOUS
    <3>1. c # r /\ Works(c, "resolve", l)
      BY <1>0, <2>1, Ending DEF Works
    <3>2. generation[l].by = c
      BY <3>1 DEF OwnInv, Owns
    <3> QED BY <2>2, <3>1, <3>2
  <2> QED BY <2>2, <2>3, <2>4 DEF PaidInv
<1>6. ASSUME NEW r \in Callers, NEW k \in IdemKeys, Finish(r, k)
      PROVE  PaidInv'
  <2>1. \A l \in IdemKeys : generation'[l].status = "absent" => generation[l].status = "absent"
    BY <1>0, <1>6, RowFields DEF Finish, GenTypeOK, Generation
  <2> QED BY <1>0, <1>6, <2>1, Leaving, NotPaid DEF Finish, Respond, Works
<1>7. ASSUME NEW r \in Callers, Die(r)
      PROVE  PaidInv'
  BY <1>0, <1>7, Leaving, NotPaid DEF Die, Refuse, Works
<1>8. CASE ActivateConfig \/ UNCHANGED genVars
  BY <1>8 DEF ActivateConfig, genVars, PaidInv, Works
<1> QED BY <1>1, <1>2, <1>3, <1>4, <1>5, <1>6, <1>7, <1>8 DEF GenNext, GenStep, Advance

\* However many requests race, and whichever of them dies, the provider is called at
\* most once for a key.
THEOREM ProviderCalledOnce == GenSpec => []CalledOncePerKey
<1>1. GenInit => PaidInv
  <2> SUFFICES ASSUME GenInit PROVE PaidInv
    OBVIOUS
  <2>1. \A k \in IdemKeys : calls[k] = 0
    BY DEF GenInit
  <2>2. \A r \in Callers, k \in IdemKeys : ~Works(r, "resolve", k)
    BY DEF GenInit, Works, NoRequest
  <2>3. ASSUME NEW k \in IdemKeys PROVE calls[k] <= 1
    <3>1. calls[k] = 0
      BY <2>1
    <3> QED BY <3>1
  <2> QED BY <2>1, <2>2, <2>3, Zenon DEF PaidInv
<1>2. GenTypeOK /\ RowInv /\ CallInv /\ OwnInv /\ PaidInv /\ [GenNext]_genVars => PaidInv'
  BY PaidPreserved DEF Shapes
<1>3. PaidInv => CalledOncePerKey
  BY DEF PaidInv, CalledOncePerKey
<1> QED BY <1>1, <1>2, <1>3, GenTypeCorrect, PTL DEF GenSpec

-----------------------------------------------------------------------------
(* Refinement: what a row binds and decides, as IdempotencyPromise sees it. *)

BoundOf == [k \in IdemKeys |-> generation[k].hash]
OutcomeOf == [k \in IdemKeys |->
    {x \in Results : generation[k].status \in {"succeeded", "failed"}
                     /\ x = generation[k].result}]

LEMMA OutcomeValue ==
    ASSUME Shapes, NEW k \in IdemKeys
    PROVE  OutcomeOf[k] = IF Answered(k) THEN {generation[k].result} ELSE {}
  BY DEF OutcomeOf, Answered, Shapes, RowInv

\* A step that touches no row and gives no answer stutters.
LEMMA Stutters ==
    ASSUME UNCHANGED <<generation, answers>>
    PROVE  UNCHANGED Promise!promiseVars
  BY DEF Promise!promiseVars

\* A request that is answered from the row repeats its outcome.
LEMMA ExistingReplies ==
    ASSUME Shapes, NEW r \in Callers, NEW k \in IdemKeys, HandleExisting(r, k),
           call[r].pc # "idle", UNCHANGED generation
    PROVE  [Promise!PromiseNext]_(Promise!promiseVars)
<1>1. CASE UNCHANGED answers
  BY <1>1, Stutters
<1>2. CASE /\ Answered(k) /\ generation[k].hash = call[r].hash
           /\ answers' = answers \cup {<<k, h, generation[k].result>> : h \in call[r].hash}
  <2>1. OutcomeOf[k] = {generation[k].result} /\ BoundOf[k] = call[r].hash
    BY <1>2, OutcomeValue DEF BoundOf
  <2>2. answers' = answers \cup {<<k, h, x>> : h \in BoundOf[k], x \in OutcomeOf[k]}
    BY <1>2, <2>1
  <2>3. Promise!Reply(k)
    BY <2>1, <2>2 DEF Promise!Reply, Promise!None, BoundOf, OutcomeOf
  <2> QED BY <2>3 DEF Promise!PromiseNext
<1> QED BY <1>1, <1>2, Existing

LEMMA PromiseStep ==
    ASSUME Shapes, OwnInv, [GenNext]_genVars
    PROVE  [Promise!PromiseNext]_(Promise!promiseVars)
<1>0. GenTypeOK
  BY DEF Shapes
<1>1. ASSUME NEW r \in Callers, NEW k \in IdemKeys, NEW b \in Bodies, Create(r, k, b)
      PROVE  [Promise!PromiseNext]_(Promise!promiseVars)
  BY <1>1, Stutters DEF Create
<1>2. ASSUME NEW r \in Callers, NEW k \in IdemKeys, LookupRow(r, k) \/ LookupAgain(r, k)
      PROVE  [Promise!PromiseNext]_(Promise!promiseVars)
  <2>1. CASE HandleExisting(r, k)
    BY <1>2, <2>1, ExistingReplies DEF LookupRow, LookupAgain, Works
  <2>2. CASE UNCHANGED answers
    BY <1>2, <2>2, Stutters DEF LookupRow, LookupAgain
  <2> QED BY <1>2, <2>1, <2>2 DEF LookupRow, LookupAgain
<1>3. ASSUME NEW r \in Callers, NEW k \in IdemKeys, Insert(r, k)
      PROVE  [Promise!PromiseNext]_(Promise!promiseVars)
  <2>1. CASE Conflicts(k)
    BY <1>3, <2>1, Stutters DEF Insert
  <2>2. CASE ~Conflicts(k)
    <3> DEFINE row == [status |-> "processing", hash |-> call[r].hash,
                       result |-> "none", by |-> r]
    <3>1. /\ generation[k].status = "absent" /\ UNCHANGED answers
          /\ generation' = [generation EXCEPT ![k] = row]
      BY <1>3, <2>2 DEF Insert, Conflicts
    <3>2. PICK h \in Hashes : call[r].hash = {h}
      BY <1>3 DEF Insert, Works, Shapes, CallInv
    <3>3. generation[k].hash = {} /\ BoundOf' = [BoundOf EXCEPT ![k] = {h}]
      BY <1>0, <3>1, <3>2 DEF BoundOf, GenTypeOK, Shapes, RowInv
    <3>4. OutcomeOf' = OutcomeOf
      BY <1>0, <3>1 DEF OutcomeOf, GenTypeOK
    <3>5. Promise!Bind(k)
      BY <3>1, <3>3, <3>4 DEF Promise!Bind, Promise!None, Promise!Some, BoundOf, OutcomeOf
    <3> QED BY <3>5 DEF Promise!PromiseNext
  <2> QED BY <2>1, <2>2
<1>4. ASSUME NEW r \in Callers, NEW k \in IdemKeys, ResolveFails(r, k) \/ CallProvider(r, k)
      PROVE  [Promise!PromiseNext]_(Promise!promiseVars)
  BY <1>4, Stutters DEF ResolveFails, CallProvider
<1>5. ASSUME NEW r \in Callers, NEW k \in IdemKeys, Finish(r, k)
      PROVE  [Promise!PromiseNext]_(Promise!promiseVars)
  <2> DEFINE x == call[r].result
             row == [generation[k] EXCEPT
                       !.status = IF x = "output" THEN "succeeded" ELSE "failed",
                       !.result = x]
  <2>1. x \in Results
    BY <1>5 DEF Finish, Works, Shapes, CallInv
  <2>2. /\ generation[k].status = "processing" /\ generation[k].hash = call[r].hash
        /\ generation[k].hash # {}
    BY <1>5 DEF Finish, OwnInv, Owns, Shapes, RowInv
  <2>3. /\ generation' = [generation EXCEPT ![k] = row]
        /\ answers' = answers \cup {<<k, h, x>> : h \in call[r].hash}
    BY <1>5 DEF Finish, Respond
  <2>4. /\ row.result = x /\ row.hash = generation[k].hash
        /\ row.status \in {"succeeded", "failed"}
    BY <1>0, RowFields DEF Generation
  <2> HIDE DEF row, x
  <2>5. BoundOf' = BoundOf
    BY <1>0, <2>3, <2>4 DEF BoundOf, GenTypeOK
  <2>6. OutcomeOf[k] = {} /\ OutcomeOf' = [OutcomeOf EXCEPT ![k] = {x}]
    <3>1. OutcomeOf[k] = {}
      BY <2>2 DEF OutcomeOf
    <3>2. OutcomeOf'[k] = {x}
      BY <1>0, <2>1, <2>3, <2>4 DEF OutcomeOf, GenTypeOK
    <3>3. \A l \in IdemKeys : l # k => OutcomeOf'[l] = OutcomeOf[l]
      BY <1>0, <2>3 DEF OutcomeOf, GenTypeOK
    <3> QED BY <3>1, <3>2, <3>3 DEF OutcomeOf
  <2>7. Promise!Decide(k)
    BY <2>1, <2>2, <2>3, <2>5, <2>6 DEF Promise!Decide, Promise!None, Promise!Some, BoundOf, OutcomeOf
  <2> QED BY <2>7 DEF Promise!PromiseNext
<1>6. ASSUME NEW r \in Callers, Die(r)
      PROVE  [Promise!PromiseNext]_(Promise!promiseVars)
  BY <1>6, Stutters DEF Die, Refuse
<1>7. CASE ActivateConfig \/ UNCHANGED genVars
  BY <1>7, Stutters DEF ActivateConfig, genVars
<1> QED BY <1>1, <1>2, <1>3, <1>4, <1>5, <1>6, <1>7 DEF GenNext, GenStep, Advance

\* The reservations implement the promise: a key is bound to one request, has one
\* outcome, and every answer repeats it.
THEOREM ImplementsPromise == GenSpec => KeepsPromise
<1>1. GenInit => Promise!PromiseInit
  BY DEF GenInit, Promise!PromiseInit, Promise!None, Absent
<1>2. GenTypeOK /\ RowInv /\ CallInv /\ OwnInv /\ [GenNext]_genVars
        => [Promise!PromiseNext]_(Promise!promiseVars)
  BY PromiseStep DEF Shapes
<1> QED BY <1>1, <1>2, GenTypeCorrect, PTL DEF GenSpec, KeepsPromise, Promise!PromiseSpec

-----------------------------------------------------------------------------
(* Sums over the elements of a finite set.                                  *)

\* Induction over the subsets of a finite set, stated with the set of those that are
\* known to be good.
LEMMA SubsetsInduct ==
    ASSUME NEW S, IsFiniteSet(S), NEW good,
           \A t \in SUBSET S : (\A s \in SUBSET t : s # t => s \in good) => t \in good
    PROVE  \A t \in SUBSET S : t \in good
<1> DEFINE bad == (SUBSET S) \ good
           R == StrictSubsetOrdering(S)
<1>1. IsWellFoundedOn(R, SUBSET S)
  BY FS_StrictSubsetOrderingWellFounded, FS_FiniteSubsetsOfFinite
<1>2. SUFFICES ASSUME bad # {} PROVE FALSE
  OBVIOUS
<1>3. bad \subseteq SUBSET S
  OBVIOUS
<1> HIDE DEF bad, R
<1>4. PICK t \in bad : \A s \in bad : ~(<<s, t>> \in R)
  BY <1>1, <1>2, <1>3, WFMin
<1>5. t \in SUBSET S /\ t \notin good
  BY <1>4 DEF bad
<1>6. ASSUME NEW s \in SUBSET t, s # t PROVE s \in good
  <2>1. s \in SUBSET S /\ <<s, t>> \in R
    BY <1>5, <1>6 DEF R, StrictSubsetOrdering
  <2> QED BY <1>4, <2>1 DEF bad
<1> QED BY <1>5, <1>6

-----------------------------------------------------------------------------
\* The recursion of a sum, for the subsets of a set.
Picked(s) == CHOOSE x \in s : TRUE
AddsUp(it, f, S) ==
    it = [s \in SUBSET S |-> IF s = {} THEN 0 ELSE f[Picked(s)] + it[s \ {Picked(s)}]]

LEMMA PickedIsIn ==
    ASSUME NEW s, s # {} PROVE Picked(s) \in s
  BY DEF Picked

LEMMA SumDefinition ==
    ASSUME NEW f, NEW S
    PROVE  SumFunctionOnSet(f, S) = (CHOOSE it : AddsUp(it, f, S))[S]
  BY DEF SumFunctionOnSet, FoldFunctionOnSet, MapThenFoldSet, AddsUp, Picked

\* Two recursions agree where both are defined.
LEMMA SumsAgree ==
    ASSUME NEW S, IsFiniteSet(S), NEW T \in SUBSET S, NEW f, NEW it, NEW that,
           AddsUp(it, f, S), AddsUp(that, f, T)
    PROVE  \A s \in SUBSET T : it[s] = that[s]
<1> DEFINE good == {s \in SUBSET T : it[s] = that[s]}
<1>1. IsFiniteSet(T)
  BY FS_Subset
<1>2. ASSUME NEW t \in SUBSET T, \A s \in SUBSET t : s # t => s \in good
      PROVE  t \in good
  <2>1. CASE t = {}
    BY <2>1 DEF AddsUp
  <2>2. CASE t # {}
    <3>1. Picked(t) \in t
      BY <2>2, PickedIsIn
    <3>2. t \ {Picked(t)} \in good
      BY <1>2, <3>1
    <3>3. it[t] = f[Picked(t)] + it[t \ {Picked(t)}]
      BY <2>2 DEF AddsUp
    <3>4. that[t] = f[Picked(t)] + that[t \ {Picked(t)}]
      BY <2>2 DEF AddsUp
    <3> QED BY <3>2, <3>3, <3>4
  <2> QED BY <2>1, <2>2
<1> HIDE DEF good
<1>3. \A t \in SUBSET T : t \in good
  BY <1>1, <1>2, SubsetsInduct
<1> QED BY <1>3 DEF good

\* There is one.
LEMMA SumsExist ==
    ASSUME NEW S, IsFiniteSet(S), NEW f
    PROVE  \E it : AddsUp(it, f, S)
<1> DEFINE good == {s \in SUBSET S : \E it : AddsUp(it, f, s)}
<1>1. ASSUME NEW t \in SUBSET S, \A s \in SUBSET t : s # t => s \in good
      PROVE  t \in good
  <2> DEFINE total(s) == (CHOOSE it : AddsUp(it, f, s))[s]
             it == [s \in SUBSET t |-> IF s = t /\ t # {} THEN f[Picked(t)] + total(t \ {Picked(t)})
                                                ELSE total(s)]
  <2>1. \A s \in SUBSET t : s # t => AddsUp(CHOOSE sum : AddsUp(sum, f, s), f, s)
    BY <1>1
  <2>2. ASSUME NEW s \in SUBSET t, s # t, s # {}
        PROVE  total(s) = f[Picked(s)] + total(s \ {Picked(s)})
    <3>1. Picked(s) \in s
      BY <2>2, PickedIsIn
    <3> DEFINE r == s \ {Picked(s)}
               g == CHOOSE sum : AddsUp(sum, f, s)
               h == CHOOSE sum : AddsUp(sum, f, r)
    <3>2. r \in SUBSET s /\ r \in SUBSET t /\ r # t
      BY <2>2, <3>1
    <3>3. AddsUp(g, f, s) /\ AddsUp(h, f, r)
      BY <2>1, <2>2, <3>2
    <3>4. IsFiniteSet(s)
      BY FS_Subset, <2>2
    <3> HIDE DEF g, h, r
    <3>5. g[r] = h[r]
      BY <3>2, <3>3, <3>4, SumsAgree
    <3>6. g[s] = f[Picked(s)] + g[r]
      BY <2>2, <3>3 DEF AddsUp, r
    <3> QED BY <3>5, <3>6 DEF g, h, r
  <2>3. t # {} => total({}) = 0
    <3>1. ASSUME t # {} PROVE (CHOOSE sum : AddsUp(sum, f, {}))[{}] = 0
      <4>1. AddsUp(CHOOSE sum : AddsUp(sum, f, {}), f, {})
        BY <2>1, <3>1
      <4> DEFINE g == CHOOSE sum : AddsUp(sum, f, {})
      <4> HIDE DEF g
      <4>2. AddsUp(g, f, {})
        BY <4>1 DEF g
      <4>3. g[{}] = 0
        BY <4>2 DEF AddsUp
      <4> QED BY <4>3 DEF g
    <3> QED BY <3>1
  <2> HIDE DEF total
  <2>4. CASE t # {}
    <3>1. Picked(t) \in t
      BY <2>4, PickedIsIn
    <3>2. ASSUME NEW s \in SUBSET t
          PROVE  it[s] = IF s = {} THEN 0 ELSE f[Picked(s)] + it[s \ {Picked(s)}]
      <4>1. CASE s = {}
        BY <2>3, <2>4, <4>1
      <4>2. CASE s # {} /\ s # t
        <5>1. Picked(s) \in s /\ s \ {Picked(s)} # t
          BY <4>2, PickedIsIn
        <5> QED BY <2>2, <4>2, <5>1
      <4>3. CASE s = t
        <5>1. t \ {Picked(t)} # t
          BY <3>1
        <5> QED BY <2>4, <4>3, <5>1
      <4> QED BY <4>1, <4>2, <4>3
    <3>3. AddsUp(it, f, t)
      BY <3>2 DEF AddsUp
    <3> QED BY <3>3
  <2>5. CASE t = {}
    <3>1. AddsUp([s \in {{}} |-> 0], f, {})
      <4>1. SUBSET {} = {{}}
        OBVIOUS
      <4> QED BY <4>1 DEF AddsUp
    <3> QED BY <2>5, <3>1
  <2> QED BY <2>4, <2>5
<1> HIDE DEF good
<1>2. \A t \in SUBSET S : t \in good
  BY <1>1, SubsetsInduct
<1> QED BY <1>2 DEF good

\* A sum takes its elements in the order in which they are picked ...
LEMMA SumPicked ==
    ASSUME NEW S, IsFiniteSet(S), S # {}, NEW f
    PROVE  SumFunctionOnSet(f, S)
             = f[Picked(S)] + SumFunctionOnSet(f, S \ {Picked(S)})
<1> DEFINE r == S \ {Picked(S)}
           g == CHOOSE it : AddsUp(it, f, S)
           h == CHOOSE it : AddsUp(it, f, r)
<1>1. r \in SUBSET S /\ IsFiniteSet(r)
  BY FS_Subset
<1>2. AddsUp(g, f, S) /\ AddsUp(h, f, r)
  <2>1. (\E it : AddsUp(it, f, S)) /\ (\E it : AddsUp(it, f, r))
    BY <1>1, SumsExist
  <2> QED BY <2>1
<1> HIDE DEF g, h, r
<1>3. g[r] = h[r]
  BY <1>1, <1>2, SumsAgree
<1>4. g[S] = f[Picked(S)] + g[r]
  BY <1>2 DEF AddsUp, r
<1> QED BY <1>3, <1>4, SumDefinition DEF g, h, r

LEMMA SumOfNothing ==
    ASSUME NEW f PROVE SumFunctionOnSet(f, {}) = 0
<1> DEFINE g == CHOOSE it : AddsUp(it, f, {})
<1>1. AddsUp(g, f, {})
  <2>1. \E it : AddsUp(it, f, {})
    BY SumsExist, FS_EmptySet
  <2> QED BY <2>1
<1> HIDE DEF g
<1>2. g[{}] = 0
  BY <1>1 DEF AddsUp
<1> QED BY <1>2, SumDefinition DEF g

LEMMA SumIsNat ==
    ASSUME NEW S, IsFiniteSet(S), NEW f, \A x \in S : f[x] \in Nat
    PROVE  \A s \in SUBSET S : SumFunctionOnSet(f, s) \in Nat
<1> DEFINE good == {s \in SUBSET S : SumFunctionOnSet(f, s) \in Nat}
<1>1. ASSUME NEW t \in SUBSET S, \A s \in SUBSET t : s # t => s \in good
      PROVE  t \in good
  <2>1. CASE t = {}
    BY <2>1, SumOfNothing
  <2>2. CASE t # {}
    <3>1. Picked(t) \in t /\ IsFiniteSet(t)
      BY <2>2, PickedIsIn, FS_Subset
    <3>2. t \ {Picked(t)} \in good /\ f[Picked(t)] \in Nat
      BY <1>1, <3>1
    <3>3. SumFunctionOnSet(f, t) = f[Picked(t)] + SumFunctionOnSet(f, t \ {Picked(t)})
      BY <2>2, <3>1, SumPicked
    <3> QED BY <3>2, <3>3
  <2> QED BY <2>1, <2>2
<1> HIDE DEF good
<1>2. \A t \in SUBSET S : t \in good
  BY <1>1, SubsetsInduct
<1> QED BY <1>2 DEF good

\* ... which makes no difference.
LEMMA SumWithout ==
    ASSUME NEW S, IsFiniteSet(S), NEW f, \A x \in S : f[x] \in Nat
    PROVE  \A s \in SUBSET S : \A x \in s :
             SumFunctionOnSet(f, s) = f[x] + SumFunctionOnSet(f, s \ {x})
<1> DEFINE good == {s \in SUBSET S : \A x \in s :
                      SumFunctionOnSet(f, s) = f[x] + SumFunctionOnSet(f, s \ {x})}
<1>1. ASSUME NEW t \in SUBSET S, \A s \in SUBSET t : s # t => s \in good
      PROVE  t \in good
  <2> SUFFICES ASSUME NEW x \in t
               PROVE  SumFunctionOnSet(f, t) = f[x] + SumFunctionOnSet(f, t \ {x})
    OBVIOUS
  <2> DEFINE c == Picked(t)
  <2>1. c \in t /\ IsFiniteSet(t)
    BY PickedIsIn, FS_Subset
  <2>2. SumFunctionOnSet(f, t) = f[c] + SumFunctionOnSet(f, t \ {c})
    BY <2>1, SumPicked
  <2> HIDE DEF c
  <2>3. CASE x = c
    BY <2>2, <2>3
  <2>4. CASE x # c
    <3>1. t \ {c} \in good /\ t \ {x} \in good
      BY <1>1, <2>1
    <3> DEFINE rest == t \ {c, x}
    <3>2. (t \ {c}) \ {x} = rest /\ (t \ {x}) \ {c} = rest
      OBVIOUS
    <3>3. x \in t \ {c} /\ c \in t \ {x}
      BY <2>1, <2>4
    <3>4. /\ SumFunctionOnSet(f, t \ {c}) = f[x] + SumFunctionOnSet(f, rest)
          /\ SumFunctionOnSet(f, t \ {x}) = f[c] + SumFunctionOnSet(f, rest)
      BY <3>1, <3>2, <3>3
    <3>5. f[x] \in Nat /\ f[c] \in Nat /\ SumFunctionOnSet(f, rest) \in Nat
      BY <2>1, SumIsNat
    <3> HIDE DEF rest
    <3> QED BY <2>2, <3>4, <3>5
  <2> QED BY <2>3, <2>4
<1> HIDE DEF good
<1>2. \A t \in SUBSET S : t \in good
  BY <1>1, SubsetsInduct
<1> QED BY <1>2 DEF good

LEMMA SumWith ==
    ASSUME NEW S, IsFiniteSet(S), NEW f, \A x \in S : f[x] \in Nat,
           NEW s \in SUBSET S, NEW x \in S \ s
    PROVE  SumFunctionOnSet(f, s \cup {x}) = f[x] + SumFunctionOnSet(f, s)
<1>1. s \cup {x} \in SUBSET S /\ x \in s \cup {x} /\ (s \cup {x}) \ {x} = s
  OBVIOUS
<1>2. SumFunctionOnSet(f, s \cup {x}) = f[x] + SumFunctionOnSet(f, (s \cup {x}) \ {x})
  BY <1>1, SumWithout
<1> QED BY <1>1, <1>2

\* Of more elements, or of greater ones, the sum is no smaller.
LEMMA SumsCompare ==
    ASSUME NEW S, IsFiniteSet(S), NEW f, NEW g,
           \A x \in S : f[x] \in Nat /\ g[x] \in Nat
    PROVE  \A t \in SUBSET S : \A s \in SUBSET t :
             (\A x \in s : f[x] <= g[x]) => SumFunctionOnSet(f, s) <= SumFunctionOnSet(g, t)
<1> DEFINE good == {t \in SUBSET S : \A s \in SUBSET t :
                      (\A x \in s : f[x] <= g[x])
                         => SumFunctionOnSet(f, s) <= SumFunctionOnSet(g, t)}
<1>1. ASSUME NEW t \in SUBSET S, \A s \in SUBSET t : s # t => s \in good
      PROVE  t \in good
  <2> SUFFICES ASSUME NEW s \in SUBSET t, \A x \in s : f[x] <= g[x]
               PROVE  SumFunctionOnSet(f, s) <= SumFunctionOnSet(g, t)
    OBVIOUS
  <2>1. CASE t = {}
    BY <2>1, SumOfNothing
  <2>2. CASE t # {}
    <3> DEFINE c == Picked(t)
    <3>1. c \in t
      BY <2>2, PickedIsIn
    <3> HIDE DEF c
    <3>2. t \ {c} \in good /\ s \ {c} \in SUBSET (t \ {c}) /\ s \in SUBSET S
      BY <1>1, <3>1
    <3>3. SumFunctionOnSet(g, t) = g[c] + SumFunctionOnSet(g, t \ {c})
      BY <3>1, SumWithout
    <3>4. SumFunctionOnSet(f, s \ {c}) <= SumFunctionOnSet(g, t \ {c})
      BY <3>2
    <3>5. /\ SumFunctionOnSet(f, s \ {c}) \in Nat /\ SumFunctionOnSet(g, t \ {c}) \in Nat
          /\ f[c] \in Nat /\ g[c] \in Nat
      <4>1. s \ {c} \in SUBSET S /\ t \ {c} \in SUBSET S /\ c \in S
        BY <3>1
      <4> QED BY <4>1, SumIsNat
    <3>6. CASE c \in s
      <4>1. SumFunctionOnSet(f, s) = f[c] + SumFunctionOnSet(f, s \ {c})
        BY <3>2, <3>6, SumWithout
      <4>2. f[c] <= g[c]
        BY <3>6
      <4> QED BY <3>3, <3>4, <3>5, <4>1, <4>2
    <3>7. CASE c \notin s
      <4>1. s \ {c} = s
        BY <3>7
      <4> QED BY <3>3, <3>4, <3>5, <4>1
    <3> QED BY <3>6, <3>7
  <2> QED BY <2>1, <2>2
<1> HIDE DEF good
<1>2. \A t \in SUBSET S : t \in good
  BY <1>1, SubsetsInduct
<1> QED BY <1>2 DEF good

LEMMA SumsEqual ==
    ASSUME NEW S, IsFiniteSet(S), NEW f, NEW g, NEW s \in SUBSET S,
           \A x \in s : f[x] \in Nat /\ g[x] = f[x]
    PROVE  SumFunctionOnSet(f, s) = SumFunctionOnSet(g, s)
<1>1. IsFiniteSet(s) /\ s \in SUBSET s
  BY FS_Subset
<1>2. \A x \in s : f[x] \in Nat /\ g[x] \in Nat /\ f[x] <= g[x] /\ g[x] <= f[x]
  OBVIOUS
<1>3. /\ SumFunctionOnSet(f, s) <= SumFunctionOnSet(g, s)
      /\ SumFunctionOnSet(g, s) <= SumFunctionOnSet(f, s)
  BY <1>1, <1>2, SumsCompare
<1>4. SumFunctionOnSet(f, s) \in Nat /\ SumFunctionOnSet(g, s) \in Nat
  BY <1>1, <1>2, SumIsNat
<1> QED BY <1>3, <1>4

-----------------------------------------------------------------------------
(* ProviderSpending: what was found affordable stays so until it is reserved.*)

Charges == [c \in Calls |-> Charge(c)]
Past == {"sending", "completing"}

\* A call takes the lock while it is admitted, and is recorded once, when it leaves.
PlaceInv ==
    \A c \in Calls :
        /\ metered[c].pc = "admitting" <=> admission = c
        /\ metered[c].pc \in {"idle", "waiting", "admitting"} => c \notin Recorded
        /\ metered[c].pc \in Past => c \in Recorded /\ attempt[c].billed = Unbilled
        /\ metered[c].pc = "completing" => metered[c].status # "reserved"

\* A charge is the estimate, or one amount within it; and it covers what was spent.
LedgerInv ==
    \A c \in Calls :
        /\ attempt[c].billed # Unbilled => \E x \in 0 .. Estimate[c] : attempt[c].billed = {x}
        /\ spent[c] \in 0 .. Estimate[c]
        /\ spent[c] <= Charge(c)
        /\ c \notin Recorded => spent[c] = 0 /\ attempt[c].billed = Unbilled
        /\ metered[c].pc = "sending" => spent[c] = 0
        /\ metered[c].pc = "completing" => metered[c].cost \in {Unbilled, {spent[c]}}

\* What the sums found is still there when the attempt is reserved.
RoomInv ==
    \A c \in Calls : metered[c].pc = "admitting" /\ metered[c].room =>
        /\ Charged(InMonth(metered[c].counted)) + Estimate[c] <= MonthlyBudget
        /\ Charged(InOperation(OperationOf[c])) + Estimate[c] <= OperationBudget

BudgetInv ==
    /\ \A m \in 0 .. MaxMonth : Charged(InTime(m)) <= MonthlyBudget
    /\ \A o \in Operations : Charged(InOperation(o)) <= OperationBudget

SpendingInv ==
    /\ SpendingTypeOK /\ IsFiniteSet(Recorded)
    /\ PlaceInv /\ LedgerInv /\ RoomInv /\ BudgetInv

-----------------------------------------------------------------------------
LEMMA ChargeOfBilled ==
    ASSUME NEW c \in Calls, NEW x \in Nat, attempt[c].billed = {x}
    PROVE  Charge(c) = x
<1>1. Max({x}) = x
  BY DEF Max
<1>2. {x} # Unbilled
  BY DEF Unbilled
<1> QED BY <1>1, <1>2 DEF Charge

LEMMA ChargeWithin ==
    ASSUME SpendingTypeOK, LedgerInv, NEW c \in Calls
    PROVE  /\ Charge(c) \in 0 .. Estimate[c] /\ Estimate[c] \in Nat
           /\ attempt[c].billed = Unbilled => Charge(c) = Estimate[c]
<1>1. Estimate[c] \in Nat
  BY SpendingAssumption
<1>2. CASE attempt[c].billed = Unbilled
  BY <1>1, <1>2 DEF Charge
<1>3. CASE attempt[c].billed # Unbilled
  <2>1. PICK x \in 0 .. Estimate[c] : attempt[c].billed = {x}
    BY <1>3 DEF LedgerInv
  <2>2. Charge(c) = x
    BY <1>1, <2>1, ChargeOfBilled
  <2> QED BY <1>1, <1>3, <2>2
<1> QED BY <1>1, <1>2, <1>3

\* What is charged for some of the recorded attempts.
LEMMA ChargedFacts ==
    ASSUME SpendingInv, NEW cs \in SUBSET Recorded
    PROVE  /\ Charged(cs) = SumFunctionOnSet(Charges, cs) /\ Charged(cs) \in Nat
           /\ IsFiniteSet(cs) /\ cs \subseteq Calls
           /\ \A ds \in SUBSET cs : Charged(ds) <= Charged(cs)
<1>1. Charged(cs) = SumFunctionOnSet(Charges, cs)
  BY DEF Charged, Charges
<1>2. IsFiniteSet(cs) /\ cs \subseteq Calls
  BY FS_Subset DEF SpendingInv, Recorded
<1>3. \A c \in Calls : Charges[c] \in Nat
  BY ChargeWithin DEF SpendingInv, Charges
<1>4. Charged(cs) \in Nat
  <2>1. \A x \in cs : Charges[x] \in Nat
    BY <1>2, <1>3
  <2>2. cs \in SUBSET cs
    OBVIOUS
  <2> QED BY <1>1, <1>2, <2>1, <2>2, SumIsNat
<1>5. ASSUME NEW ds \in SUBSET cs PROVE Charged(ds) <= Charged(cs)
  <2>1. \A x \in cs : Charges[x] \in Nat /\ Charges[x] <= Charges[x]
    BY <1>2, <1>3
  <2>2. SumFunctionOnSet(Charges, ds) <= SumFunctionOnSet(Charges, cs)
    <3>1. cs \in SUBSET cs
      OBVIOUS
    <3> QED BY <1>2, <2>1, <3>1, SumsCompare
  <2> QED BY <2>2 DEF Charged, Charges
<1> QED BY <1>1, <1>2, <1>4, <1>5

\* Sums over the same attempts do not grow when no charge does.
LEMMA ChargedLess ==
    ASSUME SpendingInv, NEW cs \in SUBSET Recorded,
           \A c \in Calls : Charge(c)' \in Nat /\ Charge(c)' <= Charge(c)
    PROVE  SumFunctionOnSet(Charges', cs) <= Charged(cs)
<1>1. IsFiniteSet(cs) /\ cs \subseteq Calls /\ Charged(cs) = SumFunctionOnSet(Charges, cs)
  BY ChargedFacts
<1>2. \A x \in cs : /\ Charges'[x] \in Nat /\ Charges[x] \in Nat
                    /\ Charges'[x] <= Charges[x]
  BY <1>1, ChargeWithin DEF SpendingInv, Charges
<1>3. cs \in SUBSET cs
  OBVIOUS
<1> QED BY <1>1, <1>2, <1>3, SumsCompare

LEMMA SameAttempts ==
    ASSUME SpendingInv, UNCHANGED attempt,
           \A c \in Recorded : metered'[c].counted = metered[c].counted
    PROVE  /\ Recorded' = Recorded /\ \A c \in Calls : Charge(c)' = Charge(c)
           /\ \A m : Charged(InMonth(m))' = Charged(InMonth(m))
           /\ \A o : Charged(InOperation(o))' = Charged(InOperation(o))
           /\ BudgetInv'
<1>1. Recorded' = Recorded /\ \A c \in Calls : Charge(c)' = Charge(c)
  BY DEF Recorded, Charge
<1>2. \A m : InMonth(m)' = InMonth(m) /\ InTime(m)' = InTime(m)
  BY <1>1 DEF InMonth, InTime
<1>3. \A o : InOperation(o)' = InOperation(o)
  BY <1>1 DEF InOperation
<1>4. \A m : /\ Charged(InMonth(m))' = Charged(InMonth(m))
             /\ Charged(InTime(m))' = Charged(InTime(m))
  BY <1>1, <1>2 DEF Charged
<1>5. \A o : Charged(InOperation(o))' = Charged(InOperation(o))
  BY <1>1, <1>3 DEF Charged
<1>6. BudgetInv'
  BY <1>4, <1>5 DEF BudgetInv, SpendingInv
<1> QED BY <1>1, <1>4, <1>5, <1>6

-----------------------------------------------------------------------------
LEMMA MeteredFields ==
    ASSUME SpendingTypeOK, NEW c \in Calls
    PROVE  /\ metered[c] \in Metered /\ attempt[c] \in Attempt
           /\ metered[c].began \in 0 .. MaxMonth /\ metered[c].counted \in 0 .. MaxMonth
           /\ metered[c].room \in BOOLEAN /\ metered[c].cost \subseteq Costs
           /\ metered[c].status \in {"reserved", "answered", "unknown"}
           /\ spent[c] \in Costs \cup {0} /\ month \in 0 .. MaxMonth /\ MaxMonth \in Nat
  BY SpendingAssumption DEF SpendingTypeOK, Metered, Attempt

\* Only the place of a call changes.
LEMMA Placed ==
    ASSUME SpendingTypeOK, NEW c \in Calls,
           NEW pc \in {"idle", "waiting", "admitting", "sending", "completing", "ended"},
           Place(c, pc)
    PROVE  /\ metered' \in [Calls -> Metered]
           /\ metered'[c].pc = pc
           /\ \A x \in Calls :
                /\ x # c => metered'[x] = metered[x]
                /\ metered'[x].counted = metered[x].counted
                /\ metered'[x].room = metered[x].room
                /\ metered'[x].status = metered[x].status
                /\ metered'[x].cost = metered[x].cost
<1>1. metered' = [metered EXCEPT ![c] = [metered[c] EXCEPT !.pc = pc]]
  BY DEF Place
<1>2. metered \in [Calls -> Metered] /\ [metered[c] EXCEPT !.pc = pc] \in Metered
  BY MeteredFields DEF SpendingTypeOK, Metered
<1>3. \A x \in Calls : metered'[x] = IF x = c THEN [metered[c] EXCEPT !.pc = pc] ELSE metered[x]
  BY <1>1, <1>2
<1>4. metered' \in [Calls -> Metered]
  BY <1>1, <1>2
<1> QED BY <1>2, <1>3, <1>4, MeteredFields DEF Metered

LEMMA BeginStep ==
    ASSUME SpendingInv, NEW c \in Calls, Begin(c)
    PROVE  SpendingInv'
<1> DEFINE m == [metered[c] EXCEPT !.pc = "waiting", !.began = month]
<1>0. SpendingTypeOK /\ metered[c] \in Metered /\ month \in 0 .. MaxMonth
  BY MeteredFields DEF SpendingInv
<1>1. m \in Metered /\ m.pc = "waiting" /\ m.counted = metered[c].counted
  BY <1>0 DEF Metered
<1>2. metered' = [metered EXCEPT ![c] = m]
  BY DEF Begin
<1>3. UNCHANGED <<attempt, admission, month, spent>> /\ metered[c].pc = "idle"
  BY DEF Begin
<1> HIDE DEF m
<1>4. \A x \in Calls : metered'[x] = IF x = c THEN m ELSE metered[x]
  BY <1>0, <1>2 DEF SpendingTypeOK
<1>5. SpendingTypeOK'
  BY <1>0, <1>1, <1>2, <1>3 DEF SpendingTypeOK
<1>6. \A x \in Recorded : metered'[x].counted = metered[x].counted
  BY <1>1, <1>4 DEF Recorded
<1>7. /\ Recorded' = Recorded /\ \A x \in Calls : Charge(x)' = Charge(x)
      /\ \A t : Charged(InMonth(t))' = Charged(InMonth(t))
      /\ \A o : Charged(InOperation(o))' = Charged(InOperation(o))
      /\ BudgetInv'
  BY <1>3, <1>6, SameAttempts
<1>8. PlaceInv'
  BY <1>1, <1>3, <1>4, <1>7 DEF PlaceInv, SpendingInv, Past
<1>9. LedgerInv'
  BY <1>1, <1>3, <1>4, <1>7 DEF LedgerInv, SpendingInv
<1>10. RoomInv'
  BY <1>1, <1>4, <1>7 DEF RoomInv, SpendingInv
<1> QED BY <1>5, <1>7, <1>8, <1>9, <1>10 DEF SpendingInv

LEMMA SumStep ==
    ASSUME SpendingInv, NEW c \in Calls, Sum(c)
    PROVE  SpendingInv'
<1> DEFINE m == [metered[c] EXCEPT !.pc = "admitting", !.counted = month, !.room = Affordable(c)]
<1>0. SpendingTypeOK /\ metered[c] \in Metered /\ month \in 0 .. MaxMonth
  BY MeteredFields DEF SpendingInv
<1>1. m \in Metered /\ m.pc = "admitting" /\ m.counted = month /\ m.room = Affordable(c)
  <2>1. Affordable(c) \in BOOLEAN
    BY DEF Affordable
  <2> QED BY <1>0, <2>1 DEF Metered
<1>2. metered' = [metered EXCEPT ![c] = m]
  BY DEF Sum
<1>3. /\ UNCHANGED <<attempt, month, spent>> /\ metered[c].pc = "waiting"
      /\ admission = NoAttempt /\ admission' = c
  BY DEF Sum, Exclusive
<1> HIDE DEF m
<1>4. \A x \in Calls : metered'[x] = IF x = c THEN m ELSE metered[x]
  BY <1>0, <1>2 DEF SpendingTypeOK
<1>5. SpendingTypeOK'
  BY <1>0, <1>1, <1>2, <1>3 DEF SpendingTypeOK
<1>6. c \notin Recorded
  BY <1>3 DEF SpendingInv, PlaceInv
<1>7. \A x \in Recorded : metered'[x].counted = metered[x].counted
  BY <1>4, <1>6 DEF Recorded
<1>8. /\ Recorded' = Recorded /\ \A x \in Calls : Charge(x)' = Charge(x)
      /\ \A t : Charged(InMonth(t))' = Charged(InMonth(t))
      /\ \A o : Charged(InOperation(o))' = Charged(InOperation(o))
      /\ BudgetInv'
  BY <1>3, <1>7, SameAttempts
<1>9. PlaceInv'
  <2>1. NoAttempt \notin Calls
    BY SpendingAssumption
  <2> QED BY <1>1, <1>3, <1>4, <1>6, <1>8, <2>1 DEF PlaceInv, SpendingInv, Past
<1>10. LedgerInv'
  BY <1>1, <1>3, <1>4, <1>8 DEF LedgerInv, SpendingInv
<1>11. RoomInv'
  <2>1. Affordable(c) =>
          /\ Charged(InMonth(m.counted)) + Estimate[c] <= MonthlyBudget
          /\ Charged(InOperation(OperationOf[c])) + Estimate[c] <= OperationBudget
    BY <1>1 DEF Affordable
  <2> QED BY <1>1, <1>4, <1>8, <2>1 DEF RoomInv, SpendingInv
<1> QED BY <1>5, <1>8, <1>9, <1>10, <1>11 DEF SpendingInv

\* A call that stops where it is, or after it has left the lock.
LEMMA StopStep ==
    ASSUME SpendingInv, NEW c \in Calls, RefuseCall(c) \/ Interrupt(c)
    PROVE  SpendingInv'
<1>0. SpendingTypeOK
  BY DEF SpendingInv
<1>1. /\ UNCHANGED <<attempt, month, spent>> /\ Place(c, "ended")
      /\ admission' = IF admission = c THEN NoAttempt ELSE admission
  BY DEF RefuseCall, Interrupt, SpendingInv, PlaceInv
<1>2. /\ metered' \in [Calls -> Metered] /\ metered'[c].pc = "ended"
      /\ \A x \in Calls :
           /\ x # c => metered'[x] = metered[x]
           /\ metered'[x].counted = metered[x].counted
           /\ metered'[x].room = metered[x].room
  BY <1>0, <1>1, Placed
<1>3. SpendingTypeOK'
  BY <1>0, <1>1, <1>2 DEF SpendingTypeOK
<1>4. /\ Recorded' = Recorded /\ \A x \in Calls : Charge(x)' = Charge(x)
      /\ \A t : Charged(InMonth(t))' = Charged(InMonth(t))
      /\ \A o : Charged(InOperation(o))' = Charged(InOperation(o))
      /\ BudgetInv'
  <2>1. \A x \in Recorded : metered'[x].counted = metered[x].counted
    BY <1>2 DEF Recorded
  <2> QED BY <1>1, <2>1, SameAttempts
<1>5. PlaceInv'
  <2>1. NoAttempt \notin Calls
    BY SpendingAssumption
  <2> QED BY <1>1, <1>2, <1>4, <2>1 DEF PlaceInv, SpendingInv, Past
<1>6. LedgerInv'
  BY <1>1, <1>2, <1>4 DEF LedgerInv, SpendingInv
<1>7. RoomInv'
  BY <1>2, <1>4 DEF RoomInv, SpendingInv
<1> QED BY <1>3, <1>4, <1>5, <1>6, <1>7 DEF SpendingInv

LEMMA SendStep ==
    ASSUME SpendingInv, NEW c \in Calls, Send(c)
    PROVE  SpendingInv'
<1>0. SpendingTypeOK /\ metered[c] \in Metered
  BY MeteredFields DEF SpendingInv
<1>1. PICK price \in 0 .. Estimate[c], status \in {"answered", "unknown"} :
        \E cost \in IF status = "unknown" THEN {Unbilled} ELSE {Unbilled, {price}} :
          /\ spent' = [spent EXCEPT ![c] = price]
          /\ metered' = [metered EXCEPT ![c].pc = "completing",
                           ![c].status = status, ![c].cost = cost]
  BY DEF Send
<1>2. PICK cost \in {Unbilled, {price}} :
        /\ spent' = [spent EXCEPT ![c] = price]
        /\ metered' = [metered EXCEPT ![c].pc = "completing",
                         ![c].status = status, ![c].cost = cost]
  BY <1>1
<1> DEFINE m == [metered[c] EXCEPT !.pc = "completing", !.status = status, !.cost = cost]
<1>3. price \in Costs /\ cost \subseteq Costs
  BY <1>2 DEF Costs, Unbilled
<1>4. /\ m \in Metered /\ m.pc = "completing" /\ m.status = status /\ m.cost = cost
      /\ m.counted = metered[c].counted /\ m.room = metered[c].room
  BY <1>0, <1>3 DEF Metered
<1>5. metered' = [metered EXCEPT ![c] = m]
  BY <1>2
<1>6. UNCHANGED <<attempt, admission, month>> /\ metered[c].pc = "sending"
  BY DEF Send
<1> HIDE DEF m
<1>7. \A x \in Calls : /\ metered'[x] = IF x = c THEN m ELSE metered[x]
                       /\ spent'[x] = IF x = c THEN price ELSE spent[x]
  BY <1>0, <1>2, <1>5 DEF SpendingTypeOK
<1>8. SpendingTypeOK'
  <2>1. spent' \in [Calls -> Costs \cup {0}]
    BY <1>0, <1>2, <1>3 DEF SpendingTypeOK
  <2>2. metered' \in [Calls -> Metered]
    BY <1>0, <1>4, <1>5 DEF SpendingTypeOK
  <2> QED BY <1>0, <1>6, <2>1, <2>2 DEF SpendingTypeOK
<1>9. /\ Recorded' = Recorded /\ \A x \in Calls : Charge(x)' = Charge(x)
      /\ \A t : Charged(InMonth(t))' = Charged(InMonth(t))
      /\ \A o : Charged(InOperation(o))' = Charged(InOperation(o))
      /\ BudgetInv'
  <2>1. \A x \in Recorded : metered'[x].counted = metered[x].counted
    BY <1>4, <1>7 DEF Recorded
  <2> QED BY <1>6, <2>1, SameAttempts
<1>10. c \in Recorded /\ attempt[c].billed = Unbilled /\ Charge(c) = Estimate[c]
  BY <1>6 DEF SpendingInv, PlaceInv, Past, Charge
<1>11. PlaceInv'
  BY <1>4, <1>6, <1>7, <1>9, <1>10 DEF PlaceInv, SpendingInv, Past
<1>12. LedgerInv'
  <2>1. price <= Charge(c) /\ price \in 0 .. Estimate[c]
    BY <1>10, SpendingAssumption
  <2> SUFFICES ASSUME NEW x \in Calls
               PROVE  /\ attempt[x].billed # Unbilled
                           => \E y \in 0 .. Estimate[x] : attempt[x].billed = {y}
                      /\ spent'[x] \in 0 .. Estimate[x] /\ spent'[x] <= Charge(x)
                      /\ x \notin Recorded => spent'[x] = 0 /\ attempt[x].billed = Unbilled
                      /\ metered'[x].pc = "sending" => spent'[x] = 0
                      /\ metered'[x].pc = "completing"
                           => metered'[x].cost \in {Unbilled, {spent'[x]}}
    BY <1>6, <1>9 DEF LedgerInv
  <2>2. CASE x = c
    BY <1>2, <1>4, <1>7, <1>10, <2>1, <2>2
  <2>3. CASE x # c
    BY <1>7, <2>3 DEF LedgerInv, SpendingInv
  <2> QED BY <2>2, <2>3
<1>13. RoomInv'
  BY <1>4, <1>7, <1>9 DEF RoomInv, SpendingInv
<1> QED BY <1>8, <1>9, <1>11, <1>12, <1>13 DEF SpendingInv

LEMMA MonthStep ==
    ASSUME SpendingInv, NextMonth
    PROVE  SpendingInv'
<1>1. UNCHANGED <<attempt, admission, metered, spent>> /\ month' \in 0 .. MaxMonth
  BY SpendingAssumption DEF NextMonth, SpendingInv, SpendingTypeOK
<1>2. /\ Recorded' = Recorded /\ \A x \in Calls : Charge(x)' = Charge(x)
      /\ \A t : Charged(InMonth(t))' = Charged(InMonth(t))
      /\ \A o : Charged(InOperation(o))' = Charged(InOperation(o))
      /\ BudgetInv'
  BY <1>1, SameAttempts
<1>3. SpendingTypeOK' /\ PlaceInv' /\ LedgerInv'
  BY <1>1, <1>2 DEF SpendingInv, SpendingTypeOK, PlaceInv, LedgerInv
<1>4. RoomInv'
  BY <1>1, <1>2 DEF SpendingInv, RoomInv
<1> QED BY <1>2, <1>3, <1>4 DEF SpendingInv

-----------------------------------------------------------------------------
LEMMA ReserveStep ==
    ASSUME SpendingInv, NEW c \in Calls, Reserve(c)
    PROVE  SpendingInv'
<1> DEFINE row == [status |-> "reserved", month |-> metered[c].began, billed |-> Unbilled]
<1>0. SpendingTypeOK /\ metered[c].began \in 0 .. MaxMonth
  BY MeteredFields DEF SpendingInv
<1>1. /\ attempt' = [attempt EXCEPT ![c] = row]
      /\ Place(c, "sending") /\ admission' = NoAttempt /\ UNCHANGED <<month, spent>>
      /\ metered[c].pc = "admitting" /\ metered[c].room
  BY DEF Reserve
<1>2. /\ metered' \in [Calls -> Metered] /\ metered'[c].pc = "sending"
      /\ \A x \in Calls :
           /\ x # c => metered'[x] = metered[x]
           /\ metered'[x].counted = metered[x].counted
           /\ metered'[x].room = metered[x].room
  BY <1>0, <1>1, Placed
<1>3. row \in Attempt /\ row.status = "reserved" /\ row.billed = Unbilled
  BY <1>0 DEF Attempt, Unbilled
<1>4. \A x \in Calls : attempt'[x] = IF x = c THEN row ELSE attempt[x]
  BY <1>0, <1>1 DEF SpendingTypeOK
<1>5. SpendingTypeOK'
  BY <1>0, <1>1, <1>2, <1>3 DEF SpendingTypeOK
<1>6. c \notin Recorded /\ admission = c
  BY <1>1 DEF SpendingInv, PlaceInv
<1>7. Recorded' = Recorded \cup {c}
  BY <1>3, <1>4 DEF Recorded
<1>8. IsFiniteSet(Recorded')
  BY <1>7, FS_AddElement DEF SpendingInv
<1>9. \A x \in Calls : Charge(x)' = Charge(x) /\ Charge(x) \in Nat
  <2>1. attempt[c].billed = Unbilled
    BY <1>6 DEF SpendingInv, LedgerInv
  <2>2. \A x \in Calls : attempt'[x].billed = attempt[x].billed
    BY <1>3, <1>4, <2>1
  <2> QED BY <2>2, ChargeWithin DEF Charge, SpendingInv
<1>10. Charge(c) = Estimate[c]
  BY <1>6, ChargeWithin DEF SpendingInv, LedgerInv
<1>11. ASSUME NEW cs \in SUBSET Recorded
       PROVE  /\ SumFunctionOnSet(Charges', cs) = Charged(cs)
              /\ SumFunctionOnSet(Charges', cs \cup {c}) = Charged(cs) + Estimate[c]
              /\ Charged(cs) \in Nat
  <2>1. Charges' = Charges
    BY <1>9 DEF Charges
  <2>2. \A x \in Recorded \cup {c} : Charges[x] \in Nat
    BY <1>9 DEF Charges, Recorded
  <2>3. IsFiniteSet(Recorded \cup {c})
    BY <1>7, <1>8
  <2>4. c \in (Recorded \cup {c}) \ cs /\ cs \in SUBSET (Recorded \cup {c})
    BY <1>6
  <2>5. SumFunctionOnSet(Charges, cs \cup {c}) = Charges[c] + SumFunctionOnSet(Charges, cs)
    BY <2>2, <2>3, <2>4, SumWith
  <2>6. Charged(cs) = SumFunctionOnSet(Charges, cs) /\ Charged(cs) \in Nat
    BY ChargedFacts
  <2>7. Charges[c] = Estimate[c] /\ Estimate[c] \in Nat
    BY <1>10, SpendingAssumption DEF Charges
  <2> QED BY <2>1, <2>5, <2>6, <2>7
<1>12. ASSUME NEW m \in 0 .. MaxMonth
       PROVE  Charged(InTime(m))' <= MonthlyBudget
  <2>1. Charged(InTime(m))' = SumFunctionOnSet(Charges', InTime(m)')
    BY DEF Charged, Charges
  <2>2. InTime(m) \in SUBSET InMonth(m) /\ InMonth(m) \in SUBSET Recorded
    BY DEF InTime, InMonth
  <2>3. Charged(InTime(m)) <= MonthlyBudget /\ MonthlyBudget \in Nat
    BY SpendingAssumption DEF SpendingInv, BudgetInv
  <2>4. InTime(m)' = InTime(m) \/ (InTime(m)' = InTime(m) \cup {c} /\ metered[c].counted = m)
    BY <1>2, <1>4, <1>6, <1>7 DEF InTime, InMonth, Recorded
  <2>5. CASE InTime(m)' = InTime(m)
    BY <1>11, <2>1, <2>2, <2>3, <2>5
  <2>6. CASE InTime(m)' = InTime(m) \cup {c} /\ metered[c].counted = m
    <3>1. Charged(InMonth(m)) + Estimate[c] <= MonthlyBudget
      BY <1>1, <2>6 DEF SpendingInv, RoomInv
    <3>2. Charged(InTime(m)) <= Charged(InMonth(m))
      BY <2>2, ChargedFacts
    <3>3. Charged(InTime(m))' = Charged(InTime(m)) + Estimate[c]
      BY <1>11, <2>1, <2>2, <2>6
    <3>4. /\ Charged(InTime(m)) \in Nat /\ Charged(InMonth(m)) \in Nat /\ Estimate[c] \in Nat
      BY <2>2, ChargedFacts, SpendingAssumption
    <3> QED BY <2>3, <3>1, <3>2, <3>3, <3>4
  <2> QED BY <2>4, <2>5, <2>6
<1>13. ASSUME NEW o \in Operations
       PROVE  Charged(InOperation(o))' <= OperationBudget
  <2>1. Charged(InOperation(o))' = SumFunctionOnSet(Charges', InOperation(o)')
    BY DEF Charged, Charges
  <2>2. InOperation(o) \in SUBSET Recorded
    BY DEF InOperation
  <2>3. Charged(InOperation(o)) <= OperationBudget /\ OperationBudget \in Nat
    BY SpendingAssumption DEF SpendingInv, BudgetInv
  <2>4. InOperation(o)' = IF OperationOf[c] = o THEN InOperation(o) \cup {c} ELSE InOperation(o)
    BY <1>7 DEF InOperation
  <2>5. OperationOf[c] = o => Charged(InOperation(o)) + Estimate[c] <= OperationBudget
    BY <1>1 DEF SpendingInv, RoomInv
  <2> QED BY <1>11, <2>1, <2>2, <2>3, <2>4, <2>5
<1>14. BudgetInv'
  BY <1>12, <1>13 DEF BudgetInv
<1>15. PlaceInv'
  <2>1. NoAttempt \notin Calls
    BY SpendingAssumption
  <2>2. \A x \in Calls : x # c => metered[x].pc # "admitting"
    BY <1>6 DEF SpendingInv, PlaceInv
  <2> QED BY <1>1, <1>2, <1>3, <1>4, <1>6, <1>7, <2>1, <2>2 DEF PlaceInv, SpendingInv, Past
<1>16. LedgerInv'
  <2>1. spent[c] = 0 /\ attempt[c].billed = Unbilled
    BY <1>6 DEF SpendingInv, LedgerInv
  <2>2. \A x \in Calls : attempt'[x].billed = attempt[x].billed
    BY <1>3, <1>4, <2>1
  <2> SUFFICES ASSUME NEW x \in Calls
               PROVE  /\ attempt[x].billed # Unbilled
                           => \E y \in 0 .. Estimate[x] : attempt[x].billed = {y}
                      /\ spent[x] \in 0 .. Estimate[x] /\ spent[x] <= Charge(x)
                      /\ x \notin Recorded' => spent[x] = 0 /\ attempt[x].billed = Unbilled
                      /\ metered'[x].pc = "sending" => spent[x] = 0
                      /\ metered'[x].pc = "completing"
                           => metered'[x].cost \in {Unbilled, {spent[x]}}
    BY <1>1, <1>9, <2>2 DEF LedgerInv
  <2> QED BY <1>2, <1>7, <2>1 DEF SpendingInv, LedgerInv
<1>17. RoomInv'
  <2>1. \A x \in Calls : metered'[x].pc # "admitting"
    BY <1>2, <1>6 DEF SpendingInv, PlaceInv
  <2> QED BY <2>1 DEF RoomInv
<1> QED BY <1>5, <1>8, <1>14, <1>15, <1>16, <1>17 DEF SpendingInv

LEMMA CompleteStep ==
    ASSUME SpendingInv, NEW c \in Calls, Complete(c)
    PROVE  SpendingInv'
<1> DEFINE row == [attempt[c] EXCEPT !.status = metered[c].status, !.billed = metered[c].cost]
<1>0. /\ SpendingTypeOK /\ attempt[c] \in Attempt /\ metered[c].cost \subseteq Costs
      /\ metered[c].status \in {"reserved", "answered", "unknown"}
  BY MeteredFields DEF SpendingInv
<1>1. /\ attempt' = [attempt EXCEPT ![c] = row]
      /\ Place(c, "ended") /\ UNCHANGED <<admission, month, spent>>
      /\ metered[c].pc = "completing"
  BY DEF Complete
<1>2. /\ metered' \in [Calls -> Metered] /\ metered'[c].pc = "ended"
      /\ \A x \in Calls :
           /\ x # c => metered'[x] = metered[x]
           /\ metered'[x].counted = metered[x].counted
           /\ metered'[x].room = metered[x].room
  BY <1>0, <1>1, Placed
<1>3. /\ c \in Recorded /\ attempt[c].billed = Unbilled /\ metered[c].status # "reserved"
      /\ metered[c].cost \in {Unbilled, {spent[c]}}
  BY <1>1 DEF SpendingInv, PlaceInv, LedgerInv, Past
<1>4. /\ row \in Attempt /\ row.status # "absent" /\ row.month = attempt[c].month
      /\ row.billed = metered[c].cost
  BY <1>0 DEF Attempt
<1> HIDE DEF row
<1>5. \A x \in Calls : attempt'[x] = IF x = c THEN row ELSE attempt[x]
  BY <1>0, <1>1 DEF SpendingTypeOK
<1>6. SpendingTypeOK'
  BY <1>0, <1>1, <1>2, <1>4 DEF SpendingTypeOK
<1>7. /\ Recorded' = Recorded
      /\ \A m : InMonth(m)' = InMonth(m) /\ InTime(m)' = InTime(m)
      /\ \A o : InOperation(o)' = InOperation(o)
  <2>1. Recorded' = Recorded
    BY <1>3, <1>4, <1>5 DEF Recorded
  <2>2. \A m : InMonth(m)' = InMonth(m)
    BY <1>4, <1>5, <2>1 DEF InMonth, Recorded
  <2>3. \A m : InTime(m)' = InTime(m)
    BY <1>2, <2>2 DEF InTime, InMonth, Recorded
  <2> QED BY <2>1, <2>2, <2>3 DEF InOperation
<1>8. /\ \A x \in Calls : x # c => Charge(x)' = Charge(x)
      /\ spent[c] <= Charge(c)' /\ Charge(c)' <= Charge(c) /\ Charge(c)' \in Nat
  <2>1. \A x \in Calls : x # c => Charge(x)' = Charge(x)
    BY <1>5 DEF Charge
  <2>2. Charge(c) = Estimate[c] /\ Estimate[c] \in Nat /\ spent[c] \in 0 .. Estimate[c]
    BY <1>3, ChargeWithin DEF SpendingInv, LedgerInv
  <2>3. attempt'[c].billed = metered[c].cost
    BY <1>4, <1>5
  <2>4. CASE metered[c].cost = Unbilled
    <3>1. Charge(c)' = Estimate[c]
      BY <2>3, <2>4 DEF Charge
    <3> QED BY <2>1, <2>2, <3>1
  <2>5. CASE metered[c].cost = {spent[c]}
    <3>1. Max({spent[c]}) = spent[c]
      BY <2>2 DEF Max
    <3>2. Charge(c)' = spent[c]
      BY <2>3, <2>5, <3>1 DEF Charge, Unbilled
    <3> QED BY <2>1, <2>2, <3>2
  <2> QED BY <1>3, <2>4, <2>5
<1>9. ASSUME NEW cs \in SUBSET Recorded
      PROVE  /\ SumFunctionOnSet(Charges', cs) <= Charged(cs) /\ Charged(cs) \in Nat
             /\ SumFunctionOnSet(Charges', cs) \in Nat
  <2>1. \A x \in Calls : Charge(x)' \in Nat /\ Charge(x)' <= Charge(x)
    BY <1>8, ChargeWithin DEF SpendingInv
  <2>2. IsFiniteSet(cs) /\ cs \subseteq Calls /\ cs \in SUBSET cs /\ Charged(cs) \in Nat
    BY ChargedFacts
  <2>3. \A x \in cs : Charges'[x] \in Nat
    BY <2>1, <2>2 DEF Charges
  <2> QED BY <2>1, <2>2, <2>3, ChargedLess, SumIsNat
<1>10. /\ \A m : Charged(InMonth(m))' <= Charged(InMonth(m)) /\ Charged(InMonth(m))' \in Nat
                 /\ Charged(InMonth(m)) \in Nat
       /\ \A m : Charged(InTime(m))' <= Charged(InTime(m)) /\ Charged(InTime(m))' \in Nat
                 /\ Charged(InTime(m)) \in Nat
       /\ \A o : Charged(InOperation(o))' <= Charged(InOperation(o))
                 /\ Charged(InOperation(o))' \in Nat /\ Charged(InOperation(o)) \in Nat
  <2>1. /\ \A m : InMonth(m) \in SUBSET Recorded /\ InTime(m) \in SUBSET Recorded
        /\ \A o : InOperation(o) \in SUBSET Recorded
    BY DEF InMonth, InTime, InOperation
  <2>2. /\ \A m : Charged(InMonth(m))' = SumFunctionOnSet(Charges', InMonth(m))
        /\ \A m : Charged(InTime(m))' = SumFunctionOnSet(Charges', InTime(m))
        /\ \A o : Charged(InOperation(o))' = SumFunctionOnSet(Charges', InOperation(o))
    BY <1>7 DEF Charged, Charges
  <2> QED BY <1>9, <2>1, <2>2
<1>11. BudgetInv'
  BY <1>10, SpendingAssumption DEF BudgetInv, SpendingInv
<1>12. RoomInv'
  BY <1>2, <1>10, SpendingAssumption DEF RoomInv, SpendingInv
<1>13. PlaceInv'
  BY <1>1, <1>2, <1>4, <1>5, <1>7 DEF PlaceInv, SpendingInv, Past
<1>14. LedgerInv'
  <2> SUFFICES ASSUME NEW x \in Calls
               PROVE  /\ attempt'[x].billed # Unbilled
                           => \E y \in 0 .. Estimate[x] : attempt'[x].billed = {y}
                      /\ spent[x] \in 0 .. Estimate[x] /\ spent[x] <= Charge(x)'
                      /\ x \notin Recorded => spent[x] = 0 /\ attempt'[x].billed = Unbilled
                      /\ metered'[x].pc = "sending" => spent[x] = 0
                      /\ metered'[x].pc = "completing"
                           => metered'[x].cost \in {Unbilled, {spent[x]}}
    BY <1>1, <1>7 DEF LedgerInv, Unbilled
  <2>1. CASE x = c
    BY <1>2, <1>3, <1>4, <1>5, <1>8, <2>1 DEF SpendingInv, LedgerInv
  <2>2. CASE x # c
    BY <1>2, <1>5, <1>8, <2>2 DEF SpendingInv, LedgerInv
  <2> QED BY <2>1, <2>2
<1> QED BY <1>6, <1>7, <1>11, <1>12, <1>13, <1>14 DEF SpendingInv

-----------------------------------------------------------------------------
LEMMA SpendingStarts == SpendingInit => SpendingInv
<1> SUFFICES ASSUME SpendingInit PROVE SpendingInv
  OBVIOUS
<1>1. SpendingTypeOK
  <2>1. 0 \in 0 .. MaxMonth
    BY SpendingAssumption
  <2> QED BY <2>1 DEF SpendingInit, SpendingTypeOK, Attempt, Metered, Unbilled
<1>2. /\ Recorded = {} /\ \A c \in Calls : metered[c].pc = "idle" /\ spent[c] = 0
      /\ \A c \in Calls : attempt[c].billed = Unbilled /\ admission = NoAttempt
  BY DEF SpendingInit, Recorded
<1>3. PlaceInv
  BY <1>2, SpendingAssumption DEF PlaceInv, Past
<1>4. LedgerInv
  BY <1>2, SpendingAssumption DEF LedgerInv, Charge
<1>5. RoomInv
  BY <1>2 DEF RoomInv
<1>6. BudgetInv
  <2>1. /\ \A m : InTime(m) = {}
        /\ \A o : InOperation(o) = {}
    BY <1>2 DEF InTime, InMonth, InOperation
  <2>2. Charged({}) = 0
    BY SumOfNothing DEF Charged
  <2> QED BY <2>1, <2>2, SpendingAssumption DEF BudgetInv
<1> QED BY <1>1, <1>2, <1>3, <1>4, <1>5, <1>6, FS_EmptySet DEF SpendingInv

LEMMA SpendingSteps == SpendingInv /\ [SpendingNext]_spendingVars => SpendingInv'
<1>1. ASSUME SpendingInv, SpendingNext PROVE SpendingInv'
  BY <1>1, BeginStep, SumStep, ReserveStep, StopStep, SendStep, CompleteStep, MonthStep
     DEF SpendingNext
<1>2. ASSUME SpendingInv, UNCHANGED spendingVars PROVE SpendingInv'
  <2>1. UNCHANGED <<attempt, admission, metered, month, spent>>
    BY <1>2 DEF spendingVars
  <2>2. /\ Recorded' = Recorded /\ \A c \in Calls : Charge(c)' = Charge(c)
        /\ \A m : Charged(InMonth(m))' = Charged(InMonth(m))
        /\ \A o : Charged(InOperation(o))' = Charged(InOperation(o))
        /\ BudgetInv'
    BY <1>2, <2>1, SameAttempts
  <2>3. SpendingTypeOK' /\ PlaceInv' /\ LedgerInv'
    BY <1>2, <2>1, <2>2 DEF SpendingInv, SpendingTypeOK, PlaceInv, LedgerInv
  <2>4. RoomInv'
    BY <1>2, <2>1, <2>2 DEF SpendingInv, RoomInv
  <2> QED BY <1>2, <2>2, <2>3, <2>4 DEF SpendingInv
<1> QED BY <1>1, <1>2

LEMMA SpendingHolds == SpendingSpec => []SpendingInv
  BY SpendingStarts, SpendingSteps, PTL DEF SpendingSpec

\* Types.
THEOREM SpendingTypeCorrect == SpendingSpec => []SpendingTypeOK
<1>1. SpendingInv => SpendingTypeOK
  BY DEF SpendingInv
<1> QED BY <1>1, SpendingHolds, PTL

LEMMA SpentWithinCharged ==
    ASSUME SpendingInv, NEW cs \in SUBSET Recorded
    PROVE  SumFunctionOnSet(spent, cs) <= Charged(cs) /\ SumFunctionOnSet(spent, cs) \in Nat
<1>1. /\ IsFiniteSet(cs) /\ cs \subseteq Calls /\ cs \in SUBSET cs
      /\ Charged(cs) = SumFunctionOnSet(Charges, cs)
  BY ChargedFacts
<1>2. \A x \in cs : spent[x] \in Nat /\ Charges[x] \in Nat /\ spent[x] <= Charges[x]
  BY <1>1, ChargeWithin DEF SpendingInv, LedgerInv, Charges
<1> QED BY <1>1, <1>2, SumsCompare, SumIsNat

\* Whatever calls run at once, stop half-way or end without a bill, the provider charges
\* no month and no operation more than its budget, and the ledger covers every charge.
THEOREM BudgetsHold == SpendingSpec => []SpendingWithinBudget
<1>1. SpendingInv => SpendingWithinBudget
  <2> SUFFICES ASSUME SpendingInv PROVE SpendingWithinBudget
    OBVIOUS
  <2>1. LedgerCoversSpending
    BY DEF SpendingInv, LedgerInv, LedgerCoversSpending
  <2>2. ASSUME NEW m \in 0 .. month
        PROVE  SumFunctionOnSet(spent, InTime(m)) <= MonthlyBudget
    <3>1. InTime(m) \in SUBSET Recorded /\ m \in 0 .. MaxMonth
      BY SpendingAssumption DEF InTime, InMonth, SpendingInv, SpendingTypeOK
    <3>2. Charged(InTime(m)) <= MonthlyBudget
      BY <3>1 DEF SpendingInv, BudgetInv
    <3>3. Charged(InTime(m)) \in Nat /\ MonthlyBudget \in Nat
      BY <3>1, ChargedFacts, SpendingAssumption
    <3> QED BY <3>1, <3>2, <3>3, SpentWithinCharged
  <2>3. ASSUME NEW o \in Operations
        PROVE  SumFunctionOnSet(spent, InOperation(o)) <= OperationBudget
    <3>1. InOperation(o) \in SUBSET Recorded
      BY DEF InOperation
    <3>2. Charged(InOperation(o)) <= OperationBudget
      BY DEF SpendingInv, BudgetInv
    <3>3. Charged(InOperation(o)) \in Nat /\ OperationBudget \in Nat
      BY <3>1, ChargedFacts, SpendingAssumption
    <3> QED BY <3>1, <3>2, <3>3, SpentWithinCharged
  <2> QED BY <2>1, <2>2, <2>3 DEF SpendingWithinBudget, WithinBudgets
<1> QED BY <1>1, SpendingHolds, PTL

-----------------------------------------------------------------------------
(* StoredStateMC: the parts side by side.                                   *)

\* A behaviour of the composed instance is a behaviour of each of its parts, so what is
\* proved of a part holds of the whole: they share no state. (Of the verification of keys
\* the instance assumes no fairness.)
THEOREM PartsKeepTheirSpecs ==
    Spec => /\ AuthInit /\ [][AuthNext]_authVars
            /\ GenSpec /\ SpendingSpec /\ CacheSpec /\ HistorySpec
<1>1. Init => AuthInit /\ GenInit /\ SpendingInit /\ CacheInit /\ HistoryInit
  BY DEF Init
<1>2. [Next]_<<part, authVars, genVars, spendingVars, cacheVars, historyVars>>
        => /\ [AuthNext]_authVars /\ [GenNext]_genVars /\ [SpendingNext]_spendingVars
           /\ [CacheNext]_cacheVars /\ [HistoryNext]_historyVars
  BY DEF Next
<1> QED BY <1>1, <1>2, PTL DEF Spec, GenSpec, SpendingSpec, CacheSpec, HistorySpec

\* Every variable of the composed instance keeps its type.
THEOREM StoredTypeCorrect == Spec => []TypeOK
<1>1. AuthTypeOK /\ GenTypeOK /\ SpendingTypeOK /\ CacheTypeOK /\ HistoryTypeOK => TypeOK
  BY DEF TypeOK
<1>2. AuthInit /\ [][AuthNext]_authVars => []AuthTypeOK
  <2>1. KeyInv => AuthTypeOK
    BY DEF KeyInv
  <2> QED BY <2>1, KeyStart, KeyStep, PTL
<1> QED BY <1>1, <1>2, PartsKeepTheirSpecs, GenTypeCorrect, SpendingTypeCorrect,
           CacheTypeCorrect, HistoryTypeCorrect, PTL
=============================================================================
