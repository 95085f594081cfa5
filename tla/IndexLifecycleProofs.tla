----------------------- MODULE IndexLifecycleProofs -----------------------
(***************************************************************************)
(* Proofs about IndexLifecycle, for every set of documents, builds and     *)
(* requests and every bound.                                               *)
(***************************************************************************)
EXTENDS IndexLifecycle, TLAPS

-----------------------------------------------------------------------------
(* Types.                                                                   *)

\* A pending reprocess request has read a version that has a successor.
EditInv == \A d \in Docs : edit[d] < MaxVersion

TypeInv == TypeOK /\ EditInv

LEMMA DocFields ==
    ASSUME TypeOK, NEW d \in Docs
    PROVE  /\ doc[d] \in DocRecord
           /\ doc[d].version \in 1 .. MaxVersion
           /\ doc[d].status \in Statuses
           /\ doc[d].deleted \in BOOLEAN
           /\ doc[d].stored \in BOOLEAN
           /\ doc[d].runnable \in BOOLEAN
           /\ edit[d] \in 0 .. MaxVersion
  <1>1. doc[d] \in DocRecord /\ edit[d] \in 0 .. MaxVersion
    BY DEF TypeOK
  <1> QED BY <1>1 DEF DocRecord

LEMMA BuildFields ==
    ASSUME TypeOK, NEW b \in Builds
    PROVE  /\ build[b] \in BuildRecord
           /\ build[b].state \in {"absent", "building", "validated", "active",
                                  "retained", "superseded"}
           /\ build[b].manifest \in [Docs -> 0 .. MaxVersion]
           /\ build[b].rows \in SUBSET Docs
  <1>1. build[b] \in BuildRecord
    BY DEF TypeOK
  <1> QED BY <1>1 DEF BuildRecord

LEMMA RequestFields ==
    ASSUME TypeOK, NEW r \in Requests
    PROVE  /\ request[r] \in RequestRecord
           /\ request[r].pc \in {"idle", "chosen", "gated", "rollback", "holding", "prepared"}
           /\ request[r].marks \in SUBSET Docs
           /\ request[r].pc # "idle" => request[r].build \in Builds
  <1>1. request[r] \in RequestRecord /\ (request[r].pc # "idle" => request[r].build \in Builds)
    BY DEF TypeOK
  <1> QED BY <1>1 DEF RequestRecord

LEMMA RemovalFields ==
    ASSUME TypeOK, NEW d \in Docs
    PROVE  /\ removal[d] \in RemovalRecord
           /\ removal[d].pc \in {"none", "requested", "building", "waiting", "resumed",
                                 "checked", "purging", "erased", "done", "failed"}
           /\ removal[d].purge \in BOOLEAN
           /\ removal[d].version \in 0 .. MaxVersion
           /\ removal[d].build \in Builds \cup {NoBuild}
           /\ removal[d].pc \in {"building", "waiting", "resumed", "checked",
                                 "purging", "erased"} => removal[d].build \in Builds
  <1>1. /\ removal[d] \in RemovalRecord
        /\ removal[d].pc \in {"building", "waiting", "resumed", "checked",
                              "purging", "erased"} => removal[d].build \in Builds
    BY DEF TypeOK
  <1> QED BY <1>1 DEF RemovalRecord

LEMMA PointerFields ==
    ASSUME TypeOK
    PROVE  /\ pointer = [active |-> pointer.active, previous |-> pointer.previous]
           /\ pointer.active \in Builds \cup {NoBuild}
           /\ pointer.previous \in Builds \cup {NoBuild}
  BY DEF TypeOK

LEMMA UnbuiltType == Unbuilt \in BuildRecord
  BY IndexAssumption DEF Unbuilt, BuildRecord

LEMMA NoRequestType == NoRequest \in RequestRecord
  BY DEF NoRequest, RequestRecord

\* A snapshot lists the present version of each of its documents.
LEMMA SnapshotType ==
    ASSUME TypeOK, NEW S \in SUBSET Docs
    PROVE  Snapshot(S) \in BuildRecord /\ Snapshot(S).state = "building"
  <1>1. \A d \in Docs : doc[d].version \in 0 .. MaxVersion
    BY DocFields
  <1>2. [d \in Docs |-> IF d \in S THEN doc[d].version ELSE 0] \in [Docs -> 0 .. MaxVersion]
    BY <1>1, IndexAssumption
  <1> QED BY <1>2 DEF Snapshot, BuildRecord

-----------------------------------------------------------------------------
LEMMA DocStepType ==
    ASSUME TypeInv, NEW d \in Docs, DocStep(d)
    PROVE  TypeInv'
  <1>1. TypeOK /\ EditInv
    BY DEF TypeInv
  <1>2. CASE ReprocessRead(d)
    <2>1. doc[d].version \in 0 .. MaxVersion /\ doc[d].version < MaxVersion
      BY <1>1, <1>2, DocFields DEF ReprocessRead
    <2>2. edit' \in [Docs -> 0 .. MaxVersion] /\ EditInv'
      BY <1>1, <1>2, <2>1 DEF ReprocessRead, TypeOK, EditInv
    <2> QED BY <1>1, <1>2, <2>2 DEF ReprocessRead, TypeOK, TypeInv
  <1>3. CASE ReprocessWrite(d)
    <2>1. edit[d] + 1 \in 1 .. MaxVersion
      BY <1>1, <1>3, DocFields, IndexAssumption DEF ReprocessWrite, EditInv
    <2>2. [doc[d] EXCEPT !.version = edit[d] + 1, !.status = "queued", !.runnable = TRUE]
            \in DocRecord
      BY <1>1, <2>1, DocFields DEF DocRecord, Statuses
    <2>3. doc' \in [Docs -> DocRecord]
      BY <1>1, <1>3, <2>2 DEF ReprocessWrite, TypeOK
    <2>4. edit' \in [Docs -> 0 .. MaxVersion] /\ EditInv'
      BY <1>1, <1>3, IndexAssumption DEF ReprocessWrite, TypeOK, EditInv
    <2> QED BY <1>1, <1>3, <2>3, <2>4 DEF ReprocessWrite, TypeOK, TypeInv
  <1>4. ASSUME NEW again \in BOOLEAN, Process(d, again) PROVE TypeInv'
    <2>1. [doc[d] EXCEPT !.status = "chunked", !.runnable = again] \in DocRecord
      BY <1>1, DocFields DEF DocRecord, Statuses
    <2>2. doc' \in [Docs -> DocRecord]
      BY <1>1, <1>4, <2>1 DEF Process, TypeOK
    <2>3. \A b \in Builds : [build[b] EXCEPT !.rows = @ \ {d}] \in BuildRecord
      BY <1>1, BuildFields DEF BuildRecord
    <2>4. build' \in [Builds -> BuildRecord]
      BY <1>1, <1>4, <2>3, BuildFields DEF Process, WithoutRows
    <2> QED BY <1>1, <1>4, <2>2, <2>4 DEF Process, TypeOK, TypeInv, EditInv
  <1>5. ASSUME NEW again \in BOOLEAN, ProcessFails(d, again) PROVE TypeInv'
    <2>1. [doc[d] EXCEPT !.status = "failed", !.runnable = again] \in DocRecord
      BY <1>1, DocFields DEF DocRecord, Statuses
    <2>2. doc' \in [Docs -> DocRecord]
      BY <1>1, <1>5, <2>1 DEF ProcessFails, TypeOK
    <2> QED BY <1>1, <1>5, <2>2 DEF ProcessFails, TypeOK, TypeInv, EditInv
  <1> QED BY <1>2, <1>3, <1>4, <1>5 DEF DocStep

LEMMA BuildStepType ==
    ASSUME TypeInv, NEW b \in Builds, BuildStep(b)
    PROVE  TypeInv'
  <1>1. TypeOK /\ EditInv
    BY DEF TypeInv
  <1>2. CASE StartBuild(b)
    <2>1. Snapshot({d \in Docs : Eligible(d)}) \in BuildRecord
      BY <1>1, SnapshotType
    <2>2. build' \in [Builds -> BuildRecord]
      BY <1>1, <1>2, <2>1 DEF StartBuild, TypeOK
    <2> QED BY <1>1, <1>2, <2>2 DEF StartBuild, TypeOK, TypeInv, EditInv
  <1>3. CASE SealBuild(b)
    <2>1. [build[b] EXCEPT !.state = "validated"] \in BuildRecord
      BY <1>1, BuildFields DEF BuildRecord
    <2>2. build' \in [Builds -> BuildRecord]
      BY <1>1, <1>3, <2>1 DEF SealBuild, TypeOK
    <2> QED BY <1>1, <1>3, <2>2 DEF SealBuild, TypeOK, TypeInv, EditInv
  <1>4. CASE AbortBuild(b)
    <2>1. build' \in [Builds -> BuildRecord]
      BY <1>1, <1>4, UnbuiltType DEF AbortBuild, TypeOK
    <2> QED BY <1>1, <1>4, <2>1 DEF AbortBuild, TypeOK, TypeInv, EditInv
  <1>5. CASE Attest(b)
    <2>1. <<b, pointer.active, generation>> \in Receipt
      BY <1>1, PointerFields DEF Receipt, TypeOK
    <2> QED BY <1>1, <1>5, <2>1 DEF Attest, TypeOK, TypeInv, EditInv
  <1> QED BY <1>2, <1>3, <1>4, <1>5 DEF BuildStep

LEMMA RequestSet ==
    ASSUME TypeOK, NEW r \in Requests, NEW q \in RequestRecord,
           q.pc # "idle" => q.build \in Builds,
           request' = [request EXCEPT ![r] = q]
    PROVE  /\ request' \in [Requests -> RequestRecord]
           /\ \A s \in Requests : request'[s].pc # "idle" => request'[s].build \in Builds
  BY DEF TypeOK

LEMMA RequestStepType ==
    ASSUME TypeInv, NEW r \in Requests, RequestStep(r)
    PROVE  TypeInv'
  <1>1. TypeOK /\ EditInv
    BY DEF TypeInv
  <1> DEFINE RequestsTyped ==
        /\ request' \in [Requests -> RequestRecord]
        /\ \A s \in Requests : request'[s].pc # "idle" => request'[s].build \in Builds
  <1>2. ASSUME NEW b \in Builds, Choose(r, b) PROVE TypeInv'
    <2>1. [NoRequest EXCEPT !.pc = "chosen", !.build = b] \in RequestRecord
      BY DEF NoRequest, RequestRecord
    <2>2. RequestsTyped
      BY <1>1, <1>2, <2>1, RequestSet DEF Choose, NoRequest
    <2> QED BY <1>1, <1>2, <2>2 DEF Choose, TypeOK, TypeInv, EditInv
  <1>3. ASSUME NEW pc \in {"gated", "holding"}, request[r].pc # "idle", Goto(r, pc)
        PROVE  RequestsTyped
    <2>1. [request[r] EXCEPT !.pc = pc] \in RequestRecord
      BY <1>1, <1>3, RequestFields DEF RequestRecord
    <2>2. request' = [request EXCEPT ![r] = [request[r] EXCEPT !.pc = pc]]
      BY <1>1, <1>3 DEF Goto, TypeOK
    <2>3. [request[r] EXCEPT !.pc = pc].build = request[r].build
      BY <1>1, RequestFields DEF RequestRecord
    <2>4. request[r].build \in Builds
      BY <1>1, <1>3, RequestFields
    <2> QED BY <1>1, <2>1, <2>2, <2>3, <2>4, RequestSet
  <1>4. CASE Gate(r)
    BY <1>1, <1>3, <1>4 DEF Gate, TypeOK, TypeInv, EditInv
  <1>5. CASE LockPointer(r)
    BY <1>1, <1>3, <1>5 DEF LockPointer, TypeOK, TypeInv, EditInv
  <1>6. CASE GateRollback(r)
    BY <1>1, <1>3, <1>6 DEF GateRollback, TypeOK, TypeInv, EditInv
  <1>7. CASE StartRollback(r)
    <2>1. pointer.previous \in Builds
      BY <1>1, <1>7, PointerFields DEF StartRollback
    <2>2. [NoRequest EXCEPT !.pc = "rollback", !.build = pointer.previous] \in RequestRecord
      BY <2>1 DEF NoRequest, RequestRecord
    <2>3. RequestsTyped
      BY <1>1, <1>7, <2>1, <2>2, RequestSet DEF StartRollback, NoRequest
    <2> QED BY <1>1, <1>7, <2>3 DEF StartRollback, TypeOK, TypeInv, EditInv
  <1>8. CASE Prepare(r)
    <2>1. ToMark(request[r].build) \in SUBSET Docs
      BY DEF ToMark, Members
    <2> DEFINE q == [request[r] EXCEPT !.pc = "prepared", !.marks = ToMark(request[r].build)]
    <2>2. q \in RequestRecord /\ q.build = request[r].build
      BY <1>1, <2>1, RequestFields DEF RequestRecord
    <2>3. request' = [request EXCEPT ![r] = q]
      BY <1>1, <1>8 DEF Prepare, TypeOK
    <2>4. request[r].build \in Builds
      BY <1>1, <1>8, RequestFields DEF Prepare
    <2>5. RequestsTyped
      BY <1>1, <2>2, <2>3, <2>4, RequestSet
    <2> QED BY <1>1, <1>8, <2>5 DEF Prepare, TypeOK, TypeInv, EditInv
  <1>9. CASE Move(r)
    <2>1. request[r].build \in Builds
      BY <1>1, <1>9, RequestFields DEF Move
    <2>2. \A c \in Builds : /\ [build[c] EXCEPT !.state = "active"] \in BuildRecord
                            /\ [build[c] EXCEPT !.state = "retained"] \in BuildRecord
      BY <1>1, BuildFields DEF BuildRecord
    <2>3. build' \in [Builds -> BuildRecord]
      BY <1>1, <1>9, <2>2, BuildFields DEF Move, Swapped
    <2>4. \A d \in Docs : [doc[d] EXCEPT !.status = "ready"] \in DocRecord
      BY <1>1, DocFields DEF DocRecord, Statuses
    <2>5. doc' \in [Docs -> DocRecord]
      BY <1>1, <1>9, <2>4, DocFields DEF Move
    <2>6. RequestsTyped
      BY <1>1, <1>9, NoRequestType, RequestSet DEF Move, NoRequest
    <2>7. pointer' \in [active : Builds \cup {NoBuild}, previous : Builds \cup {NoBuild}]
      BY <1>1, <1>9, <2>1, PointerFields DEF Move
    <2> QED BY <1>1, <1>9, <2>3, <2>5, <2>6, <2>7 DEF Move, TypeOK, TypeInv, EditInv
  <1>10. CASE AbortRequest(r)
    <2>1. RequestsTyped
      BY <1>1, <1>10, NoRequestType, RequestSet DEF AbortRequest, NoRequest
    <2> QED BY <1>1, <1>10, <2>1 DEF AbortRequest, TypeOK, TypeInv, EditInv
  <1> QED
    BY <1>2, <1>4, <1>5, <1>6, <1>7, <1>8, <1>9, <1>10 DEF RequestStep

LEMMA RemovalSet ==
    ASSUME TypeOK, NEW d \in Docs, NEW q \in RemovalRecord,
           q.pc \in {"building", "waiting", "resumed", "checked", "purging", "erased"}
             => q.build \in Builds,
           removal' = [removal EXCEPT ![d] = q]
    PROVE  /\ removal' \in [Docs -> RemovalRecord]
           /\ \A e \in Docs :
                removal'[e].pc \in {"building", "waiting", "resumed", "checked",
                                    "purging", "erased"} => removal'[e].build \in Builds
  BY DEF TypeOK

LEMMA RemovalStepType ==
    ASSUME TypeInv, NEW d \in Docs, RemovalStep(d)
    PROVE  TypeInv'
  <1>1. TypeOK /\ EditInv
    BY DEF TypeInv
  <1> DEFINE Working == {"building", "waiting", "resumed", "checked", "purging", "erased"}
             RemovalsTyped ==
               /\ removal' \in [Docs -> RemovalRecord]
               /\ \A e \in Docs : removal'[e].pc \in Working => removal'[e].build \in Builds
  <1>2. ASSUME NEW pc \in {"none", "requested", "building", "waiting", "resumed",
                           "checked", "purging", "erased", "done", "failed"},
               RemovalTo(d, pc), pc \in Working => removal[d].pc \in Working
        PROVE  RemovalsTyped
    <2> DEFINE q == [removal[d] EXCEPT !.pc = pc]
    <2>1. q \in RemovalRecord /\ q.build = removal[d].build /\ q.pc = pc
      BY <1>1, RemovalFields DEF RemovalRecord
    <2>2. removal' = [removal EXCEPT ![d] = q]
      BY <1>1, <1>2 DEF RemovalTo, TypeOK
    <2>3. q.pc \in Working => q.build \in Builds
      BY <1>1, <1>2, <2>1, RemovalFields
    <2> HIDE DEF q
    <2> QED BY <1>1, <2>1, <2>2, <2>3, RemovalSet
  <1>3. ASSUME NEW s \in Statuses, doc' = [doc EXCEPT ![d].status = s]
        PROVE  doc' \in [Docs -> DocRecord]
    <2>1. [doc[d] EXCEPT !.status = s] \in DocRecord
      BY <1>1, DocFields DEF DocRecord
    <2> QED BY <1>1, <1>3, <2>1 DEF TypeOK
  <1>4. ASSUME NEW purge \in BOOLEAN, RequestRemoval(d, purge) PROVE TypeInv'
    <2> DEFINE q == [pc |-> "requested", purge |-> purge, version |-> doc[d].version,
                     build |-> NoBuild]
    <2>1. q \in RemovalRecord
      BY <1>1, DocFields, IndexAssumption DEF RemovalRecord
    <2>2. RemovalsTyped
      BY <1>1, <1>4, <2>1, RemovalSet DEF RequestRemoval
    <2>3. doc' \in [Docs -> DocRecord]
      BY <1>3, <1>4 DEF RequestRemoval, Statuses
    <2> QED BY <1>1, <1>4, <2>2, <2>3 DEF RequestRemoval, TypeOK, TypeInv, EditInv
  <1>5. ASSUME NEW b \in Builds, StartRemovalBuild(d, b) PROVE TypeInv'
    <2>1. Snapshot({e \in Docs \ {d} : Eligible(e)}) \in BuildRecord
      BY <1>1, SnapshotType
    <2>2. build' \in [Builds -> BuildRecord]
      BY <1>1, <1>5, <2>1 DEF StartRemovalBuild, TypeOK
    <2> DEFINE q == [removal[d] EXCEPT !.pc = "building", !.build = b]
    <2>3. q \in RemovalRecord /\ q.build = b
      BY <1>1, RemovalFields DEF RemovalRecord
    <2>4. removal' = [removal EXCEPT ![d] = q]
      BY <1>1, <1>5 DEF StartRemovalBuild, TypeOK
    <2>5. RemovalsTyped
      <3> HIDE DEF q
      <3> QED BY <1>1, <2>3, <2>4, RemovalSet
    <2> QED BY <1>1, <1>5, <2>2, <2>5 DEF StartRemovalBuild, TypeOK, TypeInv, EditInv
  <1>6. CASE SealRemovalBuild(d)
    <2>1. removal[d].build \in Builds
      BY <1>1, <1>6, RemovalFields DEF SealRemovalBuild
    <2>2. [build[removal[d].build] EXCEPT !.state = "validated"] \in BuildRecord
      BY <1>1, <2>1, BuildFields DEF BuildRecord
    <2>3. build' \in [Builds -> BuildRecord]
      BY <1>1, <1>6, <2>1, <2>2 DEF SealRemovalBuild, TypeOK
    <2>4. RemovalsTyped
      BY <1>2, <1>6 DEF SealRemovalBuild
    <2> QED BY <1>1, <1>6, <2>3, <2>4 DEF SealRemovalBuild, TypeOK, TypeInv, EditInv
  <1>7. CASE ResumeRemoval(d)
    <2>1. RemovalsTyped
      BY <1>2, <1>7 DEF ResumeRemoval
    <2> QED BY <1>1, <1>7, <2>1 DEF ResumeRemoval, TypeOK, TypeInv, EditInv
  <1>8. CASE CheckActive(d)
    <2>1. RemovalsTyped
      BY <1>2, <1>8 DEF CheckActive
    <2> QED BY <1>1, <1>8, <2>1 DEF CheckActive, TypeOK, TypeInv, EditInv
  <1>9. CASE FinishDelete(d)
    <2>1. RemovalsTyped
      BY <1>2, <1>9 DEF FinishDelete
    <2>2. [doc[d] EXCEPT !.deleted = TRUE] \in DocRecord
      BY <1>1, DocFields DEF DocRecord
    <2>3. doc' \in [Docs -> DocRecord]
      BY <1>1, <1>9, <2>2 DEF FinishDelete, TypeOK
    <2> QED BY <1>1, <1>9, <2>1, <2>3 DEF FinishDelete, TypeOK, TypeInv, EditInv
  <1>10. CASE LockPointerForPurge(d)
    <2>1. RemovalsTyped
      BY <1>2, <1>10 DEF LockPointerForPurge
    <2> QED BY <1>1, <1>10, <2>1 DEF LockPointerForPurge, TypeOK, TypeInv, EditInv
  <1>11. CASE EraseStorage(d)
    <2>1. RemovalsTyped
      BY <1>2, <1>11 DEF EraseStorage
    <2>2. [doc[d] EXCEPT !.stored = FALSE] \in DocRecord
      BY <1>1, DocFields DEF DocRecord
    <2>3. doc' \in [Docs -> DocRecord]
      BY <1>1, <1>11, <2>2 DEF EraseStorage, TypeOK
    <2> QED BY <1>1, <1>11, <2>1, <2>3 DEF EraseStorage, TypeOK, TypeInv, EditInv
  <1>12. CASE CommitPurge(d)
    <2>1. RemovalsTyped
      BY <1>2, <1>12 DEF CommitPurge
    <2>2. [doc[d] EXCEPT !.status = "gone", !.runnable = FALSE] \in DocRecord
      BY <1>1, DocFields DEF DocRecord, Statuses
    <2>3. doc' \in [Docs -> DocRecord]
      BY <1>1, <1>12, <2>2 DEF CommitPurge, TypeOK
    <2>4. \A b \in Builds :
            [build[b] EXCEPT !.rows = @ \ {d},
                             !.state = IF b \in ToSupersede(d) THEN "superseded" ELSE @]
              \in BuildRecord
      BY <1>1, BuildFields DEF BuildRecord
    <2>5. build' \in [Builds -> BuildRecord]
      BY <1>12, <2>4 DEF CommitPurge
    <2>6. pointer' \in [active : Builds \cup {NoBuild}, previous : Builds \cup {NoBuild}]
      BY <1>1, <1>12, PointerFields DEF CommitPurge, PointerAfterPurge
    <2> QED BY <1>1, <1>12, <2>1, <2>3, <2>5, <2>6 DEF CommitPurge, TypeOK, TypeInv, EditInv
  <1>13. CASE AbortRemoval(d)
    <2>1. CASE removal[d].pc = "building"
      <3>1. build' \in [Builds -> BuildRecord]
        BY <1>1, <1>13, <2>1, UnbuiltType DEF AbortRemoval, TypeOK
      <3> DEFINE q == [removal[d] EXCEPT !.pc = "requested", !.build = NoBuild]
      <3>2. q \in RemovalRecord /\ q.pc = "requested"
        BY <1>1, RemovalFields DEF RemovalRecord
      <3>3. removal' = [removal EXCEPT ![d] = q]
        BY <1>1, <1>13, <2>1 DEF AbortRemoval, TypeOK
      <3>4. RemovalsTyped
        <4> HIDE DEF q
        <4> QED BY <1>1, <3>2, <3>3, RemovalSet
      <3> QED BY <1>1, <1>13, <2>1, <3>1, <3>4 DEF AbortRemoval, TypeOK, TypeInv, EditInv
    <2>2. CASE removal[d].pc # "building"
      <3>1. RemovalsTyped
        BY <1>2, <1>13, <2>2 DEF AbortRemoval
      <3> QED BY <1>1, <1>13, <2>2, <3>1 DEF AbortRemoval, TypeOK, TypeInv, EditInv
    <2> QED BY <2>1, <2>2
  <1>14. CASE FailRemoval(d)
    <2>1. RemovalsTyped
      BY <1>2, <1>14 DEF FailRemoval
    <2>2. doc' \in [Docs -> DocRecord]
      BY <1>1, <1>3, <1>14 DEF FailRemoval, Statuses, TypeOK
    <2> QED BY <1>1, <1>14, <2>1, <2>2 DEF FailRemoval, TypeOK, TypeInv, EditInv
  <1> QED
    BY <1>4, <1>5, <1>6, <1>7, <1>8, <1>9, <1>10, <1>11, <1>12, <1>13, <1>14
    DEF RemovalStep

LEMMA InitType == Init => TypeInv
  <1> SUFFICES ASSUME Init PROVE TypeInv
    OBVIOUS
  <1>1. [version |-> 1, status |-> "queued", deleted |-> FALSE, stored |-> TRUE,
         runnable |-> TRUE] \in DocRecord
    BY IndexAssumption DEF DocRecord, Statuses
  <1>2. [pc |-> "none", purge |-> FALSE, version |-> 0, build |-> NoBuild] \in RemovalRecord
    BY IndexAssumption DEF RemovalRecord
  <1> QED
    BY <1>1, <1>2, UnbuiltType, NoRequestType, IndexAssumption
    DEF Init, TypeInv, TypeOK, EditInv, NoRequest

LEMMA NextType == TypeInv /\ [Next]_vars => TypeInv'
  <1> SUFFICES ASSUME TypeInv, [Next]_vars PROVE TypeInv'
    OBVIOUS
  <1>1. CASE ActivateSource
    BY <1>1, IndexAssumption DEF ActivateSource, TypeInv, TypeOK, EditInv
  <1>2. CASE UNCHANGED vars
    BY <1>2 DEF vars, TypeInv, TypeOK, EditInv
  <1> QED
    BY <1>1, <1>2, DocStepType, BuildStepType, RequestStepType, RemovalStepType DEF Next

LEMMA TypeInvariant == Spec => []TypeInv
  BY InitType, NextType, PTL DEF Spec

\* Every variable keeps its type.
THEOREM TypeCorrect == Spec => []TypeOK
  <1>1. TypeInv => TypeOK
    BY DEF TypeInv
  <1> QED BY <1>1, TypeInvariant, PTL
-----------------------------------------------------------------------------
(* The inductive invariant.                                                 *)

\* Who holds the Project row and who holds the pointer row.
Gated(r) == request[r].pc \in {"gated", "holding", "prepared"}
Pointing(r) == request[r].pc \in {"rollback", "holding", "prepared"}
Purging(d) == removal[d].pc \in {"purging", "erased"}
Checked(d) == removal[d].pc \in {"checked", "purging", "erased"}

\* The row locks exclude each other.
LockInv ==
    /\ \A r, s \in Requests : Gated(r) /\ Gated(s) => r = s
    /\ \A r, s \in Requests : Pointing(r) /\ Pointing(s) => r = s
    /\ \A d, e \in Docs : Purging(d) /\ Purging(e) => d = e
    /\ \A r \in Requests, d \in Docs : ~(Pointing(r) /\ Purging(d))

\* The build of a removal job is its own, leaves its document out, and is not
\* sealed before the job says so.
OwnBuild(d) ==
    removal[d].build # NoBuild =>
        /\ build[removal[d].build].state # "absent"
        /\ removal[d].pc = "building" => build[removal[d].build].state = "building"
        /\ build[removal[d].build].manifest[d] = 0
        /\ \A e \in Docs : removal[e].build = removal[d].build => e = d

OwnInv == \A d \in Docs : OwnBuild(d)

\* The target of a request was sealed once, whatever it has become since.
TargetInv == \A r \in Requests : request[r].pc # "idle" => Sealed(request[r].build)

\* No receipt compares a build with itself.
ReceiptInv == \A p \in receipts : p[1] # p[2]

\* What the gate has established still holds when the pointer moves.
Compared(r) == <<request[r].build, pointer.active, generation>> \in receipts
Historical(r) ==
    /\ request[r].build = pointer.previous
    /\ \E base \in Builds \cup {NoBuild} : <<request[r].build, base, generation>> \in receipts

Backed(r) ==
    /\ Gated(r) => request[r].build # pointer.active
    /\ request[r].pc = "gated" => Compared(r)
    /\ request[r].pc \in {"holding", "prepared"} => Compared(r) \/ Historical(r)
    /\ request[r].pc = "rollback" => request[r].build = pointer.previous

GateInv == \A r \in Requests : Backed(r)

\* A removal that has seen its build active keeps it active: no request that is
\* about to replace the active build is in progress.
CheckedInv ==
    \A d \in Docs :
        Checked(d) => /\ build[removal[d].build].state = "active"
                      /\ \A r \in Requests : request[r].pc # "prepared"

\* A superseded build has lost the rows of a document that it lists, and no
\* request past its gate is about to activate one.
SupersededInv ==
    /\ \A b \in Builds : build[b].state = "superseded" =>
         \E d \in Docs : build[b].manifest[d] > 0 /\ d \notin build[b].rows
    /\ \A r \in Requests : Gated(r) => build[request[r].build].state # "superseded"

IInv ==
    /\ TypeInv
    /\ PointerAgrees
    /\ LockInv
    /\ OwnInv
    /\ TargetInv
    /\ ReceiptInv
    /\ GateInv
    /\ CheckedInv
    /\ PurgedLeaveNoCandidate
    /\ SupersededInv

-----------------------------------------------------------------------------
(* What a step may do to one row.                                           *)

LEMMA RequestOfStep ==
    ASSUME TypeInv, [Next]_vars, NEW r \in Requests
    PROVE  request'[r] = request[r] \/ RequestStep(r)
  <1>0. request \in [Requests -> RequestRecord]
    BY DEF TypeInv, TypeOK
  <1>1. ASSUME NEW s \in Requests, RequestStep(s), s # r PROVE request'[r] = request[r]
    BY <1>0, <1>1
    DEF RequestStep, Choose, Gate, LockPointer, StartRollback, GateRollback, Prepare, Move,
        AbortRequest, Goto
  <1>2. ASSUME NEW d \in Docs, DocStep(d) PROVE request' = request
    BY <1>2 DEF DocStep, ReprocessRead, ReprocessWrite, Process, ProcessFails
  <1>3. ASSUME NEW d \in Docs, RemovalStep(d) PROVE request' = request
    BY <1>3
    DEF RemovalStep, RequestRemoval, StartRemovalBuild, SealRemovalBuild, ResumeRemoval,
        CheckActive, FinishDelete, LockPointerForPurge, EraseStorage, CommitPurge,
        AbortRemoval, FailRemoval
  <1>4. ASSUME NEW b \in Builds, BuildStep(b) PROVE request' = request
    BY <1>4 DEF BuildStep, StartBuild, SealBuild, AbortBuild, Attest
  <1> QED BY <1>1, <1>2, <1>3, <1>4 DEF Next, ActivateSource, vars

LEMMA RemovalOfStep ==
    ASSUME TypeInv, [Next]_vars, NEW d \in Docs
    PROVE  removal'[d] = removal[d] \/ RemovalStep(d)
  <1>0. removal \in [Docs -> RemovalRecord]
    BY DEF TypeInv, TypeOK
  <1>1. ASSUME NEW e \in Docs, RemovalStep(e), e # d PROVE removal'[d] = removal[d]
    BY <1>0, <1>1
    DEF RemovalStep, RequestRemoval, StartRemovalBuild, SealRemovalBuild, ResumeRemoval,
        CheckActive, FinishDelete, LockPointerForPurge, EraseStorage, CommitPurge,
        AbortRemoval, FailRemoval, RemovalTo
  <1>2. ASSUME NEW e \in Docs, DocStep(e) PROVE removal' = removal
    BY <1>2 DEF DocStep, ReprocessRead, ReprocessWrite, Process, ProcessFails
  <1>3. ASSUME NEW r \in Requests, RequestStep(r) PROVE removal' = removal
    BY <1>3
    DEF RequestStep, Choose, Gate, LockPointer, StartRollback, GateRollback, Prepare, Move,
        AbortRequest
  <1>4. ASSUME NEW b \in Builds, BuildStep(b) PROVE removal' = removal
    BY <1>4 DEF BuildStep, StartBuild, SealBuild, AbortBuild, Attest
  <1> QED BY <1>1, <1>2, <1>3, <1>4 DEF Next, ActivateSource, vars

LEMMA GotoEffect ==
    ASSUME TypeOK, NEW r \in Requests, NEW pc, Goto(r, pc)
    PROVE  /\ request'[r].pc = pc
           /\ request'[r].build = request[r].build
           /\ request'[r].marks = request[r].marks
           /\ \A s \in Requests \ {r} : request'[s] = request[s]
  <1>1. request \in [Requests -> RequestRecord] /\ request[r] \in RequestRecord
    BY DEF TypeOK
  <1> QED BY <1>1 DEF Goto, RequestRecord

LEMMA RequestEffect ==
    ASSUME TypeInv, NEW r \in Requests, RequestStep(r)
    PROVE  /\ removal' = removal
           /\ \A s \in Requests \ {r} : request'[s] = request[s]
           /\ Gated(r)' => Gated(r) \/ ProjectFree
           /\ Pointing(r)' => Pointing(r) \/ PointerFree
  <1>1. TypeOK /\ request \in [Requests -> RequestRecord] /\ request[r] \in RequestRecord
    BY DEF TypeInv, TypeOK
  <1>2. ASSUME NEW b \in Builds, Choose(r, b)
        PROVE  /\ \A s \in Requests \ {r} : request'[s] = request[s]
               /\ request'[r].pc = "chosen"
    BY <1>1, <1>2 DEF Choose, NoRequest
  <1>3. CASE Gate(r)
    BY <1>1, <1>3, GotoEffect DEF Gate, Gated, Pointing
  <1>4. CASE LockPointer(r)
    BY <1>1, <1>4, GotoEffect DEF LockPointer, Gated, Pointing
  <1>5. CASE StartRollback(r)
    <2>1. /\ \A s \in Requests \ {r} : request'[s] = request[s]
          /\ request'[r].pc = "rollback"
      BY <1>1, <1>5 DEF StartRollback, NoRequest
    <2> QED BY <1>5, <2>1 DEF StartRollback, Gated, Pointing
  <1>6. CASE GateRollback(r)
    BY <1>1, <1>6, GotoEffect DEF GateRollback, Gated, Pointing
  <1>7. CASE Prepare(r)
    <2>1. \A s \in Requests \ {r} : request'[s] = request[s]
      BY <1>1, <1>7 DEF Prepare
    <2> QED BY <1>7, <2>1 DEF Prepare, Gated, Pointing
  <1>8. CASE Move(r) \/ AbortRequest(r)
    <2>1. /\ \A s \in Requests \ {r} : request'[s] = request[s]
          /\ request'[r].pc = "idle"
      BY <1>1, <1>8 DEF Move, AbortRequest, NoRequest
    <2> QED BY <1>8, <2>1 DEF Move, AbortRequest, Gated, Pointing
  <1>9. removal' = removal
    BY DEF RequestStep, Choose, Gate, LockPointer, StartRollback, GateRollback, Prepare, Move,
           AbortRequest
  <1> QED
    BY <1>2, <1>3, <1>4, <1>5, <1>6, <1>7, <1>8, <1>9 DEF RequestStep, Gated, Pointing

LEMMA RemovalToEffect ==
    ASSUME TypeOK, NEW d \in Docs, NEW pc, RemovalTo(d, pc)
    PROVE  /\ removal'[d].pc = pc
           /\ removal'[d].build = removal[d].build
           /\ \A e \in Docs \ {d} : removal'[e] = removal[e]
  <1>1. removal \in [Docs -> RemovalRecord] /\ removal[d] \in RemovalRecord
    BY DEF TypeOK
  <1> QED BY <1>1 DEF RemovalTo, RemovalRecord

LEMMA StartRemovalEffect ==
    ASSUME TypeOK, NEW d \in Docs, NEW b \in Builds, StartRemovalBuild(d, b)
    PROVE  /\ removal'[d].pc = "building"
           /\ removal'[d].build = b
           /\ \A e \in Docs \ {d} : removal'[e] = removal[e]
  <1>1. removal \in [Docs -> RemovalRecord] /\ removal[d] \in RemovalRecord
    BY DEF TypeOK
  <1> QED BY <1>1 DEF StartRemovalBuild, RemovalRecord

LEMMA AbortBuildingEffect ==
    ASSUME TypeOK, NEW d \in Docs, AbortRemoval(d), removal[d].pc = "building"
    PROVE  /\ removal'[d].pc = "requested"
           /\ removal'[d].build = NoBuild
           /\ \A e \in Docs \ {d} : removal'[e] = removal[e]
           /\ build' = [build EXCEPT ![removal[d].build] = Unbuilt]
           /\ UNCHANGED <<doc, edit, pointer, receipts, generation, request>>
  <1>1. removal \in [Docs -> RemovalRecord] /\ removal[d] \in RemovalRecord
    BY DEF TypeOK
  <1> QED BY <1>1 DEF AbortRemoval, RemovalRecord

LEMMA AbortOtherEffect ==
    ASSUME TypeOK, NEW d \in Docs, AbortRemoval(d), removal[d].pc # "building"
    PROVE  /\ removal[d].pc \in {"checked", "purging", "erased"}
           /\ removal'[d].pc = "resumed"
           /\ removal'[d].build = removal[d].build
           /\ \A e \in Docs \ {d} : removal'[e] = removal[e]
           /\ UNCHANGED <<doc, edit, build, pointer, receipts, generation, request>>
  BY RemovalToEffect DEF AbortRemoval

LEMMA RemovalEffect ==
    ASSUME TypeInv, NEW d \in Docs, RemovalStep(d)
    PROVE  /\ request' = request
           /\ \A e \in Docs \ {d} : removal'[e] = removal[e]
           /\ Purging(d)' => Purging(d) \/ PointerFree
           /\ Checked(d)' => /\ Checked(d) \/ CheckActive(d)
                             /\ removal'[d].build = removal[d].build
           /\ removal'[d].pc = "building" =>
                removal[d].pc = "building" \/ \E b \in Builds : StartRemovalBuild(d, b)
           /\ \/ removal'[d].build = removal[d].build
              \/ removal'[d].build = NoBuild
              \/ \E b \in Builds : StartRemovalBuild(d, b) /\ removal'[d].build = b
  <1>1. TypeOK /\ removal \in [Docs -> RemovalRecord]
    BY DEF TypeInv, TypeOK
  <1>2. ASSUME NEW purge \in BOOLEAN, RequestRemoval(d, purge)
        PROVE  /\ \A e \in Docs \ {d} : removal'[e] = removal[e]
               /\ removal'[d].pc = "requested" /\ removal'[d].build = NoBuild
    BY <1>1, <1>2 DEF RequestRemoval
  <1>3. CASE SealRemovalBuild(d)
    BY <1>1, <1>3, RemovalToEffect DEF SealRemovalBuild, Purging, Checked
  <1>4. CASE ResumeRemoval(d)
    BY <1>1, <1>4, RemovalToEffect DEF ResumeRemoval, Purging, Checked
  <1>5. CASE CheckActive(d)
    <2>1. /\ removal'[d].pc \in {"checked", "waiting"}
          /\ removal'[d].build = removal[d].build
          /\ \A e \in Docs \ {d} : removal'[e] = removal[e]
      BY <1>1, <1>5, RemovalToEffect DEF CheckActive
    <2> QED BY <1>5, <2>1 DEF CheckActive, Purging, Checked
  <1>6. CASE FinishDelete(d)
    BY <1>1, <1>6, RemovalToEffect DEF FinishDelete, Purging, Checked
  <1>7. CASE LockPointerForPurge(d)
    BY <1>1, <1>7, RemovalToEffect DEF LockPointerForPurge, Purging, Checked
  <1>8. CASE EraseStorage(d)
    BY <1>1, <1>8, RemovalToEffect DEF EraseStorage, Purging, Checked
  <1>9. CASE CommitPurge(d)
    BY <1>1, <1>9, RemovalToEffect DEF CommitPurge, Purging, Checked
  <1>10. CASE AbortRemoval(d)
    <2>1. CASE removal[d].pc = "building"
      BY <1>1, <1>10, <2>1, AbortBuildingEffect DEF Purging, Checked
    <2>2. CASE removal[d].pc # "building"
      BY <1>1, <1>10, <2>2, AbortOtherEffect DEF Purging, Checked
    <2> QED BY <2>1, <2>2
  <1>11. CASE FailRemoval(d)
    BY <1>1, <1>11, RemovalToEffect DEF FailRemoval, Purging, Checked
  <1>12. request' = request
    BY DEF RemovalStep, RequestRemoval, StartRemovalBuild, SealRemovalBuild, ResumeRemoval,
           CheckActive, FinishDelete, LockPointerForPurge, EraseStorage, CommitPurge,
           AbortRemoval, FailRemoval
  <1>13. ASSUME NEW b \in Builds, StartRemovalBuild(d, b)
         PROVE  /\ \A e \in Docs \ {d} : removal'[e] = removal[e]
                /\ removal'[d].pc = "building" /\ removal'[d].build = b
    BY <1>1, <1>13, StartRemovalEffect
  <1> QED
    BY <1>2, <1>3, <1>4, <1>5, <1>6, <1>7, <1>8, <1>9, <1>10, <1>11, <1>12, <1>13
    DEF RemovalStep, Purging, Checked

\* Only requests and removal jobs take or release a lock.
LEMMA Bystanders ==
    ASSUME [Next]_vars,
           \A r \in Requests : ~RequestStep(r),
           \A d \in Docs : ~RemovalStep(d)
    PROVE  request' = request /\ removal' = removal /\ pointer' = pointer
  <1>1. ASSUME NEW d \in Docs, DocStep(d)
        PROVE  request' = request /\ removal' = removal /\ pointer' = pointer
    BY <1>1 DEF DocStep, ReprocessRead, ReprocessWrite, Process, ProcessFails
  <1>2. ASSUME NEW b \in Builds, BuildStep(b)
        PROVE  request' = request /\ removal' = removal /\ pointer' = pointer
    BY <1>2 DEF BuildStep, StartBuild, SealBuild, AbortBuild, Attest
  <1> QED BY <1>1, <1>2 DEF Next, ActivateSource, vars

-----------------------------------------------------------------------------
(* The locks exclude each other.                                            *)

LEMMA LockStep ==
    ASSUME TypeInv, LockInv, [Next]_vars
    PROVE  LockInv'
  <1>1. ASSUME NEW r \in Requests, RequestStep(r) PROVE LockInv'
    <2>1. \A s \in Requests \ {r} : (Gated(s)' <=> Gated(s)) /\ (Pointing(s)' <=> Pointing(s))
      BY <1>1, RequestEffect DEF Gated, Pointing
    <2>2. \A d \in Docs : Purging(d)' <=> Purging(d)
      BY <1>1, RequestEffect DEF Purging
    <2>3. ProjectFree => \A s \in Requests : ~Gated(s)
      BY DEF ProjectFree, Gated
    <2>4. PointerFree => (\A s \in Requests : ~Pointing(s)) /\ (\A d \in Docs : ~Purging(d))
      BY DEF PointerFree, Pointing, Purging
    <2>5. Gated(r)' => \A s \in Requests \ {r} : ~Gated(s)'
      BY <1>1, <2>1, <2>3, RequestEffect DEF LockInv
    <2>6. Pointing(r)' => /\ \A s \in Requests \ {r} : ~Pointing(s)'
                          /\ \A d \in Docs : ~Purging(d)'
      BY <1>1, <2>1, <2>2, <2>4, RequestEffect DEF LockInv
    <2>7. /\ \A s, t \in Requests \ {r} : Gated(s)' /\ Gated(t)' => s = t
          /\ \A s, t \in Requests \ {r} : Pointing(s)' /\ Pointing(t)' => s = t
          /\ \A d, e \in Docs : Purging(d)' /\ Purging(e)' => d = e
          /\ \A s \in Requests \ {r}, d \in Docs : ~(Pointing(s)' /\ Purging(d)')
      BY <2>1, <2>2 DEF LockInv
    <2> QED BY <2>5, <2>6, <2>7 DEF LockInv
  <1>2. ASSUME NEW d \in Docs, RemovalStep(d) PROVE LockInv'
    <2>1. \A s \in Requests : (Gated(s)' <=> Gated(s)) /\ (Pointing(s)' <=> Pointing(s))
      BY <1>2, RemovalEffect DEF Gated, Pointing
    <2>2. \A e \in Docs \ {d} : Purging(e)' <=> Purging(e)
      BY <1>2, RemovalEffect DEF Purging
    <2>3. PointerFree => (\A s \in Requests : ~Pointing(s)) /\ (\A e \in Docs : ~Purging(e))
      BY DEF PointerFree, Pointing, Purging
    <2>4. Purging(d)' => /\ \A s \in Requests : ~Pointing(s)'
                         /\ \A e \in Docs \ {d} : ~Purging(e)'
      BY <1>2, <2>1, <2>2, <2>3, RemovalEffect DEF LockInv
    <2>5. /\ \A s, t \in Requests : Gated(s)' /\ Gated(t)' => s = t
          /\ \A s, t \in Requests : Pointing(s)' /\ Pointing(t)' => s = t
          /\ \A e, f \in Docs \ {d} : Purging(e)' /\ Purging(f)' => e = f
          /\ \A s \in Requests, e \in Docs \ {d} : ~(Pointing(s)' /\ Purging(e)')
      BY <2>1, <2>2 DEF LockInv
    <2> QED BY <2>4, <2>5 DEF LockInv
  <1>3. CASE request' = request /\ removal' = removal
    BY <1>3 DEF LockInv, Gated, Pointing, Purging
  <1> QED BY <1>1, <1>2, <1>3, Bystanders

-----------------------------------------------------------------------------
(* What a step may do to one build.                                         *)

SameBuild(b) ==
    build'[b].state = build[b].state /\ build'[b].manifest = build[b].manifest

\* The build is started, given up or sealed, by whom and from which state.
StartedBy(b) == StartBuild(b) \/ \E d \in Docs : StartRemovalBuild(d, b)
AbortedBy(b) ==
    \/ AbortBuild(b)
    \/ \E d \in Docs : AbortRemoval(d) /\ removal[d].pc = "building" /\ removal[d].build = b
SealedBy(b) ==
    \/ SealBuild(b)
    \/ \E d \in Docs : SealRemovalBuild(d) /\ removal[d].build = b

BuildChange(b) ==
    \/ SameBuild(b)
    \/ StartedBy(b) /\ build[b].state = "absent" /\ build'[b].state = "building"
    \/ AbortedBy(b) /\ build[b].state = "building" /\ build'[b] = Unbuilt
    \/ /\ SealedBy(b) /\ build[b].state = "building" /\ build'[b].state = "validated"
       /\ build'[b].manifest = build[b].manifest /\ Current(b) /\ doc' = doc
    \/ /\ \E r \in Requests : Move(r) /\ b = request[r].build
       /\ build'[b].state = "active" /\ build'[b].manifest = build[b].manifest
    \/ /\ \E r \in Requests : Move(r) /\ b = pointer.active /\ b # request[r].build
       /\ build'[b].state = "retained" /\ build'[b].manifest = build[b].manifest
    \/ /\ \E d \in Docs : CommitPurge(d) /\ b \in ToSupersede(d)
       /\ build'[b].state = "superseded" /\ build'[b].manifest = build[b].manifest

LEMMA DocStepBuild ==
    ASSUME TypeInv, NEW d \in Docs, DocStep(d), NEW b \in Builds
    PROVE  SameBuild(b)
  <1>1. build \in [Builds -> BuildRecord] /\ build[b] \in BuildRecord
    BY DEF TypeInv, TypeOK
  <1>2. ASSUME NEW again \in BOOLEAN, Process(d, again) PROVE SameBuild(b)
    BY <1>1, <1>2 DEF Process, WithoutRows, SameBuild, BuildRecord
  <1>3. CASE build' = build
    BY <1>3 DEF SameBuild
  <1> QED BY <1>2, <1>3 DEF DocStep, ReprocessRead, ReprocessWrite, ProcessFails

LEMMA BuildStepBuild ==
    ASSUME TypeInv, NEW c \in Builds, BuildStep(c), NEW b \in Builds
    PROVE  BuildChange(b)
  <1>1. build \in [Builds -> BuildRecord] /\ build[b] \in BuildRecord
    BY DEF TypeInv, TypeOK
  <1>2. CASE StartBuild(c)
    <2>1. CASE b = c
      BY <1>1, <1>2, <2>1 DEF StartBuild, Snapshot, BuildChange, StartedBy
    <2>2. CASE b # c
      BY <1>1, <1>2, <2>2 DEF StartBuild, BuildChange, SameBuild
    <2> QED BY <2>1, <2>2
  <1>3. CASE SealBuild(c)
    <2>1. CASE b = c
      BY <1>1, <1>3, <2>1 DEF SealBuild, BuildRecord, BuildChange, SealedBy
    <2>2. CASE b # c
      BY <1>1, <1>3, <2>2 DEF SealBuild, BuildChange, SameBuild
    <2> QED BY <2>1, <2>2
  <1>4. CASE AbortBuild(c)
    <2>1. CASE b = c
      BY <1>1, <1>4, <2>1 DEF AbortBuild, BuildChange, AbortedBy
    <2>2. CASE b # c
      BY <1>1, <1>4, <2>2 DEF AbortBuild, BuildChange, SameBuild
    <2> QED BY <2>1, <2>2
  <1>5. CASE Attest(c)
    BY <1>5 DEF Attest, BuildChange, SameBuild
  <1> QED BY <1>2, <1>3, <1>4, <1>5 DEF BuildStep

LEMMA RequestStepBuild ==
    ASSUME TypeInv, NEW r \in Requests, RequestStep(r), NEW b \in Builds
    PROVE  BuildChange(b)
  <1>1. build \in [Builds -> BuildRecord] /\ build[b] \in BuildRecord
    BY DEF TypeInv, TypeOK
  <1>2. CASE Move(r)
    <2>1. build'[b] = IF b = request[r].build THEN [build[b] EXCEPT !.state = "active"]
                      ELSE IF b = pointer.active THEN [build[b] EXCEPT !.state = "retained"]
                      ELSE build[b]
      BY <1>2 DEF Move, Swapped
    <2> QED BY <1>1, <1>2, <2>1 DEF BuildRecord, BuildChange, SameBuild
  <1>3. CASE build' = build
    BY <1>3 DEF BuildChange, SameBuild
  <1> QED BY <1>2, <1>3
    DEF RequestStep, Choose, Gate, LockPointer, StartRollback, GateRollback, Prepare,
        AbortRequest

LEMMA RemovalStepBuild ==
    ASSUME TypeInv, OwnInv, NEW d \in Docs, RemovalStep(d), NEW b \in Builds
    PROVE  BuildChange(b)
  <1>1. TypeOK /\ build \in [Builds -> BuildRecord] /\ build[b] \in BuildRecord
    BY DEF TypeInv, TypeOK
  <1>2. ASSUME NEW c \in Builds, StartRemovalBuild(d, c) PROVE BuildChange(b)
    <2>1. CASE b = c
      BY <1>1, <1>2, <2>1 DEF StartRemovalBuild, Snapshot, BuildChange, StartedBy
    <2>2. CASE b # c
      BY <1>1, <1>2, <2>2 DEF StartRemovalBuild, BuildChange, SameBuild
    <2> QED BY <2>1, <2>2
  <1>3. ASSUME removal[d].pc = "building"
        PROVE  /\ removal[d].build \in Builds
               /\ build[removal[d].build].state = "building"
    BY <1>1, <1>3, RemovalFields, IndexAssumption DEF OwnInv, OwnBuild
  <1>4. CASE SealRemovalBuild(d)
    <2>1. CASE b = removal[d].build
      BY <1>1, <1>3, <1>4, <2>1 DEF SealRemovalBuild, BuildRecord, BuildChange, SealedBy
    <2>2. CASE b # removal[d].build
      BY <1>1, <1>4, <2>2 DEF SealRemovalBuild, BuildChange, SameBuild
    <2> QED BY <2>1, <2>2
  <1>5. CASE AbortRemoval(d) /\ removal[d].pc = "building"
    <2>1. build' = [build EXCEPT ![removal[d].build] = Unbuilt]
      BY <1>1, <1>5, AbortBuildingEffect
    <2>2. CASE b = removal[d].build
      BY <1>1, <1>3, <1>5, <2>1, <2>2 DEF BuildChange, AbortedBy
    <2>3. CASE b # removal[d].build
      BY <1>1, <2>1, <2>3 DEF BuildChange, SameBuild
    <2> QED BY <2>2, <2>3
  <1>6. CASE CommitPurge(d)
    <2>1. build'[b] = [build[b] EXCEPT !.rows = @ \ {d},
                                       !.state = IF b \in ToSupersede(d) THEN "superseded"
                                                 ELSE @]
      BY <1>6 DEF CommitPurge
    <2> QED BY <1>1, <1>6, <2>1 DEF BuildRecord, BuildChange, SameBuild
  <1>7. CASE build' = build
    BY <1>7 DEF BuildChange, SameBuild
  <1> QED BY <1>1, <1>2, <1>4, <1>5, <1>6, <1>7, AbortOtherEffect
    DEF RemovalStep, RequestRemoval, ResumeRemoval, CheckActive, FinishDelete,
        LockPointerForPurge, EraseStorage, FailRemoval

LEMMA BuildEffect ==
    ASSUME TypeInv, OwnInv, [Next]_vars, NEW b \in Builds
    PROVE  BuildChange(b)
  <1>1. CASE build' = build
    BY <1>1 DEF BuildChange, SameBuild
  <1>2. ASSUME NEW d \in Docs, DocStep(d) PROVE BuildChange(b)
    BY <1>2, DocStepBuild DEF BuildChange
  <1> QED BY <1>1, <1>2, BuildStepBuild, RequestStepBuild, RemovalStepBuild
    DEF Next, ActivateSource, vars

-----------------------------------------------------------------------------
(* What a step may do to the pointer, to a document and to a request.       *)

LEMMA PointerEffect ==
    ASSUME [Next]_vars
    PROVE  \/ UNCHANGED <<pointer, generation>> /\ receipts \subseteq receipts'
           \/ ProjectFree /\ UNCHANGED <<pointer, receipts, request>>
           \/ \E r \in Requests : Move(r)
           \/ \E d \in Docs : CommitPurge(d)
  <1>1. ASSUME NEW d \in Docs, DocStep(d) PROVE UNCHANGED <<pointer, generation, receipts>>
    BY <1>1 DEF DocStep, ReprocessRead, ReprocessWrite, Process, ProcessFails
  <1>2. ASSUME NEW d \in Docs, RemovalStep(d), ~CommitPurge(d)
        PROVE  UNCHANGED <<pointer, generation, receipts>>
    BY <1>2
    DEF RemovalStep, RequestRemoval, StartRemovalBuild, SealRemovalBuild, ResumeRemoval,
        CheckActive, FinishDelete, LockPointerForPurge, EraseStorage, AbortRemoval,
        FailRemoval
  <1>3. ASSUME NEW r \in Requests, RequestStep(r), ~Move(r)
        PROVE  UNCHANGED <<pointer, generation, receipts>>
    BY <1>3
    DEF RequestStep, Choose, Gate, LockPointer, StartRollback, GateRollback, Prepare,
        AbortRequest
  <1>4. ASSUME NEW b \in Builds, BuildStep(b)
        PROVE  UNCHANGED <<pointer, generation>> /\ receipts \subseteq receipts'
    BY <1>4 DEF BuildStep, StartBuild, SealBuild, AbortBuild, Attest
  <1> QED BY <1>1, <1>2, <1>3, <1>4 DEF Next, ActivateSource, vars

\* Who can take content away from a document.
LEMMA DocLoss ==
    ASSUME TypeInv, [Next]_vars, NEW d \in Docs
    PROVE  /\ doc'[d].stored # doc[d].stored => EraseStorage(d)
           /\ doc'[d].deleted # doc[d].deleted => FinishDelete(d)
           /\ doc'[d].status = "gone" /\ doc[d].status # "gone" => CommitPurge(d)
  <1> DEFINE Kept == /\ doc'[d].stored = doc[d].stored
                     /\ doc'[d].deleted = doc[d].deleted
                     /\ doc'[d].status = "gone" => doc[d].status = "gone"
  <1>1. doc \in [Docs -> DocRecord] /\ doc[d] \in DocRecord
    BY DEF TypeInv, TypeOK
  <1>2. ASSUME NEW e \in Docs, NEW s \in Statuses \ {"gone"},
               doc' = [doc EXCEPT ![e].status = s]
        PROVE  Kept
    BY <1>1, <1>2 DEF DocRecord
  <1>3. ASSUME NEW e \in Docs, NEW s \in Statuses \ {"gone"}, NEW run \in BOOLEAN,
               doc' = [doc EXCEPT ![e].status = s, ![e].runnable = run]
        PROVE  Kept
    BY <1>1, <1>3 DEF DocRecord
  <1>4. CASE doc' = doc
    BY <1>4
  <1>5. ASSUME NEW e \in Docs, DocStep(e) PROVE Kept
    <2>1. CASE ReprocessWrite(e)
      BY <1>1, <2>1 DEF ReprocessWrite, DocRecord
    <2>2. ASSUME NEW again \in BOOLEAN, Process(e, again) \/ ProcessFails(e, again) PROVE Kept
      BY <1>3, <2>2 DEF Process, ProcessFails, Statuses
    <2> QED BY <1>4, <1>5, <2>1, <2>2 DEF DocStep, ReprocessRead
  <1>6. ASSUME NEW b \in Builds, BuildStep(b) PROVE doc' = doc
    BY <1>6 DEF BuildStep, StartBuild, SealBuild, AbortBuild, Attest
  <1>7. ASSUME NEW r \in Requests, RequestStep(r) PROVE Kept
    <2>1. CASE Move(r)
      <3>1. doc'[d] = IF d \in request[r].marks THEN [doc[d] EXCEPT !.status = "ready"]
                      ELSE doc[d]
        BY <2>1 DEF Move
      <3> QED BY <1>1, <3>1 DEF DocRecord
    <2> QED BY <1>4, <1>7, <2>1
      DEF RequestStep, Choose, Gate, LockPointer, StartRollback, GateRollback, Prepare,
          AbortRequest
  <1>8. ASSUME NEW e \in Docs, RemovalStep(e) PROVE Kept \/ (e = d /\ RemovalStep(d))
    <2>1. CASE e # d
      <3>1. CASE doc' = doc \/ \E s \in Statuses \ {"gone"} : doc' = [doc EXCEPT ![e].status = s]
        BY <1>2, <1>4, <3>1
      <3>2. CASE FinishDelete(e) \/ EraseStorage(e) \/ CommitPurge(e)
        BY <1>1, <2>1, <3>2 DEF FinishDelete, EraseStorage, CommitPurge
      <3> QED BY <1>8, <3>1, <3>2
        DEF RemovalStep, RequestRemoval, StartRemovalBuild, SealRemovalBuild, ResumeRemoval,
            CheckActive, LockPointerForPurge, AbortRemoval, FailRemoval, Statuses
    <2> QED BY <1>8, <2>1
  <1>9. CASE RemovalStep(d)
    <2>1. CASE FinishDelete(d)
      BY <1>1, <2>1 DEF FinishDelete, DocRecord
    <2>2. CASE EraseStorage(d)
      BY <1>1, <2>2 DEF EraseStorage, DocRecord
    <2>3. CASE CommitPurge(d)
      BY <1>1, <2>3 DEF CommitPurge, DocRecord
    <2>4. CASE doc' = doc \/ \E s \in Statuses \ {"gone"} : doc' = [doc EXCEPT ![d].status = s]
      BY <1>2, <1>4, <2>4
    <2> QED BY <1>9, <2>1, <2>2, <2>3, <2>4
      DEF RemovalStep, RequestRemoval, StartRemovalBuild, SealRemovalBuild, ResumeRemoval,
          CheckActive, LockPointerForPurge, AbortRemoval, FailRemoval, Statuses
  <1> QED BY <1>4, <1>5, <1>6, <1>7, <1>8, <1>9 DEF Next, ActivateSource, vars

\* The target of a request is chosen once.
LEMMA RequestTarget ==
    ASSUME TypeInv, NEW r \in Requests, RequestStep(r), request'[r].pc # "idle"
    PROVE  \/ /\ request'[r].pc = "chosen"
              /\ request'[r].build \in Builds /\ Activatable(request'[r].build)
           \/ /\ request'[r].pc = "rollback"
              /\ request'[r].build = pointer.previous
              /\ pointer.previous # NoBuild /\ build[pointer.previous].state = "retained"
              /\ UNCHANGED <<pointer, receipts, generation>>
           \/ /\ request[r].pc # "idle"
              /\ request'[r].build = request[r].build
              /\ UNCHANGED <<pointer, receipts, generation>>
  <1>1. TypeOK /\ request \in [Requests -> RequestRecord] /\ request[r] \in RequestRecord
    BY DEF TypeInv, TypeOK
  <1>2. ASSUME NEW b \in Builds, Choose(r, b)
        PROVE  request'[r].pc = "chosen" /\ request'[r].build = b /\ Activatable(b)
    BY <1>1, <1>2 DEF Choose, NoRequest
  <1>3. CASE StartRollback(r)
    BY <1>1, <1>3 DEF StartRollback, NoRequest
  <1>4. CASE Gate(r)
    BY <1>1, <1>4, GotoEffect DEF Gate
  <1>5. CASE LockPointer(r)
    BY <1>1, <1>5, GotoEffect DEF LockPointer
  <1>6. CASE GateRollback(r)
    BY <1>1, <1>6, GotoEffect DEF GateRollback
  <1>7. CASE Prepare(r)
    <2>1. request'[r].build = request[r].build
      BY <1>1, <1>7 DEF Prepare, RequestRecord
    <2> QED BY <1>7, <2>1 DEF Prepare
  <1>8. CASE Move(r) \/ AbortRequest(r)
    <2>1. request'[r].pc = "idle"
      BY <1>1, <1>8 DEF Move, AbortRequest, NoRequest
    <2> QED BY <2>1
  <1> QED BY <1>2, <1>3, <1>4, <1>5, <1>6, <1>7, <1>8 DEF RequestStep

-----------------------------------------------------------------------------
(* Each part of the invariant is preserved.                                 *)

LEMMA ActiveIsBuild ==
    ASSUME TypeOK, PointerAgrees, NEW b \in Builds, build[b].state = "active"
    PROVE  pointer.active = b /\ pointer.active # NoBuild
  BY IndexAssumption DEF PointerAgrees

LEMMA MoveEffect ==
    ASSUME TypeInv, NEW r \in Requests, Move(r)
    PROVE  /\ Gated(r) /\ Pointing(r) /\ request[r].pc = "prepared"
           /\ request[r].build \in Builds
           /\ pointer'.active = request[r].build /\ pointer'.previous = pointer.active
           /\ UNCHANGED <<receipts, generation, removal>>
           /\ request'[r].pc = "idle"
           /\ \A s \in Requests \ {r} : request'[s] = request[s]
  <1>1. request \in [Requests -> RequestRecord] /\ request[r].build \in Builds
    BY RequestFields DEF TypeInv, TypeOK, Move
  <1> QED BY <1>1 DEF Move, Gated, Pointing, NoRequest

LEMMA PurgeEffect ==
    ASSUME TypeInv, NEW d \in Docs, CommitPurge(d)
    PROVE  /\ Purging(d) /\ Checked(d) /\ removal[d].pc = "erased"
           /\ pointer'.active = pointer.active
           /\ pointer'.previous = IF pointer.previous \in ToSupersede(d) THEN NoBuild
                                  ELSE pointer.previous
           /\ UNCHANGED <<receipts, generation, request>>
  <1>1. pointer = [active |-> pointer.active, previous |-> pointer.previous]
    BY PointerFields DEF TypeInv
  <1>2. pointer' = [pointer EXCEPT !.previous = IF @ \in ToSupersede(d) THEN NoBuild ELSE @]
    BY DEF CommitPurge, PointerAfterPurge
  <1>3. /\ pointer'.active = pointer.active
        /\ pointer'.previous = IF pointer.previous \in ToSupersede(d) THEN NoBuild
                               ELSE pointer.previous
    BY <1>1, <1>2
  <1> QED BY <1>3 DEF CommitPurge, Purging, Checked

LEMMA OwnStep ==
    ASSUME TypeInv, OwnInv, PointerAgrees, TargetInv, [Next]_vars
    PROVE  OwnInv'
  <1>1. TypeOK /\ NoBuild \notin Builds
    BY IndexAssumption DEF TypeInv
  \* A build that some job owns is neither started nor given up by anyone else.
  <1>2. ASSUME NEW d \in Docs, NEW b \in Builds, removal[d].build = b,
               removal'[d].build = b
        PROVE  /\ build'[b].state # "absent"
               /\ build'[b].manifest[d] = 0
               /\ removal'[d].pc = "building" => build'[b].state = "building"
    <2>1. /\ build[b].state # "absent" /\ build[b].manifest[d] = 0
          /\ removal[d].pc = "building" => build[b].state = "building"
          /\ \A e \in Docs : removal[e].build = b => e = d
      BY <1>1, <1>2 DEF OwnInv, OwnBuild
    <2>2. ~AbortedBy(b)
      <3>1. ~AbortBuild(b)
        BY <1>2 DEF AbortBuild, Own
      <3>2. ASSUME NEW e \in Docs, AbortRemoval(e), removal[e].pc = "building",
                   removal[e].build = b
            PROVE  FALSE
        BY <1>1, <1>2, <2>1, <3>2, AbortBuildingEffect
      <3> QED BY <3>1, <3>2 DEF AbortedBy
    <2>3. BuildChange(b)
      BY BuildEffect
    <2>4. build'[b].state # "absent" /\ build'[b].manifest[d] = 0
      BY <2>1, <2>2, <2>3 DEF BuildChange, SameBuild
    <2>5. ASSUME removal'[d].pc = "building" PROVE build'[b].state = "building"
      <3>1. removal[d].pc = "building"
        <4>1. CASE removal'[d] = removal[d]
          BY <2>5, <4>1
        <4>2. ASSUME RemovalStep(d), NEW c \in Builds, StartRemovalBuild(d, c) PROVE FALSE
          <5>1. removal'[d].build = c /\ build[c].state = "absent"
            BY <1>1, <4>2, StartRemovalEffect DEF StartRemovalBuild
          <5> QED BY <1>2, <2>1, <5>1
        <4> QED BY <2>5, <4>1, <4>2, RemovalOfStep, RemovalEffect
      <3>2. ~SealedBy(b)
        <4>1. ~SealBuild(b)
          BY <1>2 DEF SealBuild, Own
        <4>2. ASSUME SealRemovalBuild(d) PROVE FALSE
          BY <1>1, <2>5, <4>2, RemovalToEffect DEF SealRemovalBuild
        <4> QED BY <2>1, <4>1, <4>2 DEF SealedBy
      <3>3. build[b].state = "building"
        BY <2>1, <3>1
      <3>4. ASSUME NEW r \in Requests, Move(r), b = request[r].build \/ b = pointer.active
            PROVE  FALSE
        BY <3>3, <3>4, MoveEffect DEF Move, TargetInv, PointerAgrees, Sealed
      <3>5. ASSUME NEW e \in Docs, b \in ToSupersede(e) PROVE FALSE
        BY <3>3, <3>5 DEF ToSupersede, Sealed
      <3> QED BY <2>2, <2>3, <3>2, <3>3, <3>4, <3>5 DEF BuildChange, SameBuild
    <2> QED BY <2>4, <2>5
  \* A build that becomes a job's own is a fresh one.
  <1>3. ASSUME NEW d \in Docs, removal'[d].build # NoBuild, removal'[d].build # removal[d].build
        PROVE  \E b \in Builds : StartRemovalBuild(d, b) /\ removal'[d].build = b
    BY <1>3, RemovalOfStep, RemovalEffect
  <1>4. ASSUME NEW d \in Docs, NEW b \in Builds, StartRemovalBuild(d, b)
        PROVE  /\ \A e \in Docs : removal[e].build # b
               /\ build'[b].state = "building" /\ build'[b].manifest[d] = 0
               /\ \A e \in Docs \ {d} : removal'[e] = removal[e]
    <2>1. \A e \in Docs : removal[e].build # b
      BY <1>1, <1>4 DEF StartRemovalBuild, OwnInv, OwnBuild
    <2>2. build'[b] = Snapshot({e \in Docs \ {d} : Eligible(e)})
      BY <1>1, <1>4 DEF StartRemovalBuild, TypeOK
    <2> QED BY <1>1, <1>4, <2>1, <2>2, StartRemovalEffect DEF Snapshot
  <1>5. \A d \in Docs : removal'[d].build \in Builds \cup {NoBuild}
    BY NextType, RemovalFields DEF TypeInv, TypeOK, RemovalRecord
  <1>6. ASSUME NEW d \in Docs, removal'[d].build # NoBuild, removal'[d].build # removal[d].build
        PROVE  OwnBuild(d)'
    <2>1. PICK b \in Builds : StartRemovalBuild(d, b) /\ removal'[d].build = b
      BY <1>3, <1>6
    <2> QED BY <1>4, <2>1 DEF OwnBuild
  <1>7. ASSUME NEW d \in Docs, removal'[d].build # NoBuild, removal'[d].build = removal[d].build
        PROVE  OwnBuild(d)'
    <2> DEFINE b == removal[d].build
    <2>1. b \in Builds
      BY <1>5, <1>7
    <2>2. \A e \in Docs : removal[e].build = b => e = d
      BY <1>7 DEF OwnInv, OwnBuild
    <2>3. ASSUME NEW e \in Docs, removal'[e].build = b, e # d PROVE FALSE
      <3>1. PICK c \in Builds : StartRemovalBuild(e, c) /\ removal'[e].build = c
        BY <1>3, <1>7, <2>2, <2>3
      <3> QED BY <1>4, <2>3, <3>1
    <2> QED BY <1>2, <1>7, <2>1, <2>3 DEF OwnBuild
  <1> QED BY <1>6, <1>7 DEF OwnInv, OwnBuild

LEMMA SealedStays ==
    ASSUME TypeInv, OwnInv, [Next]_vars, NEW b \in Builds, Sealed(b)
    PROVE  Sealed(b)'
  <1>1. BuildChange(b)
    BY BuildEffect
  <1> QED BY <1>1 DEF BuildChange, SameBuild, Sealed

LEMMA TargetStep ==
    ASSUME TypeInv, OwnInv, TargetInv, [Next]_vars
    PROVE  TargetInv'
  <1>1. ASSUME NEW r \in Requests, request'[r].pc # "idle", NEW b \in Builds,
               b = request'[r].build
        PROVE  Sealed(b)'
    <2>1. CASE request'[r] = request[r]
      BY <1>1, <2>1, SealedStays DEF TargetInv
    <2>2. CASE RequestStep(r)
      <3>1. Sealed(b)
        BY <1>1, <2>2, RequestTarget DEF TargetInv, Activatable, Sealed
      <3> QED BY <3>1, SealedStays
    <2> QED BY <2>1, <2>2, RequestOfStep
  <1>2. \A r \in Requests : request'[r].pc # "idle" => request'[r].build \in Builds
    BY NextType DEF TypeInv, TypeOK
  <1> QED BY <1>1, <1>2 DEF TargetInv, Sealed

LEMMA PointerStep ==
    ASSUME TypeInv, OwnInv, PointerAgrees, TargetInv, GateInv, [Next]_vars
    PROVE  PointerAgrees'
  <1>1. TypeOK /\ NoBuild \notin Builds /\ \A b \in Builds : BuildChange(b)
    BY BuildEffect, IndexAssumption DEF TypeInv
  <1>2. ASSUME NEW r \in Requests, Move(r) PROVE PointerAgrees'
    <2>1. /\ request[r].build \in Builds /\ request[r].build # pointer.active
          /\ pointer'.active = request[r].build /\ pointer'.previous = pointer.active
      BY <1>2, MoveEffect DEF GateInv, Backed
    <2>2. \A c \in Builds :
            build'[c].state = IF c = request[r].build THEN "active"
                              ELSE IF c = pointer.active THEN "retained" ELSE build[c].state
      <3>1. \A c \in Builds : build[c] \in BuildRecord
        BY <1>1, BuildFields
      <3> QED BY <1>2, <3>1 DEF Move, Swapped, BuildRecord
    <2>3. \A c \in Builds : build'[c].state = "active" <=> pointer'.active = c
      BY <2>1, <2>2 DEF PointerAgrees
    <2>4. pointer.active \in Builds \cup {NoBuild}
      BY <1>1, PointerFields
    <2> QED BY <2>1, <2>2, <2>3, <2>4 DEF PointerAgrees
  <1>3. ASSUME NEW d \in Docs, CommitPurge(d) PROVE PointerAgrees'
    <2>1. \A c \in Builds :
            build'[c].state = IF c \in ToSupersede(d) THEN "superseded" ELSE build[c].state
      <3>1. \A c \in Builds : build[c] \in BuildRecord
        BY <1>1, BuildFields
      <3> QED BY <1>3, <3>1 DEF CommitPurge, BuildRecord
    <2>2. \A c \in Builds : build'[c].state = "active" <=> pointer'.active = c
      BY <1>3, <2>1, PurgeEffect DEF PointerAgrees, ToSupersede
    <2>3. pointer.previous \in Builds \cup {NoBuild}
      BY <1>1, PointerFields
    <2>4. pointer'.previous # NoBuild => build'[pointer'.previous].state = "retained"
      BY <1>3, <2>1, <2>3, PurgeEffect DEF PointerAgrees
    <2> QED BY <2>2, <2>4 DEF PointerAgrees
  <1>4. CASE /\ \A r \in Requests : ~Move(r)
             /\ \A d \in Docs : ~CommitPurge(d)
    <2>1. pointer' = pointer
      BY <1>4, PointerEffect
    <2>2. ASSUME NEW b \in Builds
          PROVE  /\ build'[b].state = "active" <=> build[b].state = "active"
                 /\ build[b].state = "retained" => build'[b].state = "retained"
      BY <1>1, <1>4 DEF BuildChange, SameBuild, Unbuilt
    <2>3. pointer.previous \in Builds \cup {NoBuild}
      BY <1>1, PointerFields
    <2> QED BY <2>1, <2>2, <2>3 DEF PointerAgrees
  <1> QED BY <1>2, <1>3, <1>4

LEMMA ReceiptStep ==
    ASSUME TypeInv, PointerAgrees, ReceiptInv, [Next]_vars
    PROVE  ReceiptInv'
  <1>1. ASSUME NEW b \in Builds, Attest(b) PROVE ReceiptInv'
    <2>1. b # pointer.active
      BY <1>1 DEF Attest, Activatable, PointerAgrees
    <2> QED BY <1>1, <2>1 DEF Attest, ReceiptInv
  <1>2. CASE receipts' = receipts
    BY <1>2 DEF ReceiptInv
  <1>3. ASSUME NEW b \in Builds, BuildStep(b), ~Attest(b) PROVE receipts' = receipts
    BY <1>3 DEF BuildStep, StartBuild, SealBuild, AbortBuild
  <1>4. ASSUME NEW d \in Docs, DocStep(d) PROVE receipts' = receipts
    BY <1>4 DEF DocStep, ReprocessRead, ReprocessWrite, Process, ProcessFails
  <1>5. ASSUME NEW d \in Docs, RemovalStep(d) PROVE receipts' = receipts
    BY <1>5
    DEF RemovalStep, RequestRemoval, StartRemovalBuild, SealRemovalBuild, ResumeRemoval,
        CheckActive, FinishDelete, LockPointerForPurge, EraseStorage, CommitPurge,
        AbortRemoval, FailRemoval
  <1>6. ASSUME NEW r \in Requests, RequestStep(r) PROVE receipts' = receipts
    BY <1>6
    DEF RequestStep, Choose, Gate, LockPointer, StartRollback, GateRollback, Prepare, Move,
        AbortRequest
  <1> QED BY <1>1, <1>2, <1>3, <1>4, <1>5, <1>6 DEF Next, ActivateSource, vars

LEMMA GateStep ==
    ASSUME TypeInv, PointerAgrees, LockInv, ReceiptInv, TargetInv, GateInv, [Next]_vars
    PROVE  GateInv'
  <1> SUFFICES ASSUME NEW r \in Requests PROVE Backed(r)'
    BY DEF GateInv
  <1>1. TypeOK /\ NoBuild \notin Builds /\ Backed(r)
    BY IndexAssumption DEF TypeInv, GateInv
  \* The request takes a step itself.
  <1>2. CASE RequestStep(r)
    <2>1. ASSUME NEW b \in Builds, Choose(r, b) PROVE Backed(r)'
      <3>1. request'[r].pc = "chosen"
        BY <1>1, <2>1 DEF Choose, NoRequest, TypeOK
      <3> QED BY <3>1 DEF Backed, Gated
    <2>2. CASE Gate(r)
      <3>1. /\ request'[r].pc = "gated" /\ request'[r].build = request[r].build
            /\ UNCHANGED <<pointer, receipts, generation>>
        BY <1>1, <2>2, GotoEffect DEF Gate
      <3>2. <<request[r].build, pointer.active, generation>> \in receipts
        BY <2>2 DEF Gate, Accepted
      <3>3. request[r].build # pointer.active
        BY <3>2 DEF ReceiptInv
      <3> QED BY <3>1, <3>2, <3>3 DEF Backed, Gated, Compared
    <2>3. CASE LockPointer(r)
      <3>1. /\ request'[r].pc = "holding" /\ request'[r].build = request[r].build
            /\ request[r].pc = "gated"
            /\ UNCHANGED <<pointer, receipts, generation>>
        BY <1>1, <2>3, GotoEffect DEF LockPointer
      <3> QED BY <1>1, <3>1 DEF Backed, Gated, Compared
    <2>4. CASE StartRollback(r)
      <3>1. /\ request'[r].pc = "rollback" /\ request'[r].build = pointer.previous
            /\ pointer' = pointer
        BY <1>1, <2>4 DEF StartRollback, NoRequest, TypeOK
      <3> QED BY <3>1 DEF Backed, Gated
    <2>5. CASE GateRollback(r)
      <3>1. /\ request'[r].pc = "holding" /\ request'[r].build = request[r].build
            /\ request[r].pc = "rollback"
            /\ UNCHANGED <<pointer, receipts, generation>>
        BY <1>1, <2>5, GotoEffect DEF GateRollback
      <3>2. request[r].build \in Builds /\ request[r].build = pointer.previous
        BY <1>1, <3>1, RequestFields DEF Backed
      <3>3. request[r].build # pointer.active
        BY <1>1, <3>2 DEF PointerAgrees
      <3>4. \E base \in Builds \cup {NoBuild} :
              <<request[r].build, base, generation>> \in receipts
        BY <2>5 DEF GateRollback, AcceptedBefore
      <3>5. Historical(r)'
        BY <3>1, <3>2, <3>4 DEF Historical
      <3> QED BY <3>1, <3>3, <3>5 DEF Backed, Gated
    <2>6. CASE Prepare(r)
      <3>1. request'[r].build = request[r].build /\ request'[r].pc = "prepared"
        BY <1>1, <2>6 DEF Prepare, RequestRecord, TypeOK
      <3>2. request[r].pc = "holding" /\ UNCHANGED <<pointer, receipts, generation>>
        BY <2>6 DEF Prepare
      <3>3. Compared(r) \/ Historical(r)
        BY <1>1, <3>2 DEF Backed
      <3>4. Compared(r)' \/ Historical(r)'
        BY <3>1, <3>2, <3>3 DEF Compared, Historical
      <3> QED BY <1>1, <3>1, <3>2, <3>4 DEF Backed, Gated
    <2>7. CASE Move(r) \/ AbortRequest(r)
      <3>1. request'[r].pc = "idle"
        BY <1>1, <2>7 DEF Move, AbortRequest, NoRequest, TypeOK
      <3> QED BY <3>1 DEF Backed, Gated
    <2> QED BY <1>2, <2>1, <2>2, <2>3, <2>4, <2>5, <2>6, <2>7 DEF RequestStep
  \* Somebody else does: whoever could disturb it needs a lock that it holds.
  <1>3. CASE request'[r] = request[r]
    <2>1. CASE UNCHANGED <<pointer, generation>> /\ receipts \subseteq receipts'
      <3>1. /\ Compared(r) => Compared(r)'
            /\ Historical(r) => Historical(r)'
        BY <1>3, <2>1 DEF Compared, Historical
      <3> QED BY <1>1, <1>3, <2>1, <3>1 DEF Backed, Gated
    <2>2. CASE ProjectFree /\ UNCHANGED <<pointer, receipts, request>>
      <3>1. ~Gated(r)
        BY <2>2 DEF ProjectFree, Gated
      <3> QED BY <1>1, <2>2, <3>1 DEF Backed, Gated
    <2>3. ASSUME NEW s \in Requests, Move(s) PROVE Backed(r)'
      <3>1. s # r
        BY <1>3, <2>3, MoveEffect
      <3>2. ~Gated(r) /\ ~Pointing(r)
        BY <2>3, <3>1, MoveEffect DEF LockInv
      <3> QED BY <1>3, <3>2 DEF Backed, Gated, Pointing
    <2>4. ASSUME NEW d \in Docs, CommitPurge(d) PROVE Backed(r)'
      <3>1. ~Pointing(r)
        BY <2>4, PurgeEffect DEF LockInv
      <3>2. pointer'.active = pointer.active /\ UNCHANGED <<receipts, generation>>
        BY <2>4, PurgeEffect
      <3>3. Compared(r) => Compared(r)'
        BY <1>3, <3>2 DEF Compared
      <3> QED BY <1>1, <1>3, <3>1, <3>2, <3>3 DEF Backed, Gated, Pointing
    <2> QED BY <2>1, <2>2, <2>3, <2>4, PointerEffect
  <1> QED BY <1>2, <1>3, RequestOfStep

LEMMA PreparedByPrepare ==
    ASSUME TypeOK, NEW r \in Requests, RequestStep(r), request'[r].pc = "prepared"
    PROVE  Prepare(r)
  <1>1. request \in [Requests -> RequestRecord]
    BY DEF TypeOK
  <1>2. ~(\E b \in Builds : Choose(r, b)) /\ ~StartRollback(r) /\ ~Move(r) /\ ~AbortRequest(r)
    <2>1. ASSUME NEW b \in Builds, Choose(r, b) PROVE FALSE
      BY <1>1, <2>1 DEF Choose, NoRequest
    <2>2. ASSUME StartRollback(r) PROVE FALSE
      BY <1>1, <2>2 DEF StartRollback, NoRequest
    <2>3. ASSUME Move(r) PROVE FALSE
      BY <1>1, <2>3 DEF Move, NoRequest
    <2>4. ASSUME AbortRequest(r) PROVE FALSE
      BY <1>1, <2>4 DEF AbortRequest, NoRequest
    <2> QED BY <2>1, <2>2, <2>3, <2>4
  <1>3. ~Gate(r) /\ ~LockPointer(r) /\ ~GateRollback(r)
    BY GotoEffect DEF Gate, LockPointer, GateRollback
  <1> QED BY <1>2, <1>3 DEF RequestStep

LEMMA CheckedStep ==
    ASSUME TypeInv, PointerAgrees, OwnInv, CheckedInv, [Next]_vars
    PROVE  CheckedInv'
  <1>1. TypeOK /\ NoBuild \notin Builds
    BY IndexAssumption DEF TypeInv
  <1> SUFFICES ASSUME NEW d \in Docs, Checked(d)'
               PROVE  /\ build'[removal'[d].build].state = "active"
                      /\ \A r \in Requests : request'[r].pc # "prepared"
    BY DEF CheckedInv
  <1>2. CASE Checked(d)
    <2>1. /\ removal[d].build \in Builds /\ removal'[d].build = removal[d].build
          /\ build[removal[d].build].state = "active"
          /\ \A r \in Requests : request[r].pc # "prepared"
      BY <1>1, <1>2, RemovalOfStep, RemovalEffect, RemovalFields DEF CheckedInv, Checked
    <2>2. \A r \in Requests : ~Move(r)
      BY <2>1 DEF Move
    <2>3. BuildChange(removal[d].build)
      BY <2>1, BuildEffect
    <2>4. build'[removal[d].build].state = "active"
      BY <2>1, <2>2, <2>3 DEF BuildChange, SameBuild, ToSupersede
    <2>5. ASSUME NEW r \in Requests, Prepare(r) PROVE FALSE
      <3>1. pointer.active = removal[d].build /\ pointer.active # NoBuild
        BY <1>1, <2>1, ActiveIsBuild
      <3> QED BY <1>2, <2>5, <3>1 DEF Prepare, BuildFree, Checked
    <2>6. ASSUME NEW r \in Requests, request'[r].pc = "prepared" PROVE FALSE
      BY <1>1, <2>1, <2>5, <2>6, RequestOfStep, PreparedByPrepare
    <2> QED BY <2>1, <2>4, <2>6
  <1>3. CASE ~Checked(d)
    <2>1. CheckActive(d) /\ removal'[d].build = removal[d].build
      BY <1>3, RemovalOfStep, RemovalEffect DEF Checked
    <2>2. removal'[d].pc = "checked"
      BY <1>1, <1>3, <2>1, RemovalToEffect DEF CheckActive, Checked
    <2>3. /\ removal[d].build \in Builds
          /\ build[removal[d].build].state = "active"
      BY <1>1, <2>1, <2>2, RemovalToEffect, RemovalFields DEF CheckActive
    <2>4. pointer.active = removal[d].build
      BY <1>1, <2>3, ActiveIsBuild
    <2>5. \A r \in Requests : request[r].pc # "prepared"
      BY <2>1, <2>4 DEF CheckActive, NotBeingSwapped
    <2> QED BY <2>1, <2>3, <2>5 DEF CheckActive
  <1> QED BY <1>2, <1>3

LEMMA GoneStep ==
    ASSUME TypeInv, OwnInv, PurgedLeaveNoCandidate, [Next]_vars
    PROVE  PurgedLeaveNoCandidate'
  <1> SUFFICES ASSUME NEW d \in Docs, NEW b \in Builds, doc'[d].status = "gone",
                      build'[b].manifest[d] > 0, build'[b].state = "validated"
               PROVE  FALSE
    BY DEF PurgedLeaveNoCandidate, Members
  <1>1. BuildChange(b)
    BY BuildEffect
  <1>2. CASE SameBuild(b)
    <2>1. build[b].state = "validated" /\ d \in Members(b)
      BY <1>2 DEF SameBuild, Members
    <2>2. doc[d].status # "gone"
      BY <2>1 DEF PurgedLeaveNoCandidate
    <2>3. CommitPurge(d)
      BY <2>2, DocLoss
    <2>4. build'[b].state = "superseded"
      <3>1. b \in ToSupersede(d)
        BY <2>1 DEF ToSupersede, Sealed
      <3>2. build[b] \in BuildRecord
        BY BuildFields DEF TypeInv
      <3> QED BY <2>3, <3>1, <3>2 DEF CommitPurge, BuildRecord
    <2> QED BY <2>4
  <1>3. CASE build'[b].manifest = build[b].manifest /\ Current(b) /\ doc' = doc
    BY <1>3 DEF Current, Members
  <1> QED BY <1>1, <1>2, <1>3 DEF BuildChange, Unbuilt

-----------------------------------------------------------------------------
(* Superseded builds.                                                       *)

\* Only the snapshot of a new build adds rows to it.
LEMMA RowsShrink ==
    ASSUME TypeInv, [Next]_vars, NEW b \in Builds, build[b].state # "absent"
    PROVE  build'[b].rows \subseteq build[b].rows
  <1>1. TypeOK /\ build \in [Builds -> BuildRecord] /\ build[b] \in BuildRecord
    BY DEF TypeInv, TypeOK
  <1>2. CASE build' = build
    BY <1>2
  <1>3. ASSUME NEW d \in Docs, NEW again \in BOOLEAN, Process(d, again)
        PROVE  build'[b].rows \subseteq build[b].rows
    BY <1>1, <1>3 DEF Process, WithoutRows, BuildRecord
  <1>4. ASSUME NEW c \in Builds, BuildStep(c) PROVE build'[b].rows \subseteq build[b].rows
    <2>1. CASE StartBuild(c)
      BY <1>1, <2>1 DEF StartBuild
    <2>2. CASE SealBuild(c)
      BY <1>1, <2>2 DEF SealBuild, BuildRecord
    <2>3. CASE AbortBuild(c)
      BY <1>1, <2>3 DEF AbortBuild, Unbuilt
    <2> QED BY <1>4, <2>1, <2>2, <2>3 DEF BuildStep, Attest
  <1>5. ASSUME NEW r \in Requests, Move(r) PROVE build'[b].rows \subseteq build[b].rows
    <2>1. build'[b] = IF b = request[r].build THEN [build[b] EXCEPT !.state = "active"]
                      ELSE IF b = pointer.active THEN [build[b] EXCEPT !.state = "retained"]
                      ELSE build[b]
      BY <1>5 DEF Move, Swapped
    <2> QED BY <1>1, <2>1 DEF BuildRecord
  <1>6. ASSUME NEW d \in Docs, RemovalStep(d) PROVE build'[b].rows \subseteq build[b].rows
    <2>1. ASSUME NEW c \in Builds, StartRemovalBuild(d, c)
          PROVE  build'[b].rows \subseteq build[b].rows
      BY <1>1, <2>1 DEF StartRemovalBuild
    <2>2. CASE SealRemovalBuild(d)
      BY <1>1, <2>2 DEF SealRemovalBuild, BuildRecord
    <2>3. CASE CommitPurge(d)
      <3>1. build'[b] = [build[b] EXCEPT !.rows = @ \ {d},
                                         !.state = IF b \in ToSupersede(d) THEN "superseded"
                                                   ELSE @]
        BY <2>3 DEF CommitPurge
      <3> QED BY <1>1, <3>1 DEF BuildRecord
    <2>4. CASE AbortRemoval(d)
      <3>1. \/ build' = build
            \/ build' = [build EXCEPT ![removal[d].build] = Unbuilt]
        BY <2>4 DEF AbortRemoval
      <3> QED BY <1>1, <3>1 DEF Unbuilt
    <2>5. CASE build' = build
      BY <2>5
    <2> QED BY <1>6, <2>1, <2>2, <2>3, <2>4, <2>5
      DEF RemovalStep, RequestRemoval, ResumeRemoval, CheckActive, FinishDelete,
          LockPointerForPurge, EraseStorage, FailRemoval
  <1> QED BY <1>2, <1>3, <1>4, <1>5, <1>6
    DEF Next, DocStep, ReprocessRead, ReprocessWrite, ProcessFails, RequestStep, Choose, Gate,
        LockPointer, StartRollback, GateRollback, Prepare, AbortRequest, ActivateSource, vars

LEMMA SupersededStep ==
    ASSUME TypeInv, OwnInv, SupersededInv, [Next]_vars
    PROVE  SupersededInv'
  <1>1. TypeOK /\ build \in [Builds -> BuildRecord]
    BY DEF TypeInv, TypeOK
  <1>2. ASSUME NEW b \in Builds, build'[b].state = "superseded"
        PROVE  \E d \in Docs : build'[b].manifest[d] > 0 /\ d \notin build'[b].rows
    <2>1. BuildChange(b)
      BY BuildEffect
    <2>2. CASE SameBuild(b)
      <3>1. PICK d \in Docs : build[b].manifest[d] > 0 /\ d \notin build[b].rows
        BY <1>2, <2>2 DEF SameBuild, SupersededInv
      <3>2. build'[b].rows \subseteq build[b].rows
        BY <1>2, <2>2, RowsShrink DEF SameBuild
      <3> QED BY <2>2, <3>1, <3>2 DEF SameBuild
    <2>3. ASSUME NEW d \in Docs, CommitPurge(d), b \in ToSupersede(d)
          PROVE  build'[b].manifest[d] > 0 /\ d \notin build'[b].rows
      <3>1. build'[b] = [build[b] EXCEPT !.rows = @ \ {d}, !.state = "superseded"]
        BY <2>3 DEF CommitPurge
      <3>2. build[b] \in BuildRecord /\ build[b].manifest[d] > 0
        BY <1>1, <2>3 DEF ToSupersede, Members
      <3> QED BY <3>1, <3>2 DEF BuildRecord
    <2> QED BY <1>2, <2>1, <2>2, <2>3 DEF BuildChange, Unbuilt
  <1>3. ASSUME NEW r \in Requests, Gated(r)' PROVE build'[request'[r].build].state # "superseded"
    \* The gate counts the rows of the build ...
    <2>1. CASE RequestStep(r)
      <3>1. ~Move(r) /\ ~AbortRequest(r)
        <4>1. NoRequest.pc = "idle"
          BY DEF NoRequest
        <4>2. Move(r) \/ AbortRequest(r) => request'[r] = NoRequest
          BY <1>1 DEF Move, AbortRequest, TypeOK
        <4> QED BY <1>3, <4>1, <4>2 DEF Gated
      <3>2. request'[r].pc # "chosen" /\ request'[r].pc # "rollback" /\ request'[r].pc # "idle"
        BY <1>3 DEF Gated
      <3>3. Gate(r) \/ GateRollback(r) \/ Gated(r)
        <4>1. ASSUME NEW b \in Builds PROVE ~Choose(r, b)
          BY <1>1, <3>2 DEF Choose, NoRequest, TypeOK
        <4>2. ~StartRollback(r)
          BY <1>1, <3>2 DEF StartRollback, NoRequest, TypeOK
        <4> QED BY <2>1, <3>1, <4>1, <4>2 DEF RequestStep, LockPointer, Prepare, Gated
      <3>4. request[r].pc # "idle" /\ request'[r].build = request[r].build
        BY <2>1, <3>2, RequestTarget
      <3>5. build' = build
        BY <2>1, <3>1
        DEF RequestStep, Choose, Gate, LockPointer, StartRollback, GateRollback, Prepare
      <3>6. request[r].build \in Builds
        BY <1>1, <3>4, RequestFields
      <3>7. CASE Gate(r) \/ GateRollback(r)
        <4>1. Complete(request[r].build)
          BY <3>7 DEF Gate, Accepted, GateRollback, AcceptedBefore
        <4> QED BY <3>4, <3>5, <3>6, <4>1 DEF Complete, Members, SupersededInv
      <3>8. CASE Gated(r)
        BY <3>4, <3>5, <3>8 DEF SupersededInv
      <3> QED BY <3>3, <3>7, <3>8
    \* ... and keeps the Project row from the commit of a purge.
    <2>2. CASE request'[r] = request[r]
      <3>1. Gated(r) /\ request[r].build \in Builds
        BY <1>1, <1>3, <2>2, RequestFields DEF Gated
      <3>2. build[request[r].build].state # "superseded"
        BY <3>1 DEF SupersededInv
      <3>3. \A d \in Docs : ~CommitPurge(d)
        BY <3>1 DEF CommitPurge, ProjectFree, Gated
      <3>4. BuildChange(request[r].build)
        BY <3>1, BuildEffect
      <3> QED BY <2>2, <3>2, <3>3, <3>4 DEF BuildChange, SameBuild, Unbuilt
    <2> QED BY <1>1, <2>1, <2>2, RequestOfStep
  <1> QED BY <1>2, <1>3 DEF SupersededInv

-----------------------------------------------------------------------------
(* The theorems.                                                            *)

LEMMA InitInv == Init => IInv
  <1> SUFFICES ASSUME Init PROVE IInv
    OBVIOUS
  <1>1. TypeInv
    BY InitType
  <1>2. \A b \in Builds : build[b].state = "absent" /\ build[b].manifest = [d \in Docs |-> 0]
    BY DEF Init, Unbuilt
  <1>3. PointerAgrees
    BY <1>2, IndexAssumption DEF Init, PointerAgrees
  <1>4. \A r \in Requests : request[r].pc = "idle"
    BY DEF Init, NoRequest
  <1>5. \A d \in Docs : removal[d].pc = "none" /\ removal[d].build = NoBuild
    BY DEF Init
  <1>6. LockInv /\ TargetInv /\ GateInv
    BY <1>4, <1>5 DEF LockInv, TargetInv, GateInv, Backed, Gated, Pointing, Purging
  <1>7. OwnInv /\ CheckedInv
    BY <1>5 DEF OwnInv, OwnBuild, CheckedInv, Checked
  <1>8. ReceiptInv
    BY DEF Init, ReceiptInv
  <1>9. PurgedLeaveNoCandidate
    BY <1>2 DEF PurgedLeaveNoCandidate
  <1>10. SupersededInv
    BY <1>2, <1>4 DEF SupersededInv, Gated
  <1> QED BY <1>1, <1>3, <1>6, <1>7, <1>8, <1>9, <1>10 DEF IInv

LEMMA NextInv == IInv /\ [Next]_vars => IInv'
  <1> SUFFICES ASSUME IInv, [Next]_vars PROVE IInv'
    OBVIOUS
  <1>1. /\ TypeInv /\ PointerAgrees /\ LockInv /\ OwnInv /\ TargetInv
        /\ ReceiptInv /\ GateInv /\ CheckedInv /\ PurgedLeaveNoCandidate
        /\ SupersededInv
    BY DEF IInv
  <1>2. TypeInv' /\ LockInv' /\ OwnInv'
    BY <1>1, NextType, LockStep, OwnStep
  <1>3. PointerAgrees' /\ TargetInv' /\ ReceiptInv'
    BY <1>1, PointerStep, TargetStep, ReceiptStep
  <1>4. GateInv' /\ CheckedInv' /\ PurgedLeaveNoCandidate'
    BY <1>1, GateStep, CheckedStep, GoneStep
  <1>5. SupersededInv'
    BY <1>1, SupersededStep
  <1> QED BY <1>2, <1>3, <1>4, <1>5 DEF IInv

LEMMA Invariant == Spec => []IInv
  BY InitInv, NextInv, PTL DEF Spec

\* Whatever activations, rollbacks, removals and reprocessing overlap, the
\* active build is the only one in state active and the rollback target is a
\* retained build (IndexLifecycleService.activate, rollback; the purge handler).
THEOREM PointerAgreement == Spec => []PointerAgrees
  <1>1. IInv => PointerAgrees
    BY DEF IInv
  <1> QED BY <1>1, Invariant, PTL

\* A purge leaves no validated build behind that still lists its document,
\* however long the build was under way when the purge committed.
THEOREM PurgeExcludesCandidates == Spec => []PurgedLeaveNoCandidate
  <1>1. IInv => PurgedLeaveNoCandidate
    BY DEF IInv
  <1> QED BY <1>1, Invariant, PTL

\* A move of the pointer is backed by a receipt that is still good when it
\* commits, although it was looked up several lock waits before.
THEOREM MovesAreAccepted == Spec => AcceptedMoves
  <1> DEFINE Bases(b) ==
        {base \in Builds \cup {NoBuild} : <<b, base, generation'>> \in receipts}
      Backing == \/ pointer.active \in Bases(pointer'.active)
                 \/ /\ pointer'.active = pointer.previous
                    /\ Bases(pointer'.active) # {}
  <1>1. ASSUME IInv, [Next]_vars, pointer'.active # pointer.active PROVE Backing
    <2>1. TypeInv /\ GateInv /\ pointer.active \in Builds \cup {NoBuild}
      BY <1>1, PointerFields DEF IInv, TypeInv
    <2>2. PICK r \in Requests : Move(r)
      BY <1>1, <2>1, PointerEffect, PurgeEffect
    <2>3. /\ pointer'.active = request[r].build /\ generation' = generation
          /\ request[r].pc = "prepared"
      BY <2>1, <2>2, MoveEffect
    <2>4. Compared(r) \/ Historical(r)
      BY <2>1, <2>3 DEF GateInv, Backed
    <2> QED BY <2>1, <2>3, <2>4 DEF Compared, Historical
  <1>2. IInv /\ [Next]_vars => [pointer'.active # pointer.active => Backing]_vars
    BY <1>1
  <1> QED BY <1>2, Invariant, PTL DEF Spec, AcceptedMoves

\* A removal job has lost its leave to destroy anything as soon as the active
\* build is not its own: at each of its destructive writes the active build
\* excludes the document, whatever was activated while it waited.
THEOREM RemovalsAreExcluded == Spec => RemovedOnlyWhenExcluded
  <1> DEFINE Lost(d) == \/ doc'[d].stored # doc[d].stored
                        \/ doc'[d].deleted # doc[d].deleted
                        \/ doc'[d].status = "gone" /\ doc[d].status # "gone"
             Step == \A d \in Docs :
                       Lost(d) => Excluded(d) /\ pointer.active = removal[d].build
  <1>1. ASSUME IInv, [Next]_vars, NEW d \in Docs, Lost(d)
        PROVE  Excluded(d) /\ pointer.active = removal[d].build
    <2>1. /\ TypeInv /\ TypeOK /\ PointerAgrees /\ OwnInv /\ CheckedInv
          /\ NoBuild \notin Builds
      BY <1>1, IndexAssumption DEF IInv, TypeInv
    <2>2. EraseStorage(d) \/ FinishDelete(d) \/ CommitPurge(d)
      BY <1>1, <2>1, DocLoss
    <2>3. Checked(d)
      BY <2>2 DEF EraseStorage, FinishDelete, CommitPurge, Checked
    <2>4. removal[d].build \in Builds /\ build[removal[d].build].state = "active"
      BY <2>1, <2>3, RemovalFields DEF CheckedInv, Checked
    <2>5. pointer.active = removal[d].build /\ pointer.active # NoBuild
      BY <2>1, <2>4, ActiveIsBuild
    <2>6. build[pointer.active].manifest[d] = 0
      BY <2>1, <2>4, <2>5 DEF OwnInv, OwnBuild
    <2> QED BY <2>5, <2>6 DEF Excluded, Members
  <1>2. IInv /\ [Next]_vars => [Step]_vars
    BY <1>1
  <1> QED BY <1>2, Invariant, PTL DEF Spec, RemovedOnlyWhenExcluded
\* A superseded build stays superseded: an activation that chose it before the
\* purge is refused at its gate, and one that is past the gate keeps the purge
\* from committing until it has ended.
THEOREM SupersededStaySuperseded == Spec => SupersededStaysOut
  <1> DEFINE Stays ==
        \A b \in Builds : build[b].state = "superseded" => build'[b].state = "superseded"
  <1>1. ASSUME IInv, [Next]_vars, NEW b \in Builds, build[b].state = "superseded"
        PROVE  build'[b].state = "superseded"
    <2>1. TypeInv /\ OwnInv /\ PointerAgrees /\ SupersededInv
      BY <1>1 DEF IInv
    <2>2. BuildChange(b)
      BY <1>1, <2>1, BuildEffect
    <2>3. ASSUME NEW r \in Requests, Move(r) PROVE b # request[r].build /\ b # pointer.active
      <3>1. Gated(r)
        BY <2>1, <2>3, MoveEffect
      <3> QED BY <1>1, <2>1, <3>1 DEF SupersededInv, PointerAgrees
    <2> QED BY <1>1, <2>2, <2>3 DEF BuildChange, SameBuild
  <1>2. IInv /\ [Next]_vars => [Stays]_vars
    BY <1>1
  <1> QED BY <1>2, Invariant, PTL DEF Spec, SupersededStaysOut

=============================================================================
