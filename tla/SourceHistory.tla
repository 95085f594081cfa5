---------------------------- MODULE SourceHistory ----------------------------
(***************************************************************************)
(* The history of source metadata: immutable revisions of documents in     *)
(* groups, with links to other revisions, and the append-only activations  *)
(* that select one revision of a document at a generation of the Project.  *)
(* Every writer holds the Project's row; removals of documents do not.     *)
(*                                                                         *)
(* Titles, dates and reviews are left out (SourceReview has the reviews);  *)
(* a document keeps its content, so equal content hashes hold always.  A   *)
(* group has the number of the revision that opened it.                    *)
(***************************************************************************)
EXTENDS Integers, FiniteSets

CONSTANTS
    Sources,         \* documents
    Editors,         \* requests that write metadata
    MaxRevisions,    \* BOUND: revisions ever written
    MaxGeneration,   \* BOUND: activations
    MaxLinks,        \* BOUND: links of one revision
    MaxRemoved       \* BOUND: documents that are deleted or purged

ASSUME HistoryAssumption == MaxRevisions \in Nat /\ MaxGeneration \in Nat

VARIABLES
    source,      \* document rows: absent, live, deleted, purged
    revisions,   \* committed revisions
    minted,      \* revisions written so far
    activation,  \* committed activation events
    sourceGen,   \* Project.source_metadata_generation
    edit,        \* what each request has staged
    thinned      \* history: groups that lost a document and were not checked since

historyVars == <<source, revisions, minted, activation, sourceGen, edit, thinned>>

-----------------------------------------------------------------------------
Ids == 1 .. MaxRevisions
Link == [kind : {"modifies", "replaces"}, to : Ids]
Revision == [doc : Sources, group : Ids, number : Ids, links : SUBSET Link]
Activation == [doc : Sources, rev : Ids, at : 1 .. MaxGeneration]
\* written: the new revision, if any; clears: what was checked is what will be in
\* force: its document is not deleted, and nothing was removed since the check.
Edit == [pc : {"idle"}] \cup
    [pc : {"staged"}, rev : Ids, written : SUBSET Revision, activates : BOOLEAN,
     at : 1 .. MaxGeneration + 1, clears : BOOLEAN]

HistoryInit ==
    /\ source = [d \in Sources |-> "absent"]
    /\ revisions = [r \in {} |-> 0]
    /\ minted = 0
    /\ activation = {}
    /\ sourceGen = 0
    /\ edit = [e \in Editors |-> [pc |-> "idle"]]
    /\ thinned = {}

-----------------------------------------------------------------------------
(* What is selected, and what the selected revisions say of each other.     *)

\* state_at: the last activation of each document up to a generation.
UpTo(g) == {a \in activation : a.at <= g}
Selected(g) == {a \in UpTo(g) : \A b \in UpTo(g) : b.doc = a.doc => b.at <= a.at}
Current(d) == {a.rev : a \in {s \in Selected(sourceGen) : s.doc = d}}

Linked(revs, r, kind) ==
    {revs[l.to] : l \in {x \in revs[r].links : x.kind = kind /\ x.to \in DOMAIN revs}}

\* Documents that a selected revision of another document of their group replaces.
ReplacedBy(revs, chosen) ==
    {revs[r].doc : r \in {c \in chosen : \E s \in chosen :
        /\ revs[s].doc # revs[c].doc
        /\ \E t \in Linked(revs, s, "replaces") :
             t.doc = revs[c].doc /\ t.group = revs[c].group}}

\* One revision speaks for a group: the highest number among those left.
Speaking(revs, chosen) ==
    LET left == {r \in chosen : revs[r].doc \notin ReplacedBy(revs, chosen)}
    IN  {r \in left : \A s \in left :
           revs[s].group = revs[r].group => revs[s].number <= revs[r].number}

Modifies(revs, chosen) ==
    UNION {{<<revs[r].group, t.group>> : t \in Linked(revs, r, "modifies")} :
           r \in Speaking(revs, chosen)}

\* _has_modification_cycle: a walk from the group's successors comes back to it.
OnCycle(edges, g) ==
    \A reached \in SUBSET Ids :
        (\A e \in edges : e[1] \in reached \cup {g} => e[2] \in reached)
            => g \in reached

\* The selected revisions of documents that are not deleted.
LiveChoice == {a.rev : a \in {s \in Selected(sourceGen) : source[s.doc] = "live"}}

\* _validate_modification_graph: with r selected for its document.
\* MUTANT: the graph before the selection is checked.
PassesBefore(revs, r) == ~OnCycle(Modifies(revs, LiveChoice), revs[r].group)
Passes(revs, r) ==
    LET chosen == {c \in LiveChoice : revs[c].doc # revs[r].doc} \cup {r}
    IN  ~OnCycle(Modifies(revs, chosen), revs[r].group)

-----------------------------------------------------------------------------
(* Writers: the row lock on the Project is held from the first read.        *)

\* MUTANT: lock_project without FOR UPDATE.
Unlocked(e) == edit[e].pc = "idle"
Locked(e) == \A x \in Editors : edit[x].pc = "idle"

\* max + 1 over the rows that are left, or 1.
Numbers(g) ==
    {revisions[r].number : r \in {x \in DOMAIN revisions : revisions[x].group = g}}
IsNextNumber(g, n) ==
    /\ \A m \in Numbers(g) : m < n
    /\ n = 1 \/ n - 1 \in Numbers(g)

ValidLinks(d, g, links) ==
    /\ \A l \in links :
         LET target == revisions[l.to] IN
         /\ source[target.doc] = "live"
         /\ IF l.kind = "modifies"
              THEN target.doc # d /\ target.group # g
              ELSE target.group = g
    /\ \A k, l \in links :
         \/ k = l
         \/ /\ revisions[k.to].group # revisions[l.to].group
            /\ ~(k.kind = "replaces" /\ l.kind = "replaces")

LinkChoices ==
    {links \in SUBSET [kind : {"modifies", "replaces"}, to : DOMAIN revisions] :
        Cardinality(links) <= MaxLinks}

\* create_revision, and initialize_document for the first revision of an upload:
\* a group that exists or a new one; the graph is checked when it activates.
StageRevision(e, d, g, n, links, activates) ==
    /\ IsNextNumber(g, n)
    /\ source[d] \in {"absent", "live"}
    /\ source[d] = "absent" => activates
    /\ ValidLinks(d, g, links)
    /\ LET r == minted + 1
           new == [doc |-> d, group |-> g, number |-> n, links |-> links]
           revs == [x \in DOMAIN revisions \cup {r} |->
                      IF x = r THEN new ELSE revisions[x]]
       IN  /\ activates => Passes(revs, r) /\ sourceGen < MaxGeneration
           /\ edit' = [edit EXCEPT ![e] =
                [pc |-> "staged", rev |-> r, written |-> {new}, activates |-> activates,
                 at |-> sourceGen + 1, clears |-> TRUE]]
    /\ minted' = minted + 1
    /\ UNCHANGED <<source, revisions, activation, sourceGen, thinned>>

\* activate: an older revision may be selected again, of a deleted document too.
StageActivation(e, r) ==
    /\ r \notin Current(revisions[r].doc)
    /\ Passes(revisions, r)
    /\ sourceGen < MaxGeneration
    /\ edit' = [edit EXCEPT ![e] =
         [pc |-> "staged", rev |-> r, written |-> {}, activates |-> TRUE,
          at |-> sourceGen + 1, clears |-> source[revisions[r].doc] = "live"]]
    /\ UNCHANGED <<source, revisions, minted, activation, sourceGen, thinned>>

StageEdit(e) ==
    /\ Locked(e)
    /\ \/ /\ minted < MaxRevisions
          /\ \E d \in Sources, activates \in BOOLEAN, links \in LinkChoices,
                g \in {revisions[r].group : r \in DOMAIN revisions} \cup {minted + 1} :
               \E n \in 1 .. minted + 1 : StageRevision(e, d, g, n, links, activates)
       \/ \E r \in DOMAIN revisions : StageActivation(e, r)

\* Groups that lose their document d, whose selection becomes one of group g.
Left(d, g) == {revisions[r].group : r \in Current(d)} \ {g}

CommitEdit(e) ==
    /\ edit[e].pc = "staged"
    /\ LET r == edit[e].rev
           revs == [x \in DOMAIN revisions \cup {r} |->
                      IF x \in DOMAIN revisions THEN revisions[x]
                      ELSE CHOOSE w \in edit[e].written : TRUE]
           d == revs[r].doc
           g == revs[r].group
       IN  /\ revisions' = revs
           /\ source' = [source EXCEPT ![d] = IF @ = "absent" THEN "live" ELSE @]
           /\ IF edit[e].activates
                THEN /\ activation' = activation \cup
                          {[doc |-> d, rev |-> r, at |-> edit[e].at]}
                     /\ sourceGen' = edit[e].at
                     /\ thinned' = Left(d, g) \cup
                          (IF edit[e].clears THEN thinned \ {g} ELSE thinned)
                ELSE UNCHANGED <<activation, sourceGen, thinned>>
    /\ edit' = [edit EXCEPT ![e] = [pc |-> "idle"]]
    /\ UNCHANGED minted

\* A number that nobody saw is given again.
RollBackEdit(e) ==
    /\ edit[e].pc = "staged"
    /\ minted' = IF edit[e].rev = minted /\ edit[e].written # {} THEN minted - 1
                                                                ELSE minted
    /\ edit' = [edit EXCEPT ![e] = [pc |-> "idle"]]
    /\ UNCHANGED <<source, revisions, activation, sourceGen, thinned>>

-----------------------------------------------------------------------------
(* Removals.  Neither handler takes the Project's row.                      *)

Overtaken ==
    [e \in Editors |-> IF edit[e].pc = "staged" THEN [edit[e] EXCEPT !.clears = FALSE]
                                                ELSE edit[e]]

Removed == {d \in Sources : source[d] \in {"deleted", "purged"}}

DeleteDocument(d) ==
    /\ source[d] = "live"
    /\ Cardinality(Removed) < MaxRemoved
    /\ source' = [source EXCEPT ![d] = "deleted"]
    /\ thinned' = thinned \cup Left(d, 0)
    /\ edit' = Overtaken
    /\ UNCHANGED <<revisions, minted, activation, sourceGen>>

\* The rows that a staged edit refers to are locked by its foreign keys.
Refers(e, d) ==
    /\ edit[e].pc = "staged"
    /\ \/ edit[e].rev \in DOMAIN revisions /\ revisions[edit[e].rev].doc = d
       \/ \E w \in edit[e].written :
            \/ w.doc = d
            \/ \E l \in w.links : revisions[l.to].doc = d
            \/ \E r \in DOMAIN revisions :
                 revisions[r].doc = d /\ revisions[r].group = w.group

\* purge_document_artifacts: edges in both directions, activations, revisions.
PurgeDocument(d) ==
    /\ source[d] \in {"live", "deleted"}
    /\ Cardinality(Removed \cup {d}) <= MaxRemoved
    /\ \A e \in Editors : ~Refers(e, d)
    /\ LET kept == {r \in DOMAIN revisions : revisions[r].doc # d} IN
         revisions' = [r \in kept |->
            [revisions[r] EXCEPT !.links = {l \in @ : l.to \in kept}]]
    /\ activation' = {a \in activation : a.doc # d}
    /\ source' = [source EXCEPT ![d] = "purged"]
    /\ thinned' = thinned \cup (IF source[d] = "live" THEN Left(d, 0) ELSE {})
    /\ edit' = Overtaken
    /\ UNCHANGED <<minted, sourceGen>>

-----------------------------------------------------------------------------
HistoryNext ==
    \/ \E e \in Editors : StageEdit(e) \/ CommitEdit(e) \/ RollBackEdit(e)
    \/ \E d \in Sources : DeleteDocument(d) \/ PurgeDocument(d)

HistorySpec == HistoryInit /\ [][HistoryNext]_historyVars

-----------------------------------------------------------------------------
(* Properties.                                                              *)

\* Types.
HistoryTypeOK ==
    /\ source \in [Sources -> {"absent", "live", "deleted", "purged"}]
    /\ DOMAIN revisions \subseteq Ids
    /\ \A r \in DOMAIN revisions : revisions[r] \in Revision
    /\ minted \in 0 .. MaxRevisions
    /\ activation \subseteq Activation
    /\ sourceGen \in 0 .. MaxGeneration
    /\ edit \in [Editors -> Edit]
    /\ thinned \subseteq Ids

\* No source modifies itself through others: every cycle of the graph in force
\* runs through a group that lost a document, by removal or by a change of group,
\* and of which no revision of a live document was activated since.
ModificationsAcyclic ==
    LET edges == Modifies(revisions, LiveChoice)
        checked == {e \in edges : e[1] \notin thinned}
    IN  \A g \in Ids \ thinned : ~OnCycle(checked, g)

\* What a reader captured at a generation stays what it was: later activations
\* leave it alone, only a purge takes rows away.
Pinned(g) == {<<a.doc, a.rev, revisions[a.rev].group, revisions[a.rev].number>> :
              a \in Selected(g)}
CaptureStable ==
    [][\A g \in 0 .. sourceGen :
          Pinned(g)' = {p \in Pinned(g) : source'[p[1]] # "purged"}]_historyVars
=============================================================================
