------------------------------ MODULE GoldenSet ------------------------------
(***************************************************************************)
(* The golden set of one domain: its versions, the review labels of its    *)
(* items, the questions an onboarding session proposed for it and the      *)
(* unanswered questions mined into it (gates/datasets.py, gates/labels.py, *)
(* gates/annotator.py, corpus/gaps.py, api/routes/eval.py, and curate_query*)
(* and seed_eval_set of onboarding).                                       *)
(*                                                                         *)
(* A version is known by its content, never changes, and is deleted by     *)
(* retention once it is not the latest.  Every editor loads the latest     *)
(* version, works on it, and saves what it made of it in a later           *)
(* transaction; the labels, which survive the versions, and the marks on   *)
(* the gaps are written in transactions of their own after that.  Editors  *)
(* overlap, and any of them may fail or be cut off in between.             *)
(***************************************************************************)
EXTENDS Naturals, Sequences, FiniteSets, SequencesExt

CONSTANTS Questions,    \* ids of the proposed questions; they cite evidence
          Gaps,         \* ids of the items mined from gaps; they cite none
          Editors,      \* requests that may be in progress at once
          MaxVersions,  \* bound: versions of the set kept at once
          MaxRequests   \* bound: requests of several transactions

ASSUME GoldenSetAssumption == Questions \cap Gaps = {} /\ MaxVersions \in Nat /\ MaxRequests \in Nat

SetItems == Questions \cup Gaps

VARIABLES versions,   \* table eval_dataset, by created_at
          source,     \* table eval_item_label: answer_source
          unusable,   \* ... and unusable_reason
          gap,        \* table unanswered_question
          approved,   \* candidate queries of the session that are approved
          editor,     \* each request between its transactions
          requests,   \* requests begun
          held,       \* history: the items a version has ever had
          edited      \* history: whether a review's edit was saved, and was cut
                      \* off before its label was written

goldenSetVars == <<versions, source, unusable, gap, approved, editor, requests, held, edited>>

\* Who wrote the expected answer, or that the item is not in the version.
Contents == [SetItems -> {"absent", "blank", "llm", "sme"}]

Empty == [i \in SetItems |-> "absent"]

Ops == {"none", "draft", "drafted", "review", "reviewed", "mine", "mined", "curate", "seed"}

\* What a request holds: the version it loaded, the items it is about and, in a
\* review, the answer it was given.
Edit == [op : Ops, base : Contents, items : SUBSET SetItems, answer : {"blank", "sme"}]

NoEdit == [op |-> "none", base |-> Empty, items |-> {}, answer |-> "blank"]

(* Versions are contents, labels and gaps keep to the CHECKs of their tables. *)
GoldenSetTypeOK ==
    /\ versions \in Seq(Contents) /\ Len(versions) <= MaxVersions
    /\ source \in [SetItems -> {"none", "llm_drafted", "sme_edited"}]
    /\ unusable \subseteq Questions
    /\ gap \in [Gaps -> {"none", "open", "seeded", "purged"}]
    /\ approved \subseteq Questions
    /\ editor \in [Editors -> Edit]
    /\ requests \in 0..MaxRequests
    /\ held \subseteq SetItems
    /\ edited \in [SetItems -> {"no", "saved", "cut"}]

GoldenSetInit ==
    /\ versions = <<>>
    /\ source = [i \in SetItems |-> "none"]
    /\ unusable = {}
    /\ gap = [g \in Gaps |-> "none"]
    /\ approved = {}
    /\ editor = [e \in Editors |-> NoEdit]
    /\ requests = 0
    /\ held = {}
    /\ edited = [i \in SetItems |-> "no"]

-----------------------------------------------------------------------------
(* datasets.load and datasets.save.                                        *)
\* What an editor loads; no version is an empty list of items.
Latest == IF versions = <<>> THEN Empty ELSE Last(versions)

\* The place of a new row by created_at, when its transaction began: a save is
\* overtaken by saves that began later and committed first, but comes after the
\* version its editor had loaded.
Place(base, k) == \A v \in k..Len(versions) : versions[v] # base

\* A version is stored once: saving a content again keeps the row and its
\* created_at, and does not make it the latest.  An empty set is refused.
Save(content, base) ==
    /\ content # Empty
    /\ \/ content \in Range(versions) /\ versions' = versions
       \/ /\ content \notin Range(versions)
          /\ Len(versions) < MaxVersions
          /\ \E k \in 1..(Len(versions) + 1) :
                Place(base, k) /\ versions' = InsertAt(versions, k, content)
    /\ held' = held \cup {i \in SetItems : content[i] # "absent"}

\* Retention: an old version that no evaluation used, never the latest.
PurgeVersion(v) ==
    /\ v < Len(versions)
    /\ versions' = RemoveAt(versions, v)
    /\ UNCHANGED <<source, unusable, gap, approved, editor, requests, held, edited>>

\* After its save a request needs only the items it was about.
Becomes(e, op) ==
    editor' = [editor EXCEPT ![e] = [NoEdit EXCEPT !.op = op, !.items = editor[e].items]]

Done(e) == editor' = [editor EXCEPT ![e] = NoEdit]

\* A request begins, within the bound, and changes no table.
Starts(e, edit) ==
    /\ editor[e] = NoEdit /\ requests < MaxRequests
    /\ requests' = requests + 1
    /\ editor' = [editor EXCEPT ![e] = edit]
    /\ UNCHANGED <<versions, source, unusable, gap, approved, held, edited>>

Begins(e, op, items, answer) ==
    Starts(e, [op |-> op, base |-> Latest, items |-> items, answer |-> answer])

\* An error or a crash: what was committed stays.
Fails(e) ==
    /\ editor[e] # NoEdit
    /\ edited' = [i \in SetItems |->
                    IF editor[e].op = "reviewed" /\ i \in editor[e].items THEN "cut"
                    ELSE edited[i]]
    /\ Done(e)
    /\ UNCHANGED <<versions, source, unusable, gap, approved, requests, held>>

\* put_dataset: the client's items, with the answers it has for some of them.
PutDataset(asked, answered) ==
    /\ Save([i \in SetItems |-> IF i \in answered THEN "sme"
                                ELSE IF i \in asked THEN "blank" ELSE "absent"], Empty)
    /\ versions' # versions
    /\ UNCHANGED <<source, unusable, gap, approved, editor, requests, edited>>

-----------------------------------------------------------------------------
(* draft_answers.                                                          *)
\* annotator.draft asks for the blanks that have evidence, that no person wrote
\* and that are usable.
Pending(content) ==
    {i \in Questions : /\ content[i] = "blank"
                       /\ source[i] # "sme_edited" /\ i \notin unusable}

\* The reply is parsed for whatever items it names.
DraftBegins(e, named) ==
    /\ Pending(Latest) # {} /\ named # {}
    /\ Begins(e, "draft", named, "blank")

\* annotator.apply fills blanks only.
Applied(content, drafted) ==
    [i \in SetItems |-> IF content[i] = "blank" /\ i \in drafted THEN "llm" ELSE content[i]]

DraftSaves(e) ==
    /\ editor[e].op = "draft"
    /\ Save(Applied(editor[e].base, editor[e].items), editor[e].base)
    /\ Becomes(e, "drafted")
    /\ UNCHANGED <<source, unusable, gap, approved, requests, edited>>

DowngradedTo(i) == "llm_drafted"

\* record_drafted never downgrades what a person wrote.
DraftedLabel(i) == IF source[i] = "sme_edited" THEN source[i] ELSE "llm_drafted"

DraftRecords(e) ==
    /\ editor[e].op = "drafted"
    /\ source' = [i \in SetItems |-> IF i \in editor[e].items THEN DraftedLabel(i) ELSE source[i]]
    /\ Done(e)
    /\ UNCHANGED <<versions, unusable, gap, approved, requests, held, edited>>

-----------------------------------------------------------------------------
(* review_item.                                                            *)
InLatest(i) == Latest[i] # "absent"

\* A verdict that leaves the answer alone: set_label.  Only that of an item with
\* evidence is ever read.
SetLabel(i, usable) ==
    /\ InLatest(i)
    /\ unusable' = IF usable THEN unusable \ {i} ELSE unusable \cup {i}
    /\ UNCHANGED <<versions, source, gap, approved, editor, requests, held, edited>>

\* An edit saves a version, then writes the label; an empty answer is an edit too.
ReviewBegins(e, i, answer) ==
    /\ InLatest(i)
    /\ Begins(e, "review", {i}, answer)

ReviewSaves(e) ==
    /\ editor[e].op = "review"
    /\ Save([i \in SetItems |-> IF i \in editor[e].items THEN editor[e].answer
                                ELSE editor[e].base[i]], editor[e].base)
    /\ edited' = [i \in SetItems |-> IF i \in editor[e].items THEN "saved" ELSE edited[i]]
    /\ Becomes(e, "reviewed")
    /\ UNCHANGED <<source, unusable, gap, approved, requests>>

ReviewLabels(e) ==
    /\ editor[e].op = "reviewed"
    /\ source' = [i \in SetItems |-> IF i \in editor[e].items THEN "sme_edited" ELSE source[i]]
    /\ Done(e)
    /\ UNCHANGED <<versions, unusable, gap, approved, requests, held, edited>>

-----------------------------------------------------------------------------
(* Gaps.                                                                   *)
\* gaps.record: an answer found no evidence.  A question asked again after its row
\* was purged is another gap.
AskUnanswered(g) ==
    /\ gap[g] = "none"
    /\ gap' = [gap EXCEPT ![g] = "open"]
    /\ UNCHANGED <<versions, source, unusable, approved, editor, requests, held, edited>>

\* gaps.purge: past their retention, and never one that became an item.
PurgeGap(g) ==
    /\ gap[g] = "open"
    /\ gap' = [gap EXCEPT ![g] = "purged"]
    /\ UNCHANGED <<versions, source, unusable, approved, editor, requests, held, edited>>

\* mine_gaps: chosen from the open backlog.
MineBegins(e, chosen) ==
    /\ chosen # {} /\ \A g \in chosen : gap[g] = "open"
    /\ Begins(e, "mine", chosen, "blank")

Added(e) == {g \in editor[e].items : editor[e].base[g] = "absent"}

\* Nothing new to add: the request ends, and marks no gap.
MineFindsThemThere(e) ==
    /\ editor[e].op = "mine" /\ Added(e) = {}
    /\ Done(e)
    /\ UNCHANGED <<versions, source, unusable, gap, approved, requests, held, edited>>

MineSaves(e) ==
    /\ editor[e].op = "mine" /\ Added(e) # {}
    /\ Save([i \in SetItems |-> IF i \in Added(e) THEN "blank" ELSE editor[e].base[i]],
            editor[e].base)
    /\ Becomes(e, "mined")
    /\ UNCHANGED <<source, unusable, gap, approved, requests, edited>>

MarkableUnsaved(e) == editor[e].op \in {"mine", "mined"}

Markable(e) == editor[e].op = "mined"

\* mark_seeded: those that are still there.
MineMarks(e) ==
    /\ Markable(e)
    /\ gap' = [g \in Gaps |-> IF g \in editor[e].items /\ gap[g] = "open" THEN "seeded"
                              ELSE gap[g]]
    /\ Done(e)
    /\ UNCHANGED <<versions, source, unusable, approved, requests, held, edited>>

-----------------------------------------------------------------------------
(* The questions of an onboarding session.                                 *)
\* A draft that is repeated, or outlived its lease, puts its proposals over those
\* under review; none is approved.
ProposeQueries ==
    /\ approved # {}
    /\ approved' = {}
    /\ UNCHANGED <<versions, source, unusable, gap, editor, requests, held, edited>>

\* curate_query reads the whole payload and writes the whole payload.
CurateBegins(e) ==
    Starts(e, [op |-> "curate", base |-> Empty, items |-> approved, answer |-> "blank"])

CurateWrites(e, i, keep) ==
    /\ editor[e].op = "curate"
    /\ approved' = IF keep THEN editor[e].items \cup {i} ELSE editor[e].items \ {i}
    /\ Done(e)
    /\ UNCHANGED <<versions, source, unusable, gap, requests, held, edited>>

\* seed_eval_set: the questions it read as approved, blank, are the whole new
\* version.
SeedBegins(e) ==
    /\ approved # {}
    /\ Starts(e, [op |-> "seed", base |-> Empty, items |-> approved, answer |-> "blank"])

SeedSaves(e) ==
    /\ editor[e].op = "seed"
    /\ Save([i \in SetItems |-> IF i \in editor[e].items THEN "blank" ELSE "absent"], Empty)
    /\ Done(e)
    /\ UNCHANGED <<source, unusable, gap, approved, requests, edited>>

-----------------------------------------------------------------------------
Edits(e) ==
    \/ Fails(e) \/ DraftSaves(e) \/ DraftRecords(e) \/ ReviewSaves(e) \/ ReviewLabels(e)
    \/ MineFindsThemThere(e) \/ MineSaves(e) \/ MineMarks(e) \/ CurateBegins(e)
    \/ SeedBegins(e) \/ SeedSaves(e)
    \/ \E named \in SUBSET SetItems : DraftBegins(e, named)
    \/ \E i \in SetItems, answer \in {"blank", "sme"} : ReviewBegins(e, i, answer)
    \/ \E chosen \in SUBSET Gaps : MineBegins(e, chosen)
    \/ \E i \in Questions, keep \in BOOLEAN : CurateWrites(e, i, keep)

GoldenSetNext ==
    \/ \E e \in Editors : Edits(e)
    \/ \E asked, answered \in SUBSET Questions : PutDataset(asked, answered)
    \/ \E i \in Questions, usable \in BOOLEAN : SetLabel(i, usable)
    \/ \E g \in Gaps : AskUnanswered(g) \/ PurgeGap(g)
    \/ \E v \in 1..Len(versions) : PurgeVersion(v)
    \/ ProposeQueries

GoldenSetSpec == GoldenSetInit /\ [][GoldenSetNext]_goldenSetVars

Symmetry == Permutations(Questions) \cup Permutations(Gaps) \cup Permutations(Editors)

-----------------------------------------------------------------------------
\* A review that has saved its edit and has still to write the label.
Labelling(i) == \E e \in Editors : editor[e].op = "reviewed" /\ i \in editor[e].items

(* The label sme_edited is the record of the reviews, across drafts, failures
   and new versions: it never claims an edit that no review saved; a saved edit
   has it, or is about to get it, or its review was cut off between its two
   transactions; and it is never taken back (review_item, set_label and
   record_drafted, which "never downgrades"). *)
ReviewsAreRemembered ==
    /\ [](\A i \in SetItems :
            /\ source[i] = "sme_edited" => edited[i] # "no"
            /\ edited[i] = "saved" => source[i] = "sme_edited" \/ Labelling(i))
    /\ [][\A i \in SetItems : source[i] = "sme_edited" => source'[i] = "sme_edited"]_goldenSetVars

(* A gap leaves the backlog for good only once its question was put in a version
   of the set, and its row then outlives the retention of unanswered questions
   (mine_gaps, mark_seeded and purge). *)
SeededGapsAreItems ==
    /\ [](\A g \in Gaps : gap[g] = "seeded" => g \in held)
    /\ [][\A g \in Gaps : gap[g] = "seeded" => gap'[g] = "seeded"]_goldenSetVars
=============================================================================
