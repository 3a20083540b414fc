------------------------------- MODULE Content -------------------------------
(***************************************************************************)
(* The generated content of one simulation as it is stored twice: as the   *)
(* document of a version (simulation_versions.sim_data_jsonb), which       *)
(* facilitators read and edit, and as one row per decision (decisions),    *)
(* which the participants' sessions read.  Runs append versions; the       *)
(* facilitators' pages load the latest document, change texts in it and    *)
(* send the whole document back (app/services/generation_service.py        *)
(* update_content, frontend/src/pages/detail/EntriesSection.tsx).          *)
(*                                                                         *)
(* A board is a decision's content: the order of its four options, each    *)
(* named by its posture, and a value standing for its texts.  A document   *)
(* maps keys to boards; a key is what DecisionRecord rows are found by.    *)
(***************************************************************************)
EXTENDS Integers, Sequences, FiniteSets

CONSTANTS Keys,         \* [type, owner, round, number]
          Texts,        \* wordings of a board
          Postures,     \* the four options of every decision
          Drafts,       \* the documents a run may generate
          Editors,      \* facilitators' pages
          MaxVersions,  \* bound on the versions generated
          MaxSaves      \* bound on the saves sent

Boards == [order : [1..4 -> Postures], text : Texts]

IsDocument(d) == DOMAIN d \subseteq Keys /\ d \in [DOMAIN d -> Boards]

ASSUME ContentAssumption ==
    /\ \A k \in Keys : /\ k = [type |-> k.type, owner |-> k.owner, round |-> k.round,
                              number |-> k.number]
                       /\ k.type \in {"participant", "team_member"}
                       /\ k.round \in Nat /\ k.number \in Nat
    /\ \A d \in Drafts : IsDocument(d) /\ IsFiniteSet(DOMAIN d)
    /\ MaxVersions \in Nat /\ MaxSaves \in Nat

VARIABLES content,   \* the document of each version
          records,   \* the decision rows of each version
          page,      \* the document on each facilitator's page
          save,      \* the save request of each page
          saves

contentVars == <<content, records, page, save, saves>>

NoPage == [loaded |-> FALSE]
NoSave == [sent |-> FALSE]

Latest == Len(content)

-----------------------------------------------------------------------------
ContentInit ==
    /\ content = <<>> /\ records = <<>>
    /\ page = [e \in Editors |-> NoPage]
    /\ save = [e \in Editors |-> NoSave]
    /\ saves = 0

\* A run commits a version: its document and a row for each of its decisions.
Generate(d) ==
    /\ Latest < MaxVersions
    /\ content' = Append(content, d)
    /\ records' = Append(records, d)
    /\ UNCHANGED <<page, save, saves>>

\* The page loads the latest document, and drops what it was editing.
LoadPage(e) ==
    /\ Latest > 0
    /\ save[e] = NoSave
    /\ page' = [page EXCEPT ![e] = [loaded |-> TRUE, data |-> content[Latest]]]
    /\ UNCHANGED <<content, records, save, saves>>

\* The document with the texts of one decision replaced.
Reworded(d, k, t) == [d EXCEPT ![k] = [order |-> d[k].order, text |-> t]]

\* The facilitator rewords one decision; nothing else can be edited there.
Reword(e, k, t) ==
    /\ page[e] # NoPage /\ save[e] = NoSave
    /\ k \in DOMAIN page[e].data
    /\ page' = [page EXCEPT ![e] = [loaded |-> TRUE, data |-> Reworded(page[e].data, k, t)]]
    /\ UNCHANGED <<content, records, save, saves>>

\* The version a save is for.
SavedVersion == Latest

\* update_content reads the latest version and its rows ...
SaveRead(e) ==
    /\ page[e] # NoPage /\ save[e] = NoSave
    /\ saves < MaxSaves
    /\ saves' = saves + 1
    /\ save' = [save EXCEPT ![e] =
                  [sent |-> TRUE, version |-> SavedVersion, data |-> page[e].data,
                   document |-> content[Latest], rows |-> records[Latest]]]
    /\ UNCHANGED <<content, records, page>>

\* A mutant of SyncedRows: the rows of the group rounds are not synced.
SyncedParticipantRows(s, rows) ==
    [k \in DOMAIN rows |->
        IF k \in DOMAIN s.data /\ k.type = "participant" /\ s.data[k] # s.rows[k]
        THEN s.data[k] ELSE rows[k]]

\* The rows after the sync of save s: only rows of decisions in the document
\* are assigned, and the session writes only those whose value has changed
\* from the one it has read.
SyncedRows(s, rows) ==
    [k \in DOMAIN rows |->
        IF k \in DOMAIN s.data /\ s.data[k] # s.rows[k] THEN s.data[k] ELSE rows[k]]

\* ... and commits the changed document and the changed rows.
SaveCommit(e) ==
    /\ save[e] # NoSave
    /\ LET s == save[e]
       IN /\ content' = [content EXCEPT ![s.version] =
                            IF s.data # s.document THEN s.data ELSE @]
          /\ records' = [records EXCEPT ![s.version] = SyncedRows(s, @)]
    /\ save' = [save EXCEPT ![e] = NoSave]
    /\ UNCHANGED <<page, saves>>

ContentNext ==
    \/ \E d \in Drafts : Generate(d)
    \/ \E e \in Editors : LoadPage(e) \/ SaveRead(e) \/ SaveCommit(e)
    \/ \E e \in Editors, k \in Keys, t \in Texts : Reword(e, k, t)

ContentSpec == ContentInit /\ [][ContentNext]_contentVars

-----------------------------------------------------------------------------
(***************************************************************************)
(* Properties.                                                             *)
(***************************************************************************)

SaveLike(s) ==
    /\ s = [sent |-> TRUE, version |-> s.version, data |-> s.data,
            document |-> s.document, rows |-> s.rows]
    /\ s.version \in 1..Latest
    /\ IsDocument(s.data) /\ IsDocument(s.document) /\ IsDocument(s.rows)
    /\ DOMAIN s.rows = DOMAIN records[s.version]

\* Documents and rows are documents, and a save is for a version that exists.
ContentTypeOK ==
    /\ content = [v \in 1..Len(content) |-> content[v]]
    /\ records = [v \in 1..Len(content) |-> records[v]]
    /\ \A v \in 1..Len(content) : IsDocument(content[v]) /\ IsDocument(records[v])
    /\ page = [e \in Editors |-> page[e]]
    /\ \A e \in Editors : page[e] # NoPage =>
          page[e] = [loaded |-> TRUE, data |-> page[e].data] /\ IsDocument(page[e].data)
    /\ save = [e \in Editors |-> save[e]]
    /\ \A e \in Editors : save[e] # NoSave => SaveLike(save[e])
    /\ saves \in Nat

\* The two copies of a version's content agree: update_content "syncs the
\* per-decision DecisionRecord rows in place (so the participant runtime,
\* which reads those rows, reflects the edits)" (generation_service.py:411-413).
RecordsMatchContent == records = content
=============================================================================
