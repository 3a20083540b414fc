---------------------------- MODULE RuntimeProofs ----------------------------
(***************************************************************************)
(* Content and the sessions that are served from it, with any number of    *)
(* participants, submissions, decisions, versions and facilitators.        *)
(*                                                                         *)
(*   TypeInv     the types of Content                                      *)
(*   EditInv     where one page edits, the rows follow the document        *)
(*   RowsInv     one stored allocation for each decision                   *)
(*   PagesInv    a page lists what its session is served, and a submission *)
(*               asks what its page shows                                  *)
(*   MeaningInv  a letter keeps its posture from the page to the row       *)
(*   WholeInv    the rows of a session are one submission                  *)
(*   OrdersInv   stored options are ordered as some run has ordered them   *)
(*   TypesInv    the types of runtime.py's rows and pages                  *)
(***************************************************************************)
EXTENDS Runtime, FiniteSetTheorems, TLAPS

(***************************************************************************)
(* Content: documents, rows and saves keep their types.                    *)
(***************************************************************************)

\* Rewording a decision of a document gives a document of the same decisions.
LEMMA RewordKeepsDocument ==
    ASSUME NEW d, IsDocument(d), NEW k \in DOMAIN d, NEW t \in Texts
    PROVE  IsDocument(Reworded(d, k, t)) /\ DOMAIN Reworded(d, k, t) = DOMAIN d
<1>1. d \in [DOMAIN d -> Boards] /\ d[k] \in Boards
  BY DEF IsDocument
<1>2. [order |-> d[k].order, text |-> t] \in Boards
  BY <1>1 DEF Boards
<1> QED
  BY <1>1, <1>2 DEF IsDocument, Reworded

\* Syncing a save keeps the rows a document with the decisions it had.
LEMMA SyncKeepsRows ==
    ASSUME NEW s, NEW old, IsDocument(s.data), IsDocument(old)
    PROVE  IsDocument(SyncedRows(s, old)) /\ DOMAIN SyncedRows(s, old) = DOMAIN old
<1>1. \A k \in DOMAIN old :
         (IF k \in DOMAIN s.data /\ s.data[k] # s.rows[k] THEN s.data[k] ELSE old[k]) \in Boards
  BY DEF IsDocument
<1> QED
  BY <1>1 DEF SyncedRows, IsDocument

-----------------------------------------------------------------------------
(***************************************************************************)
(* Types, written with sets.                                               *)
(***************************************************************************)

Documents == UNION {[S -> Boards] : S \in SUBSET Keys}

Pages == {NoPage} \union [loaded : {TRUE}, data : Documents]

Saves == {NoSave} \union [sent : {TRUE}, version : Nat, data : Documents,
                          document : Documents, rows : Documents]

SaveFits(s) ==
    s # NoSave => s.version \in 1..Len(records) /\ DOMAIN s.rows = DOMAIN records[s.version]

TypeInv ==
    /\ content \in Seq(Documents) /\ records \in Seq(Documents)
    /\ Len(records) = Len(content)
    /\ page \in [Editors -> Pages]
    /\ save \in [Editors -> Saves]
    /\ \A e \in Editors : page[e] # NoPage => Len(content) > 0
    /\ \A e \in Editors : SaveFits(save[e])
    /\ saves \in Nat

LEMMA DocumentsAreDocuments == \A d : d \in Documents <=> IsDocument(d)
<1> TAKE d
<1>1. ASSUME d \in Documents PROVE IsDocument(d)
  BY <1>1 DEF Documents, IsDocument
<1>2. ASSUME IsDocument(d) PROVE d \in Documents
  BY <1>2 DEF Documents, IsDocument
<1> QED
  BY <1>1, <1>2

\* A page is told from no page by the field both have, and so is a save.
LEMMA PageFields ==
    ASSUME NEW p \in Pages, p # NoPage
    PROVE  p = [loaded |-> TRUE, data |-> p.data] /\ p.data \in Documents
  BY DEF Pages

LEMMA SaveFields ==
    ASSUME NEW s \in Saves, s # NoSave
    PROVE  /\ s = [sent |-> TRUE, version |-> s.version, data |-> s.data,
                   document |-> s.document, rows |-> s.rows]
           /\ s.version \in Nat
           /\ s.data \in Documents /\ s.document \in Documents /\ s.rows \in Documents
  BY DEF Saves

LEMMA TypeInvImplies == TypeInv => ContentTypeOK
<1> SUFFICES ASSUME TypeInv PROVE ContentTypeOK
  OBVIOUS
<1> USE DEF TypeInv
<1>1. /\ content = [v \in 1..Len(content) |-> content[v]]
      /\ records = [v \in 1..Len(content) |-> records[v]]
  OBVIOUS
<1>2. \A v \in 1..Len(content) : IsDocument(content[v]) /\ IsDocument(records[v])
  BY DocumentsAreDocuments
<1>3. page = [e \in Editors |-> page[e]] /\ save = [e \in Editors |-> save[e]]
  OBVIOUS
<1>4. ASSUME NEW e \in Editors, page[e] # NoPage
      PROVE  page[e] = [loaded |-> TRUE, data |-> page[e].data] /\ IsDocument(page[e].data)
  BY <1>4, PageFields, DocumentsAreDocuments
<1>5. ASSUME NEW e \in Editors, save[e] # NoSave
      PROVE  SaveLike(save[e])
  <2>1. save[e] \in Saves /\ SaveFits(save[e])
    OBVIOUS
  <2> QED
    BY <1>5, <2>1, SaveFields, DocumentsAreDocuments DEF SaveLike, SaveFits, Latest
<1> QED
  BY <1>1, <1>2, <1>3, <1>4, <1>5 DEF ContentTypeOK

LEMMA TypeInvInit == ContentInit => TypeInv
  BY DEF ContentInit, TypeInv, Pages, Saves, SaveFits

LEMMA GenerateKeepsTypes ==
    ASSUME TypeInv, NEW d \in Drafts, Generate(d) PROVE TypeInv'
<1> USE DEF TypeInv, Generate
<1>1. d \in Documents
  BY ContentAssumption, DocumentsAreDocuments
<1>2. /\ content' \in Seq(Documents) /\ records' \in Seq(Documents)
      /\ Len(records') = Len(content')
  BY <1>1
<1>3. ASSUME NEW e \in Editors PROVE SaveFits(save[e])'
  BY <1>1 DEF SaveFits
<1> QED
  BY <1>2, <1>3

LEMMA LoadPageKeepsTypes ==
    ASSUME TypeInv, NEW e \in Editors, LoadPage(e) PROVE TypeInv'
<1> USE DEF TypeInv, LoadPage
<1>1. [loaded |-> TRUE, data |-> content[Latest]] \in Pages
  BY DEF Pages, Latest
<1>2. Len(content) > 0
  BY DEF Latest
<1>3. UNCHANGED <<content, records, save, saves>> /\ page' \in [Editors -> Pages]
  BY <1>1
<1> QED
  BY <1>2, <1>3 DEF SaveFits

LEMMA RewordKeepsTypes ==
    ASSUME TypeInv, NEW e \in Editors, NEW k \in Keys, NEW t \in Texts, Reword(e, k, t)
    PROVE  TypeInv'
<1> USE DEF TypeInv, Reword
<1>1. page[e].data \in Documents
  BY PageFields
<1>2. Reworded(page[e].data, k, t) \in Documents
  BY <1>1, RewordKeepsDocument, DocumentsAreDocuments
<1>3. [loaded |-> TRUE, data |-> Reworded(page[e].data, k, t)] \in Pages
  BY <1>2 DEF Pages
<1> QED
  BY <1>3 DEF SaveFits

LEMMA SaveReadKeepsTypes ==
    ASSUME TypeInv, NEW e \in Editors, SaveRead(e) PROVE TypeInv'
<1> USE DEF TypeInv, SaveRead
<1> DEFINE s == [sent |-> TRUE, version |-> SavedVersion, data |-> page[e].data,
                 document |-> content[Latest], rows |-> records[Latest]]
<1>1. page[e].data \in Documents
  BY PageFields
<1>2. s \in Saves /\ s.version \in 1..Len(records) /\ s.rows = records[s.version]
  BY <1>1 DEF Saves, SavedVersion, Latest
<1>3. save' = [save EXCEPT ![e] = s] /\ save' \in [Editors -> Saves]
  BY <1>2
<1>4. ASSUME NEW f \in Editors PROVE SaveFits(save[f])'
  BY <1>2, <1>3 DEF SaveFits
<1>5. saves' \in Nat /\ UNCHANGED <<content, records, page>>
  OBVIOUS
<1> HIDE DEF s
<1> QED
  BY <1>3, <1>4, <1>5

LEMMA SaveCommitKeepsTypes ==
    ASSUME TypeInv, NEW e \in Editors, SaveCommit(e) PROVE TypeInv'
<1> USE DEF TypeInv
<1> DEFINE s == save[e]
           w == s.version
<1>1. /\ s \in Saves /\ w \in 1..Len(records) /\ w \in 1..Len(content)
      /\ s.data \in Documents
  BY SaveFields DEF SaveCommit, SaveFits
<1>2. /\ content' = [content EXCEPT ![w] = IF s.data # s.document THEN s.data ELSE content[w]]
      /\ records' = [records EXCEPT ![w] = SyncedRows(s, records[w])]
  BY DEF SaveCommit
<1>3. /\ SyncedRows(s, records[w]) \in Documents
      /\ DOMAIN SyncedRows(s, records[w]) = DOMAIN records[w]
  BY <1>1, SyncKeepsRows, DocumentsAreDocuments
<1>4. content' \in Seq(Documents) /\ Len(content') = Len(content)
  BY <1>1, <1>2
<1>5. records' \in Seq(Documents) /\ Len(records') = Len(records)
  BY <1>1, <1>2, <1>3
<1>6. \A v \in 1..Len(records) : DOMAIN records'[v] = DOMAIN records[v]
  BY <1>1, <1>2, <1>3
<1>7. page' \in [Editors -> Pages] /\ save' \in [Editors -> Saves] /\ saves' \in Nat
  BY DEF SaveCommit, Saves
<1>8. ASSUME NEW f \in Editors PROVE SaveFits(save[f])'
  BY <1>5, <1>6 DEF SaveCommit, SaveFits
<1>9. \A f \in Editors : page'[f] # NoPage => Len(content') > 0
  BY <1>4 DEF SaveCommit
<1> QED
  BY <1>4, <1>5, <1>7, <1>8, <1>9

LEMMA TypeInvNext == TypeInv /\ [ContentNext]_contentVars => TypeInv'
<1> SUFFICES ASSUME TypeInv, [ContentNext]_contentVars PROVE TypeInv'
  OBVIOUS
<1>1. CASE UNCHANGED contentVars
  BY <1>1 DEF contentVars, TypeInv, SaveFits
<1>2. ASSUME NEW d \in Drafts, Generate(d) PROVE TypeInv'
  BY <1>2, GenerateKeepsTypes
<1>3. ASSUME NEW e \in Editors, LoadPage(e) \/ SaveRead(e) \/ SaveCommit(e) PROVE TypeInv'
  BY <1>3, LoadPageKeepsTypes, SaveReadKeepsTypes, SaveCommitKeepsTypes
<1>4. ASSUME NEW e \in Editors, NEW k \in Keys, NEW t \in Texts, Reword(e, k, t) PROVE TypeInv'
  BY <1>4, RewordKeepsTypes
<1> QED
  BY <1>1, <1>2, <1>3, <1>4 DEF ContentNext

\* Documents, rows, pages and saves keep their types, and every save is for a
\* version that exists (update_content, EntriesSection.tsx).
THEOREM ContentTypeCorrect == ContentSpec => []ContentTypeOK
<1>1. TypeInv => ContentTypeOK
  BY TypeInvImplies
<1> QED
  BY <1>1, TypeInvInit, TypeInvNext, PTL DEF ContentSpec

-----------------------------------------------------------------------------
(***************************************************************************)
(* One editor of one set of decisions.                                     *)
(***************************************************************************)

\* What keeps the copies together: a page shows the decisions the versions
\* have, and an open save has read document and rows as they still are.
EditInv(S) ==
    /\ records = content
    /\ \A v \in 1..Len(content) : DOMAIN content[v] = S
    /\ \A e \in Editors : page[e] # NoPage => DOMAIN page[e].data = S
    /\ \A e \in Editors : save[e] # NoSave =>
          /\ DOMAIN save[e].data = S
          /\ save[e].document = content[save[e].version]
          /\ save[e].rows = content[save[e].version]

\* A save that has read rows and document as they are writes both alike.
LEMMA SyncFollowsDocument ==
    ASSUME NEW s, NEW S, NEW old,
           s.data \in Documents, DOMAIN s.data = S,
           old \in Documents, DOMAIN old = S, s.rows = old, s.document = old
    PROVE  /\ SyncedRows(s, old) = s.data
           /\ (IF s.data # s.document THEN s.data ELSE old) = s.data
<1>1. s.data = [k \in S |-> s.data[k]]
  BY DEF Documents
<1>2. SyncedRows(s, old) = [k \in S |-> s.data[k]]
  BY DEF SyncedRows
<1> QED
  BY <1>1, <1>2

LEMMA SaveCommitKeepsEdits ==
    ASSUME NEW S, TypeInv, EditInv(S), NEW e \in Editors, \A f \in Editors : f = e,
           SaveCommit(e)
    PROVE  EditInv(S)'
<1> USE DEF TypeInv
<1> DEFINE s == save[e]
           w == s.version
<1>1. /\ w \in 1..Len(content) /\ w \in 1..Len(records)
      /\ s.data \in Documents /\ DOMAIN s.data = S
      /\ content[w] \in Documents /\ DOMAIN content[w] = S
      /\ s.rows = content[w] /\ s.document = content[w] /\ records[w] = content[w]
  BY SaveFields DEF SaveCommit, SaveFits, EditInv
<1>2. /\ content' = [content EXCEPT ![w] = IF s.data # s.document THEN s.data ELSE content[w]]
      /\ records' = [records EXCEPT ![w] = SyncedRows(s, records[w])]
  BY DEF SaveCommit
<1>3. content' = [content EXCEPT ![w] = s.data] /\ records' = [content EXCEPT ![w] = s.data]
  BY <1>1, <1>2, SyncFollowsDocument DEF EditInv
<1>4. Len(content') = Len(content) /\ \A v \in 1..Len(content') : DOMAIN content'[v] = S
  BY <1>1, <1>3 DEF EditInv
<1>5. \A f \in Editors : save'[f] = NoSave
  BY DEF SaveCommit
<1>6. UNCHANGED page
  BY DEF SaveCommit
<1> QED
  BY <1>3, <1>4, <1>5, <1>6 DEF EditInv

LEMMA EditInvNext ==
    ASSUME NEW S, \A d \in Drafts : DOMAIN d = S, \A e, f \in Editors : e = f,
           TypeInv, EditInv(S), [ContentNext]_contentVars
    PROVE  EditInv(S)'
<1> USE DEF TypeInv
<1>1. CASE UNCHANGED contentVars
  BY <1>1 DEF contentVars, EditInv
<1>2. ASSUME NEW d \in Drafts, Generate(d) PROVE EditInv(S)'
  <2>1. d \in Documents
    BY ContentAssumption, DocumentsAreDocuments
  <2>2. records' = content' /\ Len(content') = Len(content) + 1
    BY <1>2, <2>1 DEF Generate, EditInv
  <2>3. \A v \in 1..Len(content') :
           content'[v] = IF v <= Len(content) THEN content[v] ELSE d
    BY <1>2, <2>1, <2>2 DEF Generate
  <2>4. \A v \in 1..Len(content') : DOMAIN content'[v] = S
    BY <2>2, <2>3 DEF EditInv
  <2>5. ASSUME NEW e \in Editors, save[e] # NoSave
        PROVE  content'[save[e].version] = content[save[e].version]
    BY <2>2, <2>3, <2>5, SaveFields DEF SaveFits
  <2>6. UNCHANGED <<page, save>>
    BY <1>2 DEF Generate
  <2> QED
    BY <2>2, <2>4, <2>5, <2>6 DEF EditInv
<1>3. ASSUME NEW e \in Editors, LoadPage(e) PROVE EditInv(S)'
  <2>1. \A f \in Editors : page'[f] = [loaded |-> TRUE, data |-> content[Latest]]
    BY <1>3 DEF LoadPage
  <2>2. DOMAIN content[Latest] = S
    BY <1>3 DEF LoadPage, EditInv, Latest
  <2> QED
    BY <1>3, <2>1, <2>2 DEF LoadPage, EditInv
<1>4. ASSUME NEW e \in Editors, SaveRead(e) PROVE EditInv(S)'
  <2>1. \A f \in Editors : save'[f] =
           [sent |-> TRUE, version |-> SavedVersion, data |-> page[e].data,
            document |-> content[Latest], rows |-> records[Latest]]
    BY <1>4 DEF SaveRead
  <2>2. DOMAIN page[e].data = S
    BY <1>4 DEF SaveRead, EditInv
  <2> QED
    BY <1>4, <2>1, <2>2 DEF SaveRead, SavedVersion, EditInv
<1>5. ASSUME NEW e \in Editors, SaveCommit(e) PROVE EditInv(S)'
  BY <1>5, SaveCommitKeepsEdits
<1>6. ASSUME NEW e \in Editors, NEW k \in Keys, NEW t \in Texts, Reword(e, k, t)
      PROVE  EditInv(S)'
  <2>1. page[e].data \in Documents /\ DOMAIN page[e].data = S
    BY <1>6, PageFields DEF Reword, EditInv
  <2>2. DOMAIN Reworded(page[e].data, k, t) = S
    BY <1>6, <2>1, RewordKeepsDocument, DocumentsAreDocuments DEF Reword
  <2>3. \A f \in Editors : page'[f] = [loaded |-> TRUE, data |-> Reworded(page[e].data, k, t)]
    BY <1>6 DEF Reword
  <2> QED
    BY <1>6, <2>2, <2>3 DEF Reword, EditInv
<1> QED
  BY <1>1, <1>2, <1>3, <1>4, <1>5, <1>6 DEF ContentNext

\* Where a single page edits, and every version has the same decisions, the
\* rows participants are served are the document's, whatever is reworded and
\* however many versions runs append meanwhile (update_content).
THEOREM EditsReachSessions ==
    ASSUME NEW S, \A d \in Drafts : DOMAIN d = S, \A e, f \in Editors : e = f
    PROVE  ContentSpec => []RecordsMatchContent
<1>1. ContentInit => TypeInv /\ EditInv(S)
  BY TypeInvInit DEF ContentInit, EditInv
<1>2. TypeInv /\ EditInv(S) /\ [ContentNext]_contentVars => TypeInv' /\ EditInv(S)'
  BY TypeInvNext, EditInvNext
<1>3. EditInv(S) => RecordsMatchContent
  BY DEF EditInv, RecordsMatchContent
<1> QED
  BY <1>1, <1>2, <1>3, PTL DEF ContentSpec

-----------------------------------------------------------------------------
(***************************************************************************)
(* Sessions.                                                               *)
(***************************************************************************)

Shaped(r) ==
    /\ r = [at |-> r.at, client |-> r.client, shown |-> r.shown, next |-> r.next,
            items |-> r.items, dels |-> r.dels, ins |-> r.ins, scan |-> r.scan]
    /\ r.at \in {"ready", "deleting", "committed", "failed"}
    /\ r.next \in Nat /\ r.next > 0

RequestsShaped ==
    /\ req = [q \in Requests |-> req[q]]
    /\ \A q \in Requests : req[q] = NoRequest \/ Shaped(req[q])

\* A submission has begun once it has looked for the rows it supersedes.
Begun(q) == req[q].at = "deleting" \/ (req[q].at = "ready" /\ req[q].next > 1)

Rivals(q, u) == q # u /\ req[q].client = req[u].client /\ InFlight(q) /\ InFlight(u)

\* Of the submissions of one session that are in the server at most one has begun.
OneBegun ==
    \A q, u \in Requests : Rivals(q, u) => Overlap /\ ~(Begun(q) /\ Begun(u))

\* What one submission is going to do to the rows there are now: it inserts
\* one row for each decision it has come to, for its own session, and every
\* row stored for that decision is among those it has deleted or has found.
Tidy(q) ==
    /\ ~Begun(q) => req[q].dels = {} /\ req[q].ins = {}
    /\ req[q].at = "ready" => req[q].scan = {}
    /\ \A r \in req[q].ins : r.client = req[q].client
    /\ \A r, s \in req[q].ins : r.number = s.number => r = s
    /\ \A r \in req[q].ins, x \in rows :
          x.client = r.client /\ x.number = r.number => x \in req[q].dels \union req[q].scan

RowsInv ==
    /\ RequestsShaped
    /\ OneBegun
    /\ \A q \in Requests : InFlight(q) => Tidy(q)
    /\ OneRowPerDecision

-----------------------------------------------------------------------------
LEMMA RowsInvInit == Init => RowsInv
  BY DEF Init, RowsInv, RequestsShaped, OneBegun, Rivals, InFlight, NoRequest, OneRowPerDecision

\* Requests and rows are all the invariant reads.
LEMMA RowsInvUnchanged == RowsInv /\ UNCHANGED <<req, rows>> => RowsInv'
  BY DEF RowsInv, RequestsShaped, OneBegun, Rivals, InFlight, Begun, Tidy, Shaped, OneRowPerDecision

\* When only request q changes, and the rows stay, the others are as tidy as they were.
LEMMA OthersStay ==
    ASSUME RowsInv, UNCHANGED rows, NEW q \in Requests, NEW new,
           req' = [req EXCEPT ![q] = new]
    PROVE  /\ req'[q] = new
           /\ \A u \in Requests : u # q => req'[u] = req[u]
           /\ \A u \in Requests \ {q} : InFlight(u)' => Tidy(u)'
           /\ OneRowPerDecision'
<1>1. req'[q] = new /\ \A u \in Requests : u # q => req'[u] = req[u]
  BY DEF RowsInv, RequestsShaped
<1>2. ASSUME NEW u \in Requests \ {q}, InFlight(u)' PROVE Tidy(u)'
  BY <1>1, <1>2 DEF RowsInv, InFlight, Tidy, Begun
<1>3. OneRowPerDecision'
  BY DEF RowsInv, OneRowPerDecision
<1> QED
  BY <1>1, <1>2, <1>3

LEMMA SendKeepsRows ==
    ASSUME RowsInv, NEW c \in Clients, NEW fill, Send(c, fill) PROVE RowsInv'
<1>1. PICK q \in NextRequest :
         req' = [req EXCEPT ![q] =
                       [at |-> "ready", client |-> c, shown |-> shown[c], next |-> 1,
                        items |-> [i \in DOMAIN shown[c] |->
                                      [number |-> shown[c][i].number,
                                       units |-> fill[shown[c][i].number]]],
                        dels |-> {}, ins |-> {}, scan |-> {}]]
  BY DEF Send
<1> DEFINE new == [at |-> "ready", client |-> c, shown |-> shown[c], next |-> 1,
                   items |-> [i \in DOMAIN shown[c] |->
                                 [number |-> shown[c][i].number,
                                  units |-> fill[shown[c][i].number]]],
                   dels |-> {}, ins |-> {}, scan |-> {}]
<1>2. q \in Requests /\ req[q] = NoRequest /\ UNCHANGED rows
  BY DEF NextRequest, Send
<1>3. Shaped(new)
  BY DEF Shaped
<1>4. /\ new.at = "ready" /\ new.client = c /\ new.next = 1
      /\ new.dels = {} /\ new.ins = {} /\ new.scan = {}
  OBVIOUS
<1>5. req' = [req EXCEPT ![q] = new]
  BY <1>1
<1> HIDE DEF new
<1>6. /\ req'[q] = new
      /\ \A u \in Requests : u # q => req'[u] = req[u]
      /\ \A u \in Requests \ {q} : InFlight(u)' => Tidy(u)'
      /\ OneRowPerDecision'
  BY <1>2, <1>5, OthersStay
<1>7. RequestsShaped'
  BY <1>3, <1>5, <1>6 DEF RowsInv, RequestsShaped
<1>8. Tidy(q)'
  BY <1>4, <1>6 DEF Tidy
<1>9. \A u \in Requests : InFlight(u) /\ req[u].client = c => Overlap
  BY DEF Send
<1>10. OneBegun'
  BY <1>4, <1>6, <1>9 DEF RowsInv, OneBegun, Rivals, InFlight, Begun
<1> QED
  BY <1>6, <1>7, <1>8, <1>10 DEF RowsInv

\* The submission's record after each of its steps, field by field.
LEMMA DeletingFields ==
    ASSUME NEW q, Shaped(req[q]), NEW k
    PROVE  LET new == Deleting(q, k)
           IN /\ Shaped(new)
              /\ new.at = "deleting" /\ new.client = req[q].client
              /\ new.shown = req[q].shown /\ new.items = req[q].items
              /\ new.next = req[q].next /\ new.dels = req[q].dels
              /\ new.scan = Superseded(q)
              /\ new.ins = {r \in req[q].ins : r.number # Item(q).number}
                              \union {Allocation(q, k)}
<1> DEFINE ins == {r \in req[q].ins : r.number # Item(q).number} \union {Allocation(q, k)}
           r1 == [req[q] EXCEPT !.at = "deleting"]
           r2 == [r1 EXCEPT !.scan = Superseded(q)]
<1>1. Deleting(q, k) = [r2 EXCEPT !.ins = ins]
  BY DEF Deleting
<1>2. r1 = [at |-> "deleting", client |-> req[q].client, shown |-> req[q].shown,
            next |-> req[q].next, items |-> req[q].items, dels |-> req[q].dels,
            ins |-> req[q].ins, scan |-> req[q].scan]
  BY DEF Shaped
<1> HIDE DEF r1
<1>3. r2 = [at |-> "deleting", client |-> req[q].client, shown |-> req[q].shown,
            next |-> req[q].next, items |-> req[q].items, dels |-> req[q].dels,
            ins |-> req[q].ins, scan |-> Superseded(q)]
  BY <1>2
<1> HIDE DEF r2, ins
<1>4. Deleting(q, k) =
         [at |-> "deleting", client |-> req[q].client, shown |-> req[q].shown,
          next |-> req[q].next, items |-> req[q].items, dels |-> req[q].dels,
          ins |-> ins, scan |-> Superseded(q)]
  BY <1>1, <1>3
<1> QED
  BY <1>4 DEF Shaped, ins

LEMMA ReplacedFields ==
    ASSUME NEW q, Shaped(req[q])
    PROVE  LET new == Replaced(q)
           IN /\ Shaped(new)
              /\ new.at = "ready" /\ new.client = req[q].client
              /\ new.shown = req[q].shown /\ new.items = req[q].items
              /\ new.next = req[q].next + 1 /\ new.dels = req[q].dels \union req[q].scan
              /\ new.scan = {} /\ new.ins = req[q].ins
<1> DEFINE dels == req[q].dels \union req[q].scan
           r1 == [req[q] EXCEPT !.at = "ready"]
           r2 == [r1 EXCEPT !.next = req[q].next + 1]
           r3 == [r2 EXCEPT !.dels = dels]
<1>1. Replaced(q) = [r3 EXCEPT !.scan = {}]
  BY DEF Replaced
<1>2. r1 = [at |-> "ready", client |-> req[q].client, shown |-> req[q].shown,
            next |-> req[q].next, items |-> req[q].items, dels |-> req[q].dels,
            ins |-> req[q].ins, scan |-> req[q].scan]
  BY DEF Shaped
<1> HIDE DEF r1
<1>3. r2 = [at |-> "ready", client |-> req[q].client, shown |-> req[q].shown,
            next |-> req[q].next + 1, items |-> req[q].items, dels |-> req[q].dels,
            ins |-> req[q].ins, scan |-> req[q].scan]
  BY <1>2
<1> HIDE DEF r2, dels
<1>4. r3 = [at |-> "ready", client |-> req[q].client, shown |-> req[q].shown,
            next |-> req[q].next + 1, items |-> req[q].items, dels |-> dels,
            ins |-> req[q].ins, scan |-> req[q].scan]
  BY <1>3
<1> HIDE DEF r3
<1>5. Replaced(q) =
         [at |-> "ready", client |-> req[q].client, shown |-> req[q].shown,
          next |-> req[q].next + 1, items |-> req[q].items, dels |-> dels,
          ins |-> req[q].ins, scan |-> {}]
  BY <1>1, <1>4
<1> QED
  BY <1>5 DEF Shaped, dels

\* A submission's own row is for its session and for the item's decision.
LEMMA OwnAllocation ==
    ASSUME NEW q, NEW k \in Candidates(q)
    PROVE  /\ Allocation(q, k).client = req[q].client
           /\ Allocation(q, k).number = Item(q).number
  BY DEF Allocation, Candidates

LEMMA ResolveKeepsRows ==
    ASSUME RowsInv, Serial \/ ~Overlap, NEW q \in Requests, Resolve(q) PROVE RowsInv'
<1>1. PICK k \in Candidates(q) : req' = [req EXCEPT ![q] = Deleting(q, k)]
  BY DEF Resolve
<1>2. req[q].at = "ready" /\ UNCHANGED rows /\ Shaped(req[q]) /\ InFlight(q) /\ Tidy(q)
  BY DEF Resolve, RowsInv, RequestsShaped, NoRequest, InFlight
<1> DEFINE new == Deleting(q, k)
<1>3. /\ Shaped(new)
      /\ new.at = "deleting" /\ new.client = req[q].client
      /\ new.next = req[q].next /\ new.dels = req[q].dels
      /\ new.scan = Superseded(q)
      /\ new.ins = {r \in req[q].ins : r.number # Item(q).number} \union {Allocation(q, k)}
  BY <1>2, DeletingFields
<1> HIDE DEF new
<1>4. /\ req'[q] = new
      /\ \A u \in Requests : u # q => req'[u] = req[u]
      /\ \A u \in Requests \ {q} : InFlight(u)' => Tidy(u)'
      /\ OneRowPerDecision'
  BY <1>1, <1>2, OthersStay DEF new
<1>5. RequestsShaped'
  BY <1>1, <1>3, <1>4 DEF RowsInv, RequestsShaped
<1>6. OneBegun'
  <2>1. ASSUME NEW u \in Requests \ {q}, InFlight(u), req[u].client = req[q].client
        PROVE  Overlap /\ ~Begun(u)
    <3>1. Rivals(q, u)
      BY <1>2, <2>1 DEF Rivals
    <3>2. Overlap
      BY <3>1 DEF RowsInv, OneBegun
    <3>3. req[u].next = 1 /\ req[u].at = "ready"
      BY <2>1, <3>2 DEF Resolve
    <3> QED
      BY <3>2, <3>3 DEF Begun
  <2> QED
    BY <1>3, <1>4, <2>1 DEF RowsInv, OneBegun, Rivals, InFlight, Begun
<1>7. Tidy(q)'
  <2>1. /\ Allocation(q, k).client = req[q].client
        /\ Allocation(q, k).number = Item(q).number
    BY <1>1, OwnAllocation
  <2>2. \A r \in new.ins : r.client = req[q].client
    BY <1>2, <1>3, <2>1 DEF Tidy
  <2>3. \A r, s \in new.ins : r.number = s.number => r = s
    BY <1>2, <1>3, <2>1 DEF Tidy
  <2>4. ASSUME NEW r \in new.ins, NEW x \in rows, x.client = r.client, x.number = r.number
        PROVE  x \in new.dels \union new.scan
    <3>1. CASE r = Allocation(q, k)
      BY <1>3, <2>1, <2>4, <3>1 DEF Superseded
    <3>2. CASE r \in req[q].ins
      BY <1>2, <1>3, <2>4, <3>2 DEF Tidy
    <3> QED
      BY <1>3, <3>1, <3>2
  <2> QED
    BY <1>2, <1>3, <1>4, <2>2, <2>3, <2>4 DEF Tidy, Begun
<1> QED
  BY <1>4, <1>5, <1>6, <1>7 DEF RowsInv

LEMMA ReplaceKeepsRows ==
    ASSUME RowsInv, NEW q \in Requests, Replace(q) PROVE RowsInv'
<1>1. /\ req' = [req EXCEPT ![q] = Replaced(q)] /\ UNCHANGED rows
      /\ req[q].at = "deleting" /\ Shaped(req[q]) /\ InFlight(q) /\ Tidy(q) /\ Begun(q)
  BY DEF Replace, RowsInv, RequestsShaped, NoRequest, InFlight, Begun
<1> DEFINE new == Replaced(q)
<1>2. /\ Shaped(new)
      /\ new.at = "ready" /\ new.client = req[q].client
      /\ new.next = req[q].next + 1 /\ new.dels = req[q].dels \union req[q].scan
      /\ new.scan = {} /\ new.ins = req[q].ins
  BY <1>1, ReplacedFields
<1> HIDE DEF new
<1>3. /\ req'[q] = new
      /\ \A u \in Requests : u # q => req'[u] = req[u]
      /\ \A u \in Requests \ {q} : InFlight(u)' => Tidy(u)'
      /\ OneRowPerDecision'
  BY <1>1, OthersStay DEF new
<1>4. RequestsShaped'
  BY <1>1, <1>2, <1>3 DEF RowsInv, RequestsShaped
<1>5. OneBegun'
  BY <1>1, <1>2, <1>3 DEF RowsInv, OneBegun, Rivals, InFlight, Begun
<1>6. new.next > 1
  BY <1>1, <1>2 DEF Shaped
<1>7. Tidy(q)'
  BY <1>1, <1>2, <1>3, <1>6 DEF Tidy, Begun
<1> QED
  BY <1>3, <1>4, <1>5, <1>7 DEF RowsInv

\* A submission that ends in any way is no longer in the server.
LEMMA EndedRequest ==
    ASSUME RowsInv, NEW q \in Requests, InFlight(q), NEW end \in {"committed", "failed"},
           req' = [req EXCEPT ![q].at = end]
    PROVE  /\ RequestsShaped'
           /\ ~InFlight(q)'
           /\ \A u \in Requests : u # q => req'[u] = req[u]
           /\ OneBegun'
<1> DEFINE r == req[q]
           new == [at |-> end, client |-> r.client, shown |-> r.shown, next |-> r.next,
                   items |-> r.items, dels |-> r.dels, ins |-> r.ins, scan |-> r.scan]
<1>1. Shaped(r) /\ req = [u \in Requests |-> req[u]]
  BY DEF RowsInv, RequestsShaped, NoRequest, InFlight
<1>2. [r EXCEPT !.at = end] = new
  BY <1>1 DEF Shaped
<1>3. req' = [req EXCEPT ![q] = new]
  BY <1>1, <1>2
<1>4. Shaped(new) /\ new.at = end
  BY <1>1 DEF Shaped
<1> HIDE DEF new
<1>5. req'[q] = new /\ \A u \in Requests : u # q => req'[u] = req[u]
  BY <1>1, <1>3
<1>6. RequestsShaped'
  BY <1>1, <1>3, <1>4, <1>5 DEF RowsInv, RequestsShaped
<1>7. ~InFlight(q)'
  BY <1>4, <1>5 DEF InFlight
<1>8. OneBegun'
  BY <1>5, <1>7 DEF RowsInv, OneBegun, Rivals, InFlight, Begun
<1> QED
  BY <1>5, <1>6, <1>7, <1>8

LEMMA CommitKeepsRows ==
    ASSUME RowsInv, NEW q \in Requests, Commit(q) PROVE RowsInv'
<1>1. /\ req' = [req EXCEPT ![q].at = "committed"]
      /\ rows' = (rows \ req[q].dels) \union req[q].ins
      /\ req[q].at = "ready" /\ InFlight(q) /\ Tidy(q)
  BY DEF Commit, Complete, RowsInv, InFlight
<1>2. /\ RequestsShaped' /\ ~InFlight(q)' /\ OneBegun'
      /\ \A u \in Requests : u # q => req'[u] = req[u]
  BY <1>1, EndedRequest
<1>3. OneRowPerDecision'
  <2>1. ASSUME NEW r \in req[q].ins, NEW x \in rows \ req[q].dels
        PROVE  ~(x.client = r.client /\ x.number = r.number)
    BY <1>1 DEF Tidy
  <2> QED
    BY <1>1, <2>1 DEF Tidy, RowsInv, OneRowPerDecision
<1>4. ASSUME NEW u \in Requests, InFlight(u)' PROVE Tidy(u)'
  <2>1. u # q /\ req'[u] = req[u] /\ InFlight(u) /\ Tidy(u)
    BY <1>2, <1>4 DEF InFlight, RowsInv
  <2>2. ASSUME NEW r \in req[u].ins, NEW x \in req[q].ins, x.client = r.client
        PROVE  FALSE
    <3>1. Rivals(q, u)
      BY <1>1, <2>1, <2>2 DEF Tidy, Rivals
    <3>2. Begun(q) /\ Begun(u)
      BY <1>1, <2>1, <2>2 DEF Tidy
    <3> QED
      BY <3>1, <3>2 DEF RowsInv, OneBegun
  <2>3. ASSUME NEW r \in req[u].ins, NEW x \in rows', x.client = r.client, x.number = r.number
        PROVE  x \in req[u].dels \union req[u].scan
    BY <1>1, <2>1, <2>2, <2>3 DEF Tidy
  <2> QED
    BY <2>1, <2>3 DEF Tidy, Begun
<1> QED
  BY <1>2, <1>3, <1>4 DEF RowsInv

LEMMA FailKeepsRows ==
    ASSUME RowsInv, NEW q \in Requests, Fail(q) PROVE RowsInv'
<1>1. req' = [req EXCEPT ![q].at = "failed"] /\ UNCHANGED rows /\ InFlight(q)
  BY DEF Fail
<1>2. /\ RequestsShaped' /\ ~InFlight(q)' /\ OneBegun'
      /\ \A u \in Requests : u # q => req'[u] = req[u]
  BY <1>1, EndedRequest
<1>3. ASSUME NEW u \in Requests, InFlight(u)' PROVE Tidy(u)'
  BY <1>1, <1>2, <1>3 DEF RowsInv, InFlight, Tidy, Begun
<1> QED
  BY <1>1, <1>2, <1>3 DEF RowsInv, OneRowPerDecision

LEMMA RowsInvNext ==
    ASSUME Serial \/ ~Overlap, RowsInv, [Next]_vars PROVE RowsInv'
<1>1. CASE UNCHANGED vars
  BY <1>1, RowsInvUnchanged DEF vars, runtimeVars
<1>2. CASE ContentNext /\ UNCHANGED runtimeVars
  BY <1>2, RowsInvUnchanged DEF runtimeVars
<1>3. ASSUME NEW c \in Clients, NEW p \in Owners, NEW seed \in Seeds, CreateSession(c, p, seed)
      PROVE  RowsInv'
  BY <1>3, RowsInvUnchanged DEF CreateSession
<1>4. ASSUME NEW c \in Clients, RenderSession(c) \/ LoseAnswer(c) \/ ReadBoard(c)
      PROVE  RowsInv'
  BY <1>4, RowsInvUnchanged DEF RenderSession, LoseAnswer, ReadBoard
<1>5. ASSUME NEW c \in Clients, NEW fill \in [{k.number : k \in Keys} -> Fills], Send(c, fill)
      PROVE  RowsInv'
  BY <1>5, SendKeepsRows
<1>6. ASSUME NEW q \in Requests, Resolve(q) \/ Replace(q) \/ Commit(q) \/ Fail(q)
      PROVE  RowsInv'
  BY <1>6, ResolveKeepsRows, ReplaceKeepsRows, CommitKeepsRows, FailKeepsRows
<1> QED
  BY <1>1, <1>2, <1>3, <1>4, <1>5, <1>6 DEF Next, RuntimeNext

\* A decision of a session has one stored allocation, for any number of
\* sessions and of submissions sent again, provided the database serialises
\* writers (SQLite) or no submission overlaps another of its session
\* (submit_allocation's DELETE and INSERT).
THEOREM ResubmissionsReplace ==
    ASSUME Serial \/ ~Overlap PROVE Spec => []OneRowPerDecision
<1>1. RowsInv => OneRowPerDecision
  BY DEF RowsInv
<1> QED
  BY <1>1, RowsInvInit, RowsInvNext, PTL DEF Spec

-----------------------------------------------------------------------------
(***************************************************************************)
(* What a page shows is what its session is served.                        *)
(***************************************************************************)

\* Keys that differ in their round or number only.
Comparable(K) == \A k, l \in K : k.type = l.type /\ k.owner = l.owner

\* ORDER BY lists a finite set of comparable decisions, each of them once.
LEMMA SortedEnumerates ==
    ASSUME NEW K \in SUBSET Keys, IsFiniteSet(K), Comparable(K)
    PROVE  /\ Cardinality(K) \in Nat /\ Sorted(K) \in [1..Cardinality(K) -> K]
           /\ \A i, j \in 1..Cardinality(K) : i < j => Before(Sorted(K)[i], Sorted(K)[j])
           /\ \A k \in K : \E i \in 1..Cardinality(K) : Sorted(K)[i] = k
<1>1. PICK n \in Nat : n = Cardinality(K)
  BY FS_CardinalityType
<1>2. IsFiniteSet(1..n) /\ Cardinality(1..n) = n
  BY FS_Interval
<1>3. \A k \in K : k.round \in Nat /\ k.number \in Nat
  BY ContentAssumption
<1>4. \A k, l \in K : k # l => Before(k, l) \/ Before(l, k)
  <2>1. ASSUME NEW k \in K, NEW l \in K, k.round = l.round, k.number = l.number
        PROVE  k = l
    BY <2>1, ContentAssumption DEF Comparable
  <2> QED
    BY <1>3, <2>1 DEF Before
<1>5. \A k, l, m \in K : Before(k, l) /\ Before(l, m) => Before(k, m)
  BY <1>3 DEF Before
<1>6. \A k \in K : ~Before(k, k)
  BY <1>3 DEF Before
<1> DEFINE Pred(k) == {l \in K : Before(l, k)}
           rank == [k \in K |-> 1 + Cardinality(Pred(k))]
<1>7. \A k \in K : IsFiniteSet(Pred(k)) /\ Cardinality(Pred(k)) \in Nat /\ Cardinality(Pred(k)) < n
  <2> SUFFICES ASSUME NEW k \in K
               PROVE  /\ IsFiniteSet(Pred(k)) /\ Cardinality(Pred(k)) \in Nat
                      /\ Cardinality(Pred(k)) < n
    OBVIOUS
  <2>1. Pred(k) \in SUBSET K /\ Pred(k) # K
    BY <1>6
  <2> HIDE DEF Pred
  <2>2. /\ IsFiniteSet(Pred(k)) /\ Cardinality(Pred(k)) <= Cardinality(K)
        /\ Cardinality(K) # Cardinality(Pred(k))
    BY <2>1, FS_Subset
  <2>3. Cardinality(Pred(k)) \in Nat
    BY <2>2, FS_CardinalityType
  <2> QED
    BY <1>1, <2>2, <2>3
<1>8. ASSUME NEW k \in K, NEW l \in K, Before(k, l)
      PROVE  rank[k] < rank[l]
  <2>1. Pred(k) \in SUBSET Pred(l) /\ Pred(k) # Pred(l)
    BY <1>5, <1>6, <1>8
  <2>2. IsFiniteSet(Pred(l)) /\ Cardinality(Pred(k)) \in Nat /\ Cardinality(Pred(l)) \in Nat
    BY <1>7
  <2> HIDE DEF Pred
  <2>3. Cardinality(Pred(k)) <= Cardinality(Pred(l)) /\ Cardinality(Pred(l)) # Cardinality(Pred(k))
    BY <2>1, <2>2, FS_Subset
  <2> QED
    BY <2>2, <2>3
<1>9. rank \in [K -> 1..n]
  <2> HIDE DEF Pred
  <2> QED
    BY <1>7
<1> HIDE DEF rank
<1>10. \A i \in 1..n : \E k \in K : rank[k] = i
  <2>1. \A k, l \in K : rank[k] = rank[l] => k = l
    BY <1>4, <1>8, <1>9
  <2>2. rank \in Injection(K, 1..n)
    BY <1>9, <2>1 DEF Injection, IsInjective
  <2>3. rank \in Surjection(K, 1..n)
    BY <1>1, <1>2, <2>2, FS_Injection
  <2> QED
    BY <2>3 DEF Surjection
<1> DEFINE at == [i \in 1..n |-> CHOOSE k \in K : rank[k] = i]
<1>11. at \in [1..n -> K] /\ \A i \in 1..n : rank[at[i]] = i
  BY <1>10
<1>12. \A i, j \in 1..n : i < j => Before(at[i], at[j])
  <2> SUFFICES ASSUME NEW i \in 1..n, NEW j \in 1..n, i < j
               PROVE  Before(at[i], at[j])
    OBVIOUS
  <2>1. at[i] \in K /\ at[j] \in K /\ rank[at[i]] = i /\ rank[at[j]] = j
    BY <1>11
  <2> HIDE DEF at
  <2>2. at[i] # at[j] /\ ~Before(at[j], at[i])
    BY <1>8, <2>1
  <2> QED
    BY <1>4, <2>1, <2>2
<1> HIDE DEF at
<1>13. /\ Sorted(K) \in [1..n -> K]
       /\ \A i, j \in 1..n : i < j => Before(Sorted(K)[i], Sorted(K)[j])
  BY <1>1, <1>11, <1>12 DEF Sorted
<1>14. PICK q : q = Sorted(K)
  OBVIOUS
<1>15. \A k \in K : \E i \in 1..n : q[i] = k
  <2>1. \A i, j \in 1..n : q[i] = q[j] => i = j
    BY <1>6, <1>13, <1>14
  <2>2. q \in Injection(1..n, K)
    BY <1>13, <1>14, <2>1 DEF Injection, IsInjective
  <2>3. q \in Surjection(1..n, K)
    BY <1>1, <1>2, <2>2, FS_Injection
  <2> QED
    BY <2>3 DEF Surjection
<1> QED
  BY <1>1, <1>13, <1>14, <1>15

Phases == {"open", "created", "allocate", "waiting", "board"}
Showing == {"allocate", "waiting", "board"}

\* Every version has finitely many rows.
RecordsFinite == \A v \in 1..Len(records) : IsFiniteSet(DOMAIN records[v])

SessionLike(s) == s.version \in 1..Len(records) /\ s.owner \in Owners /\ s.seed \in Seeds

\* Entry e of a page is decision k.
Labels(e, k) == e.round = k.round /\ e.number = k.number

\* Page sh has an entry for each decision of K, and no other.
ListsAll(sh, K) ==
    /\ \E n \in Nat : DOMAIN sh = 1..n
    /\ \A k \in K : \E i \in DOMAIN sh : Labels(sh[i], k)
    /\ \A i \in DOMAIN sh : \E k \in K : Labels(sh[i], k)
    /\ \A i, j \in DOMAIN sh : Labels(sh[i], sh[j]) => i = j

\* Page sh shows what session s is served.
Lists(sh, s) == ListsAll(sh, Served(s))

\* On page sh a letter stands for the option the server will take it for.
Poses(sh, s) ==
    \A i \in DOMAIN sh, k \in Served(s) :
       Labels(sh[i], k) => sh[i].map = Map(records[s.version][k], s.seed, k.number)

LEMMA ServedKeys ==
    ASSUME TypeInv, RecordsFinite, NEW s, SessionLike(s)
    PROVE  Served(s) \in SUBSET Keys /\ IsFiniteSet(Served(s)) /\ Comparable(Served(s))
<1>1. records[s.version] \in Documents
  BY DEF TypeInv, SessionLike
<1>2. DOMAIN records[s.version] \subseteq Keys /\ IsFiniteSet(DOMAIN records[s.version])
  BY <1>1 DEF Documents, RecordsFinite, SessionLike
<1>3. Served(s) \in SUBSET DOMAIN records[s.version]
  BY DEF Served
<1>4. IsFiniteSet(Served(s))
  BY <1>2, <1>3, FS_Subset
<1> QED
  BY <1>2, <1>3, <1>4 DEF Comparable, Served

\* GET /sessions/{id} shows what the session is served, under its letters.
LEMMA RenderedFits ==
    ASSUME TypeInv, RecordsFinite, NEW s, SessionLike(s)
    PROVE  Lists(Rendered(s), s) /\ Poses(Rendered(s), s)
<1>1. Served(s) \in SUBSET Keys /\ IsFiniteSet(Served(s)) /\ Comparable(Served(s))
  BY ServedKeys
<1>2. PICK n, q : n \in Nat /\ n = Cardinality(Served(s)) /\ q = Sorted(Served(s))
  BY <1>1, SortedEnumerates
<1>3. /\ q \in [1..n -> Served(s)]
      /\ \A i, j \in 1..n : i < j => Before(q[i], q[j])
      /\ \A k \in Served(s) : \E i \in 1..n : q[i] = k
  BY <1>1, <1>2, SortedEnumerates
<1>4. Len(q) = n
  BY <1>2, <1>3
<1>5. PICK sh : sh = Rendered(s)
  OBVIOUS
<1>6. /\ DOMAIN sh = 1..n
      /\ \A i \in 1..n : /\ sh[i].round = q[i].round /\ sh[i].number = q[i].number
                         /\ sh[i].map = Map(records[s.version][q[i]], s.seed, q[i].number)
  BY <1>2, <1>4, <1>5 DEF Rendered
<1>7. \A k \in Served(s) : k.round \in Nat /\ k.number \in Nat
  BY <1>1, ContentAssumption
<1>8. \A i, j \in 1..n : Labels(sh[i], sh[j]) => i = j
  BY <1>3, <1>6, <1>7 DEF Labels, Before
<1>9. \A k, l \in Served(s) : k.round = l.round /\ k.number = l.number => k = l
  BY <1>1, ContentAssumption DEF Comparable
<1>10. Lists(sh, s)
  <2>1. \A k \in Served(s) : \E i \in DOMAIN sh : Labels(sh[i], k)
    BY <1>3, <1>6 DEF Labels
  <2>2. \A i \in DOMAIN sh : \E k \in Served(s) : Labels(sh[i], k)
    BY <1>3, <1>6 DEF Labels
  <2> QED
    BY <1>2, <1>6, <1>8, <2>1, <2>2 DEF Lists, ListsAll
<1>11. Poses(sh, s)
  <2> SUFFICES ASSUME NEW i \in DOMAIN sh, NEW k \in Served(s), Labels(sh[i], k)
               PROVE  sh[i].map = Map(records[s.version][k], s.seed, k.number)
    BY DEF Poses
  <2>1. q[i] \in Served(s) /\ q[i].round = k.round /\ q[i].number = k.number
    BY <1>3, <1>6 DEF Labels
  <2>2. q[i] = k
    BY <1>9, <2>1
  <2> QED
    BY <1>6, <2>2
<1> QED
  BY <1>5, <1>10, <1>11

-----------------------------------------------------------------------------
(* The stored content under a session.                                     *)

LEMMA ContentMoves == [Next]_vars => [ContentNext]_contentVars
  BY DEF Next, RuntimeNext, vars, CreateSession, RenderSession, LoseAnswer, ReadBoard, Send,
     Resolve, Replace, Commit, Fail

\* A version that is stored keeps its rows; only what they hold may change.
LEMMA RecordsStay ==
    ASSUME TypeInv, RecordsFinite, [ContentNext]_contentVars
    PROVE  /\ RecordsFinite'
           /\ \A v \in 1..Len(records) : /\ v \in 1..Len(records')
                                         /\ DOMAIN records'[v] = DOMAIN records[v]
<1> USE DEF TypeInv
<1>1. CASE UNCHANGED records
  BY <1>1 DEF RecordsFinite
<1>2. ASSUME NEW d \in Drafts, Generate(d)
      PROVE  /\ RecordsFinite'
             /\ \A v \in 1..Len(records) : v \in 1..Len(records') /\ records'[v] = records[v]
  <2>1. d \in Documents /\ IsFiniteSet(DOMAIN d) /\ records' = Append(records, d)
    BY <1>2, ContentAssumption, DocumentsAreDocuments DEF Generate
  <2>2. /\ Len(records') = Len(records) + 1 /\ records'[Len(records) + 1] = d
        /\ \A v \in 1..Len(records) : records'[v] = records[v]
    BY <2>1
  <2> QED
    BY <2>1, <2>2 DEF RecordsFinite
<1>3. ASSUME NEW e \in Editors, SaveCommit(e)
      PROVE  /\ RecordsFinite'
             /\ \A v \in 1..Len(records) : /\ v \in 1..Len(records')
                                           /\ DOMAIN records'[v] = DOMAIN records[v]
  <2>1. PICK s, w : s = save[e] /\ w = s.version
    OBVIOUS
  <2>2. records' = [records EXCEPT ![w] = SyncedRows(s, records[w])]
    BY <1>3, <2>1 DEF SaveCommit
  <2>3. DOMAIN SyncedRows(s, records[w]) = DOMAIN records[w]
    BY DEF SyncedRows
  <2>4. /\ Len(records') = Len(records)
        /\ \A v \in 1..Len(records) : DOMAIN records'[v] = DOMAIN records[v]
    BY <2>2, <2>3
  <2> QED
    BY <2>4 DEF RecordsFinite
<1> QED
  BY <1>1, <1>2, <1>3 DEF ContentNext, contentVars, LoadPage, SaveRead, Reword

\* So a session is served the same decisions for ever.
LEMMA ServedStays ==
    ASSUME TypeInv, RecordsFinite, [ContentNext]_contentVars, NEW s, SessionLike(s)
    PROVE  SessionLike(s)' /\ Served(s)' = Served(s)
  BY RecordsStay DEF SessionLike, Served

-----------------------------------------------------------------------------
(* Pages and their submissions.                                            *)

\* Submission r asks what page sh shows: one item for each entry, and the
\* same units for entries of the same number.
Fits(r, sh) ==
    /\ r.shown = sh
    /\ \E n \in Nat : DOMAIN sh = 1..n /\ r.items = [i \in 1..n |-> r.items[i]]
    /\ \A i \in DOMAIN sh : r.items[i].number = sh[i].number
    /\ \A i, j \in DOMAIN sh :
          sh[i].number = sh[j].number => r.items[i].units = r.items[j].units

\* A submission asks what its page goes on showing.
Asks(r) ==
    /\ r.client \in Clients /\ phase[r.client] \in Showing
    /\ Fits(r, shown[r.client])

PagesInv ==
    /\ RecordsFinite /\ RequestsShaped
    /\ phase \in [Clients -> Phases]
    /\ session = [c \in Clients |-> session[c]] /\ shown = [c \in Clients |-> shown[c]]
    /\ \A c \in Clients : phase[c] # "open" => SessionLike(session[c])
    /\ \A c \in Clients : phase[c] \in Showing => Lists(shown[c], session[c])
    /\ \A q \in Requests : req[q] # NoRequest => Asks(req[q])

\* What a submission says is settled when it is sent.
SameAsked(q) ==
    /\ req'[q] = NoRequest <=> req[q] = NoRequest
    /\ req[q] # NoRequest =>
          /\ req'[q].client = req[q].client
          /\ req'[q].shown = req[q].shown /\ req'[q].items = req[q].items

LEMMA EndedFields ==
    ASSUME NEW r, Shaped(r), NEW end \in {"committed", "failed"}
    PROVE  LET new == [r EXCEPT !.at = end]
           IN /\ Shaped(new) /\ new.at = end /\ new.client = r.client
              /\ new.shown = r.shown /\ new.items = r.items
              /\ new.next = r.next /\ new.ins = r.ins /\ new.dels = r.dels
<1> DEFINE new == [r EXCEPT !.at = end]
<1>1. new = [at |-> end, client |-> r.client, shown |-> r.shown, next |-> r.next,
             items |-> r.items, dels |-> r.dels, ins |-> r.ins, scan |-> r.scan]
  BY DEF Shaped
<1> HIDE DEF new
<1> QED
  BY <1>1 DEF Shaped, new

\* One step of a submission.
LEMMA RequestMoves ==
    ASSUME RequestsShaped, NEW q \in Requests, Resolve(q) \/ Replace(q) \/ Commit(q) \/ Fail(q)
    PROVE  /\ RequestsShaped' /\ \A u \in Requests : SameAsked(u)
           /\ \A u \in Requests : u # q => req'[u] = req[u]
<1>1. req[q] # NoRequest /\ Shaped(req[q]) /\ req = [u \in Requests |-> req[u]]
  BY DEF Resolve, Replace, Commit, Complete, Fail, InFlight, NoRequest, RequestsShaped
<1>2. PICK new : /\ req' = [req EXCEPT ![q] = new] /\ Shaped(new) /\ new.client = req[q].client
                 /\ new.shown = req[q].shown /\ new.items = req[q].items
  <2>1. CASE Resolve(q)
    <3>1. PICK k \in Candidates(q) : req' = [req EXCEPT ![q] = Deleting(q, k)]
      BY <2>1 DEF Resolve
    <3>2. PICK new : new = Deleting(q, k)
      OBVIOUS
    <3>3. /\ Shaped(new) /\ new.client = req[q].client
          /\ new.shown = req[q].shown /\ new.items = req[q].items
      BY <1>1, <3>2, DeletingFields
    <3>4. req' = [req EXCEPT ![q] = new]
      BY <3>1, <3>2
    <3> QED
      BY <3>3, <3>4
  <2>2. CASE Replace(q)
    BY <1>1, <2>2, ReplacedFields DEF Replace
  <2>3. CASE Commit(q) \/ Fail(q)
    <3>1. PICK end \in {"committed", "failed"} : req' = [req EXCEPT ![q].at = end]
      BY <2>3 DEF Commit, Fail
    <3>2. req' = [req EXCEPT ![q] = [req[q] EXCEPT !.at = end]]
      BY <3>1
    <3> QED
      BY <1>1, <3>2, EndedFields
  <2> QED
    BY <2>1, <2>2, <2>3
<1>3. new # NoRequest
  BY <1>2 DEF Shaped, NoRequest
<1>4. req'[q] = new /\ \A u \in Requests : u # q => req'[u] = req[u]
  BY <1>1, <1>2
<1>5. RequestsShaped'
  BY <1>1, <1>2, <1>4 DEF RequestsShaped
<1>6. \A u \in Requests : SameAsked(u)
  BY <1>1, <1>2, <1>3, <1>4 DEF SameAsked
<1> QED
  BY <1>4, <1>5, <1>6

\* A page that shows its decisions goes on showing them.
LEMMA AsksStays ==
    ASSUME NEW q \in Requests, Asks(req[q]), SameAsked(q), req[q] # NoRequest,
           \A c \in Clients : phase[c] \in Showing => phase'[c] \in Showing /\ shown'[c] = shown[c]
    PROVE  Asks(req[q])'
<1>1. PICK r, new : r = req[q] /\ new = req'[q]
  OBVIOUS
<1>2. new.client = r.client /\ new.shown = r.shown /\ new.items = r.items
  BY <1>1 DEF SameAsked
<1>3. /\ r.client \in Clients /\ phase[r.client] \in Showing /\ Fits(r, shown[r.client])
  BY <1>1 DEF Asks
<1>4. phase'[r.client] \in Showing /\ shown'[r.client] = shown[r.client]
  BY <1>3
<1>5. Fits(new, shown[r.client])
  BY <1>2, <1>3 DEF Fits
<1> QED
  BY <1>1, <1>2, <1>3, <1>4, <1>5 DEF Asks

LEMMA SessionsStay ==
    ASSUME TypeInv, PagesInv, [ContentNext]_contentVars, UNCHANGED <<session, shown>>,
           phase' \in [Clients -> Phases],
           \A c \in Clients : phase'[c] # phase[c] => {phase[c], phase'[c]} \subseteq Showing
    PROVE  /\ \A c \in Clients : phase'[c] # "open" => SessionLike(session[c])'
           /\ \A c \in Clients : phase'[c] \in Showing => Lists(shown[c], session[c])'
<1>1. ASSUME NEW c \in Clients, phase'[c] # "open"
      PROVE  /\ SessionLike(session[c])'
             /\ phase'[c] \in Showing => Lists(shown[c], session[c])'
  <2>1. phase[c] # "open" /\ (phase'[c] \in Showing => phase[c] \in Showing)
    BY <1>1 DEF Showing
  <2>2. PICK s, sh : s = session[c] /\ sh = shown[c]
    OBVIOUS
  <2>3. SessionLike(s) /\ (phase[c] \in Showing => Lists(sh, s))
    BY <2>1, <2>2 DEF PagesInv
  <2>4. RecordsFinite
    BY DEF PagesInv
  <2>5. SessionLike(s)' /\ Served(s)' = Served(s)
    BY <2>3, <2>4, ServedStays
  <2>6. session'[c] = s /\ shown'[c] = sh
    BY <2>2
  <2>7. SessionLike(session[c])'
    BY <2>5, <2>6 DEF SessionLike
  <2>8. ASSUME phase'[c] \in Showing PROVE Lists(shown[c], session[c])'
    <3>1. ListsAll(sh, Served(s)')
      BY <2>1, <2>3, <2>5, <2>8 DEF Lists
    <3> QED
      BY <2>6, <3>1 DEF Lists, Served
  <2> QED
    BY <2>7, <2>8
<1> QED
  BY <1>1 DEF Showing

LEMMA PagesInit == Init => PagesInv
  BY DEF Init, ContentInit, PagesInv, RecordsFinite, RequestsShaped, Phases, Showing

LEMMA CreateKeepsPages ==
    ASSUME TypeInv, PagesInv, NEW c \in Clients, NEW p \in Owners, NEW seed \in Seeds,
           CreateSession(c, p, seed)
    PROVE  PagesInv'
<1> DEFINE s == [open |-> TRUE, version |-> Latest, owner |-> p, seed |-> seed]
<1>1. /\ session' = [session EXCEPT ![c] = s] /\ phase' = [phase EXCEPT ![c] = "created"]
      /\ UNCHANGED <<records, shown, req>> /\ phase[c] = "open"
  BY DEF CreateSession, contentVars
<1>2. SessionLike(s)
  BY DEF CreateSession, SessionLike, Latest, TypeInv
<1> HIDE DEF s
<1>3. /\ session'[c] = s /\ \A d \in Clients \ {c} : session'[d] = session[d] /\ phase'[d] = phase[d]
      /\ phase'[c] = "created"
  BY <1>1 DEF PagesInv
<1>4. \A q \in Requests : req'[q] # NoRequest => Asks(req[q])'
  BY <1>1, <1>3 DEF PagesInv, Asks, Showing
<1>5. \A d \in Clients : phase'[d] # "open" => SessionLike(session[d])'
  BY <1>1, <1>2, <1>3 DEF PagesInv, SessionLike
<1>6. \A d \in Clients : phase'[d] \in Showing => Lists(shown[d], session[d])'
  BY <1>1, <1>3 DEF PagesInv, Lists, Served, Showing
<1> QED
  BY <1>1, <1>3, <1>4, <1>5, <1>6 DEF PagesInv, RecordsFinite, RequestsShaped, Shaped, Phases

LEMMA RenderKeepsPages ==
    ASSUME TypeInv, PagesInv, NEW c \in Clients, RenderSession(c)
    PROVE  PagesInv'
<1>1. /\ shown' = [shown EXCEPT ![c] = Rendered(session[c])] /\ phase' = [phase EXCEPT ![c] = "allocate"]
      /\ UNCHANGED <<records, session, req>> /\ phase[c] = "created"
  BY DEF RenderSession, contentVars
<1>2. SessionLike(session[c])
  BY <1>1 DEF PagesInv
<1>3. Lists(Rendered(session[c]), session[c])
  BY <1>2, RenderedFits DEF PagesInv
<1>4. /\ shown'[c] = Rendered(session[c])
      /\ \A d \in Clients \ {c} : shown'[d] = shown[d] /\ phase'[d] = phase[d]
      /\ phase'[c] = "allocate"
  BY <1>1 DEF PagesInv
<1>5. \A q \in Requests : req'[q] # NoRequest => Asks(req[q])'
  BY <1>1, <1>4 DEF PagesInv, Asks, Showing
<1>6. \A d \in Clients : phase'[d] # "open" => SessionLike(session[d])'
  BY <1>1, <1>2, <1>4 DEF PagesInv, SessionLike
<1>7. \A d \in Clients : phase'[d] \in Showing => Lists(shown[d], session[d])'
  BY <1>1, <1>3, <1>4, ZenonT(40) DEF PagesInv, Lists, Served, Showing
<1> QED
  BY <1>1, <1>4, <1>5, <1>6, <1>7 DEF PagesInv, RecordsFinite, RequestsShaped, Shaped, Phases

LEMMA SendKeepsPages ==
    ASSUME TypeInv, PagesInv, NEW c \in Clients, NEW fill, Send(c, fill)
    PROVE  PagesInv'
<1>1. PICK q \in NextRequest :
         req' = [req EXCEPT ![q] =
                       [at |-> "ready", client |-> c, shown |-> shown[c], next |-> 1,
                        items |-> [i \in DOMAIN shown[c] |->
                                      [number |-> shown[c][i].number,
                                       units |-> fill[shown[c][i].number]]],
                        dels |-> {}, ins |-> {}, scan |-> {}]]
  BY DEF Send
<1> DEFINE items == [i \in DOMAIN shown[c] |-> [number |-> shown[c][i].number,
                                                units |-> fill[shown[c][i].number]]]
           new == [at |-> "ready", client |-> c, shown |-> shown[c], next |-> 1,
                   items |-> items, dels |-> {}, ins |-> {}, scan |-> {}]
<1>2. /\ q \in Requests /\ req[q] = NoRequest /\ UNCHANGED <<records, session, shown>>
      /\ phase[c] = "allocate" /\ phase' = [phase EXCEPT ![c] = "waiting"]
  BY DEF NextRequest, Send, contentVars
<1>3. req' = [req EXCEPT ![q] = new]
  BY <1>1
<1>4. Shaped(new)
  BY DEF Shaped
<1>5. /\ new.client = c /\ new.shown = shown[c] /\ new.items = items
      /\ DOMAIN items = DOMAIN shown[c]
      /\ \A i \in DOMAIN shown[c] : items[i].number = shown[c][i].number
                                    /\ items[i].units = fill[shown[c][i].number]
      /\ items = [i \in DOMAIN shown[c] |-> items[i]]
  OBVIOUS
<1> HIDE DEF new, items
<1>6. /\ req'[q] = new /\ \A u \in Requests : u # q => req'[u] = req[u]
      /\ req' = [u \in Requests |-> req'[u]]
  BY <1>2, <1>3 DEF PagesInv, RequestsShaped
<1>7. RequestsShaped'
  BY <1>4, <1>6 DEF PagesInv, RequestsShaped
<1>8. /\ phase'[c] = "waiting" /\ \A d \in Clients \ {c} : phase'[d] = phase[d]
      /\ phase' \in [Clients -> Phases]
  BY <1>2 DEF PagesInv, Phases
<1>9. Asks(req[q])'
  <2>1. PICK sh : sh = shown[c]
    OBVIOUS
  <2>2. Lists(sh, session[c])
    BY <1>2, <2>1 DEF PagesInv, Showing
  <2>3. PICK n \in Nat : DOMAIN sh = 1..n
    BY <2>2 DEF Lists, ListsAll
  <2>4. items = [i \in 1..n |-> items[i]]
    BY <1>5, <2>1, <2>3
  <2>5. Fits(new, sh)
    <3>1. \A i \in DOMAIN sh : items[i].number = sh[i].number
      BY <1>5, <2>1
    <3>2. ASSUME NEW i \in DOMAIN sh, NEW j \in DOMAIN sh, sh[i].number = sh[j].number
          PROVE  items[i].units = items[j].units
      <4>1. /\ items[i].units = fill[sh[i].number]
            /\ items[j].units = fill[sh[j].number]
        BY <1>5, <2>1
      <4> QED
        BY <3>2, <4>1
    <3>3. new.shown = sh /\ new.items = items
      BY <1>5, <2>1
    <3> QED
      BY <2>3, <2>4, <3>1, <3>2, <3>3 DEF Fits
  <2> QED
    BY <1>2, <1>5, <1>6, <1>8, <2>1, <2>5 DEF Asks, Showing
<1>10. \A u \in Requests : u # q /\ req'[u] # NoRequest => Asks(req[u])'
  BY <1>2, <1>6, <1>8 DEF PagesInv, Asks, Showing
<1>11. /\ \A d \in Clients : phase'[d] # "open" => SessionLike(session[d])'
       /\ \A d \in Clients : phase'[d] \in Showing => Lists(shown[d], session[d])'
  <2>1. UNCHANGED contentVars
    BY DEF Send
  <2> QED
    BY <1>2, <1>8, <2>1, SessionsStay DEF Showing
<1> QED
  BY <1>2, <1>7, <1>8, <1>9, <1>10, <1>11 DEF PagesInv, RecordsFinite

\* The other steps change neither sessions nor what pages show.
LEMMA OthersKeepPages ==
    ASSUME TypeInv, PagesInv, [Next]_vars,
           \/ \E c \in Clients : LoseAnswer(c) \/ ReadBoard(c)
           \/ \E q \in Requests : Resolve(q) \/ Replace(q) \/ Commit(q) \/ Fail(q)
           \/ UNCHANGED runtimeVars
    PROVE  PagesInv'
<1>1. [ContentNext]_contentVars /\ UNCHANGED <<session, shown>>
  BY ContentMoves DEF LoseAnswer, ReadBoard, Resolve, Replace, Commit, Fail, runtimeVars
<1>2. /\ phase' \in [Clients -> Phases]
      /\ \A c \in Clients : phase'[c] # phase[c] => {phase[c], phase'[c]} \subseteq Showing
  <2>1. CASE \E c \in Clients : LoseAnswer(c) \/ ReadBoard(c)
    BY <2>1 DEF LoseAnswer, ReadBoard, PagesInv, Phases, Showing
  <2>2. CASE \E q \in Requests : Fail(q)
    BY <2>2 DEF Fail, PagesInv, Phases, Showing
  <2>3. CASE UNCHANGED phase
    BY <2>3 DEF PagesInv
  <2> QED
    BY <2>1, <2>2, <2>3 DEF Resolve, Replace, Commit, runtimeVars
<1>3. RequestsShaped' /\ \A q \in Requests : SameAsked(q)
  <2>1. CASE UNCHANGED req
    BY <2>1 DEF PagesInv, RequestsShaped, Shaped, SameAsked
  <2>2. CASE \E q \in Requests : Resolve(q) \/ Replace(q) \/ Commit(q) \/ Fail(q)
    BY <2>2, RequestMoves DEF PagesInv
  <2> QED
    BY <2>1, <2>2 DEF LoseAnswer, ReadBoard, runtimeVars
<1>4. \A q \in Requests : req'[q] # NoRequest => Asks(req[q])'
  <2>1. \A c \in Clients : phase[c] \in Showing => phase'[c] \in Showing /\ shown'[c] = shown[c]
    BY <1>1, <1>2
  <2>2. ASSUME NEW q \in Requests, req'[q] # NoRequest PROVE Asks(req[q])'
    <3>1. req[q] # NoRequest /\ Asks(req[q]) /\ SameAsked(q)
      BY <1>3, <2>2 DEF PagesInv, SameAsked
    <3> QED
      BY <2>1, <3>1, AsksStays
  <2> QED
    BY <2>2
<1>5. /\ \A c \in Clients : phase'[c] # "open" => SessionLike(session[c])'
      /\ \A c \in Clients : phase'[c] \in Showing => Lists(shown[c], session[c])'
  BY <1>1, <1>2, SessionsStay
<1>6. RecordsFinite'
  BY <1>1, RecordsStay DEF PagesInv
<1> QED
  BY <1>1, <1>2, <1>3, <1>4, <1>5, <1>6 DEF PagesInv

LEMMA PagesStep ==
    ASSUME TypeInv, PagesInv, [Next]_vars
    PROVE  PagesInv'
<1>1. ASSUME NEW c \in Clients, NEW p \in Owners, NEW seed \in Seeds, CreateSession(c, p, seed)
      PROVE  PagesInv'
  BY <1>1, CreateKeepsPages
<1>2. ASSUME NEW c \in Clients, RenderSession(c) PROVE PagesInv'
  BY <1>2, RenderKeepsPages
<1>3. ASSUME NEW c \in Clients, NEW fill, Send(c, fill) PROVE PagesInv'
  BY <1>3, SendKeepsPages
<1>4. CASE \/ \E c \in Clients : LoseAnswer(c) \/ ReadBoard(c)
           \/ \E q \in Requests : Resolve(q) \/ Replace(q) \/ Commit(q) \/ Fail(q)
           \/ UNCHANGED runtimeVars
  BY <1>4, OthersKeepPages
<1> QED
  BY <1>1, <1>2, <1>3, <1>4 DEF Next, RuntimeNext, vars

LEMMA PagesInvariant == Spec => [](TypeInv /\ PagesInv)
<1>1. Init => TypeInv /\ PagesInv
  BY TypeInvInit, PagesInit DEF Init
<1>2. TypeInv /\ PagesInv /\ [Next]_vars => (TypeInv /\ PagesInv)'
  BY TypeInvNext, PagesStep, ContentMoves
<1> QED
  BY <1>1, <1>2, PTL DEF Spec

-----------------------------------------------------------------------------
(***************************************************************************)
(* A stored allocation says what the participant meant.                    *)
(***************************************************************************)

\* No save and no run changes the order in which a stored row has its options.
\* (A page that was loaded before a later version was generated is saved over
\* that version, with the orders of the document it was loaded from.)
KeepsOrders ==
    \A v \in 1..Len(records) : \A k \in DOMAIN records[v] :
       records'[v][k].order = records[v][k].order

\* An order names every posture.
Onto(order) == order \in Listings

MeaningInv ==
    /\ \A v \in 1..Len(records) : \A k \in DOMAIN records[v] : Onto(records[v][k].order)
    /\ \A c \in Clients : phase[c] \in Showing => Poses(shown[c], session[c])
    /\ \A q \in Requests : req[q] # NoRequest => req[q].ins \subseteq Meant(q)
    /\ \A r \in rows : r.by \in Requests /\ req[r.by] # NoRequest /\ r \in Meant(r.by)

LEMMA OrdersStay ==
    ASSUME TypeInv, RecordsFinite, [ContentNext]_contentVars, KeepsOrders,
           \A v \in 1..Len(records) : \A k \in DOMAIN records[v] : Onto(records[v][k].order)
    PROVE  \A v \in 1..Len(records') : \A k \in DOMAIN records'[v] : Onto(records'[v][k].order)
<1>1. \A v \in 1..Len(records) : \A k \in DOMAIN records'[v] : Onto(records'[v][k].order)
  BY RecordsStay DEF KeepsOrders
<1>2. CASE Len(records') = Len(records)
  BY <1>1, <1>2
<1>3. ASSUME NEW d \in Drafts, Generate(d)
      PROVE  \A v \in 1..Len(records') : \A k \in DOMAIN records'[v] : Onto(records'[v][k].order)
  <2>1. \A k \in DOMAIN d : Onto(d[k].order)
    BY RuntimeAssumption DEF Onto
  <2>2. records' = Append(records, d) /\ records \in Seq(Documents) /\ d \in Documents
    BY <1>3, ContentAssumption, DocumentsAreDocuments DEF Generate, TypeInv
  <2>3. /\ Len(records') = Len(records) + 1 /\ records'[Len(records) + 1] = d
        /\ Len(records) \in Nat
    BY <2>2
  <2> QED
    BY <1>1, <2>1, <2>3
<1>4. ASSUME NEW e \in Editors, SaveCommit(e) PROVE Len(records') = Len(records)
  BY <1>4 DEF SaveCommit, TypeInv
<1> QED
  BY <1>2, <1>3, <1>4 DEF ContentNext, contentVars, LoadPage, SaveRead, Reword

\* The letters of a page keep their meaning.
LEMMA PosesStays ==
    ASSUME TypeInv, RecordsFinite, [ContentNext]_contentVars, KeepsOrders,
           NEW s, SessionLike(s), NEW sh, Poses(sh, s)
    PROVE  Poses(sh, s)'
<1>1. Served(s)' = Served(s)
  BY ServedStays
<1> SUFFICES ASSUME NEW i \in DOMAIN sh, NEW k \in Served(s), Labels(sh[i], k)
             PROVE  sh[i].map = Map(records'[s.version][k], s.seed, k.number)
  BY <1>1 DEF Poses
<1>2. sh[i].map = Map(records[s.version][k], s.seed, k.number)
  BY DEF Poses
<1>3. records'[s.version][k].order = records[s.version][k].order
  BY DEF KeepsOrders, SessionLike, Served
<1> QED
  BY <1>2, <1>3 DEF Map

\* What submission q, with record r, means on the entry i of its page.
MeantAt(q, r, i) ==
    [client |-> r.client, by |-> q, round |-> r.shown[i].round, number |-> r.shown[i].number,
     units |-> ByPosture(r.items[i].units, r.shown[i].map, Postures)]

LEMMA MeantIs == \A q : Meant(q) = {MeantAt(q, req[q], i) : i \in DOMAIN req[q].shown}
  BY DEF Meant, MeantAt

LEMMA MeantStays ==
    ASSUME NEW q \in Requests, req[q] # NoRequest, SameAsked(q) PROVE Meant(q)' = Meant(q)
<1>1. PICK r, new : r = req[q] /\ new = req'[q]
  OBVIOUS
<1>2. new.client = r.client /\ new.shown = r.shown /\ new.items = r.items
  BY <1>1 DEF SameAsked
<1>3. \A i : MeantAt(q, new, i) = MeantAt(q, r, i)
  BY <1>2 DEF MeantAt
<1>4. Meant(q) = {MeantAt(q, r, i) : i \in DOMAIN r.shown}
  BY <1>1, MeantIs
<1>5. Meant(q)' = {MeantAt(q, new, i) : i \in DOMAIN new.shown}
  BY <1>1 DEF Meant, MeantAt
<1> QED
  BY <1>2, <1>3, <1>4, <1>5

\* Every posture is behind some letter.
LEMMA MapIsOnto ==
    ASSUME NEW b, Onto(b.order), NEW seed \in Seeds, NEW k \in Keys
    PROVE  /\ Map(b, seed, k.number) \in Listings
           /\ {Map(b, seed, k.number)[l] : l \in Letters} = Postures
<1>1. PICK f : f = Shuffle[seed, k.number]
  OBVIOUS
<1>2. f \in [Letters -> Letters] /\ \A i \in Letters : \E l \in Letters : f[l] = i
  BY <1>1, RuntimeAssumption
<1>3. /\ b.order \in [Letters -> Postures]
      /\ \A p \in Postures : \E l \in Letters : b.order[l] = p
  BY DEF Onto, Listings
<1>4. PICK m : m = Map(b, seed, k.number)
  OBVIOUS
<1>5. m = [l \in Letters |-> b.order[f[l]]]
  BY <1>1, <1>4 DEF Map
<1>6. m \in [Letters -> Postures] /\ \A p \in Postures : \E l \in Letters : m[l] = p
  BY <1>2, <1>3, <1>5
<1> QED
  BY <1>4, <1>6 DEF Listings

\* What submit_allocation makes of an item is what the page meant by it: a
\* decision of another round that has the same number has the same units.
LEMMA AllocationIsMeant ==
    ASSUME TypeInv, PagesInv, MeaningInv, NEW q \in Requests, req[q].at = "ready",
           req[q].next <= Len(req[q].items), NEW k \in Candidates(q)
    PROVE  Allocation(q, k) \in Meant(q)
<1>1. PICK r, s, sh, u : /\ r = req[q] /\ s = session[r.client] /\ sh = shown[r.client]
                         /\ u = r.items[r.next].units
  OBVIOUS
<1>2. r # NoRequest /\ Shaped(r) /\ Asks(r)
  BY <1>1 DEF PagesInv, RequestsShaped, NoRequest
<1>3. /\ r.client \in Clients /\ r.shown = sh /\ Fits(r, sh)
      /\ Lists(sh, s) /\ Poses(sh, s) /\ SessionLike(s)
  BY <1>1, <1>2, ZenonT(40) DEF Asks, Fits, PagesInv, MeaningInv, Showing
<1>4. k \in Served(s) /\ k.number = r.items[r.next].number
  BY <1>1 DEF Candidates, SessionOf, Item
<1>5. PICK i \in DOMAIN sh : Labels(sh[i], k)
  BY <1>3, <1>4 DEF Lists, ListsAll
<1>6. r.next \in DOMAIN sh
  <2>1. PICK n \in Nat : DOMAIN sh = 1..n /\ r.items = [j \in 1..n |-> r.items[j]]
    BY <1>3 DEF Fits
  <2>2. Len(r.items) = n
    BY <2>1
  <2> QED
    BY <1>1, <1>2, <2>1, <2>2 DEF Shaped
<1>7. r.items[i].units = u
  BY <1>1, <1>3, <1>4, <1>5, <1>6, SMTT(30) DEF Fits, Labels
<1>8. PICK m : m = Map(records[s.version][k], s.seed, k.number)
  OBVIOUS
<1>9. sh[i].map = m
  BY <1>3, <1>4, <1>5, <1>8 DEF Poses
<1>10. {m[l] : l \in Letters} = Postures
  <2>1. k \in Keys
    BY <1>3, <1>4, ServedKeys DEF PagesInv
  <2>2. Onto(records[s.version][k].order)
    BY <1>3, <1>4 DEF MeaningInv, SessionLike, Served
  <2> QED
    BY <1>3, <1>8, <2>1, <2>2, MapIsOnto DEF SessionLike
<1>11. Allocation(q, k) = [client |-> r.client, round |-> k.round, number |-> k.number,
                           by |-> q, units |-> ByPosture(u, m, Postures)]
  BY <1>1, <1>8, <1>10 DEF Allocation, SessionOf, Item
<1>12. MeantAt(q, r, i) = [client |-> r.client, round |-> k.round, number |-> k.number,
                           by |-> q, units |-> ByPosture(u, m, Postures)]
  BY <1>3, <1>5, <1>7, <1>9 DEF MeantAt, Labels
<1>13. MeantAt(q, r, i) \in Meant(q)
  BY <1>1, <1>3, <1>5, MeantIs
<1> QED
  BY <1>11, <1>12, <1>13

\* Submissions keep what they mean, and so do the rows, while none inserts.
LEMMA MeaningStays ==
    ASSUME MeaningInv, UNCHANGED rows, \A q \in Requests : req[q] # NoRequest => SameAsked(q),
           \A q \in Requests : req'[q] # NoRequest =>
              IF req[q] = NoRequest THEN req'[q].ins = {} ELSE req'[q].ins \subseteq Meant(q)
    PROVE  /\ \A q \in Requests : req'[q] # NoRequest => req'[q].ins \subseteq Meant(q)'
           /\ \A r \in rows' : r.by \in Requests /\ req'[r.by] # NoRequest /\ r \in Meant(r.by)'
<1>1. ASSUME NEW q \in Requests, req'[q] # NoRequest PROVE req'[q].ins \subseteq Meant(q)'
  <2>1. CASE req[q] = NoRequest
    BY <1>1, <2>1
  <2>2. CASE req[q] # NoRequest
    BY <1>1, <2>2, MeantStays
  <2> QED
    BY <2>1, <2>2
<1>2. ASSUME NEW r \in rows PROVE r.by \in Requests /\ req'[r.by] # NoRequest /\ r \in Meant(r.by)'
  <2>1. PICK q : q = r.by
    OBVIOUS
  <2>2. q \in Requests /\ req[q] # NoRequest /\ r \in Meant(q) /\ SameAsked(q)
    BY <2>1 DEF MeaningInv
  <2>3. r \in Meant(q)'
    BY <2>2, MeantStays
  <2>4. req'[q] # NoRequest
    BY <2>2 DEF SameAsked
  <2> QED
    BY <2>1, <2>2, <2>3, <2>4 DEF Meant
<1> QED
  BY <1>1, <1>2

\* What a submission is to insert, after one of its steps.
LEMMA InsertsAreMeant ==
    ASSUME TypeInv, PagesInv, MeaningInv, NEW q \in Requests, Resolve(q) \/ Replace(q) \/ Commit(q) \/ Fail(q)
    PROVE  req[q] # NoRequest /\ req'[q].ins \subseteq Meant(q)
<1>1. req[q] # NoRequest /\ Shaped(req[q]) /\ req = [u \in Requests |-> req[u]]
  BY DEF Resolve, Replace, Commit, Complete, Fail, InFlight, NoRequest, PagesInv, RequestsShaped
<1>2. req[q].ins \subseteq Meant(q)
  BY <1>1 DEF MeaningInv
<1>3. CASE Resolve(q)
  <2>1. PICK k \in Candidates(q) : req' = [req EXCEPT ![q] = Deleting(q, k)]
    BY <1>3 DEF Resolve
  <2>2. Allocation(q, k) \in Meant(q)
    BY <1>3, <2>1, AllocationIsMeant DEF Resolve
  <2>3. Deleting(q, k).ins \subseteq req[q].ins \union {Allocation(q, k)}
    BY <1>1, DeletingFields
  <2>4. req'[q] = Deleting(q, k)
    BY <1>1, <2>1
  <2> QED
    BY <1>1, <1>2, <2>2, <2>3, <2>4
<1>4. CASE Replace(q)
  <2>1. req'[q] = Replaced(q)
    BY <1>1, <1>4 DEF Replace
  <2>2. Replaced(q).ins = req[q].ins
    BY <1>1, ReplacedFields
  <2> QED
    BY <1>1, <1>2, <2>1, <2>2
<1>5. CASE Commit(q) \/ Fail(q)
  <2>1. PICK end \in {"committed", "failed"} : req' = [req EXCEPT ![q].at = end]
    BY <1>5 DEF Commit, Fail
  <2>2. req'[q] = [req[q] EXCEPT !.at = end]
    BY <1>1, <2>1
  <2>3. req'[q].ins = req[q].ins
    BY <1>1, <2>2, EndedFields
  <2> QED
    BY <1>1, <1>2, <2>3
<1> QED
  BY <1>3, <1>4, <1>5

LEMMA MeaningInit == Init => MeaningInv
  BY DEF Init, ContentInit, MeaningInv, Showing

\* Pages keep showing letters with the meaning they had.
LEMMA PosesOnPages ==
    ASSUME TypeInv, PagesInv, MeaningInv, [Next]_vars, KeepsOrders
    PROVE  \A c \in Clients : phase'[c] \in Showing => Poses(shown[c], session[c])'
<1> SUFFICES ASSUME NEW c \in Clients, phase'[c] \in Showing PROVE Poses(shown[c], session[c])'
  OBVIOUS
<1>1. [ContentNext]_contentVars /\ RecordsFinite
  BY ContentMoves DEF PagesInv
<1>2. PICK s, sh : s = session'[c] /\ sh = shown'[c]
  OBVIOUS
<1>3. SessionLike(s) /\ Poses(sh, s)
  <2>1. CASE RenderSession(c)
    <3>1. s = session[c] /\ sh = Rendered(session[c]) /\ phase[c] # "open"
      BY <1>2, <2>1 DEF RenderSession, PagesInv
    <3>2. SessionLike(s)
      BY <3>1 DEF PagesInv
    <3> QED
      BY <1>1, <3>1, <3>2, RenderedFits
  <2>2. CASE phase[c] \in Showing /\ session'[c] = session[c] /\ shown'[c] = shown[c]
    BY <1>2, <2>2 DEF PagesInv, MeaningInv, Showing
  <2>3. RenderSession(c) \/ (phase[c] \in Showing /\ session'[c] = session[c] /\ shown'[c] = shown[c])
    <3>1. ASSUME NEW d \in Clients, NEW p \in Owners, NEW seed \in Seeds, CreateSession(d, p, seed)
          PROVE  phase[c] \in Showing /\ session'[c] = session[c] /\ shown'[c] = shown[c]
      BY <3>1 DEF CreateSession, PagesInv, Showing
    <3>2. ASSUME NEW d \in Clients, RenderSession(d), d # c
          PROVE  phase[c] \in Showing /\ session'[c] = session[c] /\ shown'[c] = shown[c]
      BY <3>2 DEF RenderSession, PagesInv, Showing
    <3>3. ASSUME NEW d \in Clients, LoseAnswer(d) \/ ReadBoard(d) \/ \E fill : Send(d, fill)
          PROVE  phase[c] \in Showing /\ session'[c] = session[c] /\ shown'[c] = shown[c]
      BY <3>3 DEF LoseAnswer, ReadBoard, Send, PagesInv, Showing
    <3>4. ASSUME NEW q \in Requests, Resolve(q) \/ Replace(q) \/ Commit(q) \/ Fail(q)
          PROVE  phase[c] \in Showing /\ session'[c] = session[c] /\ shown'[c] = shown[c]
      BY <3>4 DEF Resolve, Replace, Commit, Fail, PagesInv, Showing
    <3>5. CASE UNCHANGED runtimeVars
      BY <3>5 DEF runtimeVars
    <3> QED
      BY <3>1, <3>2, <3>3, <3>4, <3>5 DEF Next, RuntimeNext, vars
  <2> QED
    BY <2>1, <2>2, <2>3
<1>4. Poses(sh, s)'
  BY <1>1, <1>3, PosesStays
<1> QED
  BY <1>2, <1>4 DEF Poses, Served

LEMMA MeaningStep ==
    ASSUME TypeInv, PagesInv, MeaningInv, [Next]_vars, KeepsOrders
    PROVE  MeaningInv'
<1>1. [ContentNext]_contentVars /\ RecordsFinite
  BY ContentMoves DEF PagesInv
<1>2. \A v \in 1..Len(records') : \A k \in DOMAIN records'[v] : Onto(records'[v][k].order)
  BY <1>1, OrdersStay DEF MeaningInv
<1>3. \A c \in Clients : phase'[c] \in Showing => Poses(shown[c], session[c])'
  BY PosesOnPages
<1>4. /\ \A q \in Requests : req'[q] # NoRequest => req'[q].ins \subseteq Meant(q)'
      /\ \A r \in rows' : r.by \in Requests /\ req'[r.by] # NoRequest /\ r \in Meant(r.by)'
  <2>1. CASE UNCHANGED <<req, rows>>
    BY <2>1, MeaningStays DEF SameAsked, MeaningInv
  <2>2. ASSUME NEW c \in Clients, NEW fill, Send(c, fill),
               NEW q \in NextRequest, NEW new, new.ins = {}, req' = [req EXCEPT ![q] = new]
        PROVE  \A u \in Requests : /\ req[u] # NoRequest => SameAsked(u) /\ req'[u] = req[u]
                                   /\ req[u] = NoRequest /\ req'[u] # NoRequest => req'[u].ins = {}
    BY <2>2 DEF NextRequest, SameAsked, PagesInv, RequestsShaped
  <2>3. ASSUME NEW c \in Clients, NEW fill, Send(c, fill)
        PROVE  /\ UNCHANGED rows
               /\ \A u \in Requests : /\ req[u] # NoRequest => SameAsked(u) /\ req'[u] = req[u]
                                      /\ req[u] = NoRequest /\ req'[u] # NoRequest => req'[u].ins = {}
    <3>1. UNCHANGED rows
      BY <2>3 DEF Send
    <3>2. PICK q, new : q \in NextRequest /\ new.ins = {} /\ req' = [req EXCEPT ![q] = new]
      BY <2>3 DEF Send
    <3> QED
      BY <2>2, <2>3, <3>1, <3>2
  <2>4. CASE \E c \in Clients : \E fill : Send(c, fill)
    BY <2>3, <2>4, MeaningStays DEF MeaningInv
  <2>5. ASSUME NEW q \in Requests, Resolve(q) \/ Replace(q) \/ Commit(q) \/ Fail(q)
        PROVE  /\ \A u \in Requests : SameAsked(u)
               /\ \A u \in Requests : req'[u] # NoRequest =>
                     req[u] # NoRequest /\ req'[u].ins \subseteq Meant(u)
    BY <2>5, RequestMoves, InsertsAreMeant DEF PagesInv, MeaningInv
  <2>6. ASSUME NEW q \in Requests, Resolve(q) \/ Replace(q) \/ Fail(q)
        PROVE  /\ \A u \in Requests : req'[u] # NoRequest => req'[u].ins \subseteq Meant(u)'
               /\ \A r \in rows' : r.by \in Requests /\ req'[r.by] # NoRequest /\ r \in Meant(r.by)'
    <3>1. UNCHANGED rows
      BY <2>6 DEF Resolve, Replace, Fail
    <3> QED
      BY <2>5, <2>6, <3>1, MeaningStays
  <2>7. ASSUME NEW q \in Requests, Commit(q)
        PROVE  /\ \A u \in Requests : req'[u] # NoRequest => req'[u].ins \subseteq Meant(u)'
               /\ \A r \in rows' : r.by \in Requests /\ req'[r.by] # NoRequest /\ r \in Meant(r.by)'
    <3>1. \A u \in Requests : req[u] # NoRequest => Meant(u)' = Meant(u) /\ req'[u] # NoRequest
      BY <2>5, <2>7, MeantStays DEF SameAsked
    <3>2. \A u \in Requests : req'[u] # NoRequest => req'[u].ins \subseteq Meant(u)'
      BY <2>5, <2>7, <3>1
    <3>3. req[q] # NoRequest /\ req[q].ins \subseteq Meant(q)
      BY <2>7 DEF Commit, Complete, NoRequest, MeaningInv
    <3>4. \A r \in Meant(q) : r.by = q
      BY DEF Meant
    <3>5. ASSUME NEW r \in rows' PROVE r.by \in Requests /\ req[r.by] # NoRequest /\ r \in Meant(r.by)
      <4>1. r \in rows \/ r \in req[q].ins
        BY <2>7, <3>5 DEF Commit
      <4>2. CASE r \in rows
        BY <4>2 DEF MeaningInv
      <4>3. CASE r \in req[q].ins
        BY <3>3, <3>4, <4>3
      <4> QED
        BY <4>1, <4>2, <4>3
    <3>6. ASSUME NEW r \in rows' PROVE r.by \in Requests /\ req'[r.by] # NoRequest /\ r \in Meant(r.by)'
      <4>1. PICK u : u = r.by
        OBVIOUS
      <4>2. r \in Meant(u)' /\ req'[u] # NoRequest
        BY <3>1, <3>5, <4>1
      <4> QED
        BY <3>5, <4>1, <4>2 DEF Meant
    <3> QED
      BY <3>2, <3>6
  <2>8. CASE \E q \in Requests : Resolve(q) \/ Replace(q) \/ Commit(q) \/ Fail(q)
    BY <2>6, <2>7, <2>8
  <2> QED
    BY <2>1, <2>4, <2>8
       DEF Next, RuntimeNext, vars, runtimeVars, CreateSession, RenderSession, LoseAnswer, ReadBoard
<1> QED
  BY <1>2, <1>3, <1>4 DEF MeaningInv

\* What a stored allocation says of a decision is what the participant meant
\* by it when the page showed the letters, for any number of sessions,
\* submissions and versions, on either database, overlapping or not, as long
\* as the order of a stored decision's options stays (shuffle_options is
\* evaluated again for each submission).
THEOREM AllocationsAreAsShown == Spec /\ [][KeepsOrders]_vars => []StoredAsShown
<1>1. Init => MeaningInv
  BY MeaningInit
<1>2. MeaningInv => StoredAsShown
  BY DEF MeaningInv, StoredAsShown
<1>3. TypeInv /\ PagesInv /\ MeaningInv /\ [Next]_vars /\ [KeepsOrders]_vars => MeaningInv'
  <2>1. CASE KeepsOrders
    BY <2>1, MeaningStep
  <2>2. CASE UNCHANGED vars
    BY <2>2, MeaningStep DEF vars, contentVars, KeepsOrders
  <2> QED
    BY <2>1, <2>2
<1> QED
  BY <1>1, <1>2, <1>3, PagesInvariant, PTL DEF Spec

-----------------------------------------------------------------------------
(***************************************************************************)
(* The allocations of a session are one submission, all of it.             *)
(***************************************************************************)

\* A participant's decisions are told apart by their numbers: there is one
\* round of individual decisions.
OneIndividualRound ==
    \A d \in Drafts : \A k, l \in DOMAIN d :
       /\ k.type = "participant" /\ l.type = "participant"
       /\ k.owner = l.owner /\ k.number = l.number
       => k = l

NumbersTell(D) ==
    \A k, l \in D :
       /\ k.type = "participant" /\ l.type = "participant"
       /\ k.owner = l.owner /\ k.number = l.number
       => k = l

\* The rows of R of session c.
Of(R, c) == {r \in R : r.client = c}

\* Rows R answer every entry of page sh, and nothing else.
Answers(R, sh) ==
    /\ \A x \in R : \E i \in DOMAIN sh : Labels(sh[i], x)
    /\ \A i \in DOMAIN sh : \E x \in R : Labels(sh[i], x)

\* Submission q, with record r, is to insert an answer to each entry it has
\* come to, and deletes rows of its own session only.
Underway(q, r) ==
    /\ \A x \in r.ins : /\ x.client = r.client /\ x.by = q
                        /\ \E i \in DOMAIN r.shown : Labels(r.shown[i], x)
    /\ \A i \in DOMAIN r.shown :
          i < r.next \/ (i = r.next /\ r.at = "deleting") => \E x \in r.ins : Labels(r.shown[i], x)
    /\ \A x \in r.dels \union r.scan : x.client = r.client

\* A row is of a committed submission of its session, of the same one as every
\* other row of the session.
OneSubmission ==
    \A x \in rows : /\ x.by \in Requests /\ req[x.by].at = "committed"
                    /\ req[x.by].client = x.client
                    /\ \A y \in Of(rows, x.client) : y.by = x.by

WholeInv ==
    /\ \A v \in 1..Len(records) : NumbersTell(DOMAIN records[v])
    /\ \A q \in Requests : InFlight(q) => Underway(q, req[q])
    /\ OneSubmission
    /\ \A q \in Requests : req[q].at = "committed" => Answers(Of(rows, req[q].client), req[q].shown)

LEMMA NumbersStay ==
    ASSUME OneIndividualRound, TypeInv, RecordsFinite, [ContentNext]_contentVars,
           \A v \in 1..Len(records) : NumbersTell(DOMAIN records[v])
    PROVE  \A v \in 1..Len(records') : NumbersTell(DOMAIN records'[v])
<1>1. \A v \in 1..Len(records) : NumbersTell(DOMAIN records'[v])
  BY RecordsStay
<1>2. CASE Len(records') = Len(records)
  BY <1>1, <1>2
<1>3. ASSUME NEW d \in Drafts, Generate(d)
      PROVE  \A v \in 1..Len(records') : NumbersTell(DOMAIN records'[v])
  <2>1. NumbersTell(DOMAIN d)
    BY DEF OneIndividualRound, NumbersTell
  <2>2. records' = Append(records, d) /\ records \in Seq(Documents) /\ d \in Documents
    BY <1>3, ContentAssumption, DocumentsAreDocuments DEF Generate, TypeInv
  <2>3. /\ Len(records') = Len(records) + 1 /\ records'[Len(records) + 1] = d
        /\ Len(records) \in Nat
    BY <2>2
  <2> QED
    BY <1>1, <2>1, <2>3
<1>4. ASSUME NEW e \in Editors, SaveCommit(e) PROVE Len(records') = Len(records)
  BY <1>4 DEF SaveCommit, TypeInv
<1> QED
  BY <1>2, <1>3, <1>4 DEF ContentNext, contentVars, LoadPage, SaveRead, Reword

LEMMA WholeInit == Init => WholeInv
  BY DEF Init, ContentInit, WholeInv, OneSubmission, InFlight, NoRequest

\* The answer to an item answers every entry of the page with its number.
LEMMA ItemIsAnswered ==
    ASSUME TypeInv, PagesInv, WholeInv, NEW q \in Requests, req[q].at = "ready",
           req[q].next <= Len(req[q].items), NEW k \in Candidates(q)
    PROVE  /\ req[q].next \in DOMAIN req[q].shown
           /\ req[q].shown[req[q].next].number = Item(q).number
           /\ \E i \in DOMAIN req[q].shown : Labels(req[q].shown[i], Allocation(q, k))
           /\ \A i \in DOMAIN req[q].shown :
                 req[q].shown[i].number = Item(q).number => Labels(req[q].shown[i], Allocation(q, k))
<1>1. PICK r, s, sh, x : /\ r = req[q] /\ s = session[r.client] /\ sh = shown[r.client]
                         /\ x = Allocation(q, k)
  OBVIOUS
<1>2. r # NoRequest /\ Shaped(r) /\ Asks(r)
  BY <1>1 DEF PagesInv, RequestsShaped, NoRequest
<1>3. /\ r.client \in Clients /\ r.shown = sh /\ Fits(r, sh)
      /\ Lists(sh, s) /\ SessionLike(s)
  <2>1. r.client \in Clients /\ r.shown = sh /\ Fits(r, sh) /\ phase[r.client] \in Showing
    BY <1>1, <1>2 DEF Asks, Fits
  <2>2. phase[r.client] # "open"
    BY <2>1 DEF Showing
  <2> QED
    BY <1>1, <2>1, <2>2 DEF PagesInv
<1>4. k \in Served(s) /\ k.number = r.items[r.next].number
  BY <1>1 DEF Candidates, SessionOf, Item
<1>5. x.round = k.round /\ x.number = k.number
  BY <1>1 DEF Allocation
<1>6. r.next \in DOMAIN sh
  <2>1. PICK n \in Nat : DOMAIN sh = 1..n /\ r.items = [j \in 1..n |-> r.items[j]]
    BY <1>3 DEF Fits
  <2>2. Len(r.items) = n
    BY <2>1
  <2> QED
    BY <1>1, <1>2, <2>1, <2>2 DEF Shaped
<1>7. sh[r.next].number = r.items[r.next].number
  BY <1>3, <1>6 DEF Fits
<1>8. \E i \in DOMAIN sh : Labels(sh[i], x)
  BY <1>3, <1>4, <1>5 DEF Lists, ListsAll, Labels
<1>9. ASSUME NEW i \in DOMAIN sh, sh[i].number = k.number PROVE Labels(sh[i], x)
  <2>1. PICK l \in Served(s) : Labels(sh[i], l)
    BY <1>3 DEF Lists, ListsAll
  <2>2. NumbersTell(DOMAIN records[s.version])
    BY <1>3 DEF WholeInv, SessionLike
  <2>3. l = k
    BY <1>4, <1>9, <2>1, <2>2 DEF Labels, NumbersTell, Served
  <2> QED
    BY <1>5, <2>1, <2>3 DEF Labels
<1> QED
  BY <1>1, <1>3, <1>4, <1>6, <1>7, <1>8, <1>9 DEF Item

LEMMA ResolveIsUnderway ==
    ASSUME TypeInv, PagesInv, WholeInv, NEW q \in Requests, Resolve(q)
    PROVE  Underway(q, req'[q])
<1>1. PICK k \in Candidates(q) : req' = [req EXCEPT ![q] = Deleting(q, k)]
  BY DEF Resolve
<1>2. PICK r, new, x, n : r = req[q] /\ new = Deleting(q, k) /\ x = Allocation(q, k) /\ n = Item(q).number
  OBVIOUS
<1>3. r # NoRequest /\ Shaped(r) /\ Underway(q, r) /\ r.at = "ready"
  BY <1>2 DEF Resolve, PagesInv, RequestsShaped, NoRequest, WholeInv, InFlight
<1>4. req'[q] = new
  BY <1>1, <1>2 DEF PagesInv, RequestsShaped
<1>5. /\ new.client = r.client /\ new.shown = r.shown /\ new.next = r.next
      /\ new.dels = r.dels /\ new.scan = Superseded(q)
      /\ new.ins = {y \in r.ins : y.number # n} \union {x}
  BY <1>2, <1>3, DeletingFields
<1>6. x.client = r.client /\ x.by = q
  BY <1>2 DEF Allocation
<1>7. /\ r.next \in DOMAIN r.shown /\ r.shown[r.next].number = n
      /\ \E i \in DOMAIN r.shown : Labels(r.shown[i], x)
      /\ \A i \in DOMAIN r.shown : r.shown[i].number = n => Labels(r.shown[i], x)
  BY <1>1, <1>2, ItemIsAnswered DEF Resolve
<1>8. \A y \in Superseded(q) : y.client = r.client
  BY <1>2 DEF Superseded
<1>9. \A y \in new.ins : /\ y.client = r.client /\ y.by = q
                         /\ \E i \in DOMAIN r.shown : Labels(r.shown[i], y)
  BY <1>3, <1>5, <1>6, <1>7 DEF Underway
<1>10. ASSUME NEW i \in DOMAIN r.shown, i < r.next \/ i = r.next
       PROVE  \E y \in new.ins : Labels(r.shown[i], y)
  <2>1. CASE r.shown[i].number = n
    BY <1>5, <1>7, <2>1
  <2>2. CASE r.shown[i].number # n
    <3>1. i < r.next
      BY <1>7, <1>10, <2>2
    <3>2. PICK y \in r.ins : Labels(r.shown[i], y)
      BY <1>3, <3>1 DEF Underway
    <3> QED
      BY <1>5, <2>2, <3>2 DEF Labels
  <2> QED
    BY <2>1, <2>2
<1> QED
  BY <1>3, <1>4, <1>5, <1>8, <1>9, <1>10 DEF Underway

LEMMA ReplaceIsUnderway ==
    ASSUME PagesInv, WholeInv, NEW q \in Requests, Replace(q)
    PROVE  Underway(q, req'[q])
<1>1. PICK r, new : r = req[q] /\ new = Replaced(q)
  OBVIOUS
<1>2. r # NoRequest /\ Shaped(r) /\ Underway(q, r) /\ r.at = "deleting"
  BY <1>1 DEF Replace, PagesInv, RequestsShaped, NoRequest, WholeInv, InFlight
<1>3. req'[q] = new
  BY <1>1 DEF Replace, PagesInv, RequestsShaped
<1>4. /\ new.client = r.client /\ new.shown = r.shown /\ new.next = r.next + 1
      /\ new.dels = r.dels \union r.scan /\ new.scan = {} /\ new.ins = r.ins
      /\ new.at = "ready"
  BY <1>1, <1>2, ReplacedFields
<1>5. ASSUME NEW i \in DOMAIN r.shown, i < r.next + 1
      PROVE  i < r.next \/ i = r.next
  <2>1. PICK n \in Nat : DOMAIN r.shown = 1..n
    BY <1>1, <1>2 DEF PagesInv, Asks, Fits
  <2> QED
    BY <1>2, <1>5, <2>1 DEF Shaped
<1> QED
  BY <1>2, <1>3, <1>4, <1>5 DEF Underway

\* The steps of the other submissions and of pages leave one as it was.
LEMMA OthersStayWhole ==
    ASSUME WholeInv, UNCHANGED rows, NEW Q \in SUBSET Requests,
           \A q \in Requests : q \notin Q => req'[q] = req[q],
           \A q \in Q : req[q].at # "committed" /\ req'[q].at # "committed",
           \A q \in Q : InFlight(q)' => Underway(q, req'[q])
    PROVE  /\ \A q \in Requests : InFlight(q)' => Underway(q, req'[q])
           /\ OneSubmission'
           /\ \A q \in Requests :
                 req'[q].at = "committed" => Answers(Of(rows', req[q].client), req'[q].shown)
<1>1. \A q \in Requests : InFlight(q)' => Underway(q, req'[q])
  BY DEF WholeInv, InFlight
<1>2. \A c : Of(rows', c) = Of(rows, c)
  BY DEF Of
<1>3. OneSubmission'
  BY <1>2 DEF WholeInv, OneSubmission
<1>4. ASSUME NEW q \in Requests, req'[q].at = "committed"
      PROVE  Answers(Of(rows', req[q].client), req'[q].shown)
  BY <1>2, <1>4 DEF WholeInv
<1> QED
  BY <1>1, <1>3, <1>4

\* The submissions of a session are of the same page.
LEMMA SamePage ==
    ASSUME PagesInv, NEW q \in Requests, NEW u \in Requests,
           req[q] # NoRequest, req[u] # NoRequest, req[q].client = req[u].client
    PROVE  req[q].shown = req[u].shown
<1>1. Asks(req[q]) /\ Asks(req[u])
  BY DEF PagesInv
<1> QED
  BY <1>1 DEF Asks, Fits

\* A submission that commits has answered every entry, and every row its
\* session had is gone.
LEMMA CommitIsWhole ==
    ASSUME RowsInv, PagesInv, WholeInv, NEW q \in Requests, Commit(q)
    PROVE  LET c == req[q].client
           IN /\ Of(rows', c) = req[q].ins
              /\ \A d : d # c => Of(rows', d) = Of(rows, d)
              /\ Answers(req[q].ins, req[q].shown)
<1>1. PICK r, c, sh : r = req[q] /\ c = r.client /\ sh = r.shown
  OBVIOUS
<1>2. /\ r # NoRequest /\ r.at = "ready" /\ r.next > Len(r.items)
      /\ Shaped(r) /\ Asks(r) /\ Underway(q, r) /\ Tidy(q)
      /\ rows' = (rows \ r.dels) \union r.ins
  BY <1>1 DEF Commit, Complete, InFlight, NoRequest, PagesInv, RequestsShaped, WholeInv, RowsInv
<1>3. \A i \in DOMAIN sh : i < r.next
  <2>1. PICK n \in Nat : DOMAIN sh = 1..n /\ r.items = [j \in 1..n |-> r.items[j]]
    BY <1>1, <1>2 DEF Asks, Fits
  <2>2. Len(r.items) = n
    BY <2>1
  <2> QED
    BY <1>2, <2>1, <2>2 DEF Shaped
<1>4. Answers(r.ins, sh)
  BY <1>1, <1>2, <1>3 DEF Underway, Answers
<1>5. ASSUME NEW x \in rows, x.client = c PROVE x \in r.dels
  <2>1. PICK u \in Requests : /\ u = x.by /\ req[u].at = "committed" /\ req[u].client = c
    BY <1>5 DEF WholeInv, OneSubmission
  <2>2. Answers(Of(rows, c), req[u].shown)
    BY <2>1 DEF WholeInv
  <2>3. req[u].shown = sh
    BY <1>1, <1>2, <2>1, SamePage DEF NoRequest
  <2>4. PICK i \in DOMAIN sh : Labels(sh[i], x)
    BY <1>5, <2>2, <2>3 DEF Answers, Of
  <2>5. PICK y \in r.ins : Labels(sh[i], y)
    BY <1>4 DEF Answers
  <2>6. y.client = x.client /\ x.number = y.number
    BY <1>1, <1>2, <1>5, <2>4, <2>5 DEF Underway, Labels
  <2> QED
    BY <1>1, <1>2, <2>6 DEF Tidy
<1>6. \A x \in r.ins : x.client = c
  BY <1>1, <1>2 DEF Underway
<1>7. Of(rows', c) = r.ins
  BY <1>2, <1>5, <1>6 DEF Of
<1>8. ASSUME NEW d, d # c PROVE Of(rows', d) = Of(rows, d)
  BY <1>1, <1>2, <1>6, <1>8 DEF Of, Underway
<1> QED
  BY <1>1, <1>4, <1>7, <1>8

LEMMA CommitKeepsWhole ==
    ASSUME RowsInv, PagesInv, WholeInv, NEW q \in Requests, Commit(q)
    PROVE  /\ \A u \in Requests : InFlight(u)' => Underway(u, req'[u])
           /\ OneSubmission'
           /\ \A u \in Requests :
                 req'[u].at = "committed" => Answers(Of(rows', req'[u].client), req'[u].shown)
<1>1. PICK r, c, sh, new : r = req[q] /\ c = r.client /\ sh = r.shown /\ new = req'[q]
  OBVIOUS
<1>2. /\ Of(rows', c) = r.ins /\ Answers(r.ins, sh)
      /\ \A d : d # c => Of(rows', d) = Of(rows, d)
  BY <1>1, CommitIsWhole
<1>3. /\ r # NoRequest /\ Shaped(r) /\ Asks(r) /\ Underway(q, r)
      /\ rows' = (rows \ r.dels) \union r.ins
  BY <1>1 DEF Commit, Complete, InFlight, NoRequest, PagesInv, RequestsShaped, WholeInv
<1>4. /\ new.at = "committed" /\ new.client = c /\ new.shown = sh
      /\ \A u \in Requests : u # q => req'[u] = req[u]
  <2>1. req' = [req EXCEPT ![q] = [r EXCEPT !.at = "committed"]]
    BY <1>1 DEF Commit
  <2>2. new = [r EXCEPT !.at = "committed"] /\ \A u \in Requests : u # q => req'[u] = req[u]
    BY <1>1, <2>1 DEF PagesInv, RequestsShaped
  <2> QED
    BY <1>1, <1>3, <2>2, EndedFields
<1>5. \A u \in Requests : InFlight(u)' => Underway(u, req'[u])
  BY <1>1, <1>4 DEF WholeInv, InFlight
<1>6. ASSUME NEW x \in rows'
      PROVE  /\ x.by \in Requests /\ req'[x.by].at = "committed"
             /\ req'[x.by].client = x.client
             /\ \A y \in Of(rows', x.client) : y.by = x.by
  <2>1. CASE x.client = c
    <3>1. x \in r.ins
      BY <1>2, <1>6, <2>1 DEF Of
    <3>2. \A y \in r.ins : y.by = q
      BY <1>3 DEF Underway
    <3> QED
      BY <1>1, <1>2, <1>4, <2>1, <3>1, <3>2
  <2>2. CASE x.client # c
    <3>1. x \in rows
      BY <1>1, <1>3, <1>6, <2>2 DEF Underway
    <3>2. /\ x.by \in Requests /\ req[x.by].at = "committed" /\ req[x.by].client = x.client
          /\ \A y \in Of(rows, x.client) : y.by = x.by
      BY <3>1 DEF WholeInv, OneSubmission
    <3>3. x.by # q
      BY <1>1, <2>2, <3>2
    <3> QED
      BY <1>2, <1>4, <2>2, <3>2, <3>3
  <2> QED
    BY <2>1, <2>2
<1>7. ASSUME NEW u \in Requests, req'[u].at = "committed"
      PROVE  Answers(Of(rows', req'[u].client), req'[u].shown)
  <2>1. CASE u = q
    BY <1>1, <1>2, <1>4, <2>1
  <2>2. CASE u # q /\ req[u].client = c
    <3>1. req[u].shown = sh
      BY <1>1, <1>3, <1>4, <1>7, <2>2, SamePage DEF NoRequest
    <3> QED
      BY <1>2, <1>4, <2>2, <3>1
  <2>3. CASE u # q /\ req[u].client # c
    BY <1>2, <1>4, <1>7, <2>3 DEF WholeInv
  <2> QED
    BY <2>1, <2>2, <2>3
<1> QED
  BY <1>5, <1>6, <1>7 DEF OneSubmission

LEMMA WholeStep ==
    ASSUME OneIndividualRound, TypeInv, PagesInv, RowsInv, WholeInv, [Next]_vars
    PROVE  WholeInv'
<1>1. \A v \in 1..Len(records') : NumbersTell(DOMAIN records'[v])
  BY ContentMoves, NumbersStay DEF PagesInv, WholeInv
<1> DEFINE Rest == /\ \A q \in Requests : InFlight(q)' => Underway(q, req'[q])
                   /\ OneSubmission'
                   /\ \A q \in Requests :
                         req'[q].at = "committed" => Answers(Of(rows', req'[q].client), req'[q].shown)
<1>2. CASE UNCHANGED <<req, rows>>
  BY <1>1, <1>2 DEF WholeInv, InFlight, OneSubmission, Of
<1>3. ASSUME NEW c \in Clients, NEW fill, Send(c, fill) PROVE Rest
  <2> DEFINE new(q) == [at |-> "ready", client |-> c, shown |-> shown[c], next |-> 1,
                        items |-> [i \in DOMAIN shown[c] |->
                                      [number |-> shown[c][i].number,
                                       units |-> fill[shown[c][i].number]]],
                        dels |-> {}, ins |-> {}, scan |-> {}]
  <2>1. PICK q, r : q \in NextRequest /\ req' = [req EXCEPT ![q] = r] /\ r = new(q)
    BY <1>3 DEF Send
  <2>2. /\ r.at = "ready" /\ r.shown = shown[c] /\ r.next = 1
        /\ r.dels = {} /\ r.ins = {} /\ r.scan = {}
    BY <2>1
  <2> HIDE DEF new
  <2>3. /\ q \in Requests /\ req[q] = NoRequest /\ UNCHANGED rows /\ req'[q] = r
        /\ \A u \in Requests : u # q => req'[u] = req[u]
    BY <1>3, <2>1 DEF NextRequest, Send, PagesInv, RequestsShaped
  <2>4. PICK n \in Nat : DOMAIN shown[c] = 1..n
    <3>1. Lists(shown[c], session[c])
      BY <1>3 DEF Send, PagesInv, Showing
    <3> QED
      BY <3>1 DEF Lists, ListsAll
  <2>5. Underway(q, r)
    BY <2>2, <2>4 DEF Underway
  <2>6. req[q].at # "committed" /\ req'[q].at # "committed"
    BY <2>2, <2>3 DEF NoRequest
  <2> DEFINE Q == {q}
  <2>7. Q \in SUBSET Requests
    BY <2>3
  <2>8. /\ \A u \in Requests : InFlight(u)' => Underway(u, req'[u])
        /\ OneSubmission'
        /\ \A u \in Requests :
              req'[u].at = "committed" => Answers(Of(rows', req[u].client), req'[u].shown)
    BY <2>3, <2>5, <2>6, <2>7, OthersStayWhole
  <2> QED
    BY <2>3, <2>6, <2>8
<1>4. ASSUME NEW q \in Requests, Resolve(q) \/ Replace(q) \/ Fail(q) PROVE Rest
  <2>1. \A u \in Requests : u # q => req'[u] = req[u]
    BY <1>4, RequestMoves DEF PagesInv
  <2>2. req[q] # NoRequest /\ req[q].at # "committed" /\ UNCHANGED rows /\ Shaped(req[q])
    BY <1>4 DEF Resolve, Replace, Fail, InFlight, PagesInv, RequestsShaped, NoRequest
  <2>3. req'[q].at # "committed" /\ (InFlight(q)' => Underway(q, req'[q]))
    <3>1. CASE Resolve(q)
      <4>1. PICK k \in Candidates(q) : req' = [req EXCEPT ![q] = Deleting(q, k)]
        BY <3>1 DEF Resolve
      <4>2. req'[q].at = "deleting"
        BY <2>2, <4>1, DeletingFields DEF PagesInv, RequestsShaped
      <4> QED
        BY <3>1, <4>2, ResolveIsUnderway
    <3>2. CASE Replace(q)
      <4>1. req'[q].at = "ready"
        BY <2>2, <3>2, ReplacedFields DEF Replace, PagesInv, RequestsShaped
      <4> QED
        BY <3>2, <4>1, ReplaceIsUnderway
    <3>3. CASE Fail(q)
      <4>1. req'[q].at = "failed"
        BY <2>2, <3>3, EndedFields DEF Fail, PagesInv, RequestsShaped
      <4> QED
        BY <4>1 DEF InFlight
    <3> QED
      BY <1>4, <3>1, <3>2, <3>3
  <2> DEFINE Q == {q}
  <2>4. Q \in SUBSET Requests
    OBVIOUS
  <2>5. /\ \A u \in Requests : InFlight(u)' => Underway(u, req'[u])
        /\ OneSubmission'
        /\ \A u \in Requests :
              req'[u].at = "committed" => Answers(Of(rows', req[u].client), req'[u].shown)
    BY <2>1, <2>2, <2>3, <2>4, OthersStayWhole
  <2> QED
    BY <2>1, <2>3, <2>5
<1>5. ASSUME NEW q \in Requests, Commit(q) PROVE Rest
  BY <1>5, CommitKeepsWhole
<1> QED
  BY <1>1, <1>2, <1>3, <1>4, <1>5
     DEF WholeInv, Next, RuntimeNext, vars, runtimeVars, CreateSession, RenderSession, LoseAnswer, ReadBoard

\* The allocations of a session are one submission, all of it, for any number
\* of sessions and of submissions, with one round of individual decisions and
\* where the database serialises writers or submissions of a session do not
\* overlap (submit_allocations' single transaction).
THEOREM SubmissionsStayWhole ==
    (Serial \/ ~Overlap) /\ OneIndividualRound => (Spec => []SubmissionsAreWhole)
<1> SUFFICES ASSUME Serial \/ ~Overlap, OneIndividualRound PROVE Spec => []SubmissionsAreWhole
  OBVIOUS
<1>1. WholeInv => SubmissionsAreWhole
  <2> SUFFICES ASSUME WholeInv, NEW x \in rows
               PROVE  /\ req[x.by].at = "committed"
                      /\ \A s \in rows : s.client = x.client => s.by = x.by
                      /\ {<<s.round, s.number>> : s \in {t \in rows : t.client = x.client}}
                            = {<<m.round, m.number>> : m \in Meant(x.by)}
    BY DEF SubmissionsAreWhole
  <2>1. PICK q, r : q = x.by /\ r = req[q]
    OBVIOUS
  <2>2. /\ q \in Requests /\ r.at = "committed" /\ r.client = x.client
        /\ \A y \in Of(rows, x.client) : y.by = q /\ Answers(Of(rows, x.client), r.shown)
    BY <2>1 DEF WholeInv, OneSubmission, Of
  <2>3. Answers(Of(rows, x.client), r.shown)
    BY <2>2 DEF Of
  <2>4. Meant(q) = {MeantAt(q, r, i) : i \in DOMAIN r.shown}
    BY <2>1, MeantIs
  <2>5. \A i : MeantAt(q, r, i).round = r.shown[i].round /\ MeantAt(q, r, i).number = r.shown[i].number
    BY DEF MeantAt
  <2>6. {<<s.round, s.number>> : s \in Of(rows, x.client)} = {<<m.round, m.number>> : m \in Meant(q)}
    BY <2>3, <2>4, <2>5 DEF Answers, Labels
  <2> QED
    BY <2>1, <2>2, <2>6 DEF Of
<1>2. Init => RowsInv /\ WholeInv
  BY RowsInvInit, WholeInit
<1>3. RowsInv /\ WholeInv /\ TypeInv /\ PagesInv /\ [Next]_vars => RowsInv' /\ WholeInv'
  BY RowsInvNext, WholeStep
<1> QED
  BY <1>1, <1>2, <1>3, PagesInvariant, PTL DEF Spec

-----------------------------------------------------------------------------
(* The order of every stored decision's options is one some run gave it.   *)

\* Document d has every decision's options as some run has ordered them.
Ordered(d) == \A k \in DOMAIN d : \E e \in Drafts : k \in DOMAIN e /\ d[k].order = e[k].order

OrdersInv ==
    /\ \A v \in 1..Len(records) : Ordered(content[v]) /\ Ordered(records[v])
    /\ \A e \in Editors : page[e] # NoPage => Ordered(page[e].data)
    /\ \A e \in Editors : save[e] # NoSave => Ordered(save[e].data)

LEMMA OrdersStep ==
    ASSUME TypeInv, OrdersInv, [ContentNext]_contentVars PROVE OrdersInv'
<1> USE DEF TypeInv
<1>1. CASE UNCHANGED contentVars
  BY <1>1 DEF contentVars, OrdersInv
<1>2. ASSUME NEW d \in Drafts, Generate(d) PROVE OrdersInv'
  <2>1. d \in Documents /\ Ordered(d)
    BY ContentAssumption, DocumentsAreDocuments DEF Ordered
  <2>2. /\ Len(records') = Len(records) + 1
        /\ records'[Len(records) + 1] = d /\ content'[Len(records) + 1] = d
        /\ \A v \in 1..Len(records) : records'[v] = records[v] /\ content'[v] = content[v]
    BY <1>2, <2>1 DEF Generate
  <2>3. \A v \in 1..Len(records') : Ordered(content'[v]) /\ Ordered(records'[v])
    BY <2>1, <2>2 DEF OrdersInv
  <2> QED
    BY <1>2, <2>3 DEF Generate, OrdersInv
<1>3. ASSUME NEW e \in Editors, LoadPage(e) PROVE OrdersInv'
  <2>1. PICK d : d = content[Latest]
    OBVIOUS
  <2>2. Ordered(d)
    BY <1>3, <2>1 DEF LoadPage, Latest, OrdersInv
  <2>3. \A f \in Editors : page'[f] = IF f = e THEN [loaded |-> TRUE, data |-> d] ELSE page[f]
    BY <1>3, <2>1 DEF LoadPage
  <2>4. \A f \in Editors : page'[f] # NoPage => Ordered(page'[f].data)
    BY <2>2, <2>3 DEF OrdersInv
  <2> QED
    BY <1>3, <2>4 DEF LoadPage, OrdersInv
<1>4. ASSUME NEW e \in Editors, NEW k \in Keys, NEW t \in Texts, Reword(e, k, t)
      PROVE  OrdersInv'
  <2>1. PICK d, new : d = page[e].data /\ new = Reworded(d, k, t)
    OBVIOUS
  <2>2. Ordered(d) /\ k \in DOMAIN d
    BY <1>4, <2>1 DEF Reword, OrdersInv
  <2>3. DOMAIN new = DOMAIN d /\ \A l \in DOMAIN d : new[l].order = d[l].order
    BY <2>1, <2>2 DEF Reworded
  <2>4. Ordered(new)
    BY <2>2, <2>3 DEF Ordered
  <2>5. \A f \in Editors : page'[f] = IF f = e THEN [loaded |-> TRUE, data |-> new] ELSE page[f]
    BY <1>4, <2>1 DEF Reword
  <2>6. \A f \in Editors : page'[f] # NoPage => Ordered(page'[f].data)
    BY <2>4, <2>5 DEF OrdersInv
  <2> QED
    BY <1>4, <2>6 DEF Reword, OrdersInv
<1>5. ASSUME NEW e \in Editors, SaveRead(e) PROVE OrdersInv'
  <2>1. PICK s : /\ s.data = page[e].data
                 /\ \A f \in Editors : save'[f] = IF f = e THEN s ELSE save[f]
    <3> DEFINE s == [sent |-> TRUE, version |-> SavedVersion, data |-> page[e].data,
                     document |-> content[Latest], rows |-> records[Latest]]
    <3>1. save' = [save EXCEPT ![e] = s] /\ s.data = page[e].data
      BY <1>5 DEF SaveRead
    <3> HIDE DEF s
    <3> QED
      BY <3>1
  <2>2. Ordered(page[e].data)
    BY <1>5 DEF SaveRead, OrdersInv
  <2>3. \A f \in Editors : save'[f] # NoSave => Ordered(save'[f].data)
    BY <2>1, <2>2 DEF OrdersInv
  <2> QED
    BY <1>5, <2>3 DEF SaveRead, OrdersInv
<1>6. ASSUME NEW e \in Editors, SaveCommit(e) PROVE OrdersInv'
  <2>1. PICK s, w : s = save[e] /\ w = s.version
    OBVIOUS
  <2>2. /\ content' = [content EXCEPT ![w] = IF s.data # s.document THEN s.data ELSE content[w]]
        /\ records' = [records EXCEPT ![w] = SyncedRows(s, records[w])]
        /\ save' = [save EXCEPT ![e] = NoSave] /\ UNCHANGED page /\ Ordered(s.data)
    BY <1>6, <2>1 DEF SaveCommit, OrdersInv
  <2>3. ASSUME NEW v \in 1..Len(records) PROVE Ordered(content'[v]) /\ Ordered(records'[v])
    <3>1. Ordered(content[v]) /\ Ordered(records[v])
      BY DEF OrdersInv
    <3>2. Ordered(SyncedRows(s, records[v]))
      BY <2>2, <3>1 DEF Ordered, SyncedRows
    <3> QED
      BY <2>2, <3>1, <3>2
  <2>4. \A f \in Editors : save'[f] # NoSave => Ordered(save'[f].data)
    BY <2>2 DEF OrdersInv
  <2> QED
    BY <2>2, <2>3, <2>4 DEF OrdersInv
<1> QED
  BY <1>1, <1>2, <1>3, <1>4, <1>5, <1>6 DEF ContentNext

-----------------------------------------------------------------------------
(***************************************************************************)
(* Types: every allocation shares 100 units among the four postures.       *)
(***************************************************************************)

\* A letter is found again from the posture it stands for.
LEMMA LettersDiffer ==
    ASSUME NEW m \in Listings, NEW l \in Letters
    PROVE  (CHOOSE j \in Letters : m[j] = m[l]) = l
<1>1. m \in Surjection(Letters, Postures)
  BY DEF Listings, Surjection
<1>2. IsFiniteSet(Letters) /\ Cardinality(Letters) = Cardinality(Postures)
  <2>1. \A n \in Nat : IsFiniteSet(1..n) /\ Cardinality(1..n) = n
    BY FS_Interval
  <2>2. Cardinality(Postures) = 4
    BY RuntimeAssumption
  <2> QED
    BY <2>1, <2>2 DEF Letters
<1>3. m \in Injection(Letters, Postures)
  BY <1>1, <1>2, FS_SurjSameCardinalityImpliesInj
<1>4. \A j \in Letters : m[j] = m[l] => j = l
  BY <1>3 DEF Injection, IsInjective
<1> QED
  BY <1>4

\* What the letters' units are, the postures' units are.
LEMMA SharesFollow ==
    ASSUME NEW m \in Listings, NEW u \in [Letters -> Nat], SumsTo100(u)
    PROVE  LET w == ByPosture(u, m, Postures)
           IN w \in [Postures -> 0..100] /\ w[m[1]] + w[m[2]] + w[m[3]] + w[m[4]] = 100
<1> DEFINE w == ByPosture(u, m, Postures)
<1>1. m \in [Letters -> Postures] /\ \A p \in Postures : \E l \in Letters : m[l] = p
  BY DEF Listings
<1>2. \A l \in Letters : w[m[l]] = u[l]
  <2> SUFFICES ASSUME NEW l \in Letters PROVE w[m[l]] = u[l]
    OBVIOUS
  <2>1. m[l] \in Postures
    BY <1>1
  <2>2. w[m[l]] = u[CHOOSE j \in Letters : m[j] = m[l]]
    BY <2>1 DEF ByPosture
  <2> QED
    BY <2>2, LettersDiffer
<1>3. w = [p \in Postures |-> w[p]]
  BY DEF ByPosture
<1> HIDE DEF w
<1>4. \A l \in Letters : u[l] \in 0..100
  <2> SUFFICES ASSUME NEW l \in Letters PROVE u[l] \in 0..100
    OBVIOUS
  <2>1. u[l] \in Nat
    OBVIOUS
  <2>2. u[l] <= 100
    BY DEF SumsTo100
  <2> QED
    BY <2>1, <2>2
<1>5. w \in [Postures -> 0..100]
  BY <1>1, <1>2, <1>3, <1>4
<1>6. w[m[1]] + w[m[2]] + w[m[3]] + w[m[4]] = u[1] + u[2] + u[3] + u[4]
  BY <1>2 DEF Letters
<1> QED
  BY <1>5, <1>6 DEF SumsTo100, w

Numbers == {k.number : k \in Keys}

\* The entries of a page.
PageLike(sh) ==
    \A i \in DOMAIN sh : /\ sh[i] = [round |-> sh[i].round, number |-> sh[i].number, map |-> sh[i].map]
                         /\ sh[i].map \in [Letters -> Postures] /\ sh[i].number \in Numbers

RequestLike(r) ==
    /\ \A i \in DOMAIN r.shown : r.items[i].units \in [Letters -> Nat]
    /\ \A x \in r.ins \union r.dels \union r.scan : RowLike(x)

TypesInv ==
    /\ asked \in [Clients -> {0} \union Requests]
    /\ \A c \in Clients : PageLike(shown[c]) /\ (phase[c] = "waiting" => asked[c] \in Requests)
    /\ \A q \in Requests : req[q] # NoRequest => RequestLike(req[q])
    /\ \A r \in rows : RowLike(r)

LEMMA RenderedTypes ==
    ASSUME TypeInv, RecordsFinite, NEW s, SessionLike(s) PROVE PageLike(Rendered(s))
<1>1. Served(s) \in SUBSET Keys /\ IsFiniteSet(Served(s)) /\ Comparable(Served(s))
  BY ServedKeys
<1>2. PICK n, q : /\ n \in Nat /\ n = Cardinality(Served(s))
                  /\ q = Sorted(Served(s)) /\ q \in [1..n -> Served(s)]
  BY <1>1, SortedEnumerates
<1>3. Len(q) = n
  BY <1>2
<1>4. PICK sh : sh = Rendered(s)
  OBVIOUS
<1>5. PICK d : d = records[s.version]
  OBVIOUS
<1>6. sh = [i \in 1..n |-> [round |-> q[i].round, number |-> q[i].number,
                            map |-> Map(d[q[i]], s.seed, q[i].number)]]
  BY <1>2, <1>3, <1>4, <1>5 DEF Rendered
<1>7. ASSUME NEW i \in 1..n
      PROVE  Map(d[q[i]], s.seed, q[i].number) \in [Letters -> Postures] /\ q[i].number \in Numbers
  <2>1. q[i] \in Served(s) /\ q[i] \in Keys
    BY <1>1, <1>2
  <2>2. d[q[i]] \in Boards
    BY <1>5, <2>1 DEF Served, TypeInv, SessionLike, Documents
  <2>3. PICK o : o = d[q[i]].order /\ o \in [1..4 -> Postures]
    BY <2>2 DEF Boards
  <2>4. PICK f : f = Shuffle[s.seed, q[i].number] /\ f \in [Letters -> Letters]
    BY <2>1, RuntimeAssumption DEF SessionLike
  <2>5. Map(d[q[i]], s.seed, q[i].number) = [l \in Letters |-> o[f[l]]]
    BY <2>3, <2>4 DEF Map
  <2> QED
    BY <2>1, <2>3, <2>4, <2>5 DEF Letters, Numbers
<1> QED
  BY <1>4, <1>6, <1>7 DEF PageLike

\* An item that is taken becomes a row of 100 units.
LEMMA AllocationLike ==
    ASSUME TypeInv, PagesInv, OrdersInv, TypesInv, NEW q \in Requests, req[q].at = "ready",
           req[q].next <= Len(req[q].items), SumsTo100(Item(q).units), NEW k \in Candidates(q)
    PROVE  RowLike(Allocation(q, k))
<1>1. PICK r, s, sh, u, x : /\ r = req[q] /\ s = session[r.client] /\ sh = shown[r.client]
                            /\ u = r.items[r.next].units /\ x = Allocation(q, k)
  OBVIOUS
<1>2. r # NoRequest /\ Shaped(r) /\ Asks(r)
  BY <1>1 DEF PagesInv, RequestsShaped, NoRequest
<1>3. /\ r.client \in Clients /\ r.shown = sh /\ Fits(r, sh) /\ SessionLike(s)
  <2>1. r.client \in Clients /\ r.shown = sh /\ Fits(r, sh) /\ phase[r.client] \in Showing
    BY <1>1, <1>2, SMTT(30) DEF Asks, Fits
  <2>2. phase[r.client] # "open"
    BY <2>1 DEF Showing
  <2> QED
    BY <1>1, <2>1, <2>2 DEF PagesInv
<1>4. r.next \in DOMAIN sh
  <2>1. PICK n \in Nat : DOMAIN sh = 1..n /\ r.items = [j \in 1..n |-> r.items[j]]
    BY <1>3 DEF Fits
  <2>2. Len(r.items) = n
    BY <2>1
  <2> QED
    BY <1>1, <1>2, <2>1, <2>2 DEF Shaped
<1>5. u \in [Letters -> Nat] /\ SumsTo100(u)
  BY <1>1, <1>2, <1>3, <1>4 DEF TypesInv, RequestLike, Item
<1>6. k \in Served(s)
  BY <1>1 DEF Candidates, SessionOf
<1>7. k \in Keys
  BY <1>3, <1>6, ServedKeys DEF PagesInv
<1>8. PICK m : m = Map(records[s.version][k], s.seed, k.number)
  OBVIOUS
<1>9. m \in Listings /\ {m[l] : l \in Letters} = Postures
  <2>1. Ordered(records[s.version]) /\ k \in DOMAIN records[s.version]
    BY <1>3, <1>6 DEF OrdersInv, SessionLike, Served
  <2>2. Onto(records[s.version][k].order)
    BY <2>1, RuntimeAssumption DEF Ordered, Onto
  <2> QED
    BY <1>3, <1>7, <1>8, <2>2, MapIsOnto DEF SessionLike
<1>10. x = [client |-> r.client, round |-> k.round, number |-> k.number,
            by |-> q, units |-> ByPosture(u, m, Postures)]
  BY <1>1, <1>8, <1>9 DEF Allocation, SessionOf, Item
<1>11. PICK w : w = ByPosture(u, m, Postures)
  OBVIOUS
<1>12. w \in [Postures -> 0..100] /\ w[m[1]] + w[m[2]] + w[m[3]] + w[m[4]] = 100
  BY <1>5, <1>9, <1>11, SharesFollow
<1>13. x.client = r.client /\ x.by = q /\ x.units = w
  BY <1>10, <1>11
<1>14. RowLike(x)
  BY <1>3, <1>9, <1>12, <1>13 DEF RowLike
<1> QED
  BY <1>1, <1>14

LEMMA TypesInit == Init => TypesInv
  BY DEF Init, TypesInv, PageLike, NoRequest

LEMMA SendKeepsLikeness ==
    ASSUME PagesInv, TypesInv, NEW c \in Clients, NEW fill \in [Numbers -> Fills], Send(c, fill)
    PROVE  TypesInv'
<1> DEFINE items == [i \in DOMAIN shown[c] |-> [number |-> shown[c][i].number,
                                                units |-> fill[shown[c][i].number]]]
           new == [at |-> "ready", client |-> c, shown |-> shown[c], next |-> 1,
                   items |-> items, dels |-> {}, ins |-> {}, scan |-> {}]
<1>1. PICK q \in NextRequest : req' = [req EXCEPT ![q] = new] /\ asked' = [asked EXCEPT ![c] = q]
  BY DEF Send
<1>2. q \in Requests /\ UNCHANGED <<rows, shown>> /\ phase' = [phase EXCEPT ![c] = "waiting"]
  BY DEF NextRequest, Send
<1>3. PageLike(shown[c])
  BY DEF TypesInv
<1>4. \A i \in DOMAIN shown[c] : items[i].units \in [Letters -> Nat]
  BY <1>3, RuntimeAssumption DEF PageLike
<1>5. new.shown = shown[c] /\ new.items = items /\ new.ins = {} /\ new.dels = {} /\ new.scan = {}
  OBVIOUS
<1> HIDE DEF new, items
<1>6. RequestLike(new)
  BY <1>4, <1>5 DEF RequestLike
<1>7. req'[q] = new /\ \A u \in Requests : u # q => req'[u] = req[u]
  BY <1>1, <1>2 DEF PagesInv, RequestsShaped
<1> QED
  BY <1>1, <1>2, <1>6, <1>7 DEF TypesInv, PagesInv

LEMMA RequestKeepsLikeness ==
    ASSUME TypeInv, PagesInv, OrdersInv, TypesInv, NEW q \in Requests,
           Resolve(q) \/ Replace(q) \/ Commit(q) \/ Fail(q)
    PROVE  TypesInv'
<1>1. PICK r, new : r = req[q] /\ new = req'[q]
  OBVIOUS
<1>2. r # NoRequest /\ Shaped(r) /\ req = [u \in Requests |-> req[u]] /\ RequestLike(r)
  BY <1>1 DEF Resolve, Replace, Commit, Complete, Fail, InFlight, NoRequest, PagesInv,
              RequestsShaped, TypesInv
<1>3. \A u \in Requests : u # q => req'[u] = req[u]
  BY RequestMoves DEF PagesInv
<1>4. RequestLike(new)
  <2>1. CASE Resolve(q)
    <3>1. PICK k \in Candidates(q) : req' = [req EXCEPT ![q] = Deleting(q, k)]
      BY <2>1 DEF Resolve
    <3>2. RowLike(Allocation(q, k))
      BY <2>1, <3>1, AllocationLike DEF Resolve
    <3>3. /\ new.shown = r.shown /\ new.items = r.items /\ new.dels = r.dels
          /\ new.scan = Superseded(q) /\ new.ins \subseteq r.ins \union {Allocation(q, k)}
      BY <1>1, <1>2, <3>1, DeletingFields
    <3> QED
      BY <1>2, <3>2, <3>3 DEF RequestLike, Superseded, TypesInv
  <2>2. CASE Replace(q)
    <3>1. /\ new.shown = r.shown /\ new.items = r.items /\ new.dels = r.dels \union r.scan
          /\ new.scan = {} /\ new.ins = r.ins
      BY <1>1, <1>2, <2>2, ReplacedFields DEF Replace
    <3> QED
      BY <1>2, <3>1 DEF RequestLike
  <2>3. CASE Commit(q) \/ Fail(q)
    <3>1. PICK end \in {"committed", "failed"} : new = [r EXCEPT !.at = end]
      BY <1>1, <1>2, <2>3 DEF Commit, Fail
    <3>2. r = [at |-> r.at, client |-> r.client, shown |-> r.shown, next |-> r.next,
               items |-> r.items, dels |-> r.dels, ins |-> r.ins, scan |-> r.scan]
      BY <1>2 DEF Shaped
    <3>3. /\ new.shown = r.shown /\ new.items = r.items /\ new.dels = r.dels
          /\ new.scan = r.scan /\ new.ins = r.ins
      BY <3>1, <3>2
    <3> QED
      BY <1>2, <3>3 DEF RequestLike
  <2> QED
    BY <2>1, <2>2, <2>3
<1>5. UNCHANGED <<asked, shown>> /\ \A c \in Clients : phase'[c] = phase[c] \/ phase'[c] = "allocate"
  BY DEF Resolve, Replace, Commit, Fail, PagesInv
<1>6. \A x \in rows' : RowLike(x)
  BY <1>1, <1>2 DEF Resolve, Replace, Commit, Fail, TypesInv, RequestLike
<1> QED
  BY <1>1, <1>3, <1>4, <1>5, <1>6 DEF TypesInv

LEMMA TypesStep ==
    ASSUME TypeInv, PagesInv, OrdersInv, TypesInv, [Next]_vars PROVE TypesInv'
<1>1. CASE UNCHANGED runtimeVars
  BY <1>1 DEF runtimeVars, TypesInv
<1>2. ASSUME NEW c \in Clients, NEW p \in Owners, NEW seed \in Seeds, CreateSession(c, p, seed)
      PROVE  TypesInv'
  BY <1>2 DEF CreateSession, TypesInv, PagesInv
<1>3. ASSUME NEW c \in Clients, RenderSession(c) PROVE TypesInv'
  <2>1. PageLike(Rendered(session[c]))
    BY <1>3, RenderedTypes DEF RenderSession, PagesInv
  <2> QED
    BY <1>3, <2>1 DEF RenderSession, TypesInv, PagesInv
<1>4. ASSUME NEW c \in Clients, LoseAnswer(c) \/ ReadBoard(c) PROVE TypesInv'
  BY <1>4 DEF LoseAnswer, ReadBoard, TypesInv, PagesInv
<1>5. ASSUME NEW c \in Clients, NEW fill \in [Numbers -> Fills], Send(c, fill) PROVE TypesInv'
  BY <1>5, SendKeepsLikeness
<1>6. ASSUME NEW q \in Requests, Resolve(q) \/ Replace(q) \/ Commit(q) \/ Fail(q) PROVE TypesInv'
  BY <1>6, RequestKeepsLikeness
<1> QED
  BY <1>1, <1>2, <1>3, <1>4, <1>5, <1>6 DEF Next, RuntimeNext, vars, Numbers

\* Sessions are pinned to versions that exist and every allocation shares 100
\* units among the four postures, for any number of participants and
\* submissions (the Allocation schema, and shuffle_options).
THEOREM RuntimeTypeCorrect == Spec => []TypeOK
<1>1. TypeInv /\ PagesInv /\ TypesInv => TypeOK
  <2> SUFFICES ASSUME TypeInv, PagesInv, TypesInv PROVE TypeOK
    OBVIOUS
  <2>1. ContentTypeOK
    BY TypeInvImplies
  <2>2. ASSUME NEW c \in Clients
        PROVE  /\ phase[c] \in {"open", "created", "allocate", "waiting", "board"}
               /\ phase[c] # "open" => session[c].version \in 1..Latest /\ session[c].owner \in Owners
               /\ ShownLike(shown[c])
               /\ phase[c] = "waiting" => asked[c] \in Requests
    BY DEF PagesInv, Phases, SessionLike, TypeInv, Latest, TypesInv, PageLike, ShownLike
  <2>3. ASSUME NEW q \in Requests
        PROVE  /\ req[q].at \in {"none", "ready", "deleting", "committed", "failed"}
               /\ req[q] # NoRequest => \A r \in req[q].ins \union req[q].dels : RowLike(r)
    BY DEF PagesInv, RequestsShaped, Shaped, NoRequest, TypesInv, RequestLike
  <2>4. \A r \in rows : RowLike(r)
    BY DEF TypesInv
  <2> QED
    BY <2>1, <2>2, <2>3, <2>4 DEF TypeOK
<1>2. Init => OrdersInv /\ TypesInv
  BY TypesInit DEF Init, ContentInit, OrdersInv
<1>3. OrdersInv /\ TypesInv /\ TypeInv /\ PagesInv /\ [Next]_vars => OrdersInv' /\ TypesInv'
  BY OrdersStep, TypesStep, ContentMoves
<1> QED
  BY <1>1, <1>2, <1>3, PagesInvariant, PTL DEF Spec
=============================================================================
