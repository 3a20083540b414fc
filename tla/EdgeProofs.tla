------------------------------ MODULE EdgeProofs ------------------------------
(***************************************************************************)
(* What holds at the HTTP edge for every value of the constants: any       *)
(* number of calls, clients, images and restarts.                          *)
(***************************************************************************)
EXTENDS Edge, TLAPS

(***************************************************************************)
(* Images.  A call has settled when no step of it writes a row any more;   *)
(* assets of rows, and of rows that were read, are of settled calls.       *)
(***************************************************************************)

Settled(c) == image[c].at \in {"destroy", "done", "failed"}

ImagesShaped ==
    /\ image = [c \in Calls |-> image[c]]
    /\ \A c \in Calls :
          /\ image[c] = [at |-> image[c].at, slot |-> image[c].slot, found |-> image[c].found]
          /\ image[c].at # "idle" => \E s : image[c].slot = {s}

\* A row has the asset of a call that has written it, and its slot for itself;
\* only the row itself can have its asset.
RowsInPlace ==
    /\ \A x \in rows : /\ x = [slot |-> x.slot, id |-> x.id, asset |-> x.asset]
                       /\ x.asset \in assets /\ x.asset \in Calls /\ Settled(x.asset)
    /\ \A x, y \in rows : x.slot = y.slot => x = y
    /\ \A x, y \in rows : x.asset = y.asset => x.id = y.id

\* What a call has uploaded is there until it is in a row, and nothing else
\* writes the assets of the rows it has read.
CallInPlace(c) ==
    /\ image[c].at \in {"read", "commit"} => c \in assets
    /\ \A f \in image[c].found : f.asset \in Calls /\ Settled(f.asset)
    /\ \A f, g \in image[c].found : f = g
    /\ image[c].at \in {"commit", "remove"} =>
          \A f \in image[c].found, x \in rows : x.asset = f.asset => x.id = f.id
    /\ image[c].at = "destroy" => \A f \in image[c].found, x \in rows : x.asset # f.asset

ImagesInv == ImagesShaped /\ RowsInPlace /\ \A c \in Calls : CallInPlace(c)

LEMMA ImagesInvInit == ImagesInit => ImagesInv
  BY DEF ImagesInit, ImagesInv, ImagesShaped, RowsInPlace, CallInPlace, Idle

LEMMA ImagesInvUnchanged == ASSUME ImagesInv, UNCHANGED <<rows, assets, image>> PROVE ImagesInv'
  BY DEF ImagesInv, ImagesShaped, RowsInPlace, CallInPlace, Settled

\* A step that takes a call to another stage, without touching a row.
LEMMA StageStep ==
    ASSUME ImagesInv, NEW c \in Calls, NEW stage, Goto(c, stage), UNCHANGED rows,
           image[c].at # "idle", Settled(c) => stage \in {"done", "failed"},
           \A x \in rows : x.asset \in assets',
           \A d \in Calls \ {c} : image[d].at \in {"read", "commit"} /\ d \in assets => d \in assets',
           stage \in {"read", "commit"} => c \in assets',
           stage \notin {"remove", "commit", "destroy"}
    PROVE  ImagesInv'
<1>1. /\ image' = [image EXCEPT ![c].at = stage]
      /\ image'[c] = [at |-> stage, slot |-> image[c].slot, found |-> image[c].found]
      /\ \A d \in Calls \ {c} : image'[d] = image[d]
  BY DEF Goto, ImagesInv, ImagesShaped
<1>2. ImagesShaped'
  BY <1>1 DEF ImagesInv, ImagesShaped
<1>3. \A d \in Calls : Settled(d) => Settled(d)'
  BY <1>1 DEF Settled
<1>4. RowsInPlace'
  BY <1>3 DEF ImagesInv, RowsInPlace
<1>5. ASSUME NEW d \in Calls PROVE CallInPlace(d)'
  <2>1. CallInPlace(d)
    BY DEF ImagesInv
  <2>2. CASE d = c
    BY <1>1, <1>3, <2>1, <2>2 DEF CallInPlace
  <2>3. CASE d # c
    BY <1>1, <1>3, <2>1, <2>3 DEF CallInPlace
  <2> QED
    BY <2>2, <2>3
<1> QED
  BY <1>2, <1>4, <1>5 DEF ImagesInv

LEMMA BeginKeeps ==
    ASSUME ImagesInv, NEW c \in Calls, NEW s, NEW stage \in {"upload", "erase"}, Begin(c, s, stage)
    PROVE  ImagesInv'
<1>1. /\ image' = [image EXCEPT ![c] = [at |-> stage, slot |-> {s}, found |-> {}]]
      /\ UNCHANGED <<rows, assets>> /\ image[c].at = "idle"
  BY DEF Begin
<1>2. /\ image'[c] = [at |-> stage, slot |-> {s}, found |-> {}]
      /\ \A d \in Calls \ {c} : image'[d] = image[d]
  BY <1>1 DEF ImagesInv, ImagesShaped
<1>3. ImagesShaped'
  BY <1>1, <1>2 DEF ImagesInv, ImagesShaped
<1>4. \A d \in Calls : Settled(d) => Settled(d)'
  BY <1>1, <1>2 DEF Settled
<1>5. RowsInPlace'
  BY <1>1, <1>4 DEF ImagesInv, RowsInPlace
<1>6. ASSUME NEW d \in Calls PROVE CallInPlace(d)'
  <2>1. CallInPlace(d)
    BY DEF ImagesInv
  <2>2. CASE d = c
    BY <1>2, <2>2 DEF CallInPlace
  <2>3. CASE d # c
    BY <1>1, <1>2, <1>4, <2>1, <2>3 DEF CallInPlace
  <2> QED
    BY <2>2, <2>3
<1> QED
  BY <1>3, <1>5, <1>6 DEF ImagesInv

LEMMA ReadRowKeeps == ASSUME ImagesInv, NEW c \in Calls, ReadRow(c) PROVE ImagesInv'
<1>1. PICK s \in image[c].slot :
         image' = [image EXCEPT
            ![c] = [at |-> IF image[c].at = "read" THEN "commit"
                           ELSE IF RowsOf(s) = {} THEN "failed" ELSE "remove",
                    slot |-> {s}, found |-> RowsOf(s)]]
  BY DEF ReadRow
<1>2. UNCHANGED <<rows, assets>> /\ image[c].at \in {"read", "erase"}
  BY DEF ReadRow
<1>3. /\ image'[c] = [at |-> IF image[c].at = "read" THEN "commit"
                             ELSE IF RowsOf(s) = {} THEN "failed" ELSE "remove",
                      slot |-> {s}, found |-> RowsOf(s)]
      /\ \A d \in Calls \ {c} : image'[d] = image[d]
  BY <1>1 DEF ImagesInv, ImagesShaped
<1>4. ImagesShaped'
  BY <1>1, <1>3 DEF ImagesInv, ImagesShaped
<1>5. \A d \in Calls : Settled(d) => Settled(d)'
  BY <1>2, <1>3 DEF Settled
<1>6. RowsInPlace'
  BY <1>2, <1>5 DEF ImagesInv, RowsInPlace
<1>7. ASSUME NEW d \in Calls PROVE CallInPlace(d)'
  <2>1. CallInPlace(d) /\ RowsInPlace
    BY DEF ImagesInv
  <2>2. CASE d = c
    <3>1. /\ \A f \in RowsOf(s) : f \in rows /\ f.slot = s
          /\ image'[c].found = RowsOf(s)
          /\ image'[c].at = "commit" => image[c].at = "read"
          /\ image'[c].at \in {"commit", "failed", "remove"}
      BY <1>2, <1>3 DEF RowsOf
    <3> QED
      BY <1>2, <1>5, <2>1, <2>2, <3>1 DEF CallInPlace, RowsInPlace
  <2>3. CASE d # c
    BY <1>2, <1>3, <1>5, <2>1, <2>3 DEF CallInPlace
  <2> QED
    BY <2>2, <2>3
<1> QED
  BY <1>4, <1>6, <1>7 DEF ImagesInv

\* A row a call writes is the row it has read, with the call's asset, or a new
\* one where the slot is free; the asset belongs to no other row.
LEMMA WriteKeepsRows ==
    ASSUME ImagesInv, NEW c \in Calls, rows' = Written(c), UNCHANGED assets,
           image[c].at = "remove" \/ (image[c].at = "commit" /\ ~Conflict(c)),
           \A d \in Calls : Settled(d) => Settled(d)', Settled(c)'
    PROVE  /\ RowsInPlace'
           /\ \A x \in rows' : x \in rows \/ x.asset = c
           /\ \A x \in rows', f \in image[c].found : x.asset # f.asset
<1>1. RowsInPlace /\ CallInPlace(c) /\ ImagesShaped
  BY DEF ImagesInv
<1>2. ~Settled(c)
  BY DEF Settled
<1>3. PICK s : image[c].slot = {s}
  BY <1>1 DEF ImagesShaped
<1>4. CASE image[c].at = "remove"
  <2>1. rows' = rows \ Current(c)
    BY <1>4 DEF Written
  <2>2. \A x \in rows', f \in image[c].found : x.asset # f.asset
    BY <1>1, <1>4, <2>1 DEF CallInPlace, Current
  <2> QED
    BY <1>1, <2>1, <2>2 DEF RowsInPlace
<1>5. CASE image[c].at = "commit" /\ image[c].found = {}
  <2>1. rows' = rows \union {[slot |-> s, id |-> c, asset |-> c]} /\ RowsOf(s) = {}
    BY <1>3, <1>5 DEF Written, Conflict
  <2>2. c \in assets /\ \A x \in rows : x.asset # c /\ x.slot # s
    BY <1>1, <1>2, <1>5, <2>1 DEF CallInPlace, RowsInPlace, RowsOf
  <2> QED
    BY <1>1, <1>5, <2>1, <2>2 DEF RowsInPlace
<1>6. CASE image[c].at = "commit" /\ image[c].found # {}
  <2> DEFINE New == {[x EXCEPT !.asset = c] : x \in Current(c)}
  <2>1. rows' = (rows \ Current(c)) \union New
    BY <1>6 DEF Written
  <2>2. \A x \in Current(c) : x \in rows /\ \E f \in image[c].found : x.id = f.id
    BY DEF Current
  <2>3. \A y \in New : \E x \in Current(c) : /\ y = [slot |-> x.slot, id |-> x.id, asset |-> c]
                                             /\ y.slot = x.slot /\ y.id = x.id /\ y.asset = c
    <3>1. \A x \in Current(c) : [x EXCEPT !.asset = c] = [slot |-> x.slot, id |-> x.id, asset |-> c]
      BY <1>1, <2>2 DEF RowsInPlace
    <3> QED
      BY <3>1
  <2> HIDE DEF New
  <2>4. c \in assets /\ \A x \in rows : x.asset # c
    BY <1>1, <1>2, <1>6 DEF CallInPlace, RowsInPlace
  <2>5. \A x \in rows \ Current(c), f \in image[c].found : x.asset # f.asset
    BY <1>1, <1>6 DEF CallInPlace, Current
  <2>6. \A f \in image[c].found : f.asset # c
    BY <1>1, <1>2 DEF CallInPlace
  <2>7. \A x, y \in rows' : x.slot = y.slot => x = y
    BY <1>1, <2>1, <2>2, <2>3 DEF RowsInPlace
  <2>8. \A x, y \in rows' : x.asset = y.asset => x.id = y.id
    BY <1>1, <2>1, <2>2, <2>3, <2>4 DEF RowsInPlace, CallInPlace
  <2>9. \A x \in rows' : /\ x = [slot |-> x.slot, id |-> x.id, asset |-> x.asset]
                         /\ x.asset \in assets /\ x.asset \in Calls /\ Settled(x.asset)'
    BY <1>1, <2>1, <2>3, <2>4 DEF RowsInPlace
  <2> QED
    BY <2>1, <2>3, <2>5, <2>6, <2>7, <2>8, <2>9 DEF RowsInPlace
<1> QED
  BY <1>4, <1>5, <1>6

LEMMA WriteKeeps ==
    ASSUME ImagesInv, NEW c \in Calls, rows' = Written(c), UNCHANGED assets,
           image[c].at = "remove" \/ (image[c].at = "commit" /\ ~Conflict(c)),
           NEW stage \in {"destroy", "done", "failed"}, Goto(c, stage)
    PROVE  ImagesInv'
<1>1. /\ image' = [image EXCEPT ![c].at = stage]
      /\ image'[c] = [at |-> stage, slot |-> image[c].slot, found |-> image[c].found]
      /\ \A d \in Calls \ {c} : image'[d] = image[d]
  BY DEF Goto, ImagesInv, ImagesShaped
<1>2. ImagesShaped'
  <2>1. image' = [d \in Calls |-> image'[d]]
    BY <1>1 DEF ImagesInv, ImagesShaped
  <2>2. \A d \in Calls : image'[d].slot = image[d].slot
    BY <1>1
  <2>3. image[c].at # "idle"
    OBVIOUS
  <2>4. \A d \in Calls : image'[d].at # "idle" => image[d].at # "idle"
    BY <1>1, <2>3
  <2>5. \A d \in Calls :
           image'[d] = [at |-> image'[d].at, slot |-> image'[d].slot, found |-> image'[d].found]
    BY <1>1 DEF ImagesInv, ImagesShaped
  <2> QED
    BY <2>1, <2>2, <2>4, <2>5 DEF ImagesInv, ImagesShaped
<1>3. (\A d \in Calls : Settled(d) => Settled(d)') /\ Settled(c)' /\ ~Settled(c)
  BY <1>1 DEF Settled
<1>4. /\ RowsInPlace'
      /\ \A x \in rows' : x \in rows \/ x.asset = c
      /\ \A x \in rows', f \in image[c].found : x.asset # f.asset
  BY <1>3, WriteKeepsRows
<1>5. ASSUME NEW d \in Calls PROVE CallInPlace(d)'
  <2>1. CallInPlace(d)
    BY DEF ImagesInv
  <2>2. CASE d = c
    BY <1>1, <1>3, <1>4, <2>1, <2>2 DEF CallInPlace
  <2>3. CASE d # c
    <3>1. \A f \in image[d].found : f.asset # c
      BY <1>3, <2>1 DEF CallInPlace
    <3> QED
      BY <1>1, <1>3, <1>4, <2>1, <2>3, <3>1 DEF CallInPlace
  <2> QED
    BY <2>2, <2>3
<1> QED
  BY <1>2, <1>4, <1>5 DEF ImagesInv

LEMMA DestroyKeeps == ASSUME ImagesInv, NEW c \in Calls, Destroy(c) PROVE ImagesInv'
<1>1. /\ image[c].at = "destroy" /\ UNCHANGED rows
      /\ Goto(c, "done") \/ Goto(c, "failed")
      /\ assets' = assets \ Doomed(c) \/ assets' = assets
  BY DEF Destroy, Fail
<1>2. RowsInPlace /\ CallInPlace(c)
  BY DEF ImagesInv
<1>3. \A x \in rows : x.asset \in assets'
  BY <1>1, <1>2 DEF RowsInPlace, CallInPlace, Doomed
<1>4. \A a \in Doomed(c) : a \in Calls /\ Settled(a)
  BY <1>2 DEF CallInPlace, Doomed
<1>5. \A d \in Calls : image[d].at \in {"read", "commit"} /\ d \in assets => d \in assets'
  BY <1>1, <1>4 DEF Settled
<1> QED
  BY <1>1, <1>3, <1>5, StageStep

LEMMA ImageWorkKeeps == ASSUME ImagesInv, NEW c \in Calls, ImageWork(c) PROVE ImagesInv'
<1>0. RowsInPlace
  BY DEF ImagesInv
<1>1. CASE Upload(c)
  <2>1. /\ image[c].at = "upload" /\ assets' = assets \union {c}
        /\ Goto(c, "read") /\ UNCHANGED rows /\ ~Settled(c)
    BY <1>1 DEF Upload, Settled
  <2> QED
    BY <1>0, <2>1, StageStep DEF RowsInPlace
<1>2. CASE UploadFails(c)
  <2>1. /\ image[c].at = "upload" /\ Goto(c, "failed") /\ UNCHANGED rows
        /\ assets' = assets \/ assets' = assets \union {c}
    BY <1>2 DEF UploadFails, Fail
  <2> QED
    BY <1>0, <2>1, StageStep DEF RowsInPlace
<1>3. CASE ReadRow(c)
  BY <1>3, ReadRowKeeps
<1>4. CASE CommitAdd(c)
  <2>1. image[c].at = "commit" /\ UNCHANGED assets
    BY <1>4 DEF CommitAdd
  <2>2. CASE ~Conflict(c) /\ rows' = Written(c)
             /\ Goto(c, IF image[c].found = {} THEN "done" ELSE "destroy")
    BY <2>1, <2>2, WriteKeeps
  <2>3. CASE Fail(c) /\ UNCHANGED rows
    BY <1>0, <2>1, <2>3, StageStep DEF RowsInPlace, Fail
  <2> QED
    BY <1>4, <2>2, <2>3 DEF CommitAdd
<1>5. CASE CommitDelete(c)
  BY <1>5, WriteKeeps DEF CommitDelete
<1>6. CASE Destroy(c)
  BY <1>6, DestroyKeeps
<1>7. CASE Cut(c)
  <2>1. Goto(c, "failed") /\ UNCHANGED assets /\ image[c].at # "idle"
    BY <1>7 DEF Cut, Fail, Working, ActiveStages
  <2>2. CASE UNCHANGED rows
    BY <1>0, <2>1, <2>2, StageStep DEF RowsInPlace
  <2>3. CASE /\ image[c].at = "remove" \/ (image[c].at = "commit" /\ ~Conflict(c))
             /\ rows' = Written(c)
    BY <2>1, <2>3, WriteKeeps
  <2> QED
    BY <1>7, <2>2, <2>3 DEF Cut
<1> QED
  BY <1>1, <1>2, <1>3, <1>4, <1>5, <1>6, <1>7 DEF ImageWork

LEMMA CutAllKeeps == ASSUME ImagesInv, CutAll PROVE ImagesInv'
<1>1. /\ image' = [c \in Calls |-> IF Working(c) THEN [image[c] EXCEPT !.at = "failed"]
                                   ELSE image[c]]
      /\ UNCHANGED <<rows, assets>>
  BY DEF CutAll
<1>2. \A c \in Calls :
         /\ Working(c) =>
               image'[c] = [at |-> "failed", slot |-> image[c].slot, found |-> image[c].found]
         /\ ~Working(c) => image'[c] = image[c]
  <2> SUFFICES ASSUME NEW c \in Calls
               PROVE  /\ Working(c) => image'[c] = [at |-> "failed", slot |-> image[c].slot,
                                                    found |-> image[c].found]
                      /\ ~Working(c) => image'[c] = image[c]
    OBVIOUS
  <2>1. [image[c] EXCEPT !.at = "failed"]
           = [at |-> "failed", slot |-> image[c].slot, found |-> image[c].found]
    BY DEF ImagesInv, ImagesShaped
  <2>2. /\ Working(c) => image'[c] = [image[c] EXCEPT !.at = "failed"]
        /\ ~Working(c) => image'[c] = image[c]
    BY <1>1
  <2> QED
    BY <2>1, <2>2
<1>3. ImagesShaped'
  BY <1>1, <1>2 DEF ImagesInv, ImagesShaped, Working, ActiveStages
<1>4. \A c \in Calls : Settled(c) => Settled(c)'
  <2> SUFFICES ASSUME NEW c \in Calls, Settled(c) PROVE Settled(c)'
    OBVIOUS
  <2>1. image'[c].at = "failed" \/ image'[c].at = image[c].at
    <3>1. CASE Working(c)
      <4>1. image'[c] = [at |-> "failed", slot |-> image[c].slot, found |-> image[c].found]
        BY <1>2, <3>1
      <4> QED
        BY <4>1
    <3>2. CASE ~Working(c)
      BY <1>2, <3>2
    <3> QED
      BY <3>1, <3>2
  <2> QED
    BY <2>1 DEF Settled
<1>5. RowsInPlace'
  BY <1>1, <1>4 DEF ImagesInv, RowsInPlace
<1>6. \A c \in Calls : CallInPlace(c)'
  BY <1>1, <1>2, <1>4 DEF ImagesInv, CallInPlace
<1> QED
  BY <1>3, <1>5, <1>6 DEF ImagesInv

LEMMA ImagesInvStep == ASSUME ImagesInv, [EdgeNext]_edgeVars PROVE ImagesInv'
<1>1. CASE UNCHANGED edgeVars
  BY <1>1, ImagesInvUnchanged DEF edgeVars, imageVars
<1>2. ASSUME NEW h \in Hosts, Arrive(h) PROVE ImagesInv'
  <2> DEFINE c == arrived + 1
  <2>1. c \in Calls /\ (Handles(c) \/ HasNoEffect)
    BY <1>2 DEF Arrive
  <2>2. UNCHANGED imageVars \/ EditsImages(c)
    BY <2>1 DEF Handles, Registers, Creates, HasNoEffect
  <2>3. CASE UNCHANGED imageVars
    BY <2>3, ImagesInvUnchanged DEF imageVars
  <2>4. CASE EditsImages(c)
    <3>1. PICK s : Begin(c, s, "upload") \/ Begin(c, s, "erase")
      BY <2>4 DEF EditsImages, StartAdd, StartDelete
    <3> QED
      BY <2>1, <3>1, BeginKeeps
  <2> QED
    BY <2>2, <2>3, <2>4
<1>3. ASSUME NEW c \in Calls, Work(c) PROVE ImagesInv'
  BY <1>3, ImageWorkKeeps, ImagesInvUnchanged DEF Work, imageVars
<1>4. CASE Restart
  BY <1>4, CutAllKeeps DEF Restart
<1>5. CASE Clock
  BY <1>5, ImagesInvUnchanged DEF Clock, HasNoEffect, imageVars
<1> QED
  BY <1>1, <1>2, <1>3, <1>4, <1>5 DEF EdgeNext

\* The image a row names is at Cloudinary, whatever fails between the two
\* systems and however uploads, replacements, deletions and restarts overlap
\* (generation_service.py:530-600).
THEOREM ImagesAreStored == EdgeSpec => []RowsHaveAssets
<1>1. EdgeInit => ImagesInv
  BY ImagesInvInit DEF EdgeInit
<1>2. ImagesInv /\ [EdgeNext]_edgeVars => ImagesInv'
  BY ImagesInvStep
<1>3. ImagesInv => RowsHaveAssets
  BY DEF ImagesInv, RowsInPlace, RowsHaveAssets
<1> QED
  BY <1>1, <1>2, <1>3, PTL DEF EdgeSpec

(***************************************************************************)
(* Orphans.  Rows and calls keep their slots, and on a slot that is not    *)
(* troubled one call is under way at a time, which finds at its commit     *)
(* what it has read.                                                       *)
(***************************************************************************)

\* The calls that have inserted a row, and uploaded its asset, are on its slot.
Placed(x) ==
    /\ x.id \in Calls /\ image[x.id].slot = {x.slot}
    /\ x.asset \in Calls /\ image[x.asset].slot = {x.slot}

SlotsKept ==
    /\ assets \subseteq Calls
    /\ \A c \in Calls : image[c].at = "idle" => image[c].slot = {} /\ c \notin assets
    /\ \A x \in rows : Placed(x)
    /\ \A c \in Calls : \A f \in image[c].found : Placed(f) /\ image[c].slot = {f.slot}

Calm(c) == ~(image[c].slot \subseteq troubled)

\* Whether call c has read what its slot has.
UpToDate(c) == \A s \in image[c].slot : image[c].found = RowsOf(s)

Undisturbed ==
    /\ \A c, d \in Calls :
          c # d /\ Working(c) /\ Working(d) /\ image[c].slot = image[d].slot => ~Calm(c)
    /\ \A c \in Calls : image[c].at \in {"commit", "remove"} /\ Calm(c) => UpToDate(c)

OrphansInv == SlotsKept /\ Undisturbed /\ OrphansHaveCause

LEMMA OrphansInvInit == ImagesInit => OrphansInv
  BY DEF ImagesInit, OrphansInv, SlotsKept, Undisturbed, OrphansHaveCause, Idle, Working,
         ActiveStages

LEMMA OrphansInvUnchanged == ASSUME OrphansInv, UNCHANGED imageVars PROVE OrphansInv'
<1>1. UNCHANGED <<rows, assets, image, troubled>>
  BY DEF imageVars
<1>2. SlotsKept'
  BY <1>1 DEF OrphansInv, SlotsKept, Placed
<1>3. Undisturbed'
  BY <1>1 DEF OrphansInv, Undisturbed, Calm, UpToDate, RowsOf, Working
<1>4. OrphansHaveCause'
  BY <1>1 DEF OrphansInv, OrphansHaveCause, Held, Doomed
<1> QED
  BY <1>2, <1>3, <1>4 DEF OrphansInv

\* One call makes a step on its slot: what it has to keep to.
LEMMA SlotStep ==
    ASSUME ImagesInv, OrphansInv, NEW c \in Calls, Working(c), NEW stage, NEW found,
           image' = [image EXCEPT ![c] = [at |-> stage, slot |-> image[c].slot, found |-> found]],
           stage # "idle", troubled \subseteq troubled', assets' \subseteq assets \union {c},
           \A f \in found : Placed(f) /\ image[c].slot = {f.slot},
           \A x \in rows' : x \in rows \/ (Placed(x) /\ image[c].slot = {x.slot}),
           \A x \in rows : image[c].slot # {x.slot} => x \in rows',
           stage \in {"commit", "remove"} =>
              image[c].slot \subseteq troubled' \/ \A s \in image[c].slot : found = RowsOf(s)',
           OrphansHaveCause'
    PROVE  OrphansInv'
<1>1. /\ image'[c] = [at |-> stage, slot |-> image[c].slot, found |-> found]
      /\ \A d \in Calls \ {c} : image'[d] = image[d]
  BY DEF ImagesInv, ImagesShaped
<1>2. /\ image'[c].at = stage /\ image'[c].found = found
      /\ \A d \in Calls : image'[d].slot = image[d].slot
  BY <1>1
<1>3. \A x : Placed(x) => Placed(x)'
  BY <1>2 DEF Placed
<1>4. SlotsKept'
  <2>1. SlotsKept /\ image[c].at # "idle"
    BY DEF OrphansInv, Working, ActiveStages
  <2>2. assets' \subseteq Calls
    BY <2>1 DEF SlotsKept
  <2>3. \A d \in Calls : image'[d].at = "idle" => image'[d].slot = {} /\ d \notin assets'
    BY <1>1, <1>2, <2>1 DEF SlotsKept
  <2>4. \A x \in rows' : Placed(x)'
    BY <1>3, <2>1 DEF SlotsKept
  <2>5. \A d \in Calls : \A f \in image'[d].found : Placed(f)' /\ image'[d].slot = {f.slot}
    BY <1>1, <1>2, <1>3, <2>1 DEF SlotsKept
  <2> QED
    BY <2>2, <2>3, <2>4, <2>5 DEF SlotsKept
<1>5. Undisturbed'
  <2>1. \A d \in Calls : Working(d)' => Working(d)
    BY <1>1 DEF Working
  <2>2. \A d \in Calls : Calm(d)' => Calm(d)
    BY <1>2 DEF Calm
  <2>3. ASSUME NEW a \in Calls, NEW d \in Calls, a # d, Working(a)', Working(d)',
               image'[a].slot = image'[d].slot
        PROVE  ~Calm(a)'
    BY <1>2, <2>1, <2>2, <2>3 DEF OrphansInv, Undisturbed
  <2>4. ASSUME NEW d \in Calls, image'[d].at \in {"commit", "remove"}, Calm(d)'
        PROVE  UpToDate(d)'
    <3>1. CASE d = c
      BY <1>2, <2>4, <3>1 DEF UpToDate, Calm, RowsOf
    <3>2. CASE d # c
      <4>1. image'[d] = image[d] /\ Working(d) /\ Calm(d) /\ UpToDate(d)
        BY <1>1, <2>2, <2>4, <3>2 DEF OrphansInv, Undisturbed, Working, ActiveStages
      <4>2. image[d].slot # image[c].slot
        BY <3>2, <4>1 DEF OrphansInv, Undisturbed
      <4>3. PICK s : image[d].slot = {s}
        BY <4>1 DEF ImagesInv, ImagesShaped, Working, ActiveStages
      <4>4. RowsOf(s)' = RowsOf(s)
        BY <4>2, <4>3 DEF RowsOf
      <4> QED
        BY <4>1, <4>3, <4>4 DEF UpToDate
    <3> QED
      BY <3>1, <3>2
  <2> QED
    BY <2>3, <2>4 DEF Undisturbed
<1> QED
  BY <1>4, <1>5 DEF OrphansInv

\* Steps that write no row and destroy nothing.
LEMMA OrphanBegin ==
    ASSUME ImagesInv, OrphansInv, NEW c \in Calls, NEW s, NEW stage \in {"upload", "erase"},
           Begin(c, s, stage)
    PROVE  OrphansInv'
<1>1. /\ image' = [image EXCEPT ![c] = [at |-> stage, slot |-> {s}, found |-> {}]]
      /\ UNCHANGED <<rows, assets>> /\ image[c].at = "idle"
      /\ troubled' = troubled \union (IF \E d \in Calls : On(d, s) THEN {s} ELSE {})
  BY DEF Begin
<1>2. /\ image'[c] = [at |-> stage, slot |-> {s}, found |-> {}]
      /\ \A d \in Calls \ {c} : image'[d] = image[d]
  BY <1>1 DEF ImagesInv, ImagesShaped
<1>3. image'[c].at = stage /\ image'[c].slot = {s} /\ image'[c].found = {}
  BY <1>2
<1>4. image[c].slot = {} /\ c \notin assets
  BY <1>1 DEF OrphansInv, SlotsKept
<1>5. ASSUME NEW x, Placed(x) PROVE Placed(x)'
  BY <1>2, <1>4, <1>5 DEF Placed
<1>6. SlotsKept'
  <2>1. SlotsKept
    BY DEF OrphansInv
  <2>2. \A d \in Calls : image'[d].at = "idle" => image'[d].slot = {} /\ d \notin assets'
    BY <1>1, <1>2, <1>3, <2>1 DEF SlotsKept
  <2>3. \A x \in rows' : Placed(x)'
    BY <1>1, <1>5, <2>1 DEF SlotsKept
  <2>4. \A d \in Calls : \A f \in image'[d].found : Placed(f)' /\ image'[d].slot = {f.slot}
    BY <1>2, <1>3, <1>5, <2>1 DEF SlotsKept
  <2> QED
    BY <1>1, <2>1, <2>2, <2>3, <2>4 DEF SlotsKept
<1>7. Undisturbed'
  <2>1. ~Working(c) /\ \A d \in Calls \ {c} : Working(d)' <=> Working(d)
    BY <1>1, <1>2 DEF Working, ActiveStages
  <2>2. \A d \in Calls \ {c} : Calm(d)' => Calm(d)
    BY <1>1, <1>2 DEF Calm
  <2>3. ASSUME NEW d \in Calls, d # c, Working(d)', image'[d].slot = {s}
        PROVE  s \in troubled'
    <3>1. On(d, s)
      BY <1>2, <2>1, <2>3 DEF On
    <3> QED
      BY <1>1, <3>1
  <2>4. ASSUME NEW a \in Calls, NEW d \in Calls, a # d, Working(a)', Working(d)',
               image'[a].slot = image'[d].slot
        PROVE  ~Calm(a)'
    <3>1. CASE a = c
      BY <1>3, <2>3, <2>4, <3>1 DEF Calm
    <3>2. CASE d = c
      BY <1>3, <2>3, <2>4, <3>2 DEF Calm
    <3>3. CASE a # c /\ d # c
      BY <1>2, <2>1, <2>2, <2>4, <3>3 DEF OrphansInv, Undisturbed
    <3> QED
      BY <3>1, <3>2, <3>3
  <2>5. ASSUME NEW d \in Calls, image'[d].at \in {"commit", "remove"}, Calm(d)'
        PROVE  UpToDate(d)'
    <3>1. d # c
      BY <1>3, <2>5
    <3> QED
      BY <1>1, <1>2, <2>2, <2>5, <3>1 DEF OrphansInv, Undisturbed, UpToDate, RowsOf
  <2> QED
    BY <2>4, <2>5 DEF Undisturbed
<1>8. OrphansHaveCause'
  <2> SUFFICES ASSUME NEW a \in assets
               PROVE  \/ \E x \in rows : x.asset = a
                      \/ Held(a)' \/ image'[a].slot \subseteq troubled'
    BY <1>1 DEF OrphansHaveCause
  <2>1. a \in Calls /\ a # c
    BY <1>4 DEF OrphansInv, SlotsKept
  <2>2. Held(a) => Held(a)'
    BY <1>1, <1>2, <2>1 DEF Held, Doomed
  <2> QED
    BY <1>1, <1>2, <2>1, <2>2 DEF OrphansInv, OrphansHaveCause
<1> QED
  BY <1>6, <1>7, <1>8 DEF OrphansInv

\* A call is answered for while it has its own upload to write down, or the
\* asset it has replaced to destroy.
LEMMA StillHeld ==
    ASSUME ImagesInv, NEW c \in Calls, NEW stage, NEW found, NEW a \in Calls, Held(a),
           image' = [image EXCEPT ![c] = [at |-> stage, slot |-> image[c].slot, found |-> found]],
           a = c /\ image[c].at \in {"read", "commit"} => stage \in {"read", "commit"},
           image[c].at = "destroy" => a \notin Doomed(c)
    PROVE  Held(a)'
<1>1. /\ image'[c] = [at |-> stage, slot |-> image[c].slot, found |-> found]
      /\ \A d \in Calls \ {c} : image'[d] = image[d]
  BY DEF ImagesInv, ImagesShaped
<1>2. CASE image[a].at \in {"read", "commit"}
  BY <1>1, <1>2 DEF Held
<1>3. CASE \E d \in Calls : image[d].at = "destroy" /\ a \in Doomed(d)
  <2>1. PICK d \in Calls : image[d].at = "destroy" /\ a \in Doomed(d)
    BY <1>3
  <2>2. image'[d] = image[d]
    BY <1>1, <2>1
  <2> QED
    BY <2>1, <2>2 DEF Held, Doomed
<1> QED
  BY <1>2, <1>3 DEF Held

\* The step of a call as a change of its stage.
LEMMA GotoIs ==
    ASSUME ImagesInv, NEW c \in Calls, NEW stage, Goto(c, stage)
    PROVE  image' = [image EXCEPT
              ![c] = [at |-> stage, slot |-> image[c].slot, found |-> image[c].found]]
<1>1. image[c] = [at |-> image[c].at, slot |-> image[c].slot, found |-> image[c].found]
  BY DEF ImagesInv, ImagesShaped
<1>2. [image[c] EXCEPT !.at = stage]
         = [at |-> stage, slot |-> image[c].slot, found |-> image[c].found]
  BY <1>1
<1> QED
  BY <1>2 DEF Goto

\* The commit of call c, of which the call may learn or not: the assets that
\* are in no row any more are those it is to destroy, or its slot is troubled.
LEMMA OrphanWrite ==
    ASSUME ImagesInv, OrphansInv, NEW c \in Calls, NEW stage, Goto(c, stage),
           rows' = Written(c), UNCHANGED assets, troubled \subseteq troubled',
           image[c].at = "remove" \/ (image[c].at = "commit" /\ ~Conflict(c)),
           \/ stage = "failed" /\ image[c].slot \subseteq troubled'
           \/ stage = "destroy"
           \/ stage = "done" /\ image[c].at = "commit" /\ image[c].found = {}
    PROVE  OrphansInv'
<1>1. PICK found : found = image[c].found
  OBVIOUS
<1>2. image' = [image EXCEPT ![c] = [at |-> stage, slot |-> image[c].slot, found |-> found]]
  BY <1>1, GotoIs
<1>3. /\ image'[c] = [at |-> stage, slot |-> image[c].slot, found |-> found]
      /\ \A d \in Calls : image'[d].slot = image[d].slot
  BY <1>2 DEF ImagesInv, ImagesShaped
<1>4. PICK s : image[c].slot = {s}
  BY DEF ImagesInv, ImagesShaped
<1>5. SlotsKept /\ Working(c) /\ RowsInPlace
  BY DEF OrphansInv, Working, ActiveStages, ImagesInv
<1>6. \A x \in Current(c) : x \in rows /\ x.slot = s
  <2> SUFFICES ASSUME NEW x \in Current(c) PROVE x \in rows /\ x.slot = s
    OBVIOUS
  <2>1. PICK f \in image[c].found : x \in rows /\ x.id = f.id
    BY DEF Current
  <2>2. Placed(x) /\ Placed(f) /\ {s} = {f.slot}
    BY <1>4, <1>5, <2>1 DEF SlotsKept
  <2>3. {x.slot} = {f.slot}
    BY <2>1, <2>2 DEF Placed
  <2> QED
    BY <2>1, <2>2, <2>3
<1>7. \A x \in rows : x.slot # s => x \in rows'
  BY <1>6 DEF Written
<1>8. \A x \in Current(c) :
         LET y == [x EXCEPT !.asset = c] IN y.slot = x.slot /\ y.id = x.id /\ y.asset = c
  <2>1. \A x \in Current(c) : [x EXCEPT !.asset = c] = [slot |-> x.slot, id |-> x.id, asset |-> c]
    BY <1>5, <1>6 DEF RowsInPlace
  <2> QED
    BY <2>1
<1>9. ASSUME NEW x \in rows', x \notin rows PROVE Placed(x) /\ x.slot = s /\ x.asset = c
  <2>1. CASE image[c].at = "remove"
    BY <1>9, <2>1 DEF Written
  <2>2. CASE image[c].at # "remove" /\ image[c].found = {}
    BY <1>4, <1>9, <2>2 DEF Written, Placed
  <2>3. CASE image[c].at # "remove" /\ image[c].found # {}
    <3>1. PICK z \in Current(c) : x = [z EXCEPT !.asset = c]
      BY <1>9, <2>3 DEF Written
    <3>2. x.slot = z.slot /\ x.id = z.id /\ x.asset = c
      BY <1>8, <3>1
    <3> QED
      BY <1>4, <1>5, <1>6, <3>2 DEF SlotsKept, Placed
  <2> QED
    BY <2>1, <2>2, <2>3
<1>10. image[c].at = "commit" => \E x \in rows' : x.asset = c
  <2>1. CASE image[c].at = "commit" /\ image[c].found = {}
    <3>1. [slot |-> s, id |-> c, asset |-> c] \in rows'
      BY <1>4, <2>1 DEF Written
    <3> QED
      BY <3>1
  <2>2. CASE image[c].at = "commit" /\ image[c].found # {}
    <3>1. PICK z \in Current(c) : TRUE
      BY <2>2 DEF Conflict
    <3>2. [z EXCEPT !.asset = c] \in rows'
      BY <2>2, <3>1 DEF Written
    <3> QED
      BY <1>8, <3>2
  <2> QED
    BY <2>1, <2>2
<1>11. ASSUME NEW a \in assets
       PROVE  \/ \E x \in rows' : x.asset = a
              \/ Held(a)' \/ image'[a].slot \subseteq troubled'
  <2>1. a \in Calls
    BY <1>5 DEF SlotsKept
  <2>2. CASE image[a].slot \subseteq troubled
    BY <1>3, <2>1, <2>2
  <2>3. CASE Held(a)
    <3>1. CASE a = c /\ image[c].at \in {"read", "commit"}
      BY <1>10, <3>1
    <3>2. CASE ~(a = c /\ image[c].at \in {"read", "commit"})
      BY <1>2, <2>1, <2>3, <3>2, StillHeld
    <3> QED
      BY <3>1, <3>2
  <2>4. CASE \E x \in rows : x.asset = a
    <3>1. PICK x \in rows : x.asset = a
      BY <2>4
    <3>2. CASE x \in rows'
      BY <3>1, <3>2
    <3>3. CASE x \notin rows'
      <4>1. x.slot = s /\ image[a].slot = {s} /\ found # {} /\ x \in Current(c)
        BY <1>1, <1>5, <1>6, <1>7, <3>1, <3>3 DEF SlotsKept, Placed, Written, Current
      <4>2. CASE {s} \subseteq troubled'
        BY <1>3, <2>1, <4>1, <4>2
      <4>3. CASE ~({s} \subseteq troubled')
        <5>1. stage = "destroy" /\ Calm(c) /\ image[c].at \in {"commit", "remove"}
          BY <1>1, <1>4, <4>1, <4>3 DEF Calm
        <5>2. x \in found
          BY <1>1, <1>4, <4>1, <5>1, <3>1 DEF OrphansInv, Undisturbed, UpToDate, RowsOf
        <5>3. image'[c].at = "destroy" /\ image'[c].found = found
          BY <1>3, <5>1
        <5>4. a \in Doomed(c)'
          BY <3>1, <5>2, <5>3 DEF Doomed
        <5> QED
          BY <5>3, <5>4 DEF Held
      <4> QED
        BY <4>2, <4>3
    <3> QED
      BY <3>2, <3>3
  <2> QED
    BY <2>2, <2>3, <2>4 DEF OrphansInv, OrphansHaveCause
<1>12. OrphansHaveCause'
  BY <1>11 DEF OrphansHaveCause
<1>13. \A f \in found : Placed(f) /\ image[c].slot = {f.slot}
  BY <1>1, <1>5 DEF SlotsKept
<1> QED
  BY <1>2, <1>4, <1>5, <1>7, <1>9, <1>12, <1>13, SlotStep

\* A call that writes no row, and destroys at most what it has replaced.
LEMMA OrphanStage ==
    ASSUME ImagesInv, OrphansInv, NEW c \in Calls, Working(c), NEW stage, Goto(c, stage),
           UNCHANGED rows, troubled \subseteq troubled',
           stage \notin {"idle", "commit", "remove", "destroy"},
           \/ image[c].slot \subseteq troubled' /\ assets' \subseteq assets \union {c}
           \/ stage = "read" /\ image[c].at = "upload" /\ assets' = assets \union {c}
           \/ stage = "done" /\ image[c].at = "destroy" /\ assets' = assets \ Doomed(c)
    PROVE  OrphansInv'
<1>1. PICK found : found = image[c].found
  OBVIOUS
<1>2. image' = [image EXCEPT ![c] = [at |-> stage, slot |-> image[c].slot, found |-> found]]
  BY <1>1, GotoIs
<1>3. /\ image'[c] = [at |-> stage, slot |-> image[c].slot, found |-> found]
      /\ \A d \in Calls : image'[d].slot = image[d].slot
  BY <1>2 DEF ImagesInv, ImagesShaped
<1>4. SlotsKept
  BY DEF OrphansInv
<1>5. assets' \subseteq assets \union {c}
  OBVIOUS
<1>6. \A a \in Doomed(c) : image[a].slot = image[c].slot
  BY <1>4, ZenonT(40) DEF SlotsKept, Placed, Doomed
<1>7. ASSUME NEW a \in assets'
      PROVE  \/ \E x \in rows : x.asset = a
             \/ Held(a)' \/ image'[a].slot \subseteq troubled'
  <2>1. a \in Calls
    BY <1>4, <1>5 DEF SlotsKept
  <2>2. CASE image[a].slot \subseteq troubled \/ \E x \in rows : x.asset = a
    BY <1>3, <2>1, <2>2
  <2>3. CASE a = c
    <3>1. CASE image[c].slot \subseteq troubled'
      BY <1>3, <2>3, <3>1
    <3>2. CASE stage = "read"
      BY <1>3, <2>3, <3>2 DEF Held
    <3>3. CASE stage = "done" /\ image[c].at = "destroy" /\ assets' = assets \ Doomed(c)
      <4>1. CASE Held(a)
        BY <1>2, <2>1, <2>3, <3>3, <4>1, StillHeld
      <4>2. CASE ~Held(a)
        BY <1>3, <2>1, <3>3, <4>2 DEF OrphansInv, OrphansHaveCause
      <4> QED
        BY <4>1, <4>2
    <3> QED
      BY <3>1, <3>2, <3>3
  <2>4. CASE a # c /\ Held(a)
    <3>1. CASE image[c].at = "destroy" /\ a \in Doomed(c)
      BY <1>3, <1>6, <2>1, <3>1
    <3>2. CASE ~(image[c].at = "destroy" /\ a \in Doomed(c))
      BY <1>2, <2>1, <2>4, <3>2, StillHeld
    <3> QED
      BY <3>1, <3>2
  <2> QED
    BY <1>5, <2>2, <2>3, <2>4 DEF OrphansInv, OrphansHaveCause
<1>8. OrphansHaveCause'
  BY <1>7 DEF OrphansHaveCause
<1>9. \A f \in found : Placed(f) /\ image[c].slot = {f.slot}
  BY <1>1, <1>4 DEF SlotsKept
<1> QED
  BY <1>2, <1>5, <1>8, <1>9, SlotStep

LEMMA OrphanRead == ASSUME ImagesInv, OrphansInv, NEW c \in Calls, ReadRow(c) PROVE OrphansInv'
<1>1. PICK s \in image[c].slot :
         image' = [image EXCEPT
            ![c] = [at |-> IF image[c].at = "read" THEN "commit"
                           ELSE IF RowsOf(s) = {} THEN "failed" ELSE "remove",
                    slot |-> {s}, found |-> RowsOf(s)]]
  BY DEF ReadRow
<1>2. UNCHANGED <<rows, assets, troubled>> /\ image[c].at \in {"read", "erase"}
  BY DEF ReadRow
<1>3. image[c].slot = {s}
  BY <1>1, <1>2 DEF ImagesInv, ImagesShaped
<1>4. PICK stage : stage = IF image[c].at = "read" THEN "commit"
                           ELSE IF RowsOf(s) = {} THEN "failed" ELSE "remove"
  OBVIOUS
<1>5. PICK found : found = RowsOf(s)
  OBVIOUS
<1>6. image' = [image EXCEPT ![c] = [at |-> stage, slot |-> image[c].slot, found |-> found]]
  BY <1>1, <1>3, <1>4, <1>5
<1>7. SlotsKept /\ Working(c) /\ stage # "idle"
  BY <1>2, <1>4 DEF OrphansInv, Working, ActiveStages
<1>8. \A f \in found : Placed(f) /\ image[c].slot = {f.slot}
  BY <1>3, <1>5, <1>7 DEF SlotsKept, RowsOf
<1>9. RowsOf(s)' = RowsOf(s)
  BY <1>2 DEF RowsOf
<1>10. OrphansHaveCause'
  <2> SUFFICES ASSUME NEW a \in assets
               PROVE  \/ \E x \in rows : x.asset = a
                      \/ Held(a)' \/ image'[a].slot \subseteq troubled
    BY <1>2 DEF OrphansHaveCause
  <2>1. a \in Calls /\ image'[a].slot = image[a].slot
    BY <1>6, <1>7 DEF SlotsKept, ImagesInv, ImagesShaped
  <2>2. Held(a) => Held(a)'
    BY <1>2, <1>4, <1>6, <2>1, StillHeld
  <2> QED
    BY <2>1, <2>2 DEF OrphansInv, OrphansHaveCause
<1> QED
  BY <1>2, <1>3, <1>5, <1>6, <1>7, <1>8, <1>9, <1>10, SlotStep

LEMMA OrphanWork == ASSUME ImagesInv, OrphansInv, NEW c \in Calls, ImageWork(c) PROVE OrphansInv'
<1>1. CASE Upload(c)
  <2>1. /\ Working(c) /\ image[c].at = "upload" /\ Goto(c, "read") /\ UNCHANGED <<rows, troubled>>
        /\ assets' = assets \union {c}
    BY <1>1 DEF Upload, Working, ActiveStages
  <2> QED
    BY <2>1, OrphanStage
<1>2. CASE UploadFails(c)
  <2>1. /\ Working(c) /\ Goto(c, "failed") /\ UNCHANGED rows /\ assets' \subseteq assets \union {c}
        /\ troubled' = troubled \union image[c].slot
    BY <1>2 DEF UploadFails, Fail, Working, ActiveStages
  <2> QED
    BY <2>1, OrphanStage
<1>3. CASE ReadRow(c)
  BY <1>3, OrphanRead
<1>4. CASE CommitAdd(c)
  <2>1. image[c].at = "commit" /\ UNCHANGED assets /\ Working(c)
    BY <1>4 DEF CommitAdd, Working, ActiveStages
  <2>2. CASE /\ ~Conflict(c) /\ rows' = Written(c) /\ UNCHANGED troubled
             /\ Goto(c, IF image[c].found = {} THEN "done" ELSE "destroy")
    <3>1. CASE image[c].found = {}
      BY <2>1, <2>2, <3>1, OrphanWrite
    <3>2. CASE image[c].found # {}
      BY <2>1, <2>2, <3>2, OrphanWrite
    <3> QED
      BY <3>1, <3>2
  <2>3. CASE Fail(c) /\ UNCHANGED rows
    BY <2>1, <2>3, OrphanStage DEF Fail
  <2> QED
    BY <1>4, <2>2, <2>3 DEF CommitAdd
<1>5. CASE CommitDelete(c)
  BY <1>5, OrphanWrite DEF CommitDelete
<1>6. CASE Destroy(c)
  <2>1. image[c].at = "destroy" /\ UNCHANGED rows /\ Working(c)
    BY <1>6 DEF Destroy, Working, ActiveStages
  <2>2. CASE assets' = assets \ Doomed(c) /\ Goto(c, "done") /\ UNCHANGED troubled
    BY <2>1, <2>2, OrphanStage
  <2>3. CASE UNCHANGED assets /\ Fail(c)
    BY <2>1, <2>3, OrphanStage DEF Fail
  <2> QED
    BY <1>6, <2>2, <2>3 DEF Destroy
<1>7. CASE Cut(c)
  <2>1. /\ Working(c) /\ Goto(c, "failed") /\ UNCHANGED assets
        /\ troubled' = troubled \union image[c].slot
    BY <1>7 DEF Cut, Fail
  <2>2. CASE UNCHANGED rows
    BY <2>1, <2>2, OrphanStage
  <2>3. CASE /\ image[c].at = "remove" \/ (image[c].at = "commit" /\ ~Conflict(c))
             /\ rows' = Written(c)
    BY <2>1, <2>3, OrphanWrite
  <2> QED
    BY <1>7, <2>2, <2>3 DEF Cut
<1> QED
  BY <1>1, <1>2, <1>3, <1>4, <1>5, <1>6, <1>7 DEF ImageWork

\* A restart troubles the slots of all calls it ends.
LEMMA OrphanCutAll == ASSUME ImagesInv, OrphansInv, CutAll PROVE OrphansInv'
<1>1. /\ image' = [c \in Calls |-> IF Working(c) THEN [image[c] EXCEPT !.at = "failed"]
                                   ELSE image[c]]
      /\ troubled' = troubled \union UNION {image[c].slot : c \in {d \in Calls : Working(d)}}
      /\ UNCHANGED <<rows, assets>>
  BY DEF CutAll
<1>2. ASSUME NEW c \in Calls
      PROVE  /\ Working(c) =>
                   image'[c] = [at |-> "failed", slot |-> image[c].slot, found |-> image[c].found]
             /\ ~Working(c) => image'[c] = image[c]
  <2>1. [image[c] EXCEPT !.at = "failed"]
           = [at |-> "failed", slot |-> image[c].slot, found |-> image[c].found]
    BY DEF ImagesInv, ImagesShaped
  <2>2. /\ Working(c) => image'[c] = [image[c] EXCEPT !.at = "failed"]
        /\ ~Working(c) => image'[c] = image[c]
    BY <1>1
  <2> QED
    BY <2>1, <2>2
<1>3. ASSUME NEW c \in Calls
      PROVE  /\ image'[c].slot = image[c].slot /\ image'[c].found = image[c].found
             /\ Working(c) => image'[c].at = "failed" /\ image[c].slot \subseteq troubled'
             /\ ~Working(c) => image'[c].at = image[c].at
             /\ image'[c].at \notin ActiveStages
  <2>1. CASE Working(c)
    <3>1. image'[c] = [at |-> "failed", slot |-> image[c].slot, found |-> image[c].found]
      BY <1>2, <2>1
    <3>2. image[c].slot \subseteq troubled'
      BY <1>1, <2>1
    <3> QED
      BY <2>1, <3>1, <3>2 DEF ActiveStages
  <2>2. CASE ~Working(c)
    BY <1>2, <2>2 DEF Working
  <2> QED
    BY <2>1, <2>2
<1>4. SlotsKept'
  <2>1. SlotsKept
    BY DEF OrphansInv
  <2>2. \A x : Placed(x) => Placed(x)'
    BY <1>3 DEF Placed
  <2>3. \A c \in Calls : image'[c].at = "idle" => image[c].at = "idle"
    BY <1>3
  <2> QED
    BY <1>1, <1>3, <2>1, <2>2, <2>3 DEF SlotsKept
<1>5. Undisturbed'
  BY <1>3 DEF Undisturbed, Working, ActiveStages
<1>6. OrphansHaveCause'
  <2> SUFFICES ASSUME NEW a \in assets
               PROVE  \/ \E x \in rows : x.asset = a
                      \/ Held(a)' \/ image'[a].slot \subseteq troubled'
    BY <1>1 DEF OrphansHaveCause
  <2>1. a \in Calls /\ SlotsKept
    BY DEF OrphansInv, SlotsKept
  <2>2. CASE image[a].slot \subseteq troubled
    BY <1>1, <1>3, <2>1, <2>2
  <2>3. CASE image[a].at \in {"read", "commit"}
    BY <1>3, <2>1, <2>3 DEF Working, ActiveStages
  <2>4. CASE \E d \in Calls : image[d].at = "destroy" /\ a \in Doomed(d)
    <3>1. PICK d \in Calls : image[d].at = "destroy" /\ a \in Doomed(d)
      BY <2>4
    <3>2. PICK f \in image[d].found : f.asset = a
      BY <3>1 DEF Doomed
    <3>3. Placed(f) /\ image[d].slot = {f.slot}
      BY <2>1, <3>1, <3>2 DEF SlotsKept
    <3>4. image[a].slot = image[d].slot
      BY <3>2, <3>3 DEF Placed
    <3> QED
      BY <1>3, <2>1, <3>1, <3>4 DEF Working, ActiveStages
  <2> QED
    BY <2>2, <2>3, <2>4 DEF OrphansInv, OrphansHaveCause, Held
<1> QED
  BY <1>4, <1>5, <1>6 DEF OrphansInv

LEMMA OrphansInvStep == ASSUME ImagesInv, OrphansInv, [EdgeNext]_edgeVars PROVE OrphansInv'
<1>1. CASE UNCHANGED edgeVars
  BY <1>1, OrphansInvUnchanged DEF edgeVars
<1>2. ASSUME NEW h \in Hosts, Arrive(h) PROVE OrphansInv'
  <2> DEFINE c == arrived + 1
  <2>1. c \in Calls /\ (Handles(c) \/ HasNoEffect)
    BY <1>2 DEF Arrive
  <2>2. UNCHANGED imageVars \/ EditsImages(c)
    BY <2>1 DEF Handles, Registers, Creates, HasNoEffect
  <2>3. CASE UNCHANGED imageVars
    BY <2>3, OrphansInvUnchanged
  <2>4. CASE EditsImages(c)
    <3>1. PICK s : Begin(c, s, "upload") \/ Begin(c, s, "erase")
      BY <2>4 DEF EditsImages, StartAdd, StartDelete
    <3> QED
      BY <2>1, <3>1, OrphanBegin
  <2> QED
    BY <2>2, <2>3, <2>4
<1>3. ASSUME NEW c \in Calls, Work(c) PROVE OrphansInv'
  BY <1>3, OrphanWork, OrphansInvUnchanged DEF Work
<1>4. CASE Restart
  BY <1>4, OrphanCutAll DEF Restart
<1>5. CASE Clock
  BY <1>5, OrphansInvUnchanged DEF Clock, HasNoEffect
<1> QED
  BY <1>1, <1>2, <1>3, <1>4, <1>5 DEF EdgeNext

\* An asset that no row names was left by a call that failed, was cut off or
\* met another one on its slot, for any number of uploads, replacements,
\* deletions and restarts: calls that go through one after the other destroy
\* exactly what they replace (generation_service.py:558-565, 597-600).
THEOREM OrphansAreExplained == EdgeSpec => []OrphansHaveCause
<1>1. EdgeInit => ImagesInv /\ OrphansInv
  BY ImagesInvInit, OrphansInvInit DEF EdgeInit
<1>2. ImagesInv /\ OrphansInv /\ [EdgeNext]_edgeVars => ImagesInv' /\ OrphansInv'
  BY ImagesInvStep, OrphansInvStep
<1>3. OrphansInv => OrphansHaveCause
  BY DEF OrphansInv
<1> QED
  BY <1>1, <1>2, <1>3, PTL DEF EdgeSpec

(***************************************************************************)
(* The rate limiter.  The count of the current window is what was sent in  *)
(* this minute; a window of an earlier minute says nothing was.            *)
(***************************************************************************)

Sent(h) == IF window[h].minute = minute THEN window[h].count ELSE 0

LimiterInv ==
    /\ minute \in Nat \ {0}
    /\ window \in [Hosts -> [minute : Nat, count : Nat]]
    /\ sent \in [Hosts -> Nat] /\ let \in [Hosts -> Nat]
    /\ \A h \in Hosts : /\ window[h].minute <= minute
                        /\ sent[h] = Sent(h)
                        /\ let[h] = IF sent[h] <= Limit THEN sent[h] ELSE Limit

LEMMA LimiterInvInit == LimiterInit => LimiterInv
  BY LimiterAssumption DEF LimiterInit, LimiterInv, NoWindow, Nothing, Sent

LEMMA DispatchKeeps ==
    ASSUME LimiterInv, NEW h \in Hosts, Admit(h) \/ Refuse(h) PROVE LimiterInv'
<1>1. Count(h) = sent[h] + 1
  BY DEF LimiterInv, Count, Sent
<1>2. /\ window' = [window EXCEPT ![h] = [minute |-> minute, count |-> sent[h] + 1]]
      /\ sent' = [sent EXCEPT ![h] = @ + 1] /\ minute' = minute
  BY <1>1 DEF Admit, Refuse, Dispatch
<1>3. /\ let' \in [Hosts -> Nat]
      /\ \A g \in Hosts \ {h} : let'[g] = let[g]
      /\ let'[h] = IF sent[h] + 1 <= Limit THEN sent[h] + 1 ELSE Limit
  <2>1. CASE Admit(h)
    BY <1>1, <2>1, LimiterAssumption DEF Admit, LimiterInv
  <2>2. CASE Refuse(h)
    BY <1>1, <2>2, LimiterAssumption DEF Refuse, LimiterInv
  <2> QED
    BY <2>1, <2>2
<1>4. /\ window' \in [Hosts -> [minute : Nat, count : Nat]] /\ sent' \in [Hosts -> Nat]
      /\ window'[h].minute = minute /\ window'[h].count = sent[h] + 1 /\ sent'[h] = sent[h] + 1
      /\ \A g \in Hosts \ {h} : window'[g] = window[g] /\ sent'[g] = sent[g]
  BY <1>2 DEF LimiterInv
<1> QED
  BY <1>2, <1>3, <1>4 DEF LimiterInv, Sent

LEMMA TickKeeps == ASSUME LimiterInv, Tick PROVE LimiterInv'
  BY LimiterAssumption DEF LimiterInv, Tick, Nothing, Sent

LEMMA ForgetKeeps == ASSUME LimiterInv, ForgetWindows PROVE LimiterInv'
  BY LimiterAssumption DEF LimiterInv, ForgetWindows, Nothing, NoWindow, Sent

LEMMA LimiterInvStep == ASSUME LimiterInv, [EdgeNext]_edgeVars PROVE LimiterInv'
<1>1. CASE UNCHANGED limiterVars
  BY <1>1 DEF LimiterInv, limiterVars, Sent
<1>2. ASSUME NEW h \in Hosts, Arrive(h) PROVE LimiterInv'
  BY <1>2, DispatchKeeps DEF Arrive
<1>3. CASE Restart
  BY <1>3, ForgetKeeps DEF Restart
<1>4. CASE Clock
  BY <1>4, TickKeeps DEF Clock
<1> QED
  BY <1>1, <1>2, <1>3, <1>4 DEF EdgeNext, edgeVars, Work

\* Exactly the first Limit requests of a client in a minute reach a handler,
\* for every limit, number of clients and length of time (main.py:21-41).
THEOREM LimiterIsExact == EdgeSpec => []FirstOnesPass
<1>1. EdgeInit => LimiterInv
  BY LimiterInvInit DEF EdgeInit
<1>2. LimiterInv /\ [EdgeNext]_edgeVars => LimiterInv'
  BY LimiterInvStep
<1>3. LimiterInv => FirstOnesPass
  BY DEF LimiterInv, FirstOnesPass
<1> QED
  BY <1>1, <1>2, <1>3, PTL DEF EdgeSpec

(***************************************************************************)
(* Accounts.  A tenant is named after the registration that committed it,  *)
(* so one that is still to be inserted has none.                           *)
(***************************************************************************)

\* The registration has inserted all it will ever insert.
Registered(c) == register[c].at \in {"done", "failed"}

RegistersShaped ==
    /\ register = [c \in Calls |-> register[c]]
    /\ \A c \in Calls : /\ register[c] = [at |-> register[c].at, email |-> register[c].email]
                        /\ register[c].at = "insert" => \E e : register[c].email = {e}

UsersInPlace ==
    \A u \in users : /\ u = [email |-> u.email, tenant |-> u.tenant]
                     /\ u.tenant = Founder.tenant \/ (u.tenant \in Calls /\ Registered(u.tenant))

AccountsInv == RegistersShaped /\ UsersInPlace /\ AccountsAreWhole

LEMMA AccountsInvInit == AccountsInit(Founder, minute) => AccountsInv
<1> SUFFICES ASSUME AccountsInit(Founder, minute) PROVE AccountsInv
  OBVIOUS
<1>1. /\ tenants = {Founder.tenant} /\ users = {Founder}
      /\ tokens = {Token(Founder.email, Founder.tenant, minute)}
      /\ register = [c \in Calls |-> NoRegistration]
  BY DEF AccountsInit
<1>2. RegistersShaped
  BY <1>1 DEF RegistersShaped, NoRegistration
<1>3. UsersInPlace
  BY <1>1, EdgeAssumption DEF UsersInPlace
<1>4. AccountsAreWhole
  BY <1>1, EdgeAssumption DEF AccountsAreWhole, Token
<1> QED
  BY <1>2, <1>3, <1>4 DEF AccountsInv

LEMMA AccountsInvUnchanged == ASSUME AccountsInv, UNCHANGED accountVars PROVE AccountsInv'
  BY DEF AccountsInv, accountVars, RegistersShaped, UsersInPlace, Registered, AccountsAreWhole

\* A registration goes on to another stage and inserts nothing.
LEMMA RegisterStep ==
    ASSUME AccountsInv, UNCHANGED <<tenants, users>>,
           RegistersShaped', \A c \in Calls : Registered(c) => Registered(c)',
           \A t \in tokens' : [email |-> t.sub, tenant |-> t.tenant] \in users
    PROVE  AccountsInv'
  BY DEF AccountsInv, UsersInPlace, AccountsAreWhole

LEMMA RegisterAtKeeps ==
    ASSUME AccountsInv, NEW c \in Calls, NEW stage \in {"done", "failed"}, RegisterAt(c, stage)
    PROVE  RegistersShaped' /\ Registered(c)' /\ \A d \in Calls : Registered(d) => Registered(d)'
<1>1. /\ register' = [register EXCEPT ![c].at = stage]
      /\ register'[c] = [at |-> stage, email |-> register[c].email]
      /\ \A d \in Calls \ {c} : register'[d] = register[d]
  BY DEF RegisterAt, AccountsInv, RegistersShaped
<1> QED
  BY <1>1 DEF AccountsInv, RegistersShaped, Registered

LEMMA CheckEmailKeeps ==
    ASSUME AccountsInv, NEW c \in Calls, NEW e, CheckEmail(c, e) PROVE AccountsInv'
<1> DEFINE stage == IF UsersOf(e) = {} THEN "insert" ELSE "failed"
<1>1. /\ register[c].at = "idle" /\ UNCHANGED <<tenants, users, tokens>>
      /\ register' = [register EXCEPT ![c] = [at |-> stage, email |-> {e}]]
  BY DEF CheckEmail
<1> HIDE DEF stage
<1>2. /\ register'[c] = [at |-> stage, email |-> {e}]
      /\ \A d \in Calls \ {c} : register'[d] = register[d]
  BY <1>1 DEF AccountsInv, RegistersShaped
<1>3. RegistersShaped'
  BY <1>1, <1>2 DEF AccountsInv, RegistersShaped
<1>4. \A d \in Calls : Registered(d) => Registered(d)'
  BY <1>1, <1>2 DEF Registered
<1>5. \A t \in tokens' : [email |-> t.sub, tenant |-> t.tenant] \in users
  BY <1>1 DEF AccountsInv, AccountsAreWhole
<1> QED
  BY <1>1, <1>3, <1>4, <1>5, RegisterStep

LEMMA LoginKeeps ==
    ASSUME AccountsInv, NEW c \in Calls, NEW e, Login(c, e, minute) PROVE AccountsInv'
<1>1. PICK u \in UsersOf(e) : tokens' = tokens \union {Token(e, u.tenant, minute)}
  BY DEF Login
<1>2. u \in users /\ u = [email |-> e, tenant |-> u.tenant]
  BY DEF UsersOf, AccountsInv, UsersInPlace
<1>3. \A t \in tokens' : [email |-> t.sub, tenant |-> t.tenant] \in users
  <2> DEFINE new == Token(e, u.tenant, minute)
  <2>1. [email |-> new.sub, tenant |-> new.tenant] \in users
    BY <1>2 DEF Token
  <2>2. \A t \in tokens : [email |-> t.sub, tenant |-> t.tenant] \in users
    BY DEF AccountsInv, AccountsAreWhole
  <2>3. \A t \in tokens' : t \in tokens \/ t = new
    BY <1>1
  <2> HIDE DEF new
  <2> QED
    BY <2>1, <2>2, <2>3
<1>4. RegisterAt(c, "done") /\ UNCHANGED <<tenants, users>>
  BY DEF Login
<1> QED
  BY <1>3, <1>4, RegisterAtKeeps, RegisterStep

\* A user is inserted for an address that no user has, with a tenant no user has.
LEMMA InsertKeeps ==
    ASSUME AccountsInv, NEW c \in Calls, register[c].at = "insert", ~Taken(c),
           tenants' = tenants \union {c}, users' = users \union NewUsers(c),
           \/ UNCHANGED tokens
           \/ tokens' = tokens \union {Token(u.email, c, minute) : u \in NewUsers(c)},
           RegistersShaped', Registered(c)', \A d \in Calls : Registered(d) => Registered(d)'
    PROVE  AccountsInv'
<1>1. PICK e : register[c].email = {e}
  BY DEF AccountsInv, RegistersShaped
<1> DEFINE new == [email |-> e, tenant |-> c]
<1>2. users' = users \union {new} /\ NewUsers(c) = {new}
  BY <1>1 DEF NewUsers
<1>3. new = [email |-> new.email, tenant |-> new.tenant] /\ new.email = e /\ new.tenant = c
  OBVIOUS
<1>4. tokens' = tokens \/ tokens' = tokens \union {Token(e, c, minute)}
  BY <1>2, <1>3
<1> HIDE DEF new
<1>5. \A u \in users : u.email # e /\ u.tenant # c
  <2>1. \A u \in users : u.email # e
    BY <1>1 DEF Taken, UsersOf
  <2>2. ~Registered(c)
    BY DEF Registered
  <2> QED
    BY <2>1, <2>2, EdgeAssumption DEF AccountsInv, UsersInPlace
<1>6. UsersInPlace'
  BY <1>2, <1>3 DEF AccountsInv, UsersInPlace
<1>7. AccountsAreWhole'
  <2>1. \A u, v \in users' : u.email = v.email \/ u.tenant = v.tenant => u = v
    BY <1>2, <1>3, <1>5 DEF AccountsInv, AccountsAreWhole
  <2>2. tenants' = {u.tenant : u \in users'}
    BY <1>2, <1>3 DEF AccountsInv, AccountsAreWhole
  <2>3. \A t \in tokens' : [email |-> t.sub, tenant |-> t.tenant] \in users'
    <3>1. \A t \in tokens : [email |-> t.sub, tenant |-> t.tenant] \in users'
      BY <1>2 DEF AccountsInv, AccountsAreWhole
    <3>2. [email |-> Token(e, c, minute).sub, tenant |-> Token(e, c, minute).tenant] \in users'
      BY <1>2, <1>3 DEF Token
    <3> QED
      BY <1>4, <3>1, <3>2
  <2> QED
    BY <2>1, <2>2, <2>3 DEF AccountsAreWhole
<1> QED
  BY <1>6, <1>7 DEF AccountsInv

LEMMA CommitUserKeeps ==
    ASSUME AccountsInv, NEW c \in Calls, CommitUser(c, minute) PROVE AccountsInv'
<1>1. CASE ~Taken(c)
  BY <1>1, InsertKeeps, RegisterAtKeeps DEF CommitUser
<1>2. CASE Taken(c)
  <2>1. RegisterAt(c, "failed") /\ UNCHANGED <<tenants, users, tokens>>
    BY <1>2 DEF CommitUser, Stays
  <2> QED
    BY <2>1, RegisterAtKeeps, RegisterStep DEF AccountsInv, AccountsAreWhole
<1> QED
  BY <1>1, <1>2

LEMMA CutRegistrationKeeps ==
    ASSUME AccountsInv, NEW c \in Calls, CutRegistration(c) PROVE AccountsInv'
<1>1. register[c].at = "insert" /\ RegisterAt(c, "failed") /\ UNCHANGED tokens
  BY DEF CutRegistration
<1>2. CASE UNCHANGED <<tenants, users>>
  BY <1>1, <1>2, RegisterAtKeeps, RegisterStep DEF AccountsInv, AccountsAreWhole
<1>3. CASE ~Taken(c) /\ tenants' = tenants \union {c} /\ users' = users \union NewUsers(c)
  BY <1>1, <1>3, InsertKeeps, RegisterAtKeeps
<1> QED
  BY <1>2, <1>3 DEF CutRegistration

LEMMA CutAllRegistrationsKeeps ==
    ASSUME AccountsInv, CutAllRegistrations PROVE AccountsInv'
<1>1. /\ register' = [c \in Calls |-> IF register[c].at = "insert"
                                      THEN [register[c] EXCEPT !.at = "failed"] ELSE register[c]]
      /\ UNCHANGED <<tenants, users, tokens>>
  BY DEF CutAllRegistrations
<1>2. \A c \in Calls :
         /\ register[c].at = "insert" =>
               register'[c] = [at |-> "failed", email |-> register[c].email]
         /\ register[c].at # "insert" => register'[c] = register[c]
  <2> SUFFICES ASSUME NEW c \in Calls
               PROVE  /\ register[c].at = "insert" =>
                            register'[c] = [at |-> "failed", email |-> register[c].email]
                      /\ register[c].at # "insert" => register'[c] = register[c]
    OBVIOUS
  <2>1. [register[c] EXCEPT !.at = "failed"] = [at |-> "failed", email |-> register[c].email]
    BY DEF AccountsInv, RegistersShaped
  <2> QED
    BY <1>1, <2>1
<1>3. RegistersShaped'
  BY <1>1, <1>2 DEF AccountsInv, RegistersShaped
<1>4. \A c \in Calls : Registered(c) => Registered(c)'
  BY <1>2 DEF Registered
<1>5. \A t \in tokens' : [email |-> t.sub, tenant |-> t.tenant] \in users
  BY <1>1 DEF AccountsInv, AccountsAreWhole
<1> QED
  BY <1>1, <1>3, <1>4, <1>5, RegisterStep

LEMMA AccountsInvStep == ASSUME AccountsInv, [EdgeNext]_edgeVars PROVE AccountsInv'
<1>1. CASE UNCHANGED edgeVars
  BY <1>1, AccountsInvUnchanged DEF edgeVars
<1>2. ASSUME NEW h \in Hosts, Arrive(h) PROVE AccountsInv'
  <2> DEFINE c == arrived + 1
  <2>1. c \in Calls /\ (Handles(c) \/ HasNoEffect)
    BY <1>2 DEF Arrive
  <2>2. UNCHANGED accountVars \/ Registers(c)
    BY <2>1 DEF Handles, Creates, EditsImages, HasNoEffect
  <2>3. CASE Registers(c)
    BY <2>1, <2>3, CheckEmailKeeps, LoginKeeps DEF Registers
  <2> QED
    BY <2>2, <2>3, AccountsInvUnchanged
<1>3. ASSUME NEW c \in Calls, Work(c) PROVE AccountsInv'
  BY <1>3, CommitUserKeeps, CutRegistrationKeeps, AccountsInvUnchanged DEF Work
<1>4. CASE Restart
  BY <1>4, CutAllRegistrationsKeeps DEF Restart
<1>5. CASE Clock
  BY <1>5, AccountsInvUnchanged DEF Clock, HasNoEffect
<1> QED
  BY <1>1, <1>2, <1>3, <1>4, <1>5 DEF EdgeNext

\* One account per address, one owner per workspace, and every token leads to
\* its user's own, for any number of registrations, logins and restarts
\* (api/auth.py:51-115).
THEOREM AccountsStayWhole == EdgeSpec => []AccountsAreWhole
<1>1. EdgeInit => AccountsInv
  BY AccountsInvInit DEF EdgeInit
<1>2. AccountsInv /\ [EdgeNext]_edgeVars => AccountsInv'
  BY AccountsInvStep
<1>3. AccountsInv => AccountsAreWhole
  BY DEF AccountsInv
<1> QED
  BY <1>1, <1>2, <1>3, PTL DEF EdgeSpec

(***************************************************************************)
(* Creation.  While no two calls were about to insert a key at once, one   *)
(* call at a time is, no simulation has the key then, and one has it ever. *)
(***************************************************************************)

\* Whether the key of call c, or of simulation s, has never been raced for.
Unraced(c) == <<create[c].tenant, create[c].key>> \notin raced
UnracedKey(s) == <<{s.tenant}, s.key>> \notin raced

Has(s, c) == {s.tenant} = create[c].tenant /\ s.key = create[c].key

CreationsShaped ==
    /\ create = [c \in Calls |-> create[c]]
    /\ \A c \in Calls :
          /\ create[c] = [at |-> create[c].at, tenant |-> create[c].tenant,
                          key |-> create[c].key, answer |-> create[c].answer]
          /\ create[c].at = "insert" => \E t : create[c].tenant = {t}

SimsKeepKeys ==
    /\ \A s \in sims : /\ s = [id |-> s.id, tenant |-> s.tenant, key |-> s.key]
                       /\ s.id \in Nat
    /\ \A s, x \in sims : s.tenant = x.tenant /\ s.key = x.key /\ s.key # {} /\ UnracedKey(s)
          => s = x

\* A call that is about to insert is alone with its key.
Alone(c) ==
    create[c].at = "insert" /\ create[c].key # {} /\ Unraced(c) =>
       /\ \A s \in sims : ~Has(s, c)
       /\ \A d \in Calls : /\ create[d].at = "insert" /\ create[d].tenant = create[c].tenant
                           /\ create[d].key = create[c].key
                           => d = c

\* A call that has been answered was told a simulation with its key.
Told(c) ==
    /\ create[c].at = "done" => \E s \in sims : Has(s, c) /\ create[c].answer = {s.id}
    /\ create[c].at # "done" => create[c].answer = {}

CreationInv == CreationsShaped /\ SimsKeepKeys /\ \A c \in Calls : Alone(c) /\ Told(c)

LEMMA CreationInvInit == CreationInit(Legacy) => CreationInv
<1> SUFFICES ASSUME CreationInit(Legacy) PROVE CreationInv
  OBVIOUS
<1>1. /\ sims = Legacy
      /\ \A c \in Calls : create[c].at = "idle" /\ create[c].answer = {}
  BY DEF CreationInit, NoCreation
<1>2. CreationsShaped
  BY DEF CreationInit, CreationsShaped, NoCreation
<1>3. SimsKeepKeys
  BY <1>1, EdgeAssumption DEF SimsKeepKeys
<1> QED
  BY <1>1, <1>2, <1>3 DEF CreationInv, Alone, Told

LEMMA CreationInvUnchanged == ASSUME CreationInv, UNCHANGED creationVars PROVE CreationInv'
  BY DEF CreationInv, creationVars, CreationsShaped, SimsKeepKeys, Alone, Told, Has, Unraced, UnracedKey

\* The lookup finds the oldest simulation with the key, or leaves the call
\* about to insert one.
LEMMA CheckKeyKeeps ==
    ASSUME CreationInv, NEW c \in Calls, NEW t, NEW k, CheckKey(c, t, k)
    PROVE  CreationInv'
<1>1. PICK stage, told :
         /\ create' = [create EXCEPT ![c] = [at |-> stage, tenant |-> {t}, key |-> k, answer |-> told]]
         /\ create[c].at = "idle" /\ UNCHANGED sims
         /\ \/ /\ stage = "insert" /\ told = {} /\ WithKey(t, k) = {}
               /\ raced' = raced \union {x \in {<<{t}, k>>} : Creating(t, k)}
            \/ /\ stage = "done" /\ UNCHANGED raced
               /\ \E s \in WithKey(t, k) : told = {s.id}
  BY DEF CheckKey, Looked
<1>2. PICK new : /\ new.at = stage /\ new.tenant = {t} /\ new.key = k /\ new.answer = told
                 /\ new = [at |-> new.at, tenant |-> new.tenant, key |-> new.key,
                           answer |-> new.answer]
                 /\ create' = [create EXCEPT ![c] = new]
  <2> WITNESS [at |-> stage, tenant |-> {t}, key |-> k, answer |-> told]
  <2> QED
    BY <1>1
<1>3. create'[c] = new /\ \A d \in Calls \ {c} : create'[d] = create[d]
  BY <1>2 DEF CreationInv, CreationsShaped
<1>4. CreationsShaped'
  BY <1>2, <1>3 DEF CreationInv, CreationsShaped
<1>5. raced \subseteq raced'
  BY <1>1
<1>6. SimsKeepKeys'
  BY <1>1, <1>5 DEF CreationInv, SimsKeepKeys, UnracedKey
<1>7. ASSUME NEW d \in Calls PROVE Alone(d)'
  <2>1. Alone(d)
    BY DEF CreationInv
  <2>2. stage = "insert" /\ k # {} /\ <<{t}, k>> \notin raced' =>
           /\ \A s \in sims : ~(s.tenant = t /\ s.key = k)
           /\ \A e \in Calls : ~(/\ create[e].at = "insert" /\ create[e].tenant = {t}
                                 /\ create[e].key = k)
    BY <1>1 DEF Creating, WithKey
  <2>3. CASE d = c
    <3> SUFFICES ASSUME stage = "insert", k # {}, <<{t}, k>> \notin raced' PROVE Alone(d)'
      BY <1>2, <1>3, <2>3 DEF Alone, Unraced
    <3>1. \A s \in sims : ~Has(s, d)'
      BY <1>2, <1>3, <2>2, <2>3 DEF Has
    <3>2. \A e \in Calls \ {c} :
             ~(create'[e].at = "insert" /\ create'[e].tenant = {t} /\ create'[e].key = k)
      BY <1>3, <2>2
    <3> QED
      BY <1>1, <1>2, <1>3, <2>3, <3>1, <3>2 DEF Alone
  <2>4. CASE d # c
    <3> SUFFICES ASSUME create[d].at = "insert", create[d].key # {}, Unraced(d)' PROVE Alone(d)'
      BY <1>3, <2>4 DEF Alone
    <3>1. Unraced(d) /\ <<create[d].tenant, create[d].key>> \notin raced'
      BY <1>3, <1>5, <2>4 DEF Unraced
    <3>2. \A s \in sims : ~Has(s, d)'
      BY <1>3, <2>1, <2>4, <3>1 DEF Alone, Has
    <3>3. ~(stage = "insert" /\ {t} = create[d].tenant /\ k = create[d].key)
      BY <2>2, <3>1
    <3>4. \A e \in Calls \ {c} : /\ create[e].at = "insert" /\ create[e].tenant = create[d].tenant
                                 /\ create[e].key = create[d].key
                                 => e = d
      BY <2>1, <3>1 DEF Alone
    <3> QED
      BY <1>1, <1>2, <1>3, <2>4, <3>2, <3>3, <3>4 DEF Alone
  <2> QED
    BY <2>3, <2>4
<1>8. ASSUME NEW d \in Calls PROVE Told(d)'
  <2>1. Told(d)
    BY DEF CreationInv
  <2>2. CASE d = c /\ stage = "insert"
    BY <1>1, <1>2, <1>3, <2>2 DEF Told
  <2>3. CASE d = c /\ stage = "done"
    <3>1. PICK s \in WithKey(t, k) : told = {s.id}
      BY <1>1, <2>3
    <3>2. s \in sims /\ s.tenant = t /\ s.key = k
      BY DEF WithKey
    <3>3. create'[c].at = "done" /\ Has(s, c)' /\ create'[c].answer = {s.id}
      BY <1>2, <1>3, <2>3, <3>1, <3>2 DEF Has
    <3> QED
      BY <1>1, <2>3, <3>2, <3>3 DEF Told
  <2>4. CASE d # c
    BY <1>1, <1>3, <2>1, <2>4 DEF Told, Has
  <2> QED
    BY <1>1, <2>2, <2>3, <2>4
<1> QED
  BY <1>4, <1>6, <1>7, <1>8 DEF CreationInv

\* A call inserts its simulation, or ends without, and answers what it inserted.
LEMMA InsertionKeeps ==
    ASSUME CreationInv, NEW c \in Calls, create[c].at = "insert",
           NEW stage \in {"done", "failed"}, NEW told,
           create' = [create EXCEPT ![c] = [at |-> stage, tenant |-> create[c].tenant,
                                            key |-> create[c].key, answer |-> told]],
           sims' = sims \/ sims' = sims \union Inserted(c),
           stage = "done" => sims' = sims \union Inserted(c) /\ told = {c},
           stage = "failed" => told = {},
           UNCHANGED raced
    PROVE  CreationInv'
<1>1. PICK t : create[c].tenant = {t}
  BY DEF CreationInv, CreationsShaped
<1>2. PICK row :
         /\ Inserted(c) = {row} /\ row.id = c /\ row.tenant = t /\ row.key = create[c].key
         /\ row = [id |-> row.id, tenant |-> row.tenant, key |-> row.key] /\ c \in Nat
  <2> WITNESS [id |-> c, tenant |-> t, key |-> create[c].key]
  <2> QED
    BY <1>1, RequestsAssumption DEF Inserted
<1>3. /\ \A s \in sims' : s \in sims \/ s = row
      /\ sims \subseteq sims'
      /\ stage = "done" => row \in sims'
  BY <1>2
<1>4. /\ create'[c] = [at |-> stage, tenant |-> create[c].tenant,
                       key |-> create[c].key, answer |-> told]
      /\ \A d \in Calls \ {c} : create'[d] = create[d]
  BY DEF CreationInv, CreationsShaped
<1>5. CreationsShaped'
  BY <1>4 DEF CreationInv, CreationsShaped
<1>6. create[c].key # {} /\ Unraced(c) => \A s \in sims : ~(s.tenant = t /\ s.key = create[c].key)
  BY <1>1 DEF CreationInv, Alone, Has
<1>7. SimsKeepKeys'
  <2>1. \A s \in sims' : s = [id |-> s.id, tenant |-> s.tenant, key |-> s.key] /\ s.id \in Nat
    BY <1>2, <1>3 DEF CreationInv, SimsKeepKeys
  <2>2. \A s, x \in sims' : s.tenant = x.tenant /\ s.key = x.key /\ s.key # {} /\ UnracedKey(s) => s = x
    <3>1. row.key # {} /\ UnracedKey(row) => \A s \in sims : ~(s.tenant = t /\ s.key = row.key)
      BY <1>1, <1>2, <1>6 DEF Unraced, UnracedKey
    <3>2. \A s \in sims : s.tenant = row.tenant /\ s.key = row.key => (UnracedKey(s) <=> UnracedKey(row))
      BY DEF UnracedKey
    <3>3. \A s, x \in sims : s.tenant = x.tenant /\ s.key = x.key /\ s.key # {} /\ UnracedKey(s) => s = x
      BY DEF CreationInv, SimsKeepKeys
    <3> QED
      BY <1>2, <1>3, <3>1, <3>2, <3>3
  <2> QED
    BY <2>1, <2>2 DEF SimsKeepKeys, UnracedKey
<1>8. ASSUME NEW d \in Calls PROVE Alone(d)'
  <2> SUFFICES ASSUME d # c, create[d].at = "insert", create[d].key # {}, Unraced(d)
               PROVE  Alone(d)'
    BY <1>4 DEF Alone, Unraced
  <2>1. Alone(d)
    BY DEF CreationInv
  <2>2. ~(create[c].tenant = create[d].tenant /\ create[c].key = create[d].key)
    BY <2>1 DEF Alone
  <2>3. \A s \in sims' : ~Has(s, d)'
    BY <1>1, <1>2, <1>3, <1>4, <2>1, <2>2 DEF Alone, Has
  <2>4. \A e \in Calls : /\ create'[e].at = "insert" /\ create'[e].tenant = create[d].tenant
                         /\ create'[e].key = create[d].key
                         => e = d
    BY <1>4, <2>1 DEF Alone
  <2> QED
    BY <1>4, <2>3, <2>4 DEF Alone
<1>9. ASSUME NEW d \in Calls PROVE Told(d)'
  <2>1. CASE d = c
    <3>1. stage = "done" => row \in sims' /\ Has(row, c)' /\ create'[c].answer = {row.id}
      BY <1>1, <1>2, <1>3, <1>4 DEF Has
    <3> QED
      BY <1>4, <2>1, <3>1 DEF Told
  <2>2. CASE d # c
    <3>1. Told(d)
      BY DEF CreationInv
    <3> QED
      BY <1>3, <1>4, <2>2, <3>1 DEF Told, Has
  <2> QED
    BY <2>1, <2>2
<1> QED
  BY <1>5, <1>7, <1>8, <1>9 DEF CreationInv

LEMMA CommitSimKeeps == ASSUME CreationInv, NEW c \in Calls, CommitSim(c) PROVE CreationInv'
<1>1. /\ create[c].at = "insert" /\ sims' = sims \union Inserted(c)
      /\ create' = [create EXCEPT ![c].at = "done", ![c].answer = {c}]
      /\ UNCHANGED raced
  BY DEF CommitSim
<1>2. create' = [create EXCEPT ![c] = [at |-> "done", tenant |-> create[c].tenant,
                                       key |-> create[c].key, answer |-> {c}]]
  <2>1. create[c] = [at |-> create[c].at, tenant |-> create[c].tenant,
                     key |-> create[c].key, answer |-> create[c].answer]
    BY DEF CreationInv, CreationsShaped
  <2> DEFINE ended == [create[c] EXCEPT !.at = "done"]
  <2>2. ended = [at |-> "done", tenant |-> create[c].tenant, key |-> create[c].key,
                 answer |-> create[c].answer]
    BY <2>1
  <2>3. create' = [create EXCEPT ![c] = [ended EXCEPT !.answer = {c}]]
    BY <1>1 DEF CreationInv, CreationsShaped
  <2> HIDE DEF ended
  <2>4. [ended EXCEPT !.answer = {c}]
           = [at |-> "done", tenant |-> create[c].tenant, key |-> create[c].key, answer |-> {c}]
    BY <2>2
  <2> QED
    BY <2>3, <2>4
<1> QED
  BY <1>1, <1>2, InsertionKeeps

LEMMA CutCreationKeeps == ASSUME CreationInv, NEW c \in Calls, CutCreation(c) PROVE CreationInv'
<1>1. /\ create[c].at = "insert" /\ (sims' = sims \/ sims' = sims \union Inserted(c))
      /\ create' = [create EXCEPT ![c].at = "failed"] /\ create[c].answer = {}
      /\ UNCHANGED raced
  BY DEF CutCreation, CreationInv, Told
<1>2. create' = [create EXCEPT ![c] = [at |-> "failed", tenant |-> create[c].tenant,
                                       key |-> create[c].key, answer |-> create[c].answer]]
  <2>1. create[c] = [at |-> create[c].at, tenant |-> create[c].tenant,
                     key |-> create[c].key, answer |-> create[c].answer]
    BY DEF CreationInv, CreationsShaped
  <2>2. [create[c] EXCEPT !.at = "failed"]
           = [at |-> "failed", tenant |-> create[c].tenant, key |-> create[c].key,
              answer |-> create[c].answer]
    BY <2>1
  <2>3. create' = [create EXCEPT ![c] = [create[c] EXCEPT !.at = "failed"]]
    BY <1>1 DEF CreationInv, CreationsShaped
  <2> QED
    BY <2>2, <2>3
<1> QED
  BY <1>1, <1>2, InsertionKeeps

LEMMA CutAllCreationsKeeps == ASSUME CreationInv, CutAllCreations PROVE CreationInv'
<1>1. /\ create' = [c \in Calls |-> IF create[c].at = "insert"
                                    THEN [create[c] EXCEPT !.at = "failed"] ELSE create[c]]
      /\ UNCHANGED <<sims, raced>>
  BY DEF CutAllCreations
<1>2. \A c \in Calls :
         /\ create[c].at = "insert" =>
               create'[c] = [at |-> "failed", tenant |-> create[c].tenant,
                             key |-> create[c].key, answer |-> create[c].answer]
         /\ create[c].at # "insert" => create'[c] = create[c]
  <2> SUFFICES ASSUME NEW c \in Calls
               PROVE  /\ create[c].at = "insert" =>
                            create'[c] = [at |-> "failed", tenant |-> create[c].tenant,
                                          key |-> create[c].key, answer |-> create[c].answer]
                      /\ create[c].at # "insert" => create'[c] = create[c]
    OBVIOUS
  <2>1. [create[c] EXCEPT !.at = "failed"]
           = [at |-> "failed", tenant |-> create[c].tenant, key |-> create[c].key,
              answer |-> create[c].answer]
    BY DEF CreationInv, CreationsShaped
  <2> QED
    BY <1>1, <2>1
<1>3. CreationsShaped'
  BY <1>1, <1>2 DEF CreationInv, CreationsShaped
<1>4. SimsKeepKeys'
  BY <1>1 DEF CreationInv, SimsKeepKeys, UnracedKey
<1>5. ASSUME NEW c \in Calls PROVE create'[c].at # "insert"
  <2>1. CASE create[c].at = "insert"
    <3>1. create'[c] = [at |-> "failed", tenant |-> create[c].tenant,
                        key |-> create[c].key, answer |-> create[c].answer]
      BY <1>2, <2>1
    <3> QED
      BY <3>1
  <2>2. CASE create[c].at # "insert"
    BY <1>2, <2>2
  <2> QED
    BY <2>1, <2>2
<1>6. ASSUME NEW c \in Calls PROVE Told(c)'
  <2>1. CASE create[c].at = "insert"
    <3>1. create'[c] = [at |-> "failed", tenant |-> create[c].tenant,
                        key |-> create[c].key, answer |-> create[c].answer]
      BY <1>2, <2>1
    <3>2. create'[c].at = "failed" /\ create'[c].answer = {}
      BY <2>1, <3>1 DEF CreationInv, Told
    <3> QED
      BY <3>2 DEF Told
  <2>2. CASE create[c].at # "insert"
    <3>1. create'[c] = create[c] /\ Told(c)
      BY <1>2, <2>2 DEF CreationInv
    <3> QED
      BY <1>1, <3>1 DEF Told, Has
  <2> QED
    BY <2>1, <2>2
<1> QED
  BY <1>3, <1>4, <1>5, <1>6 DEF CreationInv, Alone

LEMMA CreationInvStep ==
    ASSUME CreationInv, [EdgeNext]_edgeVars PROVE CreationInv'
<1>1. CASE UNCHANGED edgeVars
  BY <1>1, CreationInvUnchanged DEF edgeVars
<1>2. ASSUME NEW h \in Hosts, Arrive(h) PROVE CreationInv'
  <2> DEFINE c == arrived + 1
  <2>1. c \in Calls /\ (Handles(c) \/ HasNoEffect)
    BY <1>2 DEF Arrive
  <2>2. UNCHANGED creationVars \/ Creates(c)
    BY <2>1 DEF Handles, Registers, EditsImages, HasNoEffect
  <2>3. CASE Creates(c)
    BY <2>1, <2>3, CheckKeyKeeps DEF Creates
  <2> QED
    BY <2>2, <2>3, CreationInvUnchanged
<1>3. ASSUME NEW c \in Calls, Work(c) PROVE CreationInv'
  BY <1>3, CommitSimKeeps, CutCreationKeeps, CreationInvUnchanged DEF Work
<1>4. CASE Restart
  BY <1>4, CutAllCreationsKeeps DEF Restart
<1>5. CASE Clock
  BY <1>5, CreationInvUnchanged DEF Clock, HasNoEffect
<1> QED
  BY <1>1, <1>2, <1>3, <1>4, <1>5 DEF EdgeNext

\* Whoever is told of a simulation is told one of its own tenant with its own
\* key, and calls that repeat a key are told the same one, for any number of
\* calls, losses and restarts, unless two calls were about to insert that key
\* at once (generation_service.py:63-102).
THEOREM RepeatsFindOne == EdgeSpec => []RepeatsAgree
<1>1. EdgeInit => CreationInv
  BY CreationInvInit DEF EdgeInit
<1>2. CreationInv /\ [EdgeNext]_edgeVars => CreationInv'
  BY CreationInvStep
<1>3. CreationInv => RepeatsAgree
  <2> SUFFICES ASSUME CreationInv PROVE RepeatsAgree
    OBVIOUS
  <2>1. ASSUME NEW c \in Calls, NEW d \in Calls, Unraced(c),
               create[c].tenant = create[d].tenant, create[c].key = create[d].key,
               create[c].key # {}, create[c].at = "done", create[d].at = "done"
        PROVE  create[c].answer = create[d].answer
    <3>1. PICK s \in sims : Has(s, c) /\ create[c].answer = {s.id}
      BY <2>1 DEF CreationInv, Told
    <3>2. PICK x \in sims : Has(x, d) /\ create[d].answer = {x.id}
      BY <2>1 DEF CreationInv, Told
    <3>3. s.tenant = x.tenant /\ s.key = x.key /\ s.key # {} /\ UnracedKey(s)
      BY <2>1, <3>1, <3>2 DEF Has, Unraced, UnracedKey
    <3>4. s = x
      BY <3>3 DEF CreationInv, SimsKeepKeys
    <3> QED
      BY <3>1, <3>2, <3>4
  <2>2. ASSUME NEW c \in Calls, NEW n \in create[c].answer
        PROVE  \E x \in sims : x.id = n /\ {x.tenant} = create[c].tenant /\ x.key = create[c].key
    BY <2>2 DEF CreationInv, Told, Has
  <2> QED
    BY <2>1, <2>2 DEF RepeatsAgree, Unraced
<1> QED
  BY <1>1, <1>2, <1>3, PTL DEF EdgeSpec
=============================================================================
