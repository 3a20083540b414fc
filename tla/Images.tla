------------------------------- MODULE Images -------------------------------
(***************************************************************************)
(* The images of a simulation: a row in simulation_images and an asset at  *)
(* Cloudinary, written by two systems that share no transaction            *)
(* (app/services/generation_service.py, cloudinary_service.py).            *)
(*                                                                         *)
(* A slot is a name of a simulation.  An asset is named after the call     *)
(* that uploaded it and a row after the call that inserted it: Cloudinary  *)
(* and uuid4 give each a new identifier.  Statements see what is committed *)
(* when they begin; an update or a delete is flushed by the commit behind  *)
(* it, and finds its row by the primary key.                               *)
(***************************************************************************)
EXTENDS Requests

CONSTANT Slots

VARIABLES rows,      \* simulation_images
          assets,    \* what Cloudinary stores
          image,     \* the requests' progress, and the row each has read
          troubled   \* history: slots with a failed call, or overlapping ones

imageVars == <<rows, assets, image, troubled>>

RowType == [slot : Slots, id : Calls, asset : Calls]

Stages == {"idle", "upload", "read", "commit", "erase", "remove", "destroy", "done", "failed"}
ActiveStages == {"upload", "read", "commit", "erase", "remove", "destroy"}

Idle == [at |-> "idle", slot |-> {}, found |-> {}]

ImagesInit ==
    /\ rows = {} /\ assets = {} /\ troubled = {}
    /\ image = [c \in Calls |-> Idle]

RowsOf(s) == {x \in rows : x.slot = s}

Working(c) == image[c].at \in ActiveStages

\* The slot of a call that is under way.
On(c, s) == Working(c) /\ image[c].slot = {s}

Goto(c, stage) == image' = [image EXCEPT ![c].at = stage]

Fail(c) == Goto(c, "failed") /\ troubled' = troubled \union image[c].slot

-----------------------------------------------------------------------------
Begin(c, s, stage) ==
    /\ image[c].at = "idle"
    /\ image' = [image EXCEPT ![c] = [at |-> stage, slot |-> {s}, found |-> {}]]
    /\ troubled' = troubled \union (IF \E d \in Calls : On(d, s) THEN {s} ELSE {})
    /\ UNCHANGED <<rows, assets>>

\* add_simulation_image and delete_simulation_image, after get_simulation.
StartAdd(c, s) == Begin(c, s, "upload")
StartDelete(c, s) == Begin(c, s, "erase")

Upload(c) ==
    /\ image[c].at = "upload"
    /\ assets' = assets \union {c}
    /\ Goto(c, "read")
    /\ UNCHANGED <<rows, troubled>>

\* CloudinaryError: nothing was stored, or the answer was lost.
UploadFails(c) ==
    /\ image[c].at = "upload"
    /\ assets' \in {assets, assets \union {c}}
    /\ Fail(c)
    /\ UNCHANGED rows

\* The select of the row with the name, in either operation.
ReadRow(c) ==
    /\ image[c].at \in {"read", "erase"}
    /\ \E s \in image[c].slot :
          LET found == RowsOf(s)
          IN image' = [image EXCEPT
                ![c] = [at |-> IF image[c].at = "read" THEN "commit"
                               ELSE IF found = {} THEN "failed" ELSE "remove",
                        slot |-> {s}, found |-> found]]
    /\ UNCHANGED <<rows, assets, troubled>>

\* The row a call has read, as it is now.
Current(c) == {x \in rows : \E f \in image[c].found : x.id = f.id}

\* The unique constraint is violated, or the update matches no row any more.
Conflict(c) ==
    \/ image[c].found = {} /\ \E s \in image[c].slot : RowsOf(s) # {}
    \/ image[c].found # {} /\ Current(c) = {}

\* The rows after the commit of an insert, an update or a delete.
Written(c) ==
    IF image[c].at = "remove" THEN rows \ Current(c)
    ELSE IF image[c].found = {}
         THEN rows \union {[slot |-> s, id |-> c, asset |-> c] : s \in image[c].slot}
         ELSE (rows \ Current(c)) \union {[x EXCEPT !.asset = c] : x \in Current(c)}

CommitAdd(c) ==
    /\ image[c].at = "commit"
    /\ UNCHANGED assets
    /\ \/ /\ ~Conflict(c)
          /\ rows' = Written(c)
          /\ Goto(c, IF image[c].found = {} THEN "done" ELSE "destroy")
          /\ UNCHANGED troubled
       \/ Conflict(c) /\ Fail(c) /\ UNCHANGED rows

\* A delete that matches no row any more goes unnoticed.
CommitDelete(c) ==
    /\ image[c].at = "remove"
    /\ rows' = Written(c)
    /\ Goto(c, "destroy")
    /\ UNCHANGED <<assets, troubled>>

\* A mutant of Doomed: the public_id is taken from the row after the commit.
DoomedAfterwards(c) == {x.asset : x \in Current(c)}

\* A mutant of Doomed: nothing is destroyed when the image was replaced.
DoomedOnDelete(c) == {f.asset : f \in {g \in image[c].found : RowsOf(g.slot) = {}}}

\* old_public_id: the asset of the row as it was read.
Doomed(c) == {f.asset : f \in image[c].found}

\* delete_image is best-effort: an error is swallowed, a refusal not looked at.
Destroy(c) ==
    /\ image[c].at = "destroy"
    /\ \/ assets' = assets \ Doomed(c) /\ Goto(c, "done") /\ UNCHANGED troubled
       \/ UNCHANGED assets /\ Fail(c)
    /\ UNCHANGED rows

\* The call ends early; a commit may have reached the database all the same.
Cut(c) ==
    /\ Working(c)
    /\ Fail(c)
    /\ UNCHANGED assets
    /\ \/ UNCHANGED rows
       \/ /\ image[c].at = "remove" \/ (image[c].at = "commit" /\ ~Conflict(c))
          /\ rows' = Written(c)

\* The process dies.
CutAll ==
    /\ image' = [c \in Calls |-> IF Working(c) THEN [image[c] EXCEPT !.at = "failed"]
                                 ELSE image[c]]
    /\ troubled' = troubled \union UNION {image[c].slot : c \in {d \in Calls : Working(d)}}
    /\ UNCHANGED <<rows, assets>>

ImageWork(c) ==
    \/ Upload(c) \/ UploadFails(c) \/ ReadRow(c) \/ CommitAdd(c) \/ CommitDelete(c)
    \/ Destroy(c) \/ Cut(c)

ImagesNext ==
    \/ \E c \in Calls : ImageWork(c) \/ \E s \in Slots : StartAdd(c, s) \/ StartDelete(c, s)
    \/ CutAll

ImagesSpec == ImagesInit /\ [][ImagesNext]_imageVars

-----------------------------------------------------------------------------
\* Whatever fails and whoever else is at work, an image the database lists is
\* at Cloudinary: an asset is destroyed only after the commit that leaves no
\* row for it (generation_service.py:558-565, 597-600).
RowsHaveAssets == \A x \in rows : x.asset \in assets

\* An asset a call still answers for: its own upload, or the one it replaces.
Held(a) == \/ image[a].at \in {"read", "commit"}
           \/ \E c \in Calls : image[c].at = "destroy" /\ a \in Doomed(c)

\* An asset that no row refers to was left by a call that failed or met
\* another one on its slot; undisturbed calls leave none (lines 564-565 and 599-600).
OrphansHaveCause ==
    \A a \in assets : \/ \E x \in rows : x.asset = a
                      \/ Held(a)
                      \/ image[a].slot \subseteq troubled
=============================================================================
