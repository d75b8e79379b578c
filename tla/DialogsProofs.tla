--------------------------- MODULE DialogsProofs ---------------------------
(***************************************************************************)
(* Proofs about Dialogs, for any channels, playlist files and number of    *)
(* actions.  What has to be known of a request under way is what its       *)
(* dialog looks like, as long as the user has kept away from it: the       *)
(* button is off, the rows are those that were sent, and only one of the   *)
(* three steps of an import is under way.                                  *)
(***************************************************************************)
EXTENDS Dialogs, TLAPS, FiniteSetTheorems

Kinds == {"add", "update", "parse", "check", "save"}

Typed ==
  /\ drawer \in BOOLEAN /\ frame \in BOOLEAN /\ picker \in BOOLEAN /\ scrim \in BOOLEAN
  /\ hurried \in BOOLEAN /\ meddled \in BOOLEAN
  /\ form \in [open : BOOLEAN, mode : {"add", "edit"}, id : Channel \union {None}, save : BOOLEAN]
  /\ form.open => (form.mode = "edit" <=> form.id \in Channel)
  /\ review \in [open : BOOLEAN, rows : SUBSET Entry, save : BOOLEAN]
  /\ conflict \in [open : BOOLEAN, fresh : SUBSET Streams, add : BOOLEAN]
  /\ library \in SUBSET Streams
  /\ acts \in 0 .. MaxActions

\* A request is what Call made it, and what is saved the server accepts.
Request(r) ==
  /\ r = [no |-> r.no, kind |-> r.kind, id |-> r.id, entries |-> r.entries]
  /\ r.kind \in Kinds
  /\ r.kind = "update" <=> r.id \in Channel
  /\ r.entries \in SUBSET Entry
  /\ r.kind = "save" => r.entries \in SUBSET Streams

\* The scrim, with the frame that is to open the drawer.
ScrimKnown == ScrimBehindDialogs /\ (frame /\ ~scrim => hurried)

\* One form is under way, with its button off.
FormWaits ==
  /\ \A r, q \in FormCalls : r = q
  /\ FormCalls # {} => ~form.save

\* The review waits for r, a check or the save of all its rows the server accepts.
ReviewWaits(r) ==
  /\ review.open /\ ~review.save /\ ~conflict.open
  /\ Accepted(review.rows) = Accepted(r.entries)

\* The conflicts wait for r, the save of what was not known.
ConflictWaits(r) ==
  /\ r.kind = "save" /\ conflict.open /\ ~conflict.add /\ conflict.fresh = r.entries

\* One step of an import is under way; conflicts stand for a review of which
\* they hold what the library has not.
ImportWaits ==
  /\ \A r, q \in ImportCalls : r = q
  /\ \A r \in ImportCalls : r.kind = "parse" => ~review.open /\ ~conflict.open
  /\ \A r \in Submitted : ReviewWaits(r) \/ ConflictWaits(r)
  /\ conflict.open => /\ ~review.open
                      /\ Accepted(review.rows) \subseteq library \union conflict.fresh

DialogsInv ==
  /\ Typed /\ \A r \in calls : Request(r)
  /\ ScrimKnown
  /\ ~meddled => FormWaits /\ ImportWaits

LEMMA OpenDrawerInv ==
  ASSUME DialogsInv, acts < MaxActions, acts' = acts + 1, OpenDrawer
  PROVE  DialogsInv'
<1> USE DEF DialogsInv
<1>0. acts' \in 0 .. MaxActions
  BY DialogsAssumption DEF Typed
<1>1. Typed'
  BY <1>0, DialogsAssumption DEF OpenDrawer, AnyOpen, Modal, Typed, Request
<1>2. (\A q \in calls : Request(q))'
  BY DialogsAssumption DEF OpenDrawer, Typed, Request, Kinds
<1>3. ScrimKnown'
  BY DEF OpenDrawer, Typed, ScrimKnown, ScrimBehindDialogs, AnyOpen, Modal
<1>4. ASSUME ~meddled' PROVE FormWaits'
  BY <1>4 DEF OpenDrawer, Typed, FormWaits, FormCalls, ImportCalls, Submitted, Request
<1>5. ASSUME ~meddled' PROVE ImportWaits'
  BY <1>5 DEF OpenDrawer, Typed, Request, Kinds, ImportWaits, ReviewWaits, ConflictWaits, ImportCalls, Submitted
<1> QED BY <1>1, <1>2, <1>3, <1>4, <1>5

LEMMA CloseButtonInv ==
  ASSUME DialogsInv, acts < MaxActions, acts' = acts + 1, CloseButton
  PROVE  DialogsInv'
<1> USE DEF DialogsInv
<1>0. acts' \in 0 .. MaxActions
  BY DialogsAssumption DEF Typed
<1>1. Typed'
  BY <1>0, DialogsAssumption DEF CloseButton, CloseDrawers, MaybeHideScrim, AnyOpen, Modal, Typed, Request
<1>2. (\A q \in calls : Request(q))'
  BY DialogsAssumption DEF CloseButton, CloseDrawers, MaybeHideScrim, Typed, Request, Kinds
<1>3. ScrimKnown'
  BY DEF CloseButton, CloseDrawers, MaybeHideScrim, Typed, ScrimKnown, ScrimBehindDialogs, AnyOpen, Modal
<1>4. ASSUME ~meddled' PROVE FormWaits'
  BY <1>4 DEF CloseButton, CloseDrawers, MaybeHideScrim, Typed, FormWaits, FormCalls, ImportCalls, Submitted, Request
<1>5. ASSUME ~meddled' PROVE ImportWaits'
  BY <1>5 DEF CloseButton, CloseDrawers, MaybeHideScrim, Typed, Request, Kinds, ImportWaits, ReviewWaits, ConflictWaits, ImportCalls, Submitted
<1> QED BY <1>1, <1>2, <1>3, <1>4, <1>5

LEMMA TogglePickerInv ==
  ASSUME DialogsInv, acts < MaxActions, acts' = acts + 1, TogglePicker
  PROVE  DialogsInv'
<1> USE DEF DialogsInv
<1>0. acts' \in 0 .. MaxActions
  BY DialogsAssumption DEF Typed
<1>1. Typed'
  BY <1>0, DialogsAssumption DEF TogglePicker, MaybeHideScrim, AnyOpen, Modal, Typed, Request
<1>2. (\A q \in calls : Request(q))'
  BY DialogsAssumption DEF TogglePicker, MaybeHideScrim, Typed, Request, Kinds
<1>3. ScrimKnown'
  BY DEF TogglePicker, MaybeHideScrim, Typed, ScrimKnown, ScrimBehindDialogs, AnyOpen, Modal
<1>4. ASSUME ~meddled' PROVE FormWaits'
  BY <1>4 DEF TogglePicker, MaybeHideScrim, Typed, FormWaits, FormCalls, ImportCalls, Submitted, Request
<1>5. ASSUME ~meddled' PROVE ImportWaits'
  BY <1>5 DEF TogglePicker, MaybeHideScrim, Typed, Request, Kinds, ImportWaits, ReviewWaits, ConflictWaits, ImportCalls, Submitted
<1> QED BY <1>1, <1>2, <1>3, <1>4, <1>5

LEMMA EscapeInv ==
  ASSUME DialogsInv, acts < MaxActions, acts' = acts + 1, Escape
  PROVE  DialogsInv'
<1> USE DEF DialogsInv
<1>0. acts' \in 0 .. MaxActions
  BY DialogsAssumption DEF Typed
<1>1. Typed'
  BY <1>0, DialogsAssumption DEF Escape, CloseDrawers, Closed, Emptied, Shut, Meddle, MaybeHideScrim, AnyOpen, Modal, Typed, Request
<1>2. (\A q \in calls : Request(q))'
  BY DialogsAssumption DEF Escape, CloseDrawers, Closed, Emptied, Shut, Meddle, MaybeHideScrim, Typed, Request, Kinds
<1>3. ScrimKnown'
  BY DEF Escape, CloseDrawers, Closed, Emptied, Shut, Meddle, MaybeHideScrim, Typed, ScrimKnown, ScrimBehindDialogs, AnyOpen, Modal
<1>4. ASSUME ~meddled' PROVE FormWaits'
  BY <1>4 DEF Escape, CloseDrawers, Closed, Emptied, Shut, Meddle, MaybeHideScrim, Typed, FormWaits, FormCalls, ImportCalls, Submitted, Request
<1>5. ASSUME ~meddled' PROVE ImportWaits'
  BY <1>5 DEF Escape, CloseDrawers, Closed, Emptied, Shut, Meddle, MaybeHideScrim, Typed, Request, Kinds, ImportWaits, ReviewWaits, ConflictWaits, ImportCalls, Submitted
<1> QED BY <1>1, <1>2, <1>3, <1>4, <1>5

LEMMA OpenChannelModalInv ==
  ASSUME DialogsInv, NEW mode \in {"add", "edit"}, NEW id \in Channel \union {None}, mode = "edit" <=> id \in Channel, acts < MaxActions, acts' = acts + 1, OpenChannelModal(mode, id)
  PROVE  DialogsInv'
<1> USE DEF DialogsInv
<1>0. acts' \in 0 .. MaxActions
  BY DialogsAssumption DEF Typed
<1>1. Typed'
  BY <1>0, DialogsAssumption DEF OpenChannelModal, CloseDrawers, Meddle, AnyOpen, Modal, Typed, Request
<1>2. (\A q \in calls : Request(q))'
  BY DialogsAssumption DEF OpenChannelModal, CloseDrawers, Meddle, Typed, Request, Kinds
<1>3. ScrimKnown'
  BY DEF OpenChannelModal, CloseDrawers, Meddle, Typed, ScrimKnown, ScrimBehindDialogs, AnyOpen, Modal
<1>4. ASSUME ~meddled' PROVE FormWaits'
  BY <1>4 DEF OpenChannelModal, CloseDrawers, Meddle, Typed, FormWaits, FormCalls, ImportCalls, Submitted, Request
<1>5. ASSUME ~meddled' PROVE ImportWaits'
  BY <1>5 DEF OpenChannelModal, CloseDrawers, Meddle, Typed, Request, Kinds, ImportWaits, ReviewWaits, ConflictWaits, ImportCalls, Submitted
<1> QED BY <1>1, <1>2, <1>3, <1>4, <1>5

LEMMA CloseAddChannelInv ==
  ASSUME DialogsInv, acts < MaxActions, acts' = acts + 1, CloseAddChannel
  PROVE  DialogsInv'
<1> USE DEF DialogsInv
<1>0. acts' \in 0 .. MaxActions
  BY DialogsAssumption DEF Typed
<1>1. Typed'
  BY <1>0, DialogsAssumption DEF CloseAddChannel, Closed, Meddle, MaybeHideScrim, AnyOpen, Modal, Typed, Request
<1>2. (\A q \in calls : Request(q))'
  BY DialogsAssumption DEF CloseAddChannel, Closed, Meddle, MaybeHideScrim, Typed, Request, Kinds
<1>3. ScrimKnown'
  BY DEF CloseAddChannel, Closed, Meddle, MaybeHideScrim, Typed, ScrimKnown, ScrimBehindDialogs, AnyOpen, Modal
<1>4. ASSUME ~meddled' PROVE FormWaits'
  BY <1>4 DEF CloseAddChannel, Closed, Meddle, MaybeHideScrim, Typed, FormWaits, FormCalls, ImportCalls, Submitted, Request
<1>5. ASSUME ~meddled' PROVE ImportWaits'
  BY <1>5 DEF CloseAddChannel, Closed, Meddle, MaybeHideScrim, Typed, Request, Kinds, ImportWaits, ReviewWaits, ConflictWaits, ImportCalls, Submitted
<1> QED BY <1>1, <1>2, <1>3, <1>4, <1>5

LEMMA SubmitInv ==
  ASSUME DialogsInv, acts < MaxActions, acts' = acts + 1, Submit
  PROVE  DialogsInv'
<1> USE DEF DialogsInv
<1>0. acts' \in 0 .. MaxActions
  BY DialogsAssumption DEF Typed
<1>1. Typed'
  BY <1>0, DialogsAssumption, ZenonT(30) DEF Submit, Call, AnyOpen, Modal, Typed, Request
<1>2. (\A q \in calls : Request(q))'
  BY DialogsAssumption DEF Submit, Call, Typed, Request, Kinds
<1>3. ScrimKnown'
  BY DEF Submit, Call, Typed, ScrimKnown, ScrimBehindDialogs, AnyOpen, Modal
<1>4. ASSUME ~meddled' PROVE FormWaits'
  BY <1>4 DEF Submit, Call, Typed, FormWaits, FormCalls, ImportCalls, Submitted, Request
<1>5. ASSUME ~meddled' PROVE ImportWaits'
  BY <1>5 DEF Submit, Call, Typed, Request, Kinds, ImportWaits, ReviewWaits, ConflictWaits, ImportCalls, Submitted
<1> QED BY <1>1, <1>2, <1>3, <1>4, <1>5

LEMMA ChooseFileInv ==
  ASSUME DialogsInv, acts < MaxActions, acts' = acts + 1, ChooseFile
  PROVE  DialogsInv'
<1> USE DEF DialogsInv
<1>0. acts' \in 0 .. MaxActions
  BY DialogsAssumption DEF Typed
<1>1. Typed'
  BY <1>0, DialogsAssumption DEF ChooseFile, Meddle, Call, AnyOpen, Modal, Typed, Request
<1>2. (\A q \in calls : Request(q))'
  BY DialogsAssumption DEF ChooseFile, Meddle, Call, Typed, Request, Kinds
<1>3. ScrimKnown'
  BY DEF ChooseFile, Meddle, Call, Typed, ScrimKnown, ScrimBehindDialogs, AnyOpen, Modal
<1>4. ASSUME ~meddled' PROVE FormWaits'
  BY <1>4 DEF ChooseFile, Meddle, Call, Typed, FormWaits, FormCalls, ImportCalls, Submitted, Request
<1>5. ASSUME ~meddled' PROVE ImportWaits'
  <2>1. PICK rows \in File : calls' = calls \union {Call("parse", None, rows)}
    BY DEF ChooseFile
  <2> DEFINE c == Call("parse", None, rows)
  <2>2. c.kind = "parse"
    BY DEF Call
  <2>3. ~meddled /\ ImportCalls = {} /\ UNCHANGED <<review, conflict, library>>
        /\ ~review.open /\ ~conflict.open
    BY <1>5 DEF ChooseFile, Meddle, Typed, Modal
  <2> HIDE DEF c
  <2>4. ImportCalls' \subseteq {c} /\ Submitted' = {}
    BY <2>1, <2>2, <2>3 DEF c, ImportCalls, Submitted
  <2> QED BY <2>2, <2>3, <2>4 DEF ImportWaits
<1> QED BY <1>1, <1>2, <1>3, <1>4, <1>5

LEMMA EditRowInv ==
  ASSUME DialogsInv, NEW old \in Entry, NEW new \in SUBSET Entry, acts < MaxActions, acts' = acts + 1, EditRow(old, new)
  PROVE  DialogsInv'
<1> USE DEF DialogsInv
<1>0. acts' \in 0 .. MaxActions
  BY DialogsAssumption DEF Typed
<1>1. Typed'
  BY <1>0, DialogsAssumption DEF EditRow, Meddle, AnyOpen, Modal, Typed, Request
<1>2. (\A q \in calls : Request(q))'
  BY DialogsAssumption DEF EditRow, Meddle, Typed, Request, Kinds
<1>3. ScrimKnown'
  BY DEF EditRow, Meddle, Typed, ScrimKnown, ScrimBehindDialogs, AnyOpen, Modal
<1>4. ASSUME ~meddled' PROVE FormWaits'
  BY <1>4 DEF EditRow, Meddle, Typed, FormWaits, FormCalls, ImportCalls, Submitted, Request
<1>5. ASSUME ~meddled' PROVE ImportWaits'
  BY <1>5 DEF EditRow, Meddle, Typed, Request, Kinds, ImportWaits, ReviewWaits, ConflictWaits, ImportCalls, Submitted
<1> QED BY <1>1, <1>2, <1>3, <1>4, <1>5

LEMMA CloseImportInv ==
  ASSUME DialogsInv, acts < MaxActions, acts' = acts + 1, CloseImport
  PROVE  DialogsInv'
<1> USE DEF DialogsInv
<1>0. acts' \in 0 .. MaxActions
  BY DialogsAssumption DEF Typed
<1>1. Typed'
  BY <1>0, DialogsAssumption DEF CloseImport, Emptied, Meddle, MaybeHideScrim, AnyOpen, Modal, Typed, Request
<1>2. (\A q \in calls : Request(q))'
  BY DialogsAssumption DEF CloseImport, Emptied, Meddle, MaybeHideScrim, Typed, Request, Kinds
<1>3. ScrimKnown'
  BY DEF CloseImport, Emptied, Meddle, MaybeHideScrim, Typed, ScrimKnown, ScrimBehindDialogs, AnyOpen, Modal
<1>4. ASSUME ~meddled' PROVE FormWaits'
  BY <1>4 DEF CloseImport, Emptied, Meddle, MaybeHideScrim, Typed, FormWaits, FormCalls, ImportCalls, Submitted, Request
<1>5. ASSUME ~meddled' PROVE ImportWaits'
  BY <1>5 DEF CloseImport, Emptied, Meddle, MaybeHideScrim, Typed, Request, Kinds, ImportWaits, ReviewWaits, ConflictWaits, ImportCalls, Submitted
<1> QED BY <1>1, <1>2, <1>3, <1>4, <1>5

LEMMA ImportSaveInv ==
  ASSUME DialogsInv, acts < MaxActions, acts' = acts + 1, ImportSave
  PROVE  DialogsInv'
<1> USE DEF DialogsInv
<1>0. acts' \in 0 .. MaxActions
  BY DialogsAssumption DEF Typed
<1>1. Typed'
  BY <1>0, DialogsAssumption, ZenonT(30) DEF ImportSave, Call, AnyOpen, Modal, Typed, Request
<1>2. (\A q \in calls : Request(q))'
  BY DialogsAssumption DEF ImportSave, Call, Typed, Request, Kinds
<1>3. ScrimKnown'
  BY DEF ImportSave, Call, Typed, ScrimKnown, ScrimBehindDialogs, AnyOpen, Modal
<1>4. ASSUME ~meddled' PROVE FormWaits'
  BY <1>4 DEF ImportSave, Call, Typed, FormWaits, FormCalls, ImportCalls, Submitted, Request
<1>5. ASSUME ~meddled' PROVE ImportWaits'
  <2> DEFINE c == Call("check", None, review.rows \intersect Valid)
  <2>1. c.kind = "check" /\ c.entries = review.rows \intersect Valid
    BY DEF Call
  <2>2. /\ ~meddled /\ calls' = calls \union {c} /\ UNCHANGED <<conflict, library>>
        /\ review.open /\ review.save
    BY <1>5 DEF ImportSave
  <2>3. review'.open /\ ~review'.save /\ review'.rows = review.rows
    BY DEF ImportSave, Typed
  <2> HIDE DEF c
  <2>4. ImportCalls = {} /\ ~conflict.open
    BY <2>2 DEF ImportWaits, ReviewWaits, ConflictWaits, ImportCalls, Submitted
  <2>5. ImportCalls' \subseteq {c} /\ Submitted' \subseteq {c}
    BY <2>2, <2>4 DEF ImportCalls, Submitted
  <2>6. Accepted(review.rows \intersect Valid) = Accepted(review.rows)
    BY DialogsAssumption DEF Accepted
  <2> QED BY <2>1, <2>2, <2>3, <2>4, <2>5, <2>6 DEF ImportWaits, ReviewWaits
<1> QED BY <1>1, <1>2, <1>3, <1>4, <1>5

LEMMA ImportConflictAddInv ==
  ASSUME DialogsInv, acts < MaxActions, acts' = acts + 1, ImportConflictAdd
  PROVE  DialogsInv'
<1> USE DEF DialogsInv
<1>0. acts' \in 0 .. MaxActions
  BY DialogsAssumption DEF Typed
<1>1. Typed'
  BY <1>0, DialogsAssumption, ZenonT(30) DEF ImportConflictAdd, Call, AnyOpen, Modal, Typed, Request
<1>2. (\A q \in calls : Request(q))'
  BY DialogsAssumption DEF ImportConflictAdd, Call, Typed, Request, Kinds
<1>3. ScrimKnown'
  BY DEF ImportConflictAdd, Call, Typed, ScrimKnown, ScrimBehindDialogs, AnyOpen, Modal
<1>4. ASSUME ~meddled' PROVE FormWaits'
  BY <1>4 DEF ImportConflictAdd, Call, Typed, FormWaits, FormCalls, ImportCalls, Submitted, Request
<1>5. ASSUME ~meddled' PROVE ImportWaits'
  BY <1>5 DEF ImportConflictAdd, Call, Typed, Request, Kinds, ImportWaits, ReviewWaits, ConflictWaits, ImportCalls, Submitted
<1> QED BY <1>1, <1>2, <1>3, <1>4, <1>5

LEMMA ImportConflictCancelInv ==
  ASSUME DialogsInv, acts < MaxActions, acts' = acts + 1, ImportConflictCancel
  PROVE  DialogsInv'
<1> USE DEF DialogsInv
<1>0. acts' \in 0 .. MaxActions
  BY DialogsAssumption DEF Typed
<1>1. Typed'
  BY <1>0, DialogsAssumption DEF ImportConflictCancel, Shut, Meddle, AnyOpen, Modal, Typed, Request
<1>2. (\A q \in calls : Request(q))'
  BY DialogsAssumption DEF ImportConflictCancel, Shut, Meddle, Typed, Request, Kinds
<1>3. ScrimKnown'
  BY DEF ImportConflictCancel, Shut, Meddle, Typed, ScrimKnown, ScrimBehindDialogs, AnyOpen, Modal
<1>4. ASSUME ~meddled' PROVE FormWaits'
  BY <1>4 DEF ImportConflictCancel, Shut, Meddle, Typed, FormWaits, FormCalls, ImportCalls, Submitted, Request
<1>5. ASSUME ~meddled' PROVE ImportWaits'
  BY <1>5 DEF ImportConflictCancel, Shut, Meddle, Typed, Request, Kinds, ImportWaits, ReviewWaits, ConflictWaits, ImportCalls, Submitted
<1> QED BY <1>1, <1>2, <1>3, <1>4, <1>5

LEMMA ImportConflictCloseInv ==
  ASSUME DialogsInv, acts < MaxActions, acts' = acts + 1, ImportConflictClose
  PROVE  DialogsInv'
<1> USE DEF DialogsInv
<1>0. acts' \in 0 .. MaxActions
  BY DialogsAssumption DEF Typed
<1>1. Typed'
  BY <1>0, DialogsAssumption DEF ImportConflictClose, Emptied, Meddle, MaybeHideScrim, AnyOpen, Modal, Typed, Request
<1>2. (\A q \in calls : Request(q))'
  BY DialogsAssumption DEF ImportConflictClose, Emptied, Meddle, MaybeHideScrim, Typed, Request, Kinds
<1>3. ScrimKnown'
  BY DEF ImportConflictClose, Emptied, Meddle, MaybeHideScrim, Typed, ScrimKnown, ScrimBehindDialogs, AnyOpen, Modal
<1>4. ASSUME ~meddled' PROVE FormWaits'
  BY <1>4 DEF ImportConflictClose, Emptied, Meddle, MaybeHideScrim, Typed, FormWaits, FormCalls, ImportCalls, Submitted, Request
<1>5. ASSUME ~meddled' PROVE ImportWaits'
  BY <1>5 DEF ImportConflictClose, Emptied, Meddle, MaybeHideScrim, Typed, Request, Kinds, Accepted, ImportWaits, ReviewWaits, ConflictWaits, ImportCalls, Submitted
<1> QED BY <1>1, <1>2, <1>3, <1>4, <1>5

LEMMA FrameComesInv ==
  ASSUME DialogsInv, FrameComes
  PROVE  DialogsInv'
<1> USE DEF DialogsInv
<1>0. acts' \in 0 .. MaxActions
  BY DialogsAssumption DEF Typed, FrameComes
<1>1. Typed'
  BY <1>0, DialogsAssumption, ZenonT(30) DEF FrameComes, AnyOpen, Modal, Typed, Request
<1>2. (\A q \in calls : Request(q))'
  BY DialogsAssumption DEF FrameComes, Typed, Request, Kinds
<1>3. ScrimKnown'
  BY DEF FrameComes, Typed, ScrimKnown, ScrimBehindDialogs, AnyOpen, Modal
<1>4. ASSUME ~meddled' PROVE FormWaits'
  BY <1>4 DEF FrameComes, Typed, FormWaits, FormCalls, ImportCalls, Submitted, Request
<1>5. ASSUME ~meddled' PROVE ImportWaits'
  BY <1>5 DEF FrameComes, Typed, Request, Kinds, ImportWaits, ReviewWaits, ConflictWaits, ImportCalls, Submitted
<1> QED BY <1>1, <1>2, <1>3, <1>4, <1>5

LEMMA SubmitAnsweredInv ==
  ASSUME DialogsInv, NEW r \in calls, NEW ok \in BOOLEAN, SubmitAnswered(r, ok)
  PROVE  DialogsInv'
<1> USE DEF DialogsInv
<1>0. acts' \in 0 .. MaxActions
  BY DialogsAssumption DEF Typed, SubmitAnswered
<1>1. Typed'
  <2>1. UNCHANGED <<drawer, frame, picker, review, conflict, library, meddled>>
    BY DEF SubmitAnswered
  <2>2. CASE ok
    <3>1. form' = Closed(form) /\ scrim' = AnyOpen' /\ hurried' = (hurried \/ frame)
      BY <2>2 DEF SubmitAnswered, MaybeHideScrim
    <3> QED BY <1>0, <2>1, <3>1 DEF Typed, Closed, AnyOpen, Modal
  <2>3. CASE ~ok
    BY <1>0, <2>1, <2>3, ZenonT(30) DEF SubmitAnswered, Typed
  <2> QED BY <2>2, <2>3
<1>2. (\A q \in calls : Request(q))'
  BY DialogsAssumption DEF SubmitAnswered, Closed, MaybeHideScrim, Typed, Request, Kinds
<1>3. ScrimKnown'
  BY DEF SubmitAnswered, Closed, MaybeHideScrim, Typed, ScrimKnown, ScrimBehindDialogs, AnyOpen, Modal
<1>4. ASSUME ~meddled' PROVE FormWaits'
  BY <1>4 DEF SubmitAnswered, Closed, MaybeHideScrim, Typed, FormWaits, FormCalls, ImportCalls, Submitted, Request
<1>5. ASSUME ~meddled' PROVE ImportWaits'
  BY <1>5 DEF SubmitAnswered, Closed, MaybeHideScrim, Typed, Request, Kinds, ImportWaits, ReviewWaits, ConflictWaits, ImportCalls, Submitted
<1> QED BY <1>1, <1>2, <1>3, <1>4, <1>5

LEMMA ParseAnsweredInv ==
  ASSUME DialogsInv, NEW r \in calls, NEW ok \in BOOLEAN, ParseAnswered(r, ok)
  PROVE  DialogsInv'
<1> USE DEF DialogsInv
<1>0. acts' \in 0 .. MaxActions
  BY DialogsAssumption DEF Typed, ParseAnswered
<1>1. Typed'
  BY <1>0, DialogsAssumption, ZenonT(30) DEF ParseAnswered, CloseDrawers, AnyOpen, Modal, Typed, Request
<1>2. (\A q \in calls : Request(q))'
  BY DialogsAssumption DEF ParseAnswered, CloseDrawers, Typed, Request, Kinds
<1>3. ScrimKnown'
  BY DEF ParseAnswered, CloseDrawers, Typed, ScrimKnown, ScrimBehindDialogs, AnyOpen, Modal
<1>4. ASSUME ~meddled' PROVE FormWaits'
  BY <1>4 DEF ParseAnswered, CloseDrawers, Typed, FormWaits, FormCalls, ImportCalls, Submitted, Request
<1>5. ASSUME ~meddled' PROVE ImportWaits'
  BY <1>5 DEF ParseAnswered, CloseDrawers, Typed, Request, Kinds, ImportWaits, ReviewWaits, ConflictWaits, ImportCalls, Submitted
<1> QED BY <1>1, <1>2, <1>3, <1>4, <1>5

LEMMA CheckAnsweredInv ==
  ASSUME DialogsInv, NEW r \in calls, NEW ok \in BOOLEAN, CheckAnswered(r, ok)
  PROVE  DialogsInv'
<1> USE DEF DialogsInv
<1>0. acts' \in 0 .. MaxActions
  BY DialogsAssumption DEF Typed, CheckAnswered
<1>1. Typed'
  <2>1. UNCHANGED <<drawer, frame, picker, form, library, hurried, meddled>>
    BY DEF CheckAnswered
  <2>2. Accepted(r.entries) \ library \in SUBSET Streams
    BY DEF Accepted
  <2>3. review' \in [open : BOOLEAN, rows : SUBSET Entry, save : BOOLEAN]
    BY DEF CheckAnswered, Typed
  <2>4. conflict' \in [open : BOOLEAN, fresh : SUBSET Streams, add : BOOLEAN]
    <3> DEFINE fresh == Accepted(r.entries) \ library
    <3>1. [open |-> TRUE, fresh |-> fresh, add |-> fresh # {}]
            \in [open : BOOLEAN, fresh : SUBSET Streams, add : BOOLEAN]
      BY <2>2
    <3>2. conflict' = conflict \/ conflict' = [open |-> TRUE, fresh |-> fresh, add |-> fresh # {}]
      BY DEF CheckAnswered
    <3> QED BY <3>1, <3>2 DEF Typed
  <2>5. scrim' \in BOOLEAN
    BY DEF CheckAnswered, Typed
  <2> QED BY <1>0, <2>1, <2>3, <2>4, <2>5 DEF Typed
<1>2. (\A q \in calls : Request(q))'
  <2> DEFINE c == SaveAfter(r, Accepted(r.entries) \ library)
  <2>1. calls' \subseteq calls \union {c} /\ r.kind = "check"
    BY DEF CheckAnswered
  <2>2. Request(c)
    <3>1. c = [no |-> r.no, kind |-> "save", id |-> None, entries |-> Accepted(r.entries) \ library]
      BY DEF SaveAfter
    <3>2. Accepted(r.entries) \ library \in SUBSET Streams /\ Streams \subseteq Entry
      BY DialogsAssumption DEF Accepted
    <3> HIDE DEF c
    <3> QED BY <3>1, <3>2, DialogsAssumption DEF Request, Kinds
  <2> HIDE DEF c
  <2> QED BY <2>1, <2>2 DEF Request
<1>3. ScrimKnown'
  BY DEF CheckAnswered, Typed, ScrimKnown, ScrimBehindDialogs, AnyOpen, Modal
<1>4. ASSUME ~meddled' PROVE FormWaits'
  <2> DEFINE c == SaveAfter(r, Accepted(r.entries) \ library)
  <2>1. ~meddled /\ calls' \subseteq calls \union {c} /\ UNCHANGED form
    BY <1>4 DEF CheckAnswered
  <2>2. c.kind = "save"
    BY DEF SaveAfter
  <2> HIDE DEF c
  <2>3. FormCalls' \subseteq FormCalls
    BY <2>1, <2>2 DEF FormCalls
  <2> QED BY <2>1, <2>3 DEF FormWaits
<1>5. ASSUME ~meddled' PROVE ImportWaits'
  <2> DEFINE fresh == Accepted(r.entries) \ library
             known == Accepted(r.entries) \intersect library
             c     == SaveAfter(r, fresh)
  <2>1. ~meddled /\ r.kind = "check" /\ library' = library /\ ImportWaits
    BY <1>5 DEF CheckAnswered
  <2>2. ImportCalls = {r} /\ ReviewWaits(r)
    BY <2>1 DEF ImportWaits, ConflictWaits, ImportCalls, Submitted
  <2>3. CASE ok /\ known = {}
    <3>1. calls' = (calls \ {r}) \union {c} /\ UNCHANGED <<review, conflict>>
      BY <2>3 DEF CheckAnswered, Typed
    <3>2. c.kind = "save" /\ c.entries = fresh
      BY DEF SaveAfter
    <3>3. Accepted(fresh) = Accepted(r.entries)
      BY <2>3 DEF Accepted
    <3> HIDE DEF c, fresh, known
    <3>4. ImportCalls' \subseteq {c} /\ Submitted' \subseteq {c}
      BY <2>2, <3>1 DEF ImportCalls, Submitted
    <3> QED BY <2>1, <2>2, <3>1, <3>2, <3>3, <3>4 DEF ImportWaits, ReviewWaits
  <2>4. CASE ~(ok /\ known = {})
    <3>1. calls' = calls \ {r}
      BY <2>4 DEF CheckAnswered
    <3>2. ImportCalls' = {} /\ Submitted' = {}
      BY <2>2, <3>1 DEF ImportCalls, Submitted
    <3>3. CASE ok
      <4>1. /\ review' = [review EXCEPT !.open = FALSE, !.save = TRUE]
            /\ conflict' = [open |-> TRUE, fresh |-> fresh, add |-> fresh # {}]
        BY <2>4, <3>3 DEF CheckAnswered
      <4>2. conflict'.fresh = fresh
        BY <4>1
      <4>3. ~review'.open /\ review'.rows = review.rows
        BY <4>1 DEF Typed
      <4> QED BY <2>1, <2>2, <3>2, <4>2, <4>3 DEF ImportWaits, ReviewWaits
    <3>4. CASE ~ok
      <4>1. conflict' = conflict
        BY <3>4 DEF CheckAnswered
      <4> QED BY <2>2, <3>2, <4>1 DEF ImportWaits, ReviewWaits
    <3> QED BY <3>3, <3>4
  <2> QED BY <2>3, <2>4
<1> QED BY <1>1, <1>2, <1>3, <1>4, <1>5

LEMMA SaveAnsweredInv ==
  ASSUME DialogsInv, NEW r \in calls, NEW ok \in BOOLEAN, SaveAnswered(r, ok)
  PROVE  DialogsInv'
<1> USE DEF DialogsInv
<1>0. acts' \in 0 .. MaxActions
  BY DialogsAssumption DEF Typed, SaveAnswered
<1>1. Typed'
  <2>1. UNCHANGED <<drawer, frame, picker, form, meddled>>
    BY DEF SaveAnswered
  <2>2. CASE ok
    <3>1. /\ library' = library \union Accepted(r.entries) /\ scrim' = AnyOpen'
          /\ hurried' = (hurried \/ frame)
          /\ conflict' = Shut(conflict) /\ review' = Emptied(review)
      BY <2>2 DEF SaveAnswered, MaybeHideScrim
    <3>2. library' \in SUBSET Streams
      BY <3>1 DEF Accepted, Typed
    <3>3. review' \in [open : BOOLEAN, rows : SUBSET Entry, save : BOOLEAN]
      BY <3>1 DEF Emptied, Typed
    <3>4. conflict' \in [open : BOOLEAN, fresh : SUBSET Streams, add : BOOLEAN]
      BY <3>1 DEF Shut, Typed
    <3>5. scrim' \in BOOLEAN /\ hurried' \in BOOLEAN
      BY <3>1 DEF AnyOpen, Modal, Typed
    <3> QED BY <1>0, <2>1, <3>2, <3>3, <3>4, <3>5 DEF Typed
  <2>3. CASE ~ok
    BY <1>0, <2>1, <2>3, ZenonT(30) DEF SaveAnswered, Typed
  <2> QED BY <2>2, <2>3
<1>2. (\A q \in calls : Request(q))'
  BY DialogsAssumption DEF SaveAnswered, Shut, Emptied, MaybeHideScrim, Typed, Request, Kinds
<1>3. ScrimKnown'
  BY DEF SaveAnswered, Shut, Emptied, MaybeHideScrim, Typed, ScrimKnown, ScrimBehindDialogs, AnyOpen, Modal
<1>4. ASSUME ~meddled' PROVE FormWaits'
  BY <1>4 DEF SaveAnswered, Shut, Emptied, MaybeHideScrim, Typed, FormWaits, FormCalls, ImportCalls, Submitted, Request
<1>5. ASSUME ~meddled' PROVE ImportWaits'
  <2>1. ~meddled /\ r.kind = "save" /\ calls' = calls \ {r} /\ ImportWaits
    BY <1>5 DEF SaveAnswered
  <2>2. ImportCalls' = {} /\ Submitted' = {}
    BY <2>1 DEF ImportWaits, ImportCalls, Submitted
  <2>3. CASE ok
    BY <2>2, <2>3 DEF SaveAnswered, Shut, ImportWaits, Typed
  <2>4. CASE ~ok
    <3>1. /\ conflict'.open = conflict.open /\ conflict'.fresh = conflict.fresh
          /\ review'.open = review.open /\ review'.rows = review.rows /\ library' = library
      BY <2>4 DEF SaveAnswered, Typed
    <3> QED BY <2>1, <2>2, <3>1 DEF ImportWaits
  <2> QED BY <2>3, <2>4
<1> QED BY <1>1, <1>2, <1>3, <1>4, <1>5

-----------------------------------------------------------------------------
LEMMA NextInv == ASSUME DialogsInv, Next PROVE DialogsInv'
<1>1. ASSUME User PROVE DialogsInv'
  <2> acts < MaxActions /\ acts' = acts + 1
    BY <1>1 DEF User
  <2>1. ASSUME OpenChannelModal("add", None) PROVE DialogsInv'
    <3>1. PICK mode \in {"add", "edit"} : mode = "add"
      OBVIOUS
    <3> QED BY <2>1, <3>1, OpenChannelModalInv, DialogsAssumption
  <2>2. ASSUME NEW ch \in Channel, OpenChannelModal("edit", ch) PROVE DialogsInv'
    <3>1. PICK mode \in {"add", "edit"} : mode = "edit"
      OBVIOUS
    <3> QED BY <2>2, <3>1, OpenChannelModalInv
  <2>3. ASSUME NEW old \in Entry, EditRow(old, {}) PROVE DialogsInv'
    BY <2>3, {} \in SUBSET Entry, EditRowInv
  <2>4. ASSUME NEW old \in Entry, NEW new \in Entry, EditRow(old, {new}) PROVE DialogsInv'
    BY <2>4, {new} \in SUBSET Entry, EditRowInv
  <2> QED BY <1>1, <2>1, <2>2, <2>3, <2>4, OpenDrawerInv, CloseButtonInv, TogglePickerInv,
             EscapeInv, CloseAddChannelInv, SubmitInv, ChooseFileInv, CloseImportInv,
             ImportSaveInv, ImportConflictAddInv, ImportConflictCancelInv,
             ImportConflictCloseInv DEF User
<1>2. ASSUME Answer PROVE DialogsInv'
  BY <1>2, SubmitAnsweredInv, ParseAnsweredInv, CheckAnsweredInv, SaveAnsweredInv DEF Answer
<1> QED BY <1>1, <1>2, FrameComesInv DEF Next

LEMMA StutterInv == ASSUME DialogsInv, UNCHANGED vars PROVE DialogsInv'
<1>1. Typed' /\ (\A r \in calls : Request(r))'
  BY DEF DialogsInv, Typed, Request, vars
<1>2. ScrimKnown'
  BY DEF DialogsInv, ScrimKnown, ScrimBehindDialogs, AnyOpen, Modal, vars
<1>3. ASSUME ~meddled' PROVE FormWaits' /\ ImportWaits'
  BY <1>3 DEF DialogsInv, FormWaits, FormCalls, ImportWaits, ReviewWaits, ConflictWaits,
              ImportCalls, Submitted, vars
<1> QED BY <1>1, <1>2, <1>3 DEF DialogsInv

LEMMA InitInv == ASSUME Init PROVE DialogsInv
<1>1. Typed /\ \A r \in calls : Request(r)
  <2>1. form \in [open : BOOLEAN, mode : {"add", "edit"}, id : Channel \union {None}, save : BOOLEAN]
        /\ ~form.open
    BY DEF Init
  <2>2. {} \in SUBSET Entry /\ {} \in SUBSET Streams
    OBVIOUS
  <2>3. /\ review \in [open : BOOLEAN, rows : SUBSET Entry, save : BOOLEAN]
        /\ conflict \in [open : BOOLEAN, fresh : SUBSET Streams, add : BOOLEAN]
    BY <2>2 DEF Init
  <2>4. library \in SUBSET Streams /\ acts \in 0 .. MaxActions
    BY DialogsAssumption DEF Init
  <2> QED BY <2>1, <2>3, <2>4 DEF Init, Typed
<1>2. ScrimKnown
  BY DEF Init, ScrimKnown, ScrimBehindDialogs, AnyOpen, Modal
<1>3. FormWaits /\ ImportWaits
  BY DEF Init, FormWaits, FormCalls, ImportWaits, ImportCalls, Submitted
<1> QED BY <1>1, <1>2, <1>3 DEF DialogsInv

LEMMA InvHolds == Spec => []DialogsInv
<1>1. DialogsInv /\ [Next]_vars => DialogsInv'
  BY NextInv, StutterInv
<1> QED BY InitInv, <1>1, PTL DEF Spec

\* A set that has no two elements has at most one.
LEMMA AtMostOne ==
  ASSUME NEW S, \A r, q \in S : r = q
  PROVE  Cardinality(S) <= 1
<1>1. CASE S = {}
  BY <1>1, FS_EmptySet
<1>2. CASE S # {}
  <2>1. PICK r : r \in S
    BY <1>2
  <2>2. S = {r}
    BY <2>1
  <2> QED BY <2>2, FS_Singleton
<1> QED BY <1>1, <1>2

(* Types; the scrim is behind what is open and behind nothing else; a form *)
(* and an import are sent once, unless the user used a dialog while its    *)
(* request was under way (maybeHideScrim, the buttons of modals.js).       *)
THEOREM DialogsSound == Spec => []DialogsOK
<1>1. DialogsInv => TypeOK
  <2> SUFFICES ASSUME DialogsInv PROVE TypeOK
    OBVIOUS
  <2>1. form.open \in BOOLEAN /\ form.save \in BOOLEAN /\ review.open \in BOOLEAN
        /\ review.save \in BOOLEAN /\ conflict.open \in BOOLEAN /\ conflict.add \in BOOLEAN
    BY DEF DialogsInv, Typed
  <2>2. {drawer, frame, picker, scrim, form.open, form.save, review.open, review.save,
         conflict.open, conflict.add, hurried, meddled} \subseteq BOOLEAN
    BY <2>1 DEF DialogsInv, Typed
  <2>3. review.rows \subseteq Entry /\ conflict.fresh \subseteq Streams /\ library \subseteq Streams
    BY DEF DialogsInv, Typed
  <2> QED BY <2>2, <2>3 DEF DialogsInv, Typed, TypeOK, Request
<1>2. DialogsInv => SubmittedOnce
  <2> SUFFICES ASSUME DialogsInv, ~meddled
               PROVE  Cardinality(FormCalls) <= 1 /\ Cardinality(Submitted) <= 1
    BY DEF SubmittedOnce
  <2>1. \A r, q \in FormCalls : r = q
    BY DEF DialogsInv, FormWaits
  <2>2. \A r, q \in Submitted : r = q
    BY DEF DialogsInv, ImportWaits, ImportCalls, Submitted
  <2> QED BY <2>1, <2>2, AtMostOne
<1>3. DialogsInv => ScrimBehindDialogs
  BY DEF DialogsInv, ScrimKnown
<1> QED BY <1>1, <1>2, <1>3, InvHolds, PTL DEF DialogsOK

(* When the page closes a review by itself, the library has exactly its    *)
(* rows with the link in lower case, unless the user went on in the        *)
(* dialogs while the request was under way: between check, conflicts and   *)
(* save no other row is lost (commitImport, isStreamURL, ImportManual).    *)
THEOREM ReviewSaved == Spec => ClosedWhenSaved
<1>1. ASSUME DialogsInv, NEW r \in calls, SaveAnswered(r, TRUE), ~meddled
      PROVE  review.rows \intersect library' = Accepted(review.rows)
  <2>1. ImportWaits /\ r \in Submitted /\ library' = library \union Accepted(r.entries)
    BY <1>1 DEF DialogsInv, SaveAnswered, Submitted
  <2>2. library' \subseteq Streams
    BY <1>1, <2>1 DEF DialogsInv, Typed, Accepted
  <2>3. Accepted(review.rows) \subseteq library'
    <3>1. CASE ReviewWaits(r)
      BY <2>1, <3>1 DEF ReviewWaits
    <3>2. CASE ConflictWaits(r)
      <4>1. r.entries \subseteq Streams /\ conflict.fresh = r.entries /\ conflict.open
        BY <1>1, <3>2 DEF ConflictWaits, DialogsInv, Request
      <4>2. Accepted(r.entries) = r.entries
        BY <4>1 DEF Accepted
      <4> QED BY <2>1, <4>1, <4>2 DEF ImportWaits
    <3> QED BY <2>1, <3>1, <3>2 DEF ImportWaits
  <2> QED BY <2>2, <2>3 DEF Accepted
<1>2. DialogsInv =>
        \A r \in calls : SaveAnswered(r, TRUE) /\ ~meddled
          => review.rows \intersect library' = Accepted(review.rows)
  BY <1>1
<1> QED BY <1>2, InvHolds, PTL DEF ClosedWhenSaved
=============================================================================
