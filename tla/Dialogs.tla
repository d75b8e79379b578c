------------------------------ MODULE Dialogs ------------------------------
(***************************************************************************)
(* The dialogs of the page (web/static/modals.js): the drawer with the     *)
(* side bar, the form for a channel, the review of an imported playlist    *)
(* and the list of its conflicts, and the scrim behind them.               *)
(*                                                                         *)
(* A dialog stays usable while a request it sent is under way, and the     *)
(* answer acts on whatever the dialog shows by then.  A dialog covers the  *)
(* page: what lies under it is reached by the two keys only.  The server   *)
(* handles a request when it answers it.  Entries are told apart by their  *)
(* link, which is what the server compares.  The page takes a link in any  *)
(* case, HTTP:// as well as http://; the server takes it in lower case     *)
(* only, and passes over other entries without a word.  The tabs of the    *)
(* form are in PlaylistTabs; messages, focus and wording are left out.     *)
(***************************************************************************)
EXTENDS Integers, FiniteSets

CONSTANTS
  Channel,        \* channels added by hand
  Entry, Valid,   \* rows of a playlist; those with a name and an http link
  Streams,        \* those of them with the link in lower case
  File,           \* the playlist files, as sets of rows
  None,
  MaxActions      \* bound: actions of the user

ASSUME DialogsAssumption ==
  /\ None \notin Channel /\ MaxActions \in Nat
  /\ Streams \subseteq Valid /\ Valid \subseteq Entry /\ File \subseteq SUBSET Entry

VARIABLES
  drawer, frame,    \* the side bar is open; a frame is requested to open it
  picker,           \* the picker is open (Library)
  scrim,            \* the scrim is shown
  form,             \* open, mode, id, save: the button can be pressed
  review,           \* open, rows, save
  conflict,         \* open, fresh: state.pendingImportNew, add
  calls,            \* requests under way
  library,          \* links the server's catalog has
  acts,             \* actions of the user so far
  hurried,          \* history: a dialog was closed, and the scrim hidden with
                    \* it, before a frame came that was to open the drawer
  meddled           \* history: the user used a dialog, or chose another file,
                    \* while a request of it was under way

vars == <<drawer, frame, picker, scrim, form, review, conflict, calls, library,
          acts, hurried, meddled>>

Modal   == picker \/ form.open \/ review.open \/ conflict.open
AnyOpen == drawer \/ Modal

FormCalls   == {r \in calls : r.kind \in {"add", "update"}}
ImportCalls == {r \in calls : r.kind \in {"parse", "check", "save"}}
Submitted   == {r \in calls : r.kind \in {"check", "save"}}

\* Requests under way are told apart by a number that is free again later.
Free == CHOOSE n \in 0 .. MaxActions :
          {r.no : r \in calls} \intersect (0 .. n) = 0 .. (n - 1)

Call(kind, id, entries) == [no |-> Free, kind |-> kind, id |-> id, entries |-> entries]

Init ==
  /\ drawer = FALSE /\ frame = FALSE /\ picker = FALSE /\ scrim = FALSE
  /\ form     = [open |-> FALSE, mode |-> "add", id |-> None, save |-> TRUE]
  /\ review   = [open |-> FALSE, rows |-> {}, save |-> TRUE]
  /\ conflict = [open |-> FALSE, fresh |-> {}, add |-> TRUE]
  /\ calls = {} /\ library \in SUBSET Streams
  /\ acts = 0 /\ hurried = FALSE /\ meddled = FALSE

-----------------------------------------------------------------------------
(* closeDrawers, closeAddChannel, closeImport, closeImportConflict: what    *)
(* each leaves of its dialog.  maybeHideScrim ends each of them.           *)

Closed(f)  == [f EXCEPT !.open = FALSE, !.id = None, !.save = TRUE]
Emptied(v) == [v EXCEPT !.open = FALSE, !.rows = {}, !.save = TRUE]
Shut(c)    == [c EXCEPT !.open = FALSE, !.add = TRUE]

\* Wrong on purpose: the scrim is hidden whatever is open.
HideScrim == scrim' = FALSE /\ hurried' = (hurried \/ frame)

MaybeHideScrim == scrim' = AnyOpen' /\ hurried' = (hurried \/ frame)

\* The drawer is to be closed; a frame under way opens it all the same.
CloseDrawers == drawer' = FALSE

Meddle(rs) == meddled' = (meddled \/ rs # {})

-----------------------------------------------------------------------------
(* The drawer. *)

OpenDrawer ==
  /\ frame' = TRUE /\ scrim' = TRUE
  /\ UNCHANGED <<drawer, picker, form, review, conflict, calls, library, hurried, meddled>>

FrameComes ==
  /\ frame /\ frame' = FALSE /\ drawer' = TRUE
  /\ UNCHANGED <<picker, scrim, form, review, conflict, calls, library, acts, hurried, meddled>>

CloseButton ==
  /\ drawer /\ ~Modal
  /\ CloseDrawers
  /\ UNCHANGED <<frame, picker, form, review, conflict, calls, library, meddled>>
  /\ MaybeHideScrim

\* openPicker, closePicker.
TogglePicker ==
  /\ (picker \/ ~AnyOpen) /\ picker' = ~picker
  /\ UNCHANGED <<drawer, frame, form, review, conflict, calls, library, meddled>>
  /\ MaybeHideScrim

\* Escape, or a click on the scrim: everything is closed.
Escape ==
  /\ CloseDrawers /\ picker' = FALSE
  /\ form' = Closed(form) /\ review' = Emptied(review) /\ conflict' = Shut(conflict)
  /\ Meddle(calls)
  /\ UNCHANGED <<frame, calls, library>>
  /\ MaybeHideScrim

-----------------------------------------------------------------------------
(* The form for a channel. *)

OpenChannelModal(mode, id) ==
  /\ ~Modal
  /\ CloseDrawers
  /\ form' = [open |-> TRUE, mode |-> mode, id |-> id, save |-> TRUE]
  /\ scrim' = TRUE
  /\ Meddle(FormCalls)
  /\ UNCHANGED <<frame, picker, review, conflict, calls, library, hurried>>

CloseAddChannel ==
  /\ form.open
  /\ form' = Closed(form)
  /\ Meddle(FormCalls)
  /\ UNCHANGED <<drawer, frame, picker, review, conflict, calls, library>>
  /\ MaybeHideScrim

Submit ==
  /\ form.open /\ form.save
  /\ form' = [form EXCEPT !.save = FALSE]
  /\ calls' = calls \union {Call(IF form.mode = "edit" THEN "update" ELSE "add", form.id, {})}
  /\ UNCHANGED <<drawer, frame, picker, scrim, review, conflict, library, hurried, meddled>>

\* A success closes the form, a failure opens its button again.
SubmitAnswered(r, ok) ==
  /\ r \in FormCalls /\ calls' = calls \ {r}
  /\ UNCHANGED <<drawer, frame, picker, review, conflict, library, acts, meddled>>
  /\ IF ok THEN form' = Closed(form) /\ MaybeHideScrim
           ELSE form' = [form EXCEPT !.save = TRUE] /\ UNCHANGED <<scrim, hurried>>

-----------------------------------------------------------------------------
(* The import of a playlist: a file is parsed, its rows are reviewed, the  *)
(* server is asked which are known already, the others are saved, after a  *)
(* question if some are known.                                             *)

\* isStreamURL: what check answers about, and what ImportManual stores.
Accepted(entries) == entries \intersect Streams

ChooseFile ==
  /\ ~Modal
  /\ \E rows \in File : calls' = calls \union {Call("parse", None, rows)}
  /\ Meddle(ImportCalls)
  /\ UNCHANGED <<drawer, frame, picker, scrim, form, review, conflict, library, hurried>>

\* openImportReview; a file that cannot be read is an empty review.
ParseAnswered(r, ok) ==
  /\ r.kind = "parse" /\ calls' = calls \ {r}
  /\ CloseDrawers
  /\ review' = [review EXCEPT !.open = TRUE, !.rows = IF ok THEN r.entries ELSE {}]
  /\ scrim' = TRUE
  /\ UNCHANGED <<frame, picker, form, conflict, library, acts, meddled, hurried>>

EditRow(old, new) ==
  /\ review.open /\ old \in review.rows
  /\ review' = [review EXCEPT !.rows = (@ \ {old}) \union new]
  /\ Meddle(Submitted)
  /\ UNCHANGED <<drawer, frame, picker, scrim, form, conflict, calls, library, hurried>>

\* Cancel and the cross of the review.
CloseImport ==
  /\ review.open
  /\ review' = Emptied(review)
  /\ Meddle(ImportCalls)
  /\ UNCHANGED <<drawer, frame, picker, form, conflict, calls, library>>
  /\ MaybeHideScrim

ImportSave ==
  /\ review.open /\ review.save /\ review.rows \intersect Valid # {}
  /\ review' = [review EXCEPT !.save = FALSE]
  /\ calls' = calls \union {Call("check", None, review.rows \intersect Valid)}
  /\ UNCHANGED <<drawer, frame, picker, scrim, form, conflict, library, hurried, meddled>>

\* The save that follows the check r.
SaveAfter(r, entries) == [no |-> r.no, kind |-> "save", id |-> None, entries |-> entries]

\* Wrong on purpose: the button of the review is not given back.
CheckAnsweredKeepsSpinner(r, ok) ==
  LET fresh == Accepted(r.entries) \ library
      known == Accepted(r.entries) \intersect library
      next  == IF ok /\ known = {} THEN {SaveAfter(r, fresh)} ELSE {}
  IN /\ r.kind = "check"
     /\ calls' = (calls \ {r}) \union next
     /\ UNCHANGED <<drawer, frame, picker, form, library, acts, hurried, meddled>>
     /\ IF ok /\ known # {}
          THEN /\ review' = [review EXCEPT !.open = FALSE]
               /\ conflict' = [open |-> TRUE, fresh |-> fresh, add |-> fresh # {}]
               /\ scrim' = TRUE
          ELSE UNCHANGED <<review, conflict, scrim>>

\* No entry is known: the new ones, if any, are saved at once.  Some are known:
\* the conflicts open.  An entry the server does not accept is neither.
CheckAnswered(r, ok) ==
  LET fresh == Accepted(r.entries) \ library
      known == Accepted(r.entries) \intersect library
      next  == IF ok /\ known = {} THEN {SaveAfter(r, fresh)} ELSE {}
  IN /\ r.kind = "check"
     /\ calls' = (calls \ {r}) \union next
     /\ UNCHANGED <<drawer, frame, picker, form, library, acts, hurried, meddled>>
     /\ IF ok /\ known # {}
          THEN /\ review' = [review EXCEPT !.open = FALSE, !.save = TRUE]
               /\ conflict' = [open |-> TRUE, fresh |-> fresh, add |-> fresh # {}]
               /\ scrim' = TRUE
          ELSE /\ review' = [review EXCEPT !.save = @ \/ ~ok]
               /\ UNCHANGED <<conflict, scrim>>

\* Wrong on purpose: what was not known is forgotten, the known is saved again.
ImportConflictAddNothing ==
  /\ conflict.open /\ conflict.add /\ conflict.fresh # {}
  /\ conflict' = [conflict EXCEPT !.add = FALSE]
  /\ calls' = calls \union {Call("save", None, {})}
  /\ UNCHANGED <<drawer, frame, picker, scrim, form, review, library, hurried, meddled>>

ImportConflictAdd ==
  /\ conflict.open /\ conflict.add /\ conflict.fresh # {}
  /\ conflict' = [conflict EXCEPT !.add = FALSE]
  /\ calls' = calls \union {Call("save", None, conflict.fresh)}
  /\ UNCHANGED <<drawer, frame, picker, scrim, form, review, library, hurried, meddled>>

\* "Back": the review shows again, with the rows it had.
ImportConflictCancel ==
  /\ conflict.open
  /\ conflict' = Shut(conflict) /\ review' = [review EXCEPT !.open = TRUE]
  /\ scrim' = TRUE
  /\ Meddle(Submitted)
  /\ UNCHANGED <<drawer, frame, picker, form, calls, library, hurried>>

\* The cross of the conflicts is closeImport too: it empties the review behind.
ImportConflictClose ==
  /\ conflict.open
  /\ review' = Emptied(review)
  /\ Meddle(Submitted)
  /\ UNCHANGED <<drawer, frame, picker, form, conflict, calls, library>>
  /\ MaybeHideScrim

\* commitImport: a success closes conflicts and review, a failure gives back the
\* button it was pressed on (the other one is not disabled).
SaveAnswered(r, ok) ==
  /\ r.kind = "save" /\ calls' = calls \ {r}
  /\ UNCHANGED <<drawer, frame, picker, form, acts, meddled>>
  /\ IF ok
       THEN /\ library' = library \union Accepted(r.entries)
            /\ conflict' = Shut(conflict) /\ review' = Emptied(review)
            /\ MaybeHideScrim
       ELSE /\ review' = [review EXCEPT !.save = TRUE]
            /\ conflict' = [conflict EXCEPT !.add = TRUE]
            /\ UNCHANGED <<library, scrim, hurried>>

User ==
  /\ acts < MaxActions /\ acts' = acts + 1
  /\ \/ OpenDrawer \/ CloseButton \/ TogglePicker \/ Escape
     \/ OpenChannelModal("add", None)
     \/ \E ch \in Channel : OpenChannelModal("edit", ch)
     \/ CloseAddChannel \/ Submit
     \/ ChooseFile \/ CloseImport \/ ImportSave
     \/ \E old \in Entry : EditRow(old, {}) \/ \E new \in Entry : EditRow(old, {new})
     \/ ImportConflictAdd \/ ImportConflictCancel \/ ImportConflictClose

Answer ==
  \E r \in calls, ok \in BOOLEAN :
    SubmitAnswered(r, ok) \/ ParseAnswered(r, ok) \/ CheckAnswered(r, ok) \/ SaveAnswered(r, ok)

Next == User \/ FrameComes \/ Answer

Spec == Init /\ [][Next]_vars

\* Frames come and the server answers; the user need not act.
FairSpec == Spec /\ WF_vars(FrameComes) /\ WF_vars(Answer)

-----------------------------------------------------------------------------
TypeOK ==
  /\ {drawer, frame, picker, scrim, form.open, form.save, review.open, review.save,
      conflict.open, conflict.add, hurried, meddled} \subseteq BOOLEAN
  /\ form.open => (form.mode = "edit" <=> form.id \in Channel)
  /\ review.rows \subseteq Entry /\ conflict.fresh \subseteq Streams /\ library \subseteq Streams
  /\ \A r \in calls : r.kind = "update" <=> r.id \in Channel
  /\ acts \in 0 .. MaxActions

(* The scrim is behind whatever is open, and behind nothing else           *)
(* (maybeHideScrim at the end of every close): a page under an orphaned    *)
(* scrim takes no click.  The drawer alone can stand open without one:     *)
(* when a dialog was closed within the frame that was to open it.          *)
ScrimBehindDialogs ==
  /\ scrim => AnyOpen \/ frame
  /\ Modal => scrim
  /\ drawer /\ ~scrim => hurried

(* A form or an import is sent once: its button is off until the answer.   *)
(* It is sent twice only if the user used a dialog while its request was   *)
(* under way, which gives the button back.                                 *)
SubmittedOnce ==
  ~meddled => Cardinality(FormCalls) <= 1 /\ Cardinality(Submitted) <= 1

(* When the page closes a review by itself (commitImport), the library has *)
(* exactly those of its rows that have a name and a link in lower case,    *)
(* unless the user went on in the dialogs while the request was under way. *)
(* A row with its link in another case, which the page has accepted, is    *)
(* lost with the review (isStreamURL, ImportManual), and only such a row.  *)
ClosedWhenSaved ==
  [][\A r \in calls : SaveAnswered(r, TRUE) /\ ~meddled
        => review.rows \intersect library' = Accepted(review.rows)]_vars

(* A button that waits for an answer can be pressed again, or its dialog   *)
(* is closed: no path through check, conflicts and save forgets it.        *)
ButtonsComeBack ==
  /\ review.open /\ ~review.save ~> review.save \/ ~review.open
  /\ form.open /\ ~form.save ~> form.save \/ ~form.open
  /\ conflict.open /\ ~conflict.add /\ conflict.fresh # {} ~> conflict.add \/ ~conflict.open

(* The dialogs in one invariant: types, the scrim and what was sent.       *)
DialogsOK == TypeOK /\ ScrimBehindDialogs /\ SubmittedOnce
=============================================================================
