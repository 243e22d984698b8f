--------------------------- MODULE PlanningPage ----------------------------
(***************************************************************************)
(* The landing page of a host: the panel with the list of meetings, its    *)
(* cancel dialog, and the dialog that plans and edits (LandingPage.tsx,    *)
(* UpcomingMeetings.tsx, ScheduleMeetingDialog.tsx, api/meetings.ts).      *)
(*                                                                         *)
(* A request is sent, taken by the server, and answered in steps of their  *)
(* own; an answer may be lost, and is then an error for the page.          *)
(***************************************************************************)
EXTENDS MeetingDocs

Submission == [code : Codes \cup {"new"}, text : Nat, st : {"sent", "done", "error"}]
ASSUME NoSubmission == None \notin Submission

VARIABLES
  page,    \* the panel, the dialogs, and the requests under way
  missed   \* a change was made the page was not told of

pageVars == <<page, missed>>

NoPanel == [open |-> FALSE, list |-> {}, loading |-> FALSE, failed |-> FALSE, loads |-> {},
            target |-> None, cancel |-> "no", dialog |-> None, submit |-> None, created |-> FALSE]
PageInit == page = NoPanel /\ missed = FALSE

Quiet    == UNCHANGED <<rooms, work, edits, missed>>
Listing  == page.open /\ ~page.loading /\ ~page.failed
Listed(c) == \E m \in page.list : m.code = c

(* An answer of the list read before a change is late                      *)
Late == {[l EXCEPT !.late = @ \/ l.rows # None] : l \in page.loads}

(* ------------------------------ the list ------------------------------- *)
Load(p) == [p EXCEPT !.loading = TRUE, !.failed = FALSE, !.loads = @ \cup {[n |-> edits, rows |-> None, late |-> FALSE]}]

(* The panel is a drawer over the page; its component lives while it is    *)
(* open, and the dialogs are outside it                                    *)
Mount   == ~page.open /\ page.dialog = None /\ page' = Load([page EXCEPT !.open = TRUE]) /\ Quiet
Unmount == page.open /\ page.dialog = None /\ page.target = None
           /\ page' = [NoPanel EXCEPT !.submit = page.submit] /\ Quiet
Retry   == page.open /\ page.failed /\ ~page.loading /\ page' = Load(page) /\ Quiet

ListMyMeetings(l) == l \in page.loads /\ l.rows = None
                     /\ page' = [page EXCEPT !.loads = (@ \ {l}) \cup {[l EXCEPT !.rows = Mine]}] /\ Quiet
Loaded(l) ==
  /\ l \in page.loads
  /\ LET p == [page EXCEPT !.loads = @ \ {l}, !.loading = FALSE]
     IN \/ l.rows # None /\ page' = [p EXCEPT !.list = l.rows] /\ missed' = l.late
        \/ page' = [p EXCEPT !.failed = TRUE] /\ UNCHANGED missed
  /\ UNCHANGED docVars

(* ---------------------------- cancelling ------------------------------- *)
AskCancel(c) == Listing /\ page.target = None /\ page.dialog = None /\ Listed(c)
                /\ page' = [page EXCEPT !.target = c] /\ Quiet
KeepIt == page.target # None /\ page.cancel = "no" /\ page' = [page EXCEPT !.target = None] /\ Quiet
ConfirmCancel ==
  /\ page.target # None /\ page.cancel = "no" /\ edits < MaxEdits
  /\ page' = [page EXCEPT !.cancel = "sent"] /\ edits' = edits + 1
  /\ UNCHANGED <<rooms, work, missed>>
DroppedFrom(list, c) == {m \in list : m.code # c}
Cancelled ==
  /\ page.cancel \in {"done", "error"}
  /\ page' = [page EXCEPT !.list = IF page.cancel = "done" THEN DroppedFrom(@, page.target) ELSE @,
                          !.target = None, !.cancel = "no"]
  /\ Quiet

(* ---------------------- planning and editing --------------------------- *)
(* Opening the dialog resets it; a submission may still be under way (a    *)
(* bound: one, although a dialog opened again would take a second)         *)
OpenDialog(c) ==
  /\ page.dialog = None /\ page.target = None
  /\ IF c = "new" THEN ~page.open ELSE Listing /\ Listed(c)
  /\ page' = [page EXCEPT !.dialog = c, !.created = FALSE] /\ Quiet
CloseDialog == page.dialog # None /\ page' = [page EXCEPT !.dialog = None] /\ Quiet
HandleSubmit ==
  /\ page.dialog # None /\ ~page.created /\ page.submit = None /\ edits < MaxEdits
  /\ page' = [page EXCEPT !.submit = [code |-> page.dialog, text |-> edits + 1, st |-> "sent"]]
  /\ edits' = edits + 1 /\ UNCHANGED <<rooms, work, missed>>

(* onSaved reloads the list of an open panel; an edit's answer closes the  *)
(* dialog, whichever it is by then                                         *)
SavedOnly(p) == p
OnSaved(p) == IF p.open THEN Load(p) ELSE p
Submitted ==
  /\ page.submit # None /\ page.submit.st \in {"done", "error"}
  /\ LET p == [page EXCEPT !.submit = None]
     IN page' = IF page.submit.st = "error" THEN p
                ELSE OnSaved(IF page.submit.code = "new" THEN [p EXCEPT !.created = p.dialog # None]
                             ELSE [p EXCEPT !.dialog = None])
  /\ Quiet

(* ----------------------- the server's part ----------------------------- *)
Answer(p, op, st) ==
  IF op.name = "cancel" THEN [p EXCEPT !.cancel = IF page.target = op.code THEN st ELSE @]
  ELSE [p EXCEPT !.submit.st = st]
Working(name) == \E op \in work : op.name = name /\ op.from = "page"
Receive(op) ==
  /\ IF Allowed(op) THEN work' = work \cup {op} /\ UNCHANGED page
     ELSE page' = Answer(page, op, "error") /\ UNCHANGED work
  /\ UNCHANGED <<rooms, edits, missed>>
ReceiveCancel == page.cancel = "sent" /\ ~Working("cancel") /\ Receive(Op("cancel", page.target, Host, 0, "page"))
ReceiveEdit   == page.submit # None /\ page.submit.st = "sent" /\ Known(page.submit.code) /\ ~Working("edit")
                 /\ Receive(Op("edit", page.submit.code, Host, page.submit.text, "page"))

Told(op, heard) == Answer([page EXCEPT !.loads = Late], op, IF heard THEN "done" ELSE "error")
Schedule(heard) ==
  /\ page.submit # None /\ page.submit.st = "sent" /\ page.submit.code = "new"
  /\ \/ (\E c \in Codes : Create(Host, TRUE, c)) /\ page' = Told([name |-> "new"], heard) /\ missed' = (missed \/ ~heard)
     \/ CodesClash /\ ~heard /\ page' = Answer(page, [name |-> "new"], "error") /\ UNCHANGED missed
  /\ UNCHANGED <<work, edits>>

(* A write, and what the page hears of it; the panel may have been closed  *)
SaveHeard(op, heard) ==
  /\ Save(op)
  /\ IF op.from = "page"
     THEN page' = Told(op, heard) /\ missed' = (missed \/ ~heard)
     ELSE page' = [page EXCEPT !.loads = IF op.name = "backfill" THEN @ ELSE Late] /\ missed' = (missed \/ op.name # "backfill")

PlanningNext ==
  \/ Mount \/ Unmount \/ Retry \/ KeepIt \/ ConfirmCancel \/ Cancelled \/ CloseDialog \/ HandleSubmit \/ Submitted
  \/ \E l \in page.loads : ListMyMeetings(l) \/ Loaded(l)
  \/ \E c \in Codes : AskCancel(c) \/ OpenDialog(c)
  \/ OpenDialog("new") \/ ReceiveCancel \/ ReceiveEdit
  \/ \E heard \in BOOLEAN : Schedule(heard) \/ \E op \in work : SaveHeard(op, heard)

(* ----------------------------- property -------------------------------- *)
(* With nothing under way, the panel lists exactly the meetings its host   *)
(* has, with their current texts.  A list that was read before a change,   *)
(* a change whose answer was lost and a change made elsewhere are the only *)
(* excuses, each until the next load (UpcomingMeetings.tsx:51-61, 100-113, *)
(* LandingPage.tsx:104-106).                                               *)
ListSettles ==
  Listing /\ page.loads = {} /\ page.cancel = "no" /\ page.submit = None /\ ~missed => page.list = Mine

=============================================================================
