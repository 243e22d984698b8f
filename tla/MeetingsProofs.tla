--------------------------- MODULE MeetingsProofs ---------------------------
(***************************************************************************)
(* Proofs about Meetings, for any number of codes, edits, visits, commands *)
(* and clients at work together.                                           *)
(***************************************************************************)
EXTENDS Meetings, TLAPS

-----------------------------------------------------------------------------
(* The documents, and the handlers between their read and their write.      *)
Doc    == [host : Users, admin : Users \cup {None}, active : BOOLEAN, planned : BOOLEAN, text : Nat]
OpType == [name : {"edit", "cancel", "end", "backfill"}, code : Codes, by : Users \cup {None},
           text : Nat, from : {"page", "tab", "guard"}, doc : Doc]

DocsTyped ==
  /\ DOMAIN rooms \subseteq Codes /\ rooms \in [DOMAIN rooms -> Doc]
  /\ edits \in Nat /\ work \subseteq OpType

(* What a handler read is of a document that is there, with the same host.  *)
WorkAgrees == \A op \in work : Known(op.code) /\ op.doc.host = rooms[op.code].host

Docs == DocsTyped /\ WorkAgrees

(* A handler that has just read its document.                               *)
Read(op) == op \in OpType /\ Known(op.code) /\ op.doc = rooms[op.code]

(* What a step does to them.                                                *)
DocsKept == UNCHANGED rooms /\ (work' = work \/ \E op : Read(op) /\ work' = work \cup {op})
DocStep ==
  /\ edits' \in {edits, edits + 1}
  /\ \/ DocsKept
     \/ UNCHANGED work /\ \E u \in Users, planned \in BOOLEAN, c \in Codes : Create(u, planned, c)
     \/ \E op \in work : Save(op)

LEMMA OpRead ==
  ASSUME Docs, NEW name \in {"edit", "cancel", "end", "backfill"}, NEW c, Known(c), NEW u \in Users \cup {None},
         NEW text \in Nat, NEW from \in {"page", "tab", "guard"}
  PROVE  Read(Op(name, c, u, text, from))
BY DEF Docs, DocsTyped, Known, Op, OpType, Read

(* What is true of a document whatever the step: it stays, with its host,   *)
(* its admin and what it was planned as, and once over it is over.          *)
Durable ==
  \A c \in DOMAIN rooms :
    /\ c \in DOMAIN rooms'
    /\ rooms'[c].host = rooms[c].host /\ Admin(rooms'[c]) = Admin(rooms[c])
    /\ rooms'[c].planned = rooms[c].planned
    /\ rooms'[c].active => rooms[c].active
    /\ rooms[c].admin # None => rooms'[c].admin = rooms[c].admin

LEMMA SaveEffects ==
  ASSUME Docs, NEW op \in work, Save(op)
  PROVE  /\ op.code \in DOMAIN rooms /\ DOMAIN rooms' = DOMAIN rooms /\ work' = work \ {op}
         /\ rooms' \in [DOMAIN rooms -> Doc]
         /\ \A c \in DOMAIN rooms \ {op.code} : rooms'[c] = rooms[c]
         /\ LET new == rooms'[op.code]
                old == rooms[op.code]
            IN  /\ new.host = old.host /\ new.planned = old.planned
                /\ op.name # "edit" => new.text = old.text
                /\ IF op.name \in {"cancel", "end"} THEN ~new.active ELSE new.active = old.active
                /\ IF op.name = "backfill" /\ old.admin = None THEN new.admin = old.host
                                                             ELSE new.admin = old.admin
<1>1. op.code \in DOMAIN rooms /\ op.doc.host = rooms[op.code].host /\ op \in OpType /\ rooms[op.code] \in Doc
  BY DEF Docs, DocsTyped, WorkAgrees, Known
<1>2. rooms' = [rooms EXCEPT ![op.code] = Written(op, rooms[op.code])] /\ work' = work \ {op}
  BY DEF Save, Saved
<1> DEFINE old == rooms[op.code]
           new == Written(op, old)
<1>3. /\ new \in Doc /\ new.host = old.host /\ new.planned = old.planned
      /\ op.name # "edit" => new.text = old.text
      /\ IF op.name \in {"cancel", "end"} THEN ~new.active ELSE new.active = old.active
      /\ IF op.name = "backfill" /\ old.admin = None THEN new.admin = old.host ELSE new.admin = old.admin
  BY <1>1 DEF Written, Doc, OpType
<1> HIDE DEF new
<1>4. rooms'[op.code] = new
  BY <1>1, <1>2 DEF new, Docs, DocsTyped
<1> QED BY <1>1, <1>2, <1>3, <1>4 DEF Docs, DocsTyped

LEMMA CreateEffects ==
  ASSUME Docs, NEW u \in Users, NEW planned \in BOOLEAN, NEW c, Create(u, planned, c)
  PROVE  /\ c \in Codes \ DOMAIN rooms /\ DOMAIN rooms' = DOMAIN rooms \cup {c}
         /\ rooms' \in [DOMAIN rooms' -> Doc]
         /\ \A d \in DOMAIN rooms : rooms'[d] = rooms[d]
         /\ rooms'[c] = NewRoom(u, planned)
BY DEF Docs, DocsTyped, Create, Known, NewRoom, Doc

LEMMA DocsSurvive ==
  ASSUME Docs, DocStep
  PROVE  Docs' /\ Durable
<1>1. CASE DocsKept
  BY <1>1 DEF DocStep, DocsKept, Read, Docs, DocsTyped, WorkAgrees, Known, Durable, Doc, OpType
<1>2. ASSUME NEW u \in Users, NEW planned \in BOOLEAN, NEW c \in Codes, Create(u, planned, c), UNCHANGED work
      PROVE  Docs' /\ Durable
  <2>1. /\ c \in Codes \ DOMAIN rooms /\ DOMAIN rooms' = DOMAIN rooms \cup {c}
        /\ rooms' \in [DOMAIN rooms' -> Doc] /\ \A d \in DOMAIN rooms : rooms'[d] = rooms[d]
    BY <1>2, CreateEffects
  <2>2. Durable
    BY <2>1 DEF Durable, Admin
  <2> QED BY <1>2, <2>1, <2>2 DEF DocStep, Docs, DocsTyped, WorkAgrees, Known
<1>3. ASSUME NEW op \in work, Save(op)
      PROVE  Docs' /\ Durable
  <2>1. Durable
    BY <1>3, SaveEffects, MeetingConstants DEF Durable, Admin, Docs, DocsTyped, Doc, Users
  <2>2. Docs'
    <3>1. DocsTyped'
      BY <1>3, SaveEffects DEF DocStep, Docs, DocsTyped
    <3> QED BY <1>3, <2>1, <3>1, SaveEffects DEF Docs, DocsTyped, WorkAgrees, Known, Durable
  <2> QED BY <2>1, <2>2
<1> QED BY <1>1, <1>2, <1>3 DEF DocStep

-----------------------------------------------------------------------------
(* The planning page.                                                       *)
Row  == [code : Codes, text : Nat]
Rows == (SUBSET Row) \cup {None}
ListLoad == [n : Nat, rows : Rows, late : BOOLEAN]
PageType ==
  [open : BOOLEAN, list : SUBSET Row, loading : BOOLEAN, failed : BOOLEAN,
   loads : SUBSET ListLoad,
   target : Codes \cup {None}, cancel : {"no", "sent", "done", "error"},
   dialog : Codes \cup {None, "new"}, submit : Submission \cup {None}, created : BOOLEAN]

PageTyped == page \in PageType /\ missed \in BOOLEAN

(* Every meeting that the page shows or asks about is one there is.         *)
PageKnown ==
  /\ \A m \in page.list : Known(m.code)
  /\ \A l \in page.loads : l.rows # None => \A m \in l.rows : Known(m.code)
  /\ page.target # None => Known(page.target)

(* The dialogs and the server's handlers agree on what is under way.        *)
PageAsked ==
  /\ page.cancel # "no" => page.target # None
  /\ page.cancel = "done" => ~rooms[page.target].active
  /\ \A op \in work : op.from = "page" =>
       \/ op.name = "cancel" /\ page.cancel = "sent" /\ page.target = op.code
       \/ op.name = "edit" /\ page.submit # None /\ page.submit.st = "sent" /\ page.submit.code = op.code
  /\ \A o, p \in work : o.from = "page" /\ p.from = "page" /\ o.name = p.name => o = p

(* A list that was read and is not late is the list there is.               *)
LoadsTrue == \A l \in page.loads : l.rows # None /\ ~l.late => l.rows = Mine

(* ListSettles while requests are under way: what is shown, less what a     *)
(* cancellation's answer is about to drop.                                  *)
Saving == page.submit # None /\ page.submit.st = "done"
Shown  == IF page.cancel = "done" THEN DroppedFrom(page.list, page.target) ELSE page.list
ListTrue == Listing /\ ~missed /\ ~Saving => Shown = Mine

PageInv == PageTyped /\ PageKnown /\ PageAsked /\ LoadsTrue /\ ListTrue

LEMMA MineFacts ==
  ASSUME Docs
  PROVE  /\ Mine \in SUBSET Row
         /\ \A m \in Mine : Known(m.code) /\ rooms[m.code].active
BY DEF Docs, DocsTyped, Mine, Row, Doc, Known, Planned

LEMMA MineKept ==
  ASSUME Docs, UNCHANGED rooms
  PROVE  Mine' = Mine
BY DEF Mine, Planned

LEMMA PageInvInit ==
  ASSUME MeetingsInit
  PROVE  Docs /\ PageInv
<1>1. FirstCode \in Codes
  BY MeetingConstants DEF FirstCode
<1>2. Docs
  <2>1. PICK a \in {None, Host} : rooms = [c \in {FirstCode} |-> [NewRoom(Host, TRUE) EXCEPT !.admin = a]]
    BY DEF MeetingsInit, DocInit
  <2>2. [NewRoom(Host, TRUE) EXCEPT !.admin = a] \in Doc
    BY DEF NewRoom, Doc, Users
  <2>3. DOMAIN rooms = {FirstCode} /\ rooms \in [{FirstCode} -> Doc]
    BY <2>1, <2>2
  <2> QED BY <1>1, <2>3 DEF MeetingsInit, DocInit, Docs, DocsTyped, WorkAgrees
<1>3. PageInv
  BY DEF MeetingsInit, PageInit, DocInit, NoPanel, PageInv, PageTyped, PageType, PageKnown, PageAsked, LoadsTrue, ListTrue, Listing
<1> QED BY <1>2, <1>3

(* The steps of the page that leave the documents and their handlers alone. *)
QuietStep ==
  \/ Mount \/ Unmount \/ Retry \/ KeepIt \/ Cancelled \/ CloseDialog \/ Submitted
  \/ \E l \in page.loads : ListMyMeetings(l)
  \/ \E c \in Codes : AskCancel(c) \/ OpenDialog(c)
  \/ OpenDialog("new")

LEMMA LoadType ==
  ASSUME NEW p \in PageType, edits \in Nat
  PROVE  /\ Load(p) \in PageType
         /\ Load(p).loads = p.loads \cup {[n |-> edits, rows |-> None, late |-> FALSE]}
         /\ Load(p).loading /\ Load(p).list = p.list /\ Load(p).target = p.target /\ Load(p).cancel = p.cancel
         /\ Load(p).submit = p.submit /\ Load(p).open = p.open /\ Load(p).dialog = p.dialog
<1> DEFINE l == [n |-> edits, rows |-> None, late |-> FALSE]
<1>1. l \in ListLoad
  BY DEF ListLoad, Rows
<1>2. Load(p) = [p EXCEPT !.loading = TRUE, !.failed = FALSE, !.loads = @ \cup {l}]
  BY DEF Load
<1> HIDE DEF l
<1>3. /\ Load(p) \in PageType /\ Load(p).loads = p.loads \cup {l} /\ Load(p).loading
      /\ Load(p).list = p.list /\ Load(p).target = p.target /\ Load(p).cancel = p.cancel
      /\ Load(p).submit = p.submit /\ Load(p).open = p.open /\ Load(p).dialog = p.dialog
  <2> DEFINE all == p.loads \cup {l}
  <2>1. all \in SUBSET ListLoad
    BY <1>1 DEF PageType
  <2>2. Load(p) = [p EXCEPT !.loading = TRUE, !.failed = FALSE, !.loads = all]
    BY <1>2
  <2> HIDE DEF all
  <2>3. /\ Load(p) \in PageType /\ Load(p).loads = all /\ Load(p).loading
        /\ Load(p).list = p.list /\ Load(p).target = p.target /\ Load(p).cancel = p.cancel
        /\ Load(p).submit = p.submit /\ Load(p).open = p.open /\ Load(p).dialog = p.dialog
    BY <2>1, <2>2 DEF PageType
  <2> QED BY <2>3 DEF all
<1> QED BY <1>3 DEF l

LEMMA PageTypedStep ==
  ASSUME Docs, PageInv, PlanningNext
  PROVE  PageTyped'
<1> USE DEF PageInv, PageTyped
<1>1. CASE Mount \/ Unmount \/ Retry \/ KeepIt \/ CloseDialog
  <2>1. CASE Mount \/ Retry
    <3>1. [page EXCEPT !.open = TRUE] \in PageType
      BY DEF PageType
    <3> QED BY <2>1, <3>1, LoadType DEF Mount, Retry, Quiet, Docs, DocsTyped
  <2>2. CASE Unmount
    BY <2>2 DEF Unmount, Quiet, NoPanel, PageType
  <2>3. CASE KeepIt \/ CloseDialog
    BY <2>3 DEF KeepIt, CloseDialog, Quiet, PageType
  <2> QED BY <1>1, <2>1, <2>2, <2>3
<1>2. CASE Cancelled
  BY <1>2 DEF Cancelled, DroppedFrom, Quiet, PageType
<1>3. CASE Submitted
  <2> DEFINE p == [page EXCEPT !.submit = None]
             q == IF page.submit.code = "new" THEN [p EXCEPT !.created = p.dialog # None] ELSE [p EXCEPT !.dialog = None]
  <2>1. p \in PageType /\ q \in PageType
    BY DEF PageType
  <2>2. page' = p \/ page' = OnSaved(q)
    BY <1>3 DEF Submitted
  <2>3. OnSaved(q) \in PageType
    <3> HIDE DEF p, q
    <3> QED BY <2>1, LoadType DEF OnSaved, Docs, DocsTyped
  <2> QED BY <1>3, <2>1, <2>2, <2>3 DEF Submitted, Quiet
<1>4. ASSUME NEW l \in page.loads, ListMyMeetings(l) \/ Loaded(l)
      PROVE  PageTyped'
  <2>1. l \in ListLoad
    BY DEF PageType
  <2>2. CASE ListMyMeetings(l)
    <3>1. [l EXCEPT !.rows = Mine] \in ListLoad
      BY <2>1, MineFacts DEF ListLoad, Rows
    <3> QED BY <2>2, <3>1 DEF ListMyMeetings, Quiet, PageType
  <2>3. CASE Loaded(l)
    <3>1. l.rows # None => l.rows \in SUBSET Row
      BY <2>1 DEF ListLoad, Rows
    <3>2. l.late \in BOOLEAN /\ page.loads \ {l} \in SUBSET ListLoad
      BY <2>1 DEF PageType, ListLoad
    <3> QED BY <2>3, <3>1, <3>2 DEF Loaded, PageType
  <2> QED BY <1>4, <2>2, <2>3
<1>5. CASE ConfirmCancel
  BY <1>5 DEF ConfirmCancel, PageType
<1>6. CASE HandleSubmit
  BY <1>6 DEF HandleSubmit, PageType, Submission, Docs, DocsTyped
<1>7. ASSUME NEW c \in Codes, AskCancel(c) \/ OpenDialog(c)
      PROVE  PageTyped'
  BY <1>7 DEF AskCancel, OpenDialog, Quiet, PageType
<1>8. CASE OpenDialog("new")
  BY <1>8 DEF OpenDialog, Quiet, PageType
<1> DEFINE late == [page EXCEPT !.loads = Late]
<1>9. late \in PageType
  <2>1. \A l \in page.loads : [l EXCEPT !.late = @ \/ l.rows # None] \in ListLoad
    BY DEF PageType, ListLoad
  <2>2. Late \subseteq ListLoad
    BY <2>1 DEF Late
  <2> QED BY <2>2 DEF PageType
<1>10. ASSUME NEW p \in PageType, NEW op, NEW st \in {"done", "error"}, p.submit # None \/ op.name = "cancel"
       PROVE  Answer(p, op, st) \in PageType
  BY <1>10 DEF Answer, PageType, Submission
<1>11. CASE ReceiveCancel \/ ReceiveEdit
  BY <1>10, <1>11 DEF ReceiveCancel, ReceiveEdit, Receive, Op
<1>12. ASSUME NEW heard \in BOOLEAN, Schedule(heard)
       PROVE  PageTyped'
  <2>1. page.submit # None /\ late.submit = page.submit
    BY <1>12 DEF Schedule, PageType
  <2>2. page' = Answer(late, [name |-> "new"], IF heard THEN "done" ELSE "error") \/ page' = Answer(page, [name |-> "new"], "error")
    BY <1>12 DEF Schedule, Told
  <2> HIDE DEF late
  <2> QED BY <1>9, <1>10, <1>12, <2>1, <2>2 DEF Schedule
<1>13. ASSUME NEW heard \in BOOLEAN, NEW op \in work, SaveHeard(op, heard)
       PROVE  PageTyped'
  <2>1. op.from = "page" => late.submit # None \/ op.name = "cancel"
    BY DEF PageAsked, PageType
  <2>2. CASE op.from = "page"
    BY <1>9, <1>10, <1>13, <2>1, <2>2 DEF SaveHeard, Told
  <2>3. CASE op.from # "page"
    BY <1>9, <1>13, <2>3 DEF SaveHeard, PageType
  <2> QED BY <2>2, <2>3
<1> QED BY <1>1, <1>2, <1>3, <1>4, <1>5, <1>6, <1>7, <1>8, <1>11, <1>12, <1>13 DEF PlanningNext

LEMMA PageQuiet ==
  ASSUME Docs, PageInv, QuietStep
  PROVE  UNCHANGED <<rooms, work, edits, missed>> /\ PageKnown' /\ PageAsked' /\ LoadsTrue' /\ ListTrue'
<1> USE DEF PageInv, PageTyped
<1>1. UNCHANGED <<rooms, work, edits, missed>> /\ Mine' = Mine
  <2>1. UNCHANGED <<rooms, work, edits, missed>>
    BY DEF QuietStep, Mount, Unmount, Retry, KeepIt, Cancelled, CloseDialog, Submitted, ListMyMeetings,
           AskCancel, OpenDialog, Quiet
  <2> QED BY <2>1, MineKept
<1>2. PageKnown' /\ PageAsked' /\ LoadsTrue' /\ ListTrue' <=>
        /\ \A m \in page'.list : Known(m.code)
        /\ \A l \in page'.loads : l.rows # None => \A m \in l.rows : Known(m.code)
        /\ page'.target # None => Known(page'.target)
        /\ PageAsked' /\ LoadsTrue' /\ ListTrue'
  BY <1>1 DEF PageKnown, Known
<1>3. CASE Mount \/ Retry
  <2> DEFINE p == [page EXCEPT !.open = TRUE]
  <2>1. p \in PageType /\ p.list = page.list /\ p.loads = page.loads /\ p.target = page.target
        /\ p.cancel = page.cancel /\ p.submit = page.submit
    BY DEF PageType
  <2>2. page' = Load(p) \/ page' = Load(page)
    BY <1>3 DEF Mount, Retry
  <2> HIDE DEF p
  <2>3. /\ page'.list = page.list /\ page'.target = page.target /\ page'.cancel = page.cancel /\ page'.submit = page.submit
        /\ page'.loads = page.loads \cup {[n |-> edits, rows |-> None, late |-> FALSE]} /\ page'.loading
    BY <2>1, <2>2, LoadType DEF Docs, DocsTyped
  <2> QED BY <1>1, <1>2, <2>3 DEF PageKnown, PageAsked, LoadsTrue, ListTrue, Listing, Known
<1>4. CASE Unmount
  <2>1. /\ page'.list = {} /\ page'.loads = {} /\ page'.target = None /\ page'.cancel = "no" /\ ~page'.open
        /\ page'.submit = page.submit /\ page.target = None
    BY <1>4 DEF Unmount, NoPanel, PageType
  <2> QED BY <1>1, <1>2, <2>1 DEF PageKnown, PageAsked, LoadsTrue, ListTrue, Listing, Known
<1>5. CASE KeepIt \/ CloseDialog \/ \E c \in Codes \cup {"new"} : OpenDialog(c)
  <2>1. /\ page'.list = page.list /\ page'.loads = page.loads /\ page'.cancel = page.cancel /\ page'.submit = page.submit
        /\ page'.open = page.open /\ page'.loading = page.loading /\ page'.failed = page.failed
        /\ \/ page'.target = page.target
           \/ page.cancel = "no" /\ page'.target = None
    <3>1. CASE KeepIt
      BY <3>1 DEF KeepIt, PageType
    <3>2. CASE CloseDialog
      BY <3>2 DEF CloseDialog, PageType
    <3>3. ASSUME NEW c \in Codes \cup {"new"}, OpenDialog(c)
          PROVE  page' = [page EXCEPT !.dialog = c, !.created = FALSE]
      BY <3>3 DEF OpenDialog
    <3> QED BY <1>5, <3>1, <3>2, <3>3 DEF PageType
  <2> QED BY <1>1, <1>2, <2>1 DEF PageKnown, PageAsked, LoadsTrue, ListTrue, Listing, Shown, Saving, Known
<1>6. ASSUME NEW c \in Codes, AskCancel(c)
      PROVE  PageKnown' /\ PageAsked' /\ LoadsTrue' /\ ListTrue'
  <2>1. /\ page'.list = page.list /\ page'.loads = page.loads /\ page'.cancel = page.cancel /\ page'.submit = page.submit
        /\ page'.open = page.open /\ page'.loading = page.loading /\ page'.failed = page.failed
        /\ page.target = None /\ page'.target = c /\ Known(c)
    BY <1>6 DEF AskCancel, Listed, PageType, PageKnown
  <2>2. page.cancel = "no"
    BY <2>1 DEF PageAsked, PageType
  <2> QED BY <1>1, <1>2, <2>1, <2>2 DEF PageKnown, PageAsked, LoadsTrue, ListTrue, Listing, Shown, Saving, Known
<1>7. CASE Cancelled
  <2>1. /\ page'.loads = page.loads /\ page'.cancel = "no" /\ page'.target = None /\ page'.submit = page.submit
        /\ page'.open = page.open /\ page'.loading = page.loading /\ page'.failed = page.failed
        /\ page.cancel \in {"done", "error"} /\ page'.list = Shown
    BY <1>7 DEF Cancelled, Shown, PageType
  <2>2. Shown \subseteq page.list
    BY DEF Shown, DroppedFrom
  <2> QED BY <1>1, <1>2, <2>1, <2>2 DEF PageKnown, PageAsked, LoadsTrue, ListTrue, Listing, Shown, Saving, Known
<1>8. CASE Submitted
  <2> DEFINE p == [page EXCEPT !.submit = None]
             q == IF page.submit.code = "new" THEN [p EXCEPT !.created = p.dialog # None] ELSE [p EXCEPT !.dialog = None]
  <2>1. /\ q \in PageType /\ q.list = page.list /\ q.loads = page.loads /\ q.cancel = page.cancel
        /\ q.target = page.target /\ q.open = page.open /\ q.submit = None
        /\ p.list = page.list /\ p.loads = page.loads /\ p.cancel = page.cancel /\ p.submit = None
        /\ p.target = page.target /\ p.open = page.open /\ p.loading = page.loading /\ p.failed = page.failed
    BY DEF PageType
  <2>2. /\ page.submit # None /\ page.submit.st \in {"done", "error"}
        /\ IF page.submit.st = "error" THEN page' = p ELSE page' = OnSaved(q)
    BY <1>8 DEF Submitted
  <2>3. \A op \in work : op.from = "page" => op.name = "cancel"
    BY <2>2 DEF PageAsked
  <2> HIDE DEF p, q
  <2>4. /\ page'.list = page.list /\ page'.target = page.target /\ page'.cancel = page.cancel /\ page'.submit = None
        /\ page'.loads = page.loads \/ page'.loads = page.loads \cup {[n |-> edits, rows |-> None, late |-> FALSE]}
        /\ \/ page.submit.st = "error" /\ page'.open = page.open /\ page'.loading = page.loading /\ page'.failed = page.failed
           \/ page'.loading \/ ~page'.open
    BY <2>1, <2>2, LoadType DEF OnSaved, Docs, DocsTyped
  <2> QED BY <1>1, <1>2, <2>2, <2>3, <2>4 DEF PageKnown, PageAsked, LoadsTrue, ListTrue, Listing, Shown, Saving, Known
<1>9. ASSUME NEW l \in page.loads, ListMyMeetings(l)
      PROVE  PageKnown' /\ PageAsked' /\ LoadsTrue' /\ ListTrue'
  <2> DEFINE r == [l EXCEPT !.rows = Mine]
  <2>1. r.rows = Mine
    BY DEF PageType, ListLoad
  <2>2. page' = [page EXCEPT !.loads = (@ \ {l}) \cup {r}]
    BY <1>9 DEF ListMyMeetings
  <2> HIDE DEF r
  <2>3. /\ page'.list = page.list /\ page'.cancel = page.cancel /\ page'.submit = page.submit /\ page'.target = page.target
        /\ page'.open = page.open /\ page'.loading = page.loading /\ page'.failed = page.failed
        /\ page'.loads = (page.loads \ {l}) \cup {r}
    BY <2>2 DEF PageType
  <2> QED BY <1>1, <1>2, <2>1, <2>3, MineFacts DEF PageKnown, PageAsked, LoadsTrue, ListTrue, Listing, Shown, Saving, Known
<1> QED BY <1>1, <1>3, <1>4, <1>5, <1>6, <1>7, <1>8, <1>9 DEF QuietStep

LEMMA MineUnplanned ==
  ASSUME Docs, NEW u \in Users, NEW c, Create(u, FALSE, c)
  PROVE  Mine' = Mine
<1>1. /\ DOMAIN rooms' = DOMAIN rooms \cup {c} /\ \A d \in DOMAIN rooms : rooms'[d] = rooms[d]
      /\ rooms'[c] = NewRoom(u, FALSE)
  <2>1. FALSE \in BOOLEAN
    OBVIOUS
  <2> QED BY <2>1, CreateEffects
<1> QED BY <1>1 DEF Mine, Planned, NewRoom

LEMMA MineSaved ==
  ASSUME Docs, NEW op \in work, Save(op)
  PROVE  /\ op.name = "backfill" => Mine' = Mine
         /\ op.name \in {"cancel", "end"} => Mine' = DroppedFrom(Mine, op.code)
<1>1. /\ op.code \in DOMAIN rooms /\ DOMAIN rooms' = DOMAIN rooms
      /\ \A c \in DOMAIN rooms \ {op.code} : rooms'[c] = rooms[c]
  BY SaveEffects
<1>2. CASE op.name = "backfill"
  <2>1. \A c \in DOMAIN rooms : /\ Planned(rooms'[c]) = Planned(rooms[c])
                                /\ rooms'[c].host = rooms[c].host /\ rooms'[c].text = rooms[c].text
    BY <1>1, <1>2, SaveEffects DEF Planned
  <2> QED BY <1>1, <1>2, <2>1 DEF Mine
<1>3. CASE op.name \in {"cancel", "end"}
  <2>1. ~Planned(rooms'[op.code])
    BY <1>3, SaveEffects DEF Planned
  <2> QED BY <1>1, <1>3, <2>1 DEF Mine, DroppedFrom
<1> QED BY <1>2, <1>3

LEMMA LateFacts ==
  ASSUME page \in PageType
  PROVE  \A l \in Late : /\ l.rows # None => l.late
                         /\ \E k \in page.loads : k.rows = l.rows
BY DEF Late, PageType, ListLoad

(* The page's part in a handler's write, its own handlers' or another's.    *)
LEMMA PageSaved ==
  ASSUME Docs, PageInv, NEW op \in work, NEW heard \in BOOLEAN, SaveHeard(op, heard)
  PROVE  PageKnown' /\ PageAsked' /\ LoadsTrue' /\ ListTrue' /\ DocStep
<1> USE DEF PageInv, PageTyped
<1>1. Save(op) /\ DocStep
  BY DEF SaveHeard, Save, DocStep
<1>2. Docs' /\ Durable /\ work' = work \ {op} /\ \A c : Known(c) => Known(c)'
  BY <1>1, DocsSurvive, SaveEffects DEF Durable, Known
<1>3. CASE op.from = "page" /\ op.name = "cancel"
  <2>1. page.cancel = "sent" /\ page.target = op.code
    BY <1>3 DEF PageAsked
  <2>2. /\ page'.list = page.list /\ page'.loads = Late /\ page'.target = page.target /\ page'.submit = page.submit
        /\ page'.open = page.open /\ page'.loading = page.loading /\ page'.failed = page.failed
        /\ page'.cancel = (IF heard THEN "done" ELSE "error") /\ missed' = (missed \/ ~heard)
    BY <1>3, <2>1 DEF SaveHeard, Told, Answer, PageType
  <2>3. PageKnown' /\ LoadsTrue'
    BY <1>2, <2>2, LateFacts DEF PageKnown, LoadsTrue
  <2>4. PageAsked'
    <3>1. ~rooms'[op.code].active
      BY <1>1, <1>3, SaveEffects
    <3>2. \A o \in work' : o.from = "page" => o.name # "cancel"
      BY <1>2, <1>3 DEF PageAsked
    <3>3. op.code # None
      BY MeetingConstants DEF Docs, DocsTyped, OpType
    <3> QED BY <1>2, <2>1, <2>2, <3>1, <3>2, <3>3 DEF PageAsked
  <2>5. ListTrue'
    <3>1. Mine' = DroppedFrom(Mine, op.code)
      BY <1>1, <1>3, MineSaved
    <3> QED BY <2>1, <2>2, <3>1 DEF ListTrue, Listing, Saving, Shown, DroppedFrom
  <2> QED BY <1>1, <2>3, <2>4, <2>5
<1>4. CASE op.from = "page" /\ op.name # "cancel"
  <2>1. op.name = "edit" /\ page.submit # None /\ page.submit.st = "sent" /\ page.submit.code = op.code
    BY <1>4 DEF PageAsked
  <2>2. /\ page'.list = page.list /\ page'.loads = Late /\ page'.target = page.target /\ page'.cancel = page.cancel
        /\ page'.open = page.open /\ page'.loading = page.loading /\ page'.failed = page.failed
        /\ page'.submit = [page.submit EXCEPT !.st = IF heard THEN "done" ELSE "error"] /\ missed' = (missed \/ ~heard)
    BY <1>4 DEF SaveHeard, Told, Answer, PageType
  <2>3. page'.submit # None /\ page'.submit.st = (IF heard THEN "done" ELSE "error")
    BY <2>1, <2>2, NoSubmission DEF PageType, Submission
  <2>4. PageKnown' /\ LoadsTrue'
    BY <1>2, <2>2, LateFacts DEF PageKnown, LoadsTrue
  <2>5. PageAsked'
    <3>1. \A o \in work' : o.from = "page" => o.name # "edit"
      BY <1>2, <1>4, <2>1 DEF PageAsked
    <3>2. page.cancel = "done" => ~rooms'[page.target].active
      BY <1>2 DEF PageAsked, PageKnown, Durable, Known, Docs, DocsTyped, Doc
    <3> QED BY <1>2, <2>2, <3>1, <3>2 DEF PageAsked
  <2>6. ListTrue'
    BY <2>2, <2>3 DEF ListTrue, Saving
  <2> QED BY <1>1, <2>4, <2>5, <2>6
<1>5. CASE op.from # "page"
  <2>1. /\ page'.list = page.list /\ page'.target = page.target /\ page'.cancel = page.cancel /\ page'.submit = page.submit
        /\ page'.open = page.open /\ page'.loading = page.loading /\ page'.failed = page.failed
        /\ IF op.name = "backfill" THEN page'.loads = page.loads /\ missed' = missed
                                   ELSE page'.loads = Late /\ missed'
    BY <1>5 DEF SaveHeard, PageType
  <2>2. op.name = "backfill" => Mine' = Mine
    BY <1>1, MineSaved
  <2>3. PageKnown'
    BY <1>2, <2>1, LateFacts DEF PageKnown
  <2>4. PageAsked'
    <3>1. page.cancel = "done" => ~rooms'[page.target].active
      BY <1>2 DEF PageAsked, PageKnown, Durable, Known, Docs, DocsTyped, Doc
    <3> QED BY <1>2, <2>1, <3>1 DEF PageAsked
  <2>5. LoadsTrue' /\ ListTrue'
    BY <2>1, <2>2, LateFacts DEF LoadsTrue, ListTrue, Listing, Saving, Shown
  <2> QED BY <1>1, <2>3, <2>4, <2>5
<1> QED BY <1>3, <1>4, <1>5

LEMMA PageStep ==
  ASSUME Docs, PageInv, PlanningNext
  PROVE  PageKnown' /\ PageAsked' /\ LoadsTrue' /\ ListTrue' /\ DocStep
<1> USE DEF PageInv, PageTyped
<1>1. CASE QuietStep
  BY <1>1, PageQuiet DEF DocStep, DocsKept
<1>2. ASSUME NEW l \in page.loads, Loaded(l)
      PROVE  PageKnown' /\ PageAsked' /\ LoadsTrue' /\ ListTrue' /\ DocStep
  <2>1. /\ UNCHANGED <<rooms, work, edits>>
        /\ page'.loads = page.loads \ {l} /\ page'.target = page.target /\ page'.cancel = page.cancel
        /\ page'.submit = page.submit /\ page'.open = page.open
        /\ \/ page'.list = l.rows /\ l.rows # None /\ missed' = l.late
           \/ page'.list = page.list /\ page'.failed
    <3>1. UNCHANGED <<rooms, work, edits>>
      BY <1>2 DEF Loaded, docVars
    <3> DEFINE p == [page EXCEPT !.loads = @ \ {l}, !.loading = FALSE]
    <3>2. /\ DOMAIN p = DOMAIN page
          /\ p.loads = page.loads \ {l} /\ p.target = page.target /\ p.cancel = page.cancel
          /\ p.submit = page.submit /\ p.open = page.open /\ p.list = page.list
      BY DEF PageType
    <3>3. \/ l.rows # None /\ page' = [p EXCEPT !.list = l.rows] /\ missed' = l.late
          \/ page' = [p EXCEPT !.failed = TRUE]
      BY <1>2 DEF Loaded
    <3> HIDE DEF p
    <3> QED BY <3>1, <3>2, <3>3 DEF PageType
  <2>2. Mine' = Mine
    BY <2>1, MineKept
  <2>3. PageKnown' /\ PageAsked' /\ LoadsTrue'
    BY <2>1, <2>2 DEF PageKnown, PageAsked, LoadsTrue, Known
  <2>4. ListTrue'
    <3>1. page.cancel = "done" => DroppedFrom(Mine, page.target) = Mine
      BY MineFacts DEF DroppedFrom, PageAsked
    <3> QED BY <2>1, <2>2, <3>1 DEF LoadsTrue, ListTrue, Listing, Saving, Shown
  <2> QED BY <2>1, <2>3, <2>4 DEF DocStep, DocsKept
<1>3. CASE ConfirmCancel \/ HandleSubmit
  <2>1. /\ UNCHANGED <<rooms, work, missed>> /\ edits' = edits + 1
        /\ page'.list = page.list /\ page'.loads = page.loads /\ page'.target = page.target
        /\ page'.open = page.open /\ page'.loading = page.loading /\ page'.failed = page.failed
        /\ \/ /\ page.target # None /\ page.cancel = "no" /\ page'.cancel = "sent" /\ page'.submit = page.submit
           \/ /\ page.submit = None /\ page'.submit.st = "sent" /\ page'.cancel = page.cancel
    BY <1>3 DEF ConfirmCancel, HandleSubmit, PageType
  <2>2. Mine' = Mine
    BY <2>1, MineKept
  <2>3. PageKnown' /\ PageAsked' /\ LoadsTrue'
    BY <2>1, <2>2 DEF PageKnown, PageAsked, LoadsTrue, Known
  <2>4. ListTrue'
    BY <2>1, <2>2 DEF ListTrue, Listing, Saving, Shown
  <2> QED BY <2>1, <2>3, <2>4 DEF DocStep, DocsKept
<1>4. CASE ReceiveCancel
  <2> DEFINE op == Op("cancel", page.target, Host, 0, "page")
  <2>1. page.cancel = "sent" /\ Known(page.target) /\ Read(op)
    BY <1>4, OpRead DEF ReceiveCancel, PageAsked, PageKnown, Users
  <2>2. op.name = "cancel" /\ op.from = "page" /\ op.code = page.target
    BY DEF Op
  <2>3. /\ UNCHANGED <<rooms, edits, missed>> /\ \A o \in work : ~(o.name = "cancel" /\ o.from = "page")
        /\ \/ work' = work \cup {op} /\ UNCHANGED page
           \/ page' = Answer(page, op, "error") /\ UNCHANGED work
    BY <1>4 DEF ReceiveCancel, Receive, Working
  <2> HIDE DEF op
  <2>4. CASE work' = work \cup {op} /\ UNCHANGED page
    <3>1. PageAsked'
      BY <2>1, <2>2, <2>3, <2>4 DEF PageAsked
    <3>2. Mine' = Mine
      BY <2>3, MineKept
    <3> QED BY <2>1, <2>3, <2>4, <3>1, <3>2 DEF PageKnown, LoadsTrue, ListTrue, Listing, Saving, Shown, Known, DocStep, DocsKept
  <2>5. CASE page' = Answer(page, op, "error") /\ UNCHANGED work
    <3>1. /\ page'.list = page.list /\ page'.loads = page.loads /\ page'.target = page.target
          /\ page'.open = page.open /\ page'.loading = page.loading /\ page'.failed = page.failed
          /\ page'.submit = page.submit /\ page'.cancel = "error"
      BY <2>2, <2>5 DEF Answer, PageType
    <3>2. Mine' = Mine
      BY <2>3, MineKept
    <3>3. PageAsked'
      BY <2>1, <2>3, <2>5, <3>1 DEF PageAsked
    <3> QED BY <2>1, <2>3, <2>5, <3>1, <3>2, <3>3
            DEF PageKnown, LoadsTrue, ListTrue, Listing, Saving, Shown, Known, DocStep, DocsKept
  <2> QED BY <2>3, <2>4, <2>5
<1>5. CASE ReceiveEdit
  <2> DEFINE op == Op("edit", page.submit.code, Host, page.submit.text, "page")
  <2>1. page.submit # None /\ page.submit.st = "sent" /\ Read(op)
    <3>1. page.submit # None /\ page.submit.st = "sent" /\ Known(page.submit.code) /\ page.submit.text \in Nat
      BY <1>5 DEF ReceiveEdit, PageType, Submission
    <3> QED BY <3>1, OpRead DEF Users
  <2>2. op.name = "edit" /\ op.from = "page" /\ op.code = page.submit.code
    BY DEF Op
  <2>3. /\ UNCHANGED <<rooms, edits, missed>> /\ \A o \in work : ~(o.name = "edit" /\ o.from = "page")
        /\ \/ work' = work \cup {op} /\ UNCHANGED page
           \/ page' = Answer(page, op, "error") /\ UNCHANGED work
    BY <1>5 DEF ReceiveEdit, Receive, Working
  <2> HIDE DEF op
  <2>4. CASE work' = work \cup {op} /\ UNCHANGED page
    <3>1. PageAsked'
      BY <2>1, <2>2, <2>3, <2>4 DEF PageAsked
    <3>2. Mine' = Mine
      BY <2>3, MineKept
    <3> QED BY <2>1, <2>3, <2>4, <3>1, <3>2 DEF PageKnown, LoadsTrue, ListTrue, Listing, Saving, Shown, Known, DocStep, DocsKept
  <2>5. CASE page' = Answer(page, op, "error") /\ UNCHANGED work
    <3>1. /\ page'.list = page.list /\ page'.loads = page.loads /\ page'.target = page.target
          /\ page'.open = page.open /\ page'.loading = page.loading /\ page'.failed = page.failed
          /\ page'.submit.st = "error" /\ page'.cancel = page.cancel
      BY <2>1, <2>2, <2>5 DEF Answer, PageType, Submission
    <3>2. Mine' = Mine
      BY <2>3, MineKept
    <3>3. PageAsked'
      BY <2>1, <2>3, <2>5, <3>1 DEF PageAsked
    <3> QED BY <2>1, <2>3, <2>5, <3>1, <3>2, <3>3
            DEF PageKnown, LoadsTrue, ListTrue, Listing, Saving, Shown, Known, DocStep, DocsKept
  <2> QED BY <2>3, <2>4, <2>5
<1>6. ASSUME NEW heard \in BOOLEAN, Schedule(heard)
      PROVE  PageKnown' /\ PageAsked' /\ LoadsTrue' /\ ListTrue' /\ DocStep
  <2>1. /\ page.submit # None /\ page.submit \in Submission /\ page.submit.st = "sent" /\ page.submit.code = "new"
        /\ UNCHANGED <<work, edits>>
        /\ \/ \E c \in Codes : Create(Host, TRUE, c) /\ page' = Told([name |-> "new"], heard) /\ missed' = (missed \/ ~heard)
           \/ UNCHANGED <<rooms, missed>> /\ page' = Answer(page, [name |-> "new"], "error")
    BY <1>6 DEF Schedule, CodesClash, PageType
  <2>2. DocStep
    BY <2>1 DEF DocStep, DocsKept, Users
  <2>3. Durable /\ \A c : Known(c) => Known(c)'
    BY <2>2, DocsSurvive DEF Durable, Known
  <2>4. /\ page'.list = page.list /\ page'.target = page.target /\ page'.cancel = page.cancel
        /\ page'.open = page.open /\ page'.loading = page.loading /\ page'.failed = page.failed
        /\ \/ /\ page'.loads = Late /\ missed' = (missed \/ ~heard)
              /\ page'.submit = [page.submit EXCEPT !.st = IF heard THEN "done" ELSE "error"]
           \/ /\ UNCHANGED <<rooms, missed>> /\ page'.loads = page.loads
              /\ page'.submit = [page.submit EXCEPT !.st = "error"]
    BY <2>1 DEF Told, Answer, PageType
  <2>5. page'.submit \in Submission /\ page'.submit # None
    BY <2>1, <2>4, NoSubmission DEF Submission
  <2>6. PageKnown'
    BY <2>3, <2>4, LateFacts DEF PageKnown
  <2>7. PageAsked'
    <3>1. \A o \in work : o.from = "page" => o.name = "cancel"
      BY <2>1, MeetingConstants DEF PageAsked, Docs, DocsTyped, OpType
    <3>2. page.cancel = "done" => ~rooms'[page.target].active
      BY <2>3 DEF PageAsked, PageKnown, Durable, Known, Docs, DocsTyped, Doc
    <3> QED BY <2>1, <2>4, <3>1, <3>2 DEF PageAsked
  <2>8. LoadsTrue' /\ ListTrue'
    <3>1. CASE UNCHANGED <<rooms, missed>> /\ page'.loads = page.loads
      <4>1. Mine' = Mine
        BY <3>1, MineKept
      <4> QED BY <2>1, <2>4, <3>1, <4>1 DEF LoadsTrue, ListTrue, Listing, Saving, Shown
    <3>2. CASE /\ page'.loads = Late /\ missed' = (missed \/ ~heard)
               /\ page'.submit = [page.submit EXCEPT !.st = IF heard THEN "done" ELSE "error"]
      <4>1. heard => page'.submit.st = "done"
        BY <2>1, <3>2 DEF Submission
      <4> QED BY <2>5, <3>2, <4>1, LateFacts DEF LoadsTrue, ListTrue, Saving
    <3> QED BY <2>4, <3>1, <3>2
  <2> QED BY <2>2, <2>6, <2>7, <2>8
<1>7. ASSUME NEW heard \in BOOLEAN, NEW op \in work, SaveHeard(op, heard)
      PROVE  PageKnown' /\ PageAsked' /\ LoadsTrue' /\ ListTrue' /\ DocStep
  BY <1>7, PageSaved
<1> QED BY <1>1, <1>2, <1>3, <1>4, <1>5, <1>6, <1>7 DEF PlanningNext, QuietStep

(* The page while somebody else's step changes nothing of its list.         *)
LEMMA PageElsewhere ==
  ASSUME Docs, PageInv, DocStep, UNCHANGED pageVars, Mine' = Mine,
         \A op \in work' : op.from = "page" => op \in work
  PROVE  PageInv'
<1>1. Durable
  BY DocsSurvive
<1>2. \A c : Known(c) => Known(c)' /\ (~rooms[c].active => ~rooms'[c].active)
  BY <1>1 DEF Durable, Known, Docs, DocsTyped, Doc
<1> QED BY <1>2 DEF PageInv, PageTyped, PageKnown, PageAsked, LoadsTrue, ListTrue, Listing, Saving, Shown, pageVars

-----------------------------------------------------------------------------
(* The visitor's tab.                                                       *)
Entries ==
  {e \in [at : {"home", "lobby", "room"}, code : Codes \cup {None}, canonical : BOOLEAN, marker : BOOLEAN] :
     e.at = "home" \/ e.code \in Codes}
Result == [code : Codes \cup {None}, status : {"none", "loading", "invalid", "ended", "valid"}]
VisitType ==
  [auth : {"loading", "in", "out"}, asked : Codes \cup {None}, asks : SUBSET Result, result : Result,
   creating : Codes \cup {None, "sent"}, loadedAt : {"home", "lobby", "room", "elsewhere"}]
BrowserType ==
  [entry : Entries, past : SUBSET Entries, cookie : BOOLEAN, stash : Entries, entered : SUBSET Codes]

(* The guard asks about one code at a time, and its answer is about that;   *)
(* what it found valid, and what was started, is there.                     *)
GuardTrue(v) ==
  /\ \A a \in v.asks : a.code = v.asked /\ (a.status = "valid" => Known(a.code))
  /\ v.asked # None /\ v.asks = {} => v.result.code = v.asked /\ v.result.status # "loading"
  /\ v.result.status = "valid" => Known(v.result.code)
  /\ v.creating \in Codes => Known(v.creating)

(* Every marked entry of the history was entered, and what was entered is   *)
(* there.                                                                   *)
EntriesTrue(b) ==
  /\ \A e \in b.past \cup {b.entry} : e.marker => e.code \in b.entered
  /\ ~b.stash.marker
  /\ b.entered \subseteq DOMAIN rooms

LinksInv == visit \in VisitType /\ browser \in BrowserType /\ GuardTrue(visit) /\ EntriesTrue(browser)

LEMMA HomeEntryType == HomeEntry \in Entries /\ ~HomeEntry.marker
BY DEF HomeEntry, Entries

LEMMA DocumentType ==
  ASSUME NEW at \in {"home", "lobby", "room"}
  PROVE  Document(at) \in VisitType /\ GuardTrue(Document(at))
<1>1. [code |-> None, status |-> "none"] \in Result
  BY DEF Result
<1> QED BY <1>1, MeetingConstants DEF Document, VisitType, GuardTrue

LEMMA ToEntryType ==
  ASSUME NEW v \in VisitType, GuardTrue(v), NEW e \in Entries
  PROVE  ToEntry(v, e) \in VisitType /\ GuardTrue(ToEntry(v, e)) /\ ToEntry(v, e).creating = v.creating
<1> DEFINE w == [v EXCEPT !.loadedAt = "elsewhere"]
           none == [code |-> None, status |-> "none"]
           h == [Cleaned(w) EXCEPT !.asked = None, !.result = none]
<1>1. /\ w \in VisitType /\ w.asks = v.asks /\ w.asked = v.asked /\ w.result = v.result /\ w.creating = v.creating
  BY DEF VisitType
<1>2. none \in Result /\ Document("home").result = none
  BY DEF Result, Document
<1>3. ToEntry(v, e) = IF e.at = "home" THEN h ELSE w
  BY <1>2 DEF ToEntry
<1>4. /\ h \in VisitType /\ h.asks = {} /\ h.asked = None /\ h.result = none /\ h.creating = v.creating
  <2> HIDE DEF none, w
  <2> QED BY <1>1, <1>2 DEF VisitType, Cleaned
<1> HIDE DEF w, h
<1>5. GuardTrue(w)
  BY <1>1 DEF GuardTrue
<1>6. GuardTrue(h)
  BY <1>4 DEF GuardTrue
<1> QED BY <1>1, <1>3, <1>4, <1>5, <1>6

LEMMA EnterType ==
  ASSUME LinksInv, NEW c \in Codes, Known(c), Enter(c)
  PROVE  browser' \in BrowserType /\ EntriesTrue(browser')
<1> DEFINE e == Entry("room", c, TRUE, TRUE)
<1>1. e \in Entries /\ e.code = c
  BY DEF Entry, Entries
<1>2. browser' = [browser EXCEPT !.entry = e, !.past = @ \cup {browser.entry}, !.entered = @ \cup {c}]
  BY DEF Enter, entry
<1> HIDE DEF e
<1>3. /\ browser' \in BrowserType /\ browser'.entry = e /\ browser'.past = browser.past \cup {browser.entry}
      /\ browser'.entered = browser.entered \cup {c} /\ browser'.stash = browser.stash
  BY <1>1, <1>2 DEF LinksInv, BrowserType
<1> QED BY <1>1, <1>3 DEF LinksInv, EntriesTrue, Known

LEMMA PushType ==
  ASSUME LinksInv, NEW e \in Entries, ~e.marker, Push(e)
  PROVE  browser' \in BrowserType /\ EntriesTrue(browser')
<1>1. browser' = [browser EXCEPT !.entry = e, !.past = @ \cup {browser.entry}]
  BY DEF Push, entry
<1>2. /\ browser' \in BrowserType /\ browser'.entry = e /\ browser'.past = browser.past \cup {browser.entry}
      /\ browser'.entered = browser.entered /\ browser'.stash = browser.stash
  BY <1>1 DEF LinksInv, BrowserType
<1> QED BY <1>2 DEF LinksInv, EntriesTrue

LEMMA ReplaceType ==
  ASSUME LinksInv, NEW e \in Entries, e.marker => entry.marker /\ e.code = entry.code, Replace(e)
  PROVE  browser' \in BrowserType /\ EntriesTrue(browser')
<1>1. /\ browser' \in BrowserType /\ browser'.entry = e /\ browser'.past = browser.past
      /\ browser'.entered = browser.entered /\ browser'.stash = browser.stash
  BY DEF Replace, LinksInv, BrowserType
<1> QED BY <1>1 DEF LinksInv, EntriesTrue, entry

LEMMA LinksInvInit == MeetingsInit => LinksInv
<1> SUFFICES ASSUME MeetingsInit PROVE LinksInv
  OBVIOUS
<1>1. visit \in VisitType /\ GuardTrue(visit)
  BY DocumentType DEF MeetingsInit, LinksInit
<1>2. browser \in BrowserType /\ EntriesTrue(browser)
  BY HomeEntryType DEF MeetingsInit, LinksInit, BrowserType, EntriesTrue
<1> QED BY <1>1, <1>2 DEF LinksInv

(* The tab after a step, judged by the documents before it.                 *)
LinksNow == visit' \in VisitType /\ browser' \in BrowserType /\ GuardTrue(visit') /\ EntriesTrue(browser')

(* What a visitor's step may do to the documents.                           *)
VisitDocs ==
  /\ UNCHANGED edits
  /\ \/ UNCHANGED <<rooms, work>>
     \/ UNCHANGED rooms /\ \E op : Read(op) /\ op.from = "guard" /\ work' = work \cup {op}
     \/ UNCHANGED work /\ \E c \in Codes : Create(Visitor, FALSE, c)

LEMMA LinksDocuments ==
  ASSUME LinksInv,
         \/ \E c \in Codes, at \in {"lobby", "room"}, canonical \in BOOLEAN : OpenLink(Entry(at, c, canonical, FALSE))
         \/ Refresh \/ Bounce \/ Logout \/ \E e \in browser.past : Back(e)
         \/ \E b \in BOOLEAN : Probed(b) \/ Login(b)
  PROVE  LinksNow /\ VisitDocs
<1> USE DEF LinksInv
<1>0. entry \in Entries /\ browser.stash \in Entries
  BY DEF entry, BrowserType
<1>1. ASSUME NEW c \in Codes, NEW at \in {"lobby", "room"}, NEW canonical \in BOOLEAN,
             OpenLink(Entry(at, c, canonical, FALSE))
      PROVE  LinksNow /\ VisitDocs
  <2> DEFINE e == Entry(at, c, canonical, FALSE)
  <2>1. e \in Entries /\ ~e.marker /\ e.at \in {"lobby", "room"}
    BY DEF Entry, Entries
  <2>2. Push(e) /\ visit' = Document(e.at) /\ Stays
    BY <1>1 DEF OpenLink
  <2> HIDE DEF e
  <2> QED BY <2>1, <2>2, PushType, DocumentType DEF LinksNow, VisitDocs, Stays
<1>2. CASE Refresh
  <2>1. entry.at \in {"home", "lobby", "room"}
    BY <1>0 DEF Entries
  <2> QED BY <1>2, <2>1, DocumentType DEF Refresh, LinksNow, VisitDocs, Stays
<1>3. CASE Bounce
  <2> DEFINE s == Stashed(entry)
  <2>1. s \in Entries /\ ~s.marker
    BY <1>0 DEF Stashed, Entries
  <2>2. browser' = [browser EXCEPT !.entry = HomeEntry, !.stash = s] /\ visit' = ToEntry(visit, HomeEntry) /\ Stays
    BY <1>3 DEF Bounce
  <2> HIDE DEF s
  <2>3. browser' \in BrowserType /\ EntriesTrue(browser')
    BY <2>1, <2>2, HomeEntryType DEF BrowserType, EntriesTrue
  <2> QED BY <2>2, <2>3, ToEntryType, HomeEntryType DEF LinksNow, VisitDocs, Stays
<1>4. CASE Logout
  <2>1. visit' = [visit EXCEPT !.auth = "out"] /\ browser' = [browser EXCEPT !.cookie = FALSE] /\ Stays
    BY <1>4 DEF Logout
  <2>2. visit' \in VisitType /\ GuardTrue(visit')
    BY <2>1 DEF VisitType, GuardTrue
  <2>3. browser' \in BrowserType /\ EntriesTrue(browser')
    BY <2>1 DEF BrowserType, EntriesTrue
  <2> QED BY <2>1, <2>2, <2>3 DEF LinksNow, VisitDocs, Stays
<1>5. ASSUME NEW e \in browser.past, Back(e)
      PROVE  LinksNow /\ VisitDocs
  <2>1. e \in Entries
    BY DEF BrowserType
  <2>2. browser' = [browser EXCEPT !.entry = e, !.past = (@ \ {e}) \cup {browser.entry}] /\ visit' = ToEntry(visit, e) /\ Stays
    BY <1>5 DEF Back, entry
  <2>3. browser' \in BrowserType /\ EntriesTrue(browser')
    BY <2>1, <2>2 DEF BrowserType, EntriesTrue
  <2> QED BY <2>1, <2>2, <2>3, ToEntryType DEF LinksNow, VisitDocs, Stays
<1>6. ASSUME NEW b \in BOOLEAN, Probed(b)
      PROVE  LinksNow /\ VisitDocs
  <2>1. \E a \in {"in", "out"} : visit' = [visit EXCEPT !.auth = a]
    BY <1>6 DEF Probed
  <2>2. visit' \in VisitType /\ GuardTrue(visit')
    BY <2>1 DEF VisitType, GuardTrue
  <2> QED BY <1>6, <2>2 DEF Probed, LinksNow, VisitDocs, Stays
<1>7. ASSUME NEW b \in BOOLEAN, Login(b)
      PROVE  LinksNow /\ VisitDocs
  <2> DEFINE e == IF b THEN browser.stash ELSE HomeEntry
  <2>1. e \in Entries /\ ~e.marker /\ e.at \in {"home", "lobby", "room"}
    BY <1>0, HomeEntryType DEF EntriesTrue, Entries
  <2>2. /\ browser' = [browser EXCEPT !.entry = e, !.stash = HomeEntry, !.cookie = b \/ @, !.past = @ \cup {browser.entry}]
        /\ visit' = Document(e.at) /\ Stays
    BY <1>7 DEF Login, entry
  <2> HIDE DEF e
  <2>3. browser' \in BrowserType /\ EntriesTrue(browser')
    BY <2>1, <2>2, HomeEntryType DEF BrowserType, EntriesTrue
  <2> QED BY <2>1, <2>2, <2>3, DocumentType DEF LinksNow, VisitDocs, Stays
<1> QED BY <1>1, <1>2, <1>3, <1>4, <1>5, <1>6, <1>7

LEMMA LinksGuard ==
  ASSUME Docs, LinksInv,
         \/ Canonicalise \/ Ask \/ RedirectToLobby
         \/ \E a \in visit.asks : GuardAnswered(a) \/ \E reached \in BOOLEAN : Applied(a, reached)
  PROVE  LinksNow /\ VisitDocs
<1> USE DEF LinksInv
<1>0. entry \in Entries /\ (Mounted => entry.code \in Codes)
  BY DEF entry, BrowserType, Entries, Mounted
<1>1. CASE Canonicalise \/ RedirectToLobby
  <2>1. PICK e : /\ e = [entry EXCEPT !.canonical = TRUE] \/ e = [entry EXCEPT !.at = "lobby"]
                 /\ Mounted /\ Replace(e) /\ UNCHANGED visit /\ Stays
    BY <1>1 DEF Canonicalise, RedirectToLobby
  <2>2. e \in Entries /\ e.marker = entry.marker /\ e.code = entry.code
    BY <1>0, <2>1 DEF Entries
  <2> QED BY <2>1, <2>2, ReplaceType DEF LinksNow, VisitDocs, Stays
<1>2. CASE Ask
  <2> DEFINE a == [code |-> entry.code, status |-> "loading"]
             w == [visit EXCEPT !.asks = {}]
  <2>1. a \in Result /\ entry.code \in Codes
    BY <1>0, <1>2 DEF Ask, Result
  <2>2. w \in VisitType /\ w.asks = {}
    BY DEF VisitType
  <2>3. visit' = [w EXCEPT !.asked = entry.code, !.asks = @ \cup {a}] /\ UNCHANGED browser /\ Stays
    BY <1>2 DEF Ask, Cleaned
  <2>4. a.code = entry.code /\ a.status = "loading" /\ w.result = visit.result /\ w.creating = visit.creating
    BY DEF VisitType
  <2> HIDE DEF a, w
  <2>5. /\ visit' \in VisitType /\ visit'.asks = {a} /\ visit'.asked = entry.code
        /\ visit'.result = visit.result /\ visit'.creating = visit.creating
    BY <2>1, <2>2, <2>3, <2>4 DEF VisitType
  <2>6. GuardTrue(visit')
    BY <2>4, <2>5 DEF GuardTrue
  <2> QED BY <2>3, <2>5, <2>6 DEF LinksNow, VisitDocs, Stays
<1>3. ASSUME NEW a \in visit.asks, GuardAnswered(a)
      PROVE  LinksNow /\ VisitDocs
  <2> DEFINE b == [a EXCEPT !.status = GetRoom(a.code)]
  <2>1. a \in Result /\ b \in Result /\ b.code = a.code /\ (b.status = "valid" => Known(b.code))
    BY DEF VisitType, Result, GetRoom
  <2>2. visit' = [visit EXCEPT !.asks = (@ \ {a}) \cup {b}] /\ UNCHANGED <<rooms, edits, browser>> /\ BackFill(a.code)
    BY <1>3 DEF GuardAnswered
  <2> HIDE DEF b
  <2>3. /\ visit' \in VisitType /\ visit'.asks = (visit.asks \ {a}) \cup {b} /\ visit'.asked = visit.asked
        /\ visit'.result = visit.result /\ visit'.creating = visit.creating
    BY <2>1, <2>2 DEF VisitType
  <2>4. GuardTrue(visit')
    BY <2>1, <2>3 DEF GuardTrue
  <2>5. VisitDocs
    <3>1. CASE GetRoom(a.code) = "valid"
      <4>1. Known(a.code)
        BY <3>1 DEF GetRoom
      <4>2. Read(Op("backfill", a.code, None, 0, "guard"))
        BY <4>1, OpRead
      <4>3. Op("backfill", a.code, None, 0, "guard").from = "guard"
        BY DEF Op
      <4> QED BY <2>2, <4>2, <4>3 DEF BackFill, VisitDocs
    <3> QED BY <2>2, <3>1 DEF BackFill, VisitDocs
  <2> QED BY <2>2, <2>3, <2>4, <2>5 DEF LinksNow
<1>4. ASSUME NEW a \in visit.asks, NEW reached \in BOOLEAN, Applied(a, reached)
      PROVE  LinksNow /\ VisitDocs
  <2> DEFINE r == [code |-> a.code, status |-> IF reached THEN a.status ELSE "invalid"]
  <2>1. a \in Result /\ r \in Result /\ r.code = a.code /\ r.status # "loading"
        /\ (r.status = "valid" => a.status = "valid")
    BY <1>4 DEF Applied, VisitType, Result
  <2>2. visit' = [visit EXCEPT !.asks = @ \ {a}, !.result = r] /\ UNCHANGED browser /\ Stays
    BY <1>4 DEF Applied
  <2> HIDE DEF r
  <2>3. /\ visit' \in VisitType /\ visit'.asks = visit.asks \ {a} /\ visit'.asked = visit.asked
        /\ visit'.result = r /\ visit'.creating = visit.creating
    BY <2>1, <2>2 DEF VisitType
  <2>4. GuardTrue(visit')
    BY <2>1, <2>3 DEF GuardTrue
  <2> QED BY <2>2, <2>3, <2>4 DEF LinksNow, VisitDocs, Stays
<1> QED BY <1>1, <1>2, <1>3, <1>4

LEMMA LinksEntering ==
  ASSUME Docs, LinksInv,
         \/ Join \/ GoHome \/ HandleNewMeeting \/ CreateRoom \/ Started
         \/ \E c \in Codes : HandleJoin(c)
  PROVE  /\ VisitDocs
         /\ LinksNow \/ (CreateRoom /\ visit' \in VisitType /\ UNCHANGED browser)
<1> USE DEF LinksInv
<1>0. entry \in Entries
  BY DEF entry, BrowserType
<1>1. \A c \in Codes : Entry("room", c, TRUE, TRUE) \in Entries /\ Entry("lobby", c, TRUE, FALSE) \in Entries
                       /\ ~Entry("lobby", c, TRUE, FALSE).marker
  BY DEF Entry, Entries
<1>2. CASE Join
  <2>1. entry.code \in Codes /\ Known(entry.code)
    BY <1>0, <1>2 DEF Join, Status, GuardTrue, Entries
  <2> QED BY <1>1, <1>2, <2>1, EnterType, ToEntryType DEF Join, LinksNow, VisitDocs, Stays
<1>3. CASE GoHome
  BY <1>3, PushType, HomeEntryType, ToEntryType DEF GoHome, LinksNow, VisitDocs, Stays
<1>4. CASE HandleNewMeeting
  <2>1. visit' = [visit EXCEPT !.creating = "sent"] /\ UNCHANGED browser /\ Stays
    BY <1>4 DEF HandleNewMeeting
  <2>2. /\ visit' \in VisitType /\ visit'.asks = visit.asks /\ visit'.asked = visit.asked
        /\ visit'.result = visit.result /\ visit'.creating = "sent"
    BY <2>1 DEF VisitType
  <2>3. GuardTrue(visit')
    BY <2>2, MeetingConstants DEF GuardTrue
  <2> QED BY <2>1, <2>2, <2>3 DEF LinksNow, VisitDocs, Stays
<1>5. CASE CreateRoom
  <2>1. \E x \in Codes \cup {None} : visit' = [visit EXCEPT !.creating = x]
    BY <1>5 DEF CreateRoom
  <2>2. visit' \in VisitType
    BY <2>1 DEF VisitType
  <2>3. VisitDocs /\ UNCHANGED browser
    BY <1>5 DEF CreateRoom, VisitDocs, CodesClash
  <2> QED BY <1>5, <2>2, <2>3
<1>6. CASE Started
  <2> DEFINE c == visit.creating
             w == [visit EXCEPT !.creating = None]
             e == Entry("room", c, TRUE, TRUE)
  <2>1. c \in Codes /\ Known(c) /\ Enter(c) /\ visit' = ToEntry(w, e) /\ Stays
    BY <1>6 DEF Started, GuardTrue
  <2>2. /\ w \in VisitType /\ w.asks = visit.asks /\ w.asked = visit.asked /\ w.result = visit.result /\ w.creating = None
    BY DEF VisitType
  <2>3. e \in Entries
    BY <1>1, <2>1
  <2> HIDE DEF c, w, e
  <2>4. GuardTrue(w)
    BY <2>2, MeetingConstants DEF GuardTrue
  <2> QED BY <2>1, <2>2, <2>3, <2>4, EnterType, ToEntryType DEF LinksNow, VisitDocs, Stays
<1>7. ASSUME NEW c \in Codes, HandleJoin(c)
      PROVE  LinksNow /\ VisitDocs
  BY <1>1, <1>7, PushType, ToEntryType DEF HandleJoin, LinksNow, VisitDocs, Stays
<1> QED BY <1>2, <1>3, <1>4, <1>5, <1>6, <1>7

LEMMA VisitDocStep ==
  ASSUME Docs, VisitDocs
  PROVE  DocStep /\ Mine' = Mine /\ \A op \in work' : op.from = "page" => op \in work
<1>1. DocStep
  BY DEF VisitDocs, DocStep, DocsKept, Users
<1>2. Mine' = Mine
  BY MineKept, MineUnplanned DEF VisitDocs, Users
<1> QED BY <1>1, <1>2 DEF VisitDocs

LEMMA LinksStep ==
  ASSUME Docs, LinksInv, LinksNext
  PROVE  LinksInv' /\ VisitDocs
<1>1. /\ VisitDocs
      /\ LinksNow \/ (CreateRoom /\ visit' \in VisitType /\ UNCHANGED browser)
  BY LinksDocuments, LinksGuard, LinksEntering DEF LinksNext
<1>2. \A c : Known(c) => Known(c)'
  BY <1>1, VisitDocStep, DocsSurvive DEF Durable, Known
<1>3. CASE LinksNow
  BY <1>1, <1>2, <1>3 DEF LinksNow, LinksInv, GuardTrue, EntriesTrue, Known
<1>4. CASE CreateRoom /\ visit' \in VisitType /\ UNCHANGED browser
  <2>1. /\ visit'.asks = visit.asks /\ visit'.asked = visit.asked /\ visit'.result = visit.result
        /\ visit'.creating = None \/ visit'.creating \in DOMAIN rooms'
    <3>1. ASSUME NEW c \in Codes, Create(Visitor, FALSE, c)
          PROVE  c \in DOMAIN rooms'
      BY <3>1 DEF Create, Known
    <3>2. \E x \in Codes \cup {None} : visit' = [visit EXCEPT !.creating = x] /\ (x = None \/ x \in DOMAIN rooms')
      BY <1>4, <3>1 DEF CreateRoom
    <3> QED BY <3>2 DEF LinksInv, VisitType
  <2>2. GuardTrue(visit)'
    BY <1>2, <2>1, MeetingConstants DEF LinksInv, GuardTrue, Known
  <2> QED BY <1>1, <1>2, <1>4, <2>2 DEF LinksInv, EntriesTrue, Known
<1> QED BY <1>1, <1>3, <1>4

(* The tab while somebody else's step changes the documents.                *)
LEMMA LinksElsewhere ==
  ASSUME Docs, LinksInv, DocStep, UNCHANGED linkVars
  PROVE  LinksInv'
<1>1. \A c : Known(c) => Known(c)'
  BY DocsSurvive DEF Durable, Known
<1> QED BY <1>1 DEF LinksInv, GuardTrue, EntriesTrue, Known, linkVars

LEMMA LinksInvHolds ==
  ASSUME LinksInv
  PROVE  LinksLead
<1>1. GuardSettles
  <2>1. SUFFICES ASSUME Mounted, entry.canonical, visit.asked = entry.code, visit.asks = {}
                 PROVE  Status # "loading"
    BY DEF GuardSettles
  <2>2. visit.asked # None
    BY <2>1, MeetingConstants DEF Mounted, entry, LinksInv, BrowserType, Entries
  <2> QED BY <2>1, <2>2 DEF LinksInv, GuardTrue, Status
<1>2. CallsAreEntered
  BY DEF CallsAreEntered, InCall, ShouldRedirectToLobby, LinksInv, EntriesTrue, entry, Known
<1> QED BY <1>1, <1>2 DEF LinksLead

-----------------------------------------------------------------------------
(* The bot.                                                                 *)
BotType ==
  [cmd : {"none", "link", "create"},
   st : {"over", "received", "asking", "net", "post", "not linked", "url", "error", "posted", "link"},
   deferred : BOOLEAN,
   told : {"nothing", "something went wrong", "not linked", "url", "error", "posted", "link"},
   room : Codes \cup {None}, refused : BOOLEAN]
RequestType == [st : {"idle", "sent", "linked", "answered"}, as : Users \cup {None}, room : Codes \cup {None}]
LinkType    == [to : Users \cup {None}, page : {"none", "linking", "linked", "invalid"}, by : Users \cup {None}]

(* A meeting that was made for the linked account, and what the bot says of *)
(* it, belong to the request that was answered.                             *)
BotTrue ==
  /\ request.st = "linked" => request.as \in Users
  /\ request.room # None =>
       request.st = "answered" /\ Known(request.room) /\ rooms[request.room].host = request.as
  /\ bot.st \in {"post", "posted", "link"} \/ bot.told \in {"posted", "link"} =>
       request.room # None /\ bot.room = request.room
  /\ bot.st # "over" => bot.told = "nothing"
BotInv == bot \in BotType /\ request \in RequestType /\ link \in LinkType /\ BotTrue

LEMMA BotInvInit == MeetingsInit => BotInv
BY DEF MeetingsInit, BotInit, Silent, NoCall, BotInv, BotType, RequestType, LinkType, BotTrue

LEMMA BotStep ==
  ASSUME Docs, BotInv, BotNext
  PROVE  BotInv' /\ DocStep /\ Mine' = Mine /\ UNCHANGED work
<1> USE DEF BotInv
<1>1. CASE NoDocs /\ ~CreateForDiscord
  <2>1. DocStep /\ Mine' = Mine /\ UNCHANGED <<work, rooms>>
    BY <1>1, MineKept DEF NoDocs, docVars, DocStep, DocsKept
  <2>2. ASSUME bot' \in BotType, request' \in RequestType, link' \in LinkType,
               request' = request \/ request'.room = None,
               request'.st = "linked" => request'.as \in Users,
               bot'.st \in {"post", "posted", "link"} \/ bot'.told \in {"posted", "link"} =>
                 request'.room # None /\ bot'.room = request'.room,
               bot'.st # "over" => bot'.told = "nothing"
        PROVE  BotInv'
    BY <2>1, <2>2 DEF BotTrue, Known
  <2>3. ASSUME NEW cmd \in {"link", "create"}, Command(cmd)
        PROVE  BotInv'
    BY <2>2, <2>3 DEF Command, Silent, NoCall, BotType, RequestType
  <2>4. ASSUME NEW ok \in BOOLEAN, Defer(ok)
        PROVE  BotInv'
    BY <2>2, <2>4 DEF Defer, NoCall, BotType, RequestType, BotTrue
  <2>5. ASSUME NEW lost \in BOOLEAN, Heard(lost)
        PROVE  BotInv'
    <3>1. /\ UNCHANGED <<request, link>>
          /\ \/ lost /\ bot' = [bot EXCEPT !.st = "error", !.room = None]
             \/ ~lost /\ bot' = [bot EXCEPT !.st = Outcome, !.room = request.room]
      BY <2>5 DEF Heard
    <3>2. Outcome \in {"post", "not linked", "url", "error"} /\ (Outcome = "post" => request.room # None)
      BY DEF Outcome
    <3>3. bot.st = "asking"
      BY <2>5 DEF Heard
    <3> QED BY <2>2, <3>1, <3>2, <3>3 DEF BotType, RequestType, BotTrue
  <2>6. ASSUME NEW ok \in BOOLEAN, Post(ok)
        PROVE  BotInv'
    BY <2>2, <2>6 DEF Post, BotType, BotTrue
  <2>7. ASSUME NEW ok \in BOOLEAN, Reply(ok)
        PROVE  BotInv'
    BY <2>2, <2>7 DEF Reply, AfterFailure, BotType, BotTrue
  <2>8. ASSUME NEW ok \in BOOLEAN, Recover(ok)
        PROVE  BotInv'
    BY <2>2, <2>8 DEF Recover, BotType, BotTrue
  <2>9. ASSUME FindLink
        PROVE  BotInv'
    BY <2>2, <2>9 DEF FindLink, LinkType, RequestType, BotTrue
  <2>10. ASSUME CreateLinkToken
         PROVE  BotInv'
    BY <2>2, <2>10 DEF CreateLinkToken, RequestType, BotTrue
  <2>11. ASSUME NEW u \in Users, OpenLinkPage(u)
         PROVE  BotInv'
    BY <2>2, <2>11 DEF OpenLinkPage, LinkType, BotTrue
  <2>12. ASSUME NEW valid \in BOOLEAN, NEW heard \in BOOLEAN, LinkAccount(valid, heard)
         PROVE  BotInv'
    BY <2>2, <2>12 DEF LinkAccount, LinkType, BotTrue
  <2> QED BY <1>1, <2>1, <2>3, <2>4, <2>5, <2>6, <2>7, <2>8, <2>9, <2>10, <2>11, <2>12 DEF BotNext, BotSteps
<1>2. CASE CreateForDiscord
  <2>1. request.st = "linked" /\ request.as \in Users /\ UNCHANGED <<bot, link, work, edits>>
    BY <1>2 DEF CreateForDiscord, BotTrue
  <2>2. ASSUME NEW c \in Codes, Create(request.as, FALSE, c), request' = [request EXCEPT !.st = "answered", !.room = c]
        PROVE  BotInv' /\ DocStep /\ Mine' = Mine
    <3>1. DocStep /\ Mine' = Mine
      BY <2>1, <2>2, MineUnplanned DEF DocStep
    <3>2. c \in DOMAIN rooms' /\ rooms'[c].host = request.as
      BY <2>1, <2>2 DEF Create, NewRoom
    <3>3. request' \in RequestType /\ request'.room = c /\ request'.st = "answered" /\ request'.as = request.as
      BY <2>2 DEF RequestType
    <3> QED BY <2>1, <3>1, <3>2, <3>3 DEF BotTrue, Known
  <2>3. ASSUME UNCHANGED rooms, request' = [request EXCEPT !.st = "answered"]
        PROVE  BotInv' /\ DocStep /\ Mine' = Mine
    <3>1. DocStep /\ Mine' = Mine
      BY <2>1, <2>3, MineKept DEF DocStep, DocsKept
    <3>2. request' \in RequestType /\ request'.room = request.room /\ request'.st = "answered" /\ request'.as = request.as
      BY <2>3 DEF RequestType
    <3> QED BY <2>1, <2>3, <3>1, <3>2 DEF BotTrue, Known
  <2> QED BY <1>2, <2>1, <2>2, <2>3 DEF CreateForDiscord, CodesClash
<1>3. NoDocs \/ CreateForDiscord
  BY DEF BotNext, BotSteps, Command, Defer, Heard, Post, Reply, Recover, FindLink, CreateLinkToken, OpenLinkPage, LinkAccount
<1>4. CreateForDiscord => UNCHANGED work
  BY DEF CreateForDiscord
<1> QED BY <1>1, <1>2, <1>3, <1>4

(* The bot while somebody else's step changes the documents.                *)
LEMMA BotElsewhere ==
  ASSUME Docs, BotInv, DocStep, UNCHANGED botVars
  PROVE  BotInv'
<1>1. \A c : Known(c) => Known(c)' /\ rooms'[c].host = rooms[c].host
  BY DocsSurvive DEF Durable, Known
<1> QED BY <1>1 DEF BotInv, BotTrue, botVars

-----------------------------------------------------------------------------
(* The clients together.                                                    *)
IInv == Docs /\ PageInv /\ LinksInv /\ BotInv

LEMMA InvInit == MeetingsInit => IInv
BY PageInvInit, LinksInvInit, BotInvInit DEF IInv

LEMMA InvStep ==
  ASSUME IInv, [MeetingsNext]_meetingsVars
  PROVE  IInv' /\ (Durable \/ UNCHANGED meetingsVars)
<1> USE DEF IInv
<1>1. ASSUME DocStep, PageInv', UNCHANGED <<linkVars, botVars>>
      PROVE  IInv' /\ Durable
  BY <1>1, DocsSurvive, LinksElsewhere, BotElsewhere
<1>2. CASE PlanningNext /\ UNCHANGED <<linkVars, botVars>>
  BY <1>1, <1>2, PageTypedStep, PageStep DEF PageInv
<1>3. CASE LinksNext /\ UNCHANGED <<pageVars, botVars>>
  BY <1>3, LinksStep, VisitDocStep, DocsSurvive, PageElsewhere, BotElsewhere
<1>4. CASE BotNext /\ UNCHANGED <<pageVars, linkVars>>
  BY <1>4, BotStep, DocsSurvive, PageElsewhere, LinksElsewhere
<1>5. CASE Others
  <2>1. UNCHANGED <<linkVars, botVars>>
    BY <1>5 DEF Others
  <2>2. ASSUME NEW name \in {"edit", "cancel", "end"}, NEW c \in Codes, NEW u \in Users, Elsewhere(name, c, u),
               UNCHANGED pageVars
        PROVE  DocStep /\ PageInv'
    <3> DEFINE op == Op(name, c, u, edits + 1, "tab")
    <3>1. Read(op) /\ op.from = "tab"
      <4>1. Known(c) /\ edits + 1 \in Nat
        BY <2>2 DEF Elsewhere, Docs, DocsTyped
      <4>2. Read(op)
        BY <4>1, OpRead
      <4> QED BY <4>2 DEF Op
    <3>2. UNCHANGED rooms /\ work' = work \cup {op} /\ edits' = edits + 1
      BY <2>2 DEF Elsewhere
    <3> HIDE DEF op
    <3>3. DocStep
      BY <3>1, <3>2 DEF DocStep, DocsKept
    <3> QED BY <2>2, <3>1, <3>2, <3>3, MineKept, PageElsewhere
  <2>3. ASSUME NEW op \in work, SaveHeard(op, FALSE)
        PROVE  DocStep /\ PageInv'
    <3>1. PlanningNext
      BY <2>3 DEF PlanningNext
    <3> QED BY <3>1, PageTypedStep, PageStep DEF PageInv
  <2> QED BY <1>1, <1>5, <2>1, <2>2, <2>3 DEF Others
<1>6. CASE UNCHANGED meetingsVars
  <2>1. UNCHANGED <<docVars, pageVars, linkVars, botVars>>
    BY <1>6 DEF meetingsVars
  <2>2. DocStep
    BY <2>1 DEF docVars, DocStep, DocsKept
  <2>3. PageInv'
    BY <2>1, <2>2, MineKept, PageElsewhere DEF docVars
  <2> QED BY <1>1, <2>1, <2>2, <2>3
<1> QED BY <1>2, <1>3, <1>4, <1>5, <1>6 DEF MeetingsNext, Page, Visits, Bot

(* What the documents, the handlers between read and write, the planning    *)
(* page, the visitor's tab and the bot know of each other is true, for any  *)
(* number of codes, edits, visits and commands (room.controller.ts:53-183,  *)
(* UpcomingMeetings.tsx:51-113, RoomGuard.tsx:28-106, handlers.ts:26-98).   *)
THEOREM InvAlways == MeetingsSpec => []IInv
BY InvInit, InvStep, PTL DEF MeetingsSpec

(* Whichever handlers' reads and writes interleave, a meeting keeps its     *)
(* host and its admin, and one that is over stays over                      *)
(* (room.controller.ts:91-133, 156-160).                                    *)
THEOREM RoomsAlwaysDurable == MeetingsSpec => RoomsAreDurable
<1> DEFINE A == \A c \in DOMAIN rooms :
                  /\ rooms'[c].host = rooms[c].host /\ Admin(rooms'[c]) = Admin(rooms[c])
                  /\ rooms'[c].active => rooms[c].active
                  /\ rooms[c].admin # None => rooms'[c].admin = rooms[c].admin
<1>1. IInv /\ [MeetingsNext]_meetingsVars => [A]_meetingsVars
  BY InvStep DEF Durable
<1>2. MeetingsSpec => [][A]_meetingsVars
  BY <1>1, InvAlways, PTL DEF MeetingsSpec
<1> QED BY <1>2 DEF RoomsAreDurable

(* The panel of a page with nothing under way lists its host's meetings as  *)
(* they are, but for the changes it was not told of and for lists that were *)
(* read before a change and shown after it, each until the next load        *)
(* (UpcomingMeetings.tsx:51-61, 100-113, LandingPage.tsx:104).              *)
THEOREM ListAlwaysSettles == MeetingsSpec => []ListSettles
<1>1. IInv => ListSettles
  BY DEF IInv, PageInv, ListTrue, ListSettles, Saving, Shown
<1> QED BY <1>1, InvAlways, PTL

(* The guard of a link never waits for nothing, and a call is of a meeting  *)
(* that exists and that was entered once in this tab, from its lobby or by  *)
(* starting it (RoomGuard.tsx:28-80).  A refresh of a call entered once     *)
(* stays in it: that it does, and should not by RoomGuard.tsx:71-73, is     *)
(* what RefreshesSeeThePreview shows.                                       *)
THEOREM LinksAlwaysLead == MeetingsSpec => []LinksLead
<1>1. IInv => LinksLead
  BY LinksInvHolds DEF IInv
<1> QED BY <1>1, InvAlways, PTL

(* A meeting that the bot has answered with exists and is of the account    *)
(* that was linked when it was made (handlers.ts:67-98,                     *)
(* discord.controller.ts:48-59).                                            *)
THEOREM BotAlwaysTruthful == MeetingsSpec => []Truthful
<1>1. IInv => Truthful
  BY DEF IInv, BotInv, BotTrue, Truthful
<1> QED BY <1>1, InvAlways, PTL
=============================================================================
