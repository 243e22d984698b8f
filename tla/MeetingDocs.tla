---------------------------- MODULE MeetingDocs ----------------------------
(***************************************************************************)
(* Meetings as MongoDB documents, and the handlers that read and write     *)
(* them (room.controller.ts, room-admin.ts, models/Room.ts, and            *)
(* sfu-end-meeting of sfu-handlers.ts).  A handler that writes has read    *)
(* its document in an earlier step.                                        *)
(***************************************************************************)
EXTENDS Naturals, FiniteSets

CONSTANTS
  Codes,          \* meeting codes
  Host, Visitor,  \* two accounts: who plans meetings, and who opens links and commands the bot
  None,
  MaxEdits        \* a bound: edits, cancellations and plans asked for

ASSUME MeetingConstants ==
  /\ IsFiniteSet(Codes) /\ Host # Visitor /\ None \notin {Host, Visitor} \cup Codes /\ MaxEdits \in Nat
  /\ Codes # {} /\ Codes \cap {"new", "sent"} = {}   \* neither is a code: no code yet, no answer yet

Users == {Host, Visitor}

VARIABLES
  rooms,   \* the Room collection: a function of the codes in use
  work,    \* handlers and detached updates between their read and their write
  edits    \* how many changes have been asked for; numbers the texts

docVars == <<rooms, work, edits>>

NewRoom(u, planned) == [host |-> u, admin |-> u, active |-> TRUE, planned |-> planned, text |-> 0]

FirstCode == CHOOSE c \in Codes : TRUE

(* A meeting of the host's, perhaps from before rooms had an admin         *)
DocInit ==
  /\ \E a \in {None, Host} : rooms = [c \in {FirstCode} |-> [NewRoom(Host, TRUE) EXCEPT !.admin = a]]
  /\ work = {} /\ edits = 0

Known(c)   == c \in DOMAIN rooms
Admin(r)   == IF r.admin = None THEN r.host ELSE r.admin
Planned(r) == r.planned /\ r.active
Mine == {[code |-> c, text |-> rooms[c].text] : c \in {d \in DOMAIN rooms : Planned(rooms[d]) /\ rooms[d].host = Host}}

(* createUniqueRoom: the unique index refuses a code in use; five refusals *)
(* and the request fails                                                   *)
Create(u, planned, c) ==
  /\ c \in Codes /\ ~Known(c)
  /\ rooms' = [d \in DOMAIN rooms \cup {c} |-> IF d = c THEN NewRoom(u, planned) ELSE rooms[d]]
CodesClash == DOMAIN rooms # {} /\ UNCHANGED rooms

Op(name, c, u, text, from) == [name |-> name, code |-> c, by |-> u, text |-> text, from |-> from, doc |-> rooms[c]]

(* loadOwnedMeeting for an edit or a cancellation; sfu-end-meeting needs   *)
(* only the admin                                                          *)
Allowed(op) == Admin(op.doc) = op.by /\ (op.name = "end" \/ Planned(op.doc))

(* What a write does to the document read, and to the one found: save()    *)
(* sets the fields that were changed, updateOne has its own condition      *)
Written(op, doc) ==
  CASE op.name = "edit"     -> [doc EXCEPT !.text = op.text]
    [] op.name = "backfill" -> IF doc.admin = None THEN [doc EXCEPT !.admin = op.doc.host] ELSE doc
    [] OTHER                -> [doc EXCEPT !.active = FALSE]
SavedWhole(op) == Written(op, op.doc)
Saved(op) == Written(op, rooms[op.code])

Save(op) ==
  /\ op \in work /\ work' = work \ {op}
  /\ rooms' = [rooms EXCEPT ![op.code] = Saved(op)]
  /\ UNCHANGED edits

(* getRoom: unknown, ended, or valid; an old room's admin is filled in by  *)
(* an update nobody waits for                                              *)
GetRoom(c) == IF ~Known(c) THEN "invalid" ELSE IF rooms[c].active THEN "valid" ELSE "ended"
BackFill(c) ==
  work' = IF GetRoom(c) = "valid" /\ rooms[c].admin = None
          THEN work \cup {Op("backfill", c, None, 0, "guard")} ELSE work

(* Another tab of either account, or the call's end for all                *)
Elsewhere(name, c, u) ==
  /\ edits < MaxEdits /\ Known(c) /\ Allowed(Op(name, c, u, 0, "tab"))
  /\ work' = work \cup {Op(name, c, u, edits + 1, "tab")} /\ edits' = edits + 1
  /\ UNCHANGED rooms

=============================================================================
