--------------------------- MODULE MeetingLinks ----------------------------
(***************************************************************************)
(* A visitor's tab from a link to the call: the session probe, the sign-in *)
(* that remembers the link, the guard that asks the server about the code, *)
(* the preview, and the meeting started at once (AuthContext.tsx,          *)
(* ProtectedRoute.tsx, RoomGuard.tsx, room-entry.ts, LandingPage.tsx,      *)
(* auth.controller.ts).                                                    *)
(*                                                                         *)
(* The navigation state lives in the browser's history entry, so that it   *)
(* is there again after a refresh and after going back.                    *)
(***************************************************************************)
EXTENDS MeetingDocs

CONSTANT MaxVisits   \* a bound: navigations

ASSUME VisitsConstant == MaxVisits \in Nat

VARIABLES
  visit,    \* the document of the tab: session, guard, request for a new meeting
  browser,  \* what outlives a document: address, history, cookie, sessionStorage
  visits    \* navigations so far

linkVars == <<visit, browser, visits>>

HomeEntry == [at |-> "home", code |-> None, canonical |-> TRUE, marker |-> FALSE]
Entry(at, c, canonical, marker) == [at |-> at, code |-> c, canonical |-> canonical, marker |-> marker]
Document(at) == [auth |-> "loading", asked |-> None, asks |-> {}, result |-> [code |-> None, status |-> "none"],
                 creating |-> None, loadedAt |-> at]
LinksInit ==
  /\ visit = Document("home") /\ visits = 0
  /\ \E in \in BOOLEAN : browser = [entry |-> HomeEntry, past |-> {}, cookie |-> in, stash |-> HomeEntry, entered |-> {}]

entry   == browser.entry
Mounted == visit.auth = "in" /\ entry.at # "home"
Status  == IF entry.canonical /\ visit.result.code = entry.code THEN visit.result.status ELSE "loading"
ShouldRedirectToLobby == entry.at = "room" /\ ~entry.marker
InCall  == Mounted /\ Status = "valid" /\ entry.at = "room" /\ ~ShouldRedirectToLobby

Moves == visits < MaxVisits /\ visits' = visits + 1
Stays == UNCHANGED <<rooms, work, edits>>

(* A push keeps the entry left behind, a replace does not; leaving the     *)
(* guarded pages, or another code, ends the guard's effect                 *)
KeptAsks(v) == v
Cleaned(v) == [v EXCEPT !.asks = {}]
ToEntry(v, e) == LET w == [v EXCEPT !.loadedAt = "elsewhere"]
                 IN IF e.at = "home" THEN [Cleaned(w) EXCEPT !.asked = None, !.result = Document("home").result] ELSE w
Push(e)    == browser' = [browser EXCEPT !.entry = e, !.past = @ \cup {entry}]
Replace(e) == browser' = [browser EXCEPT !.entry = e]

(* ----------------------- documents and sessions ------------------------ *)
(* A link opened in the tab, a refresh, and going back                     *)
OpenLink(e) == Moves /\ e.at # "home" /\ ~e.marker /\ Push(e) /\ visit' = Document(e.at) /\ Stays
Refresh     == Moves /\ visit' = Document(entry.at) /\ UNCHANGED browser /\ Stays
Back(e) ==
  /\ e \in browser.past /\ Moves /\ visit' = ToEntry(visit, e) /\ Stays
  /\ browser' = [browser EXCEPT !.entry = e, !.past = (@ \ {e}) \cup {entry}]

(* refresh() of AuthContext: any error is no session                       *)
Probed(answered) ==
  /\ visit.auth = "loading" /\ visit' = [visit EXCEPT !.auth = IF answered /\ browser.cookie THEN "in" ELSE "out"]
  /\ UNCHANGED <<browser, visits>> /\ Stays

(* ProtectedRoute remembers the path, not the navigation state             *)
Stashed(e) == [e EXCEPT !.marker = FALSE]
Bounce ==
  /\ visit.auth = "out" /\ entry.at # "home"
  /\ browser' = [browser EXCEPT !.entry = HomeEntry, !.stash = Stashed(entry)]
  /\ visit' = ToEntry(visit, HomeEntry) /\ UNCHANGED visits /\ Stays

(* Google's round trip ends on the link remembered, or home when it failed *)
Login(granted) ==
  /\ Moves /\ entry.at = "home" /\ visit.auth # "in"
  /\ LET e == IF granted THEN browser.stash ELSE HomeEntry
     IN /\ browser' = [browser EXCEPT !.entry = e, !.stash = HomeEntry, !.cookie = granted \/ @, !.past = @ \cup {entry}]
        /\ visit' = Document(e.at)
  /\ Stays
Logout ==
  /\ entry.at = "home" /\ visit.auth = "in"
  /\ browser' = [browser EXCEPT !.cookie = FALSE] /\ visit' = [visit EXCEPT !.auth = "out"] /\ UNCHANGED visits /\ Stays

(* ----------------------------- the guard ------------------------------- *)
Canonicalise == Mounted /\ ~entry.canonical /\ Replace([entry EXCEPT !.canonical = TRUE])
                /\ UNCHANGED <<visit, visits>> /\ Stays
Ask ==
  /\ Mounted /\ entry.canonical /\ visit.asked # entry.code
  /\ visit' = [Cleaned(visit) EXCEPT !.asked = entry.code, !.asks = @ \cup {[code |-> entry.code, status |-> "loading"]}]
  /\ UNCHANGED <<browser, visits>> /\ Stays
GuardAnswered(a) ==
  /\ a \in visit.asks /\ a.status = "loading" /\ BackFill(a.code) /\ UNCHANGED <<rooms, edits, browser, visits>>
  /\ visit' = [visit EXCEPT !.asks = (@ \ {a}) \cup {[a EXCEPT !.status = GetRoom(a.code)]}]
Applied(a, reached) ==
  /\ a \in visit.asks /\ (reached => a.status # "loading")
  /\ visit' = [visit EXCEPT !.asks = @ \ {a}, !.result = [code |-> a.code, status |-> IF reached THEN a.status ELSE "invalid"]]
  /\ UNCHANGED <<browser, visits>> /\ Stays
RedirectToLobby ==
  /\ Mounted /\ Status = "valid" /\ ShouldRedirectToLobby
  /\ Replace([entry EXCEPT !.at = "lobby"]) /\ UNCHANGED <<visit, visits>> /\ Stays

(* ------------------------------ entering ------------------------------- *)
Enter(c) == browser' = [browser EXCEPT !.entry = Entry("room", c, TRUE, TRUE), !.past = @ \cup {entry}, !.entered = @ \cup {c}]
Join == UNCHANGED visits /\ Mounted /\ Status = "valid" /\ entry.at = "lobby" /\ Enter(entry.code)
        /\ visit' = ToEntry(visit, Entry("room", entry.code, TRUE, TRUE)) /\ Stays
HandleJoin(c) == Moves /\ entry.at = "home" /\ Push(Entry("lobby", c, TRUE, FALSE))
                 /\ visit' = ToEntry(visit, Entry("lobby", c, TRUE, FALSE)) /\ Stays
GoHome == Moves /\ Mounted /\ (Status \in {"invalid", "ended"} \/ InCall) /\ Push(HomeEntry)
          /\ visit' = ToEntry(visit, HomeEntry) /\ Stays

(* handleNewMeeting: its answer leads into the call, wherever the visitor  *)
(* is by then                                                              *)
HandleNewMeeting == entry.at = "home" /\ visit.auth = "in" /\ visit.creating = None
                    /\ visit' = [visit EXCEPT !.creating = "sent"] /\ UNCHANGED <<browser, visits>> /\ Stays
CreateRoom ==
  /\ visit.creating = "sent" /\ UNCHANGED <<work, edits, browser, visits>>
  /\ \/ \E c \in Codes : Create(Visitor, FALSE, c) /\ \E heard \in BOOLEAN :
          visit' = [visit EXCEPT !.creating = IF heard THEN c ELSE None]
     \/ CodesClash /\ visit' = [visit EXCEPT !.creating = None]
Started ==
  /\ visit.creating \in Codes /\ Enter(visit.creating) /\ UNCHANGED visits /\ Stays
  /\ visit' = ToEntry([visit EXCEPT !.creating = None], Entry("room", visit.creating, TRUE, TRUE))

LinksNext ==
  \/ \E c \in Codes, at \in {"lobby", "room"}, canonical \in BOOLEAN : OpenLink(Entry(at, c, canonical, FALSE))
  \/ Refresh \/ Bounce \/ Logout \/ Canonicalise \/ Ask \/ RedirectToLobby \/ Join \/ GoHome
  \/ HandleNewMeeting \/ CreateRoom \/ Started
  \/ \E e \in browser.past : Back(e)
  \/ \E b \in BOOLEAN : Probed(b) \/ Login(b)
  \/ \E a \in visit.asks : GuardAnswered(a) \/ \E reached \in BOOLEAN : Applied(a, reached)
  \/ \E c \in Codes : HandleJoin(c)

(* ---------------------------- properties ------------------------------- *)
(* The guard never waits for an answer nobody will give: with its request  *)
(* over, the page shows the code of the address as valid, ended or unknown *)
(* (RoomGuard.tsx:28-66).                                                  *)
GuardSettles == Mounted /\ entry.canonical /\ visit.asked = entry.code /\ visit.asks = {} => Status # "loading"

(* Nobody is in a call of a meeting they have not joined from its preview  *)
(* or started in this tab, and only of one that exists, whatever the order *)
(* of links, answers, sign-ins and steps back (RoomGuard.tsx:68-80).  To   *)
(* have joined it once is enough: a refresh stays in the call, see below.  *)
CallsAreEntered == InCall => entry.code \in browser.entered /\ Known(entry.code)
LinksLead == GuardSettles /\ CallsAreEntered

(* What room-entry.ts:5-8 and RoomGuard.tsx:71-73 say of a refresh: no     *)
(* document that was loaded at the address of a call is in that call, its  *)
(* visitor having been sent to the preview.  It is not so: the navigation  *)
(* state that Join left in the history entry is there after the reload.    *)
RefreshesSeeThePreview == InCall => visit.loadedAt # "room"

=============================================================================
