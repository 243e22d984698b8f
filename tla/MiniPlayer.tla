----------------------------- MODULE MiniPlayer -----------------------------
(***************************************************************************)
(* The mini player of a call page: a picture-in-picture window with all    *)
(* the cameras, opened and closed from the menu, and by the page itself    *)
(* when its tab is hidden and shown again (usePictureInPicture.ts).        *)
(*                                                                         *)
(* The browser takes its time to open or close the window and tells of it  *)
(* by an event in a later task; it may refuse to open it, but not while it *)
(* is open.  The participant can close the window any time.                *)
(***************************************************************************)
EXTENDS Naturals, Sequences

CONSTANT MaxViews   \* a bound: uses of the menu, the tab and the window's button

ASSUME MiniPlayerConstants == MaxViews \in Nat

VARIABLES
  player,   \* the hook: mounted, ready (the video has metadata), active, as last rendered, busy
  screen,   \* the browser: is the tab hidden, the window open, and by whom it was opened
  calls,    \* calls of start and stop under way
  events,   \* enterpictureinpicture and leavepictureinpicture, not yet handled
  views     \* uses so far

miniVars == <<player, screen, calls, events, views>>

MiniInit ==
  /\ player = [mounted |-> TRUE, ready |-> FALSE, active |-> FALSE, seen |-> FALSE, busy |-> FALSE]
  /\ screen = [hidden |-> FALSE, open |-> FALSE, by |-> "nobody"]
  /\ calls = {} /\ events = <<>> /\ views = 0

Uses == views < MaxViews /\ views' = views + 1
Call(by, op, at) == [by |-> by, op |-> op, at |-> at, n |-> views]
Fires(e) == events' = IF player.mounted THEN Append(events, e) ELSE events

-----------------------------------------------------------------------------
(* the hook *)

(* start waits for the video's metadata, which the first drawing brings     *)
Start(by, p) ==
  /\ calls' = calls \cup {Call(by, "enter", IF p.ready THEN "browser" ELSE "metadata")}
  /\ player' = p

(* stop *)
Stop(by, p) ==
  IF screen.open THEN calls' = calls \cup {Call(by, "exit", "browser")} /\ player' = p
  ELSE player' = [p EXCEPT !.active = FALSE] /\ UNCHANGED calls

MetadataLoaded ==
  /\ player.mounted /\ ~player.ready /\ player' = [player EXCEPT !.ready = TRUE]
  /\ calls' = {[c EXCEPT !.at = "browser"] : c \in calls}
  /\ UNCHANGED <<screen, events, views>>

(* the menu; busy keeps it from overlapping itself, not the tab's calls     *)
TogglePiP ==
  /\ player.mounted /\ ~screen.hidden /\ ~player.busy /\ Uses
  /\ LET p == [player EXCEPT !.busy = TRUE]
     IN IF screen.open THEN Stop("menu", p) ELSE Start("menu", p)
  /\ UNCHANGED <<screen, events>>

TabHidden ==
  /\ ~screen.hidden /\ Uses /\ screen' = [screen EXCEPT !.hidden = TRUE]
  /\ IF player.mounted THEN Start("tab", player) ELSE UNCHANGED <<player, calls>>
  /\ UNCHANGED events

(* activeRef alone would miss a window whose event is not rendered yet      *)
ToBeClosedOnceRendered == player.mounted /\ player.seen
ToBeClosed == player.mounted /\ (player.seen \/ screen.open)
TabShown ==
  /\ screen.hidden /\ screen' = [screen EXCEPT !.hidden = FALSE]
  /\ IF ToBeClosed THEN Stop("tab", player) ELSE UNCHANGED <<player, calls>>
  /\ UNCHANGED <<events, views>>

HearEvent ==
  /\ events # <<>> /\ events' = Tail(events)
  /\ player' = [player EXCEPT !.active = Head(events) = "enter"]
  /\ UNCHANGED <<screen, calls, views>>

Rendered ==
  /\ player.mounted /\ player.seen # player.active /\ player' = [player EXCEPT !.seen = player.active]
  /\ UNCHANGED <<screen, calls, events, views>>

(* the cleanup: the listeners go, and what waits for metadata waits for ever *)
Unmount ==
  /\ player.mounted /\ events' = <<>>
  /\ player' = [player EXCEPT !.mounted = FALSE, !.active = FALSE, !.seen = FALSE, !.busy = FALSE]
  /\ LET waiting == {c \in calls : c.at = "metadata"}
     IN calls' = (calls \ waiting) \cup (IF screen.open THEN {Call("cleanup", "exit", "browser")} ELSE {})
  /\ UNCHANGED <<screen, views>>

-----------------------------------------------------------------------------
(* the browser answers *)

Over(c, p) == [p EXCEPT !.busy = @ /\ c.by # "menu"]
Asked(c) == c \in calls /\ c.at = "browser" /\ calls' = calls \ {c} /\ UNCHANGED views

(* a window that opens although its tab was shown again, or its page left, is late *)
Granted(c) ==
  /\ Asked(c) /\ c.op = "enter" /\ player' = Over(c, player)
  /\ IF screen.open THEN UNCHANGED <<screen, events>>
     ELSE /\ screen' = [screen EXCEPT !.open = TRUE,
                          !.by = IF ~player.mounted \/ (c.by = "tab" /\ ~screen.hidden) THEN "late" ELSE c.by]
          /\ Fires("enter")

Refused(c) ==
  /\ Asked(c) /\ c.op = "enter" /\ ~screen.open
  /\ player' = [Over(c, player) EXCEPT !.active = FALSE]
  /\ UNCHANGED <<screen, events>>

Exited(c) ==
  /\ Asked(c) /\ c.op = "exit"
  /\ player' = [Over(c, player) EXCEPT !.active = FALSE]
  /\ screen' = [screen EXCEPT !.open = FALSE, !.by = "nobody"]
  /\ IF screen.open THEN Fires("leave") ELSE UNCHANGED events

(* the window's own button *)
WindowClosed ==
  /\ screen.open /\ Uses /\ Fires("leave")
  /\ screen' = [screen EXCEPT !.open = FALSE, !.by = "nobody"]
  /\ UNCHANGED <<player, calls>>

MiniNext ==
  \/ MetadataLoaded \/ TogglePiP \/ TabHidden \/ TabShown \/ HearEvent \/ Rendered \/ Unmount
  \/ \E c \in calls : Granted(c) \/ Refused(c) \/ Exited(c)
  \/ WindowClosed

-----------------------------------------------------------------------------
(* Once everything is answered and rendered, the menu offers to close the  *)
(* mini player exactly if it is open; and it is open only because the      *)
(* participant opened it or the tab is hidden, of a page that is still     *)
(* there, unless the browser granted it late                               *)
(* (usePictureInPicture.ts:105-147, 154-163, 179-187).                     *)
MiniPlayerIsTrue ==
  calls = {} /\ events = <<>> /\ player.seen = player.active =>
    /\ player.mounted => player.active = screen.open
    /\ screen.open /\ screen.by # "late" => player.mounted /\ (screen.by = "menu" \/ screen.hidden)
=============================================================================
