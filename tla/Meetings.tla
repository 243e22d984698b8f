----------------------------- MODULE Meetings -----------------------------
(***************************************************************************)
(* The documents of MeetingDocs with the planning page, a visitor's tab    *)
(* and the Discord bot at work on them.                                    *)
(***************************************************************************)
EXTENDS PlanningPage, MeetingLinks, DiscordBot

CONSTANT Casts   \* a bound: the sets of clients that are at work together

ASSUME CastsConstant == Casts \subseteq SUBSET {"page", "visitor", "bot", "tabs", "call"}

VARIABLE working   \* which of them are

meetingsVars == <<docVars, pageVars, linkVars, botVars, working>>

MeetingsInit ==
  /\ DocInit /\ PageInit /\ LinksInit /\ BotInit
  /\ working \in Casts

Page    == "page" \in working /\ PlanningNext /\ UNCHANGED <<linkVars, botVars>>
Visits  == "visitor" \in working /\ LinksNext /\ UNCHANGED <<pageVars, botVars>>
Bot     == "bot" \in working /\ BotNext /\ UNCHANGED <<pageVars, linkVars>>
BotGoesOn == "bot" \in working /\ BotSteps /\ UNCHANGED <<pageVars, linkVars>>

(* Other tabs, and writes that no page of the model waits for              *)
Others ==
  /\ \/ /\ UNCHANGED pageVars
        /\ \E c \in Codes, u \in Users :
             \/ "tabs" \in working /\ \E name \in {"edit", "cancel"} : Elsewhere(name, c, u)
             \/ "call" \in working /\ Elsewhere("end", c, u)
     \/ \E op \in work : SaveHeard(op, FALSE) /\ op.from # "page"
  /\ UNCHANGED <<linkVars, botVars>>

MeetingsNext == (Page \/ Visits \/ Bot \/ Others) /\ UNCHANGED working

(* The handler of a command goes on: discord.js settles its promises and   *)
(* the abort ends every request                                            *)
MeetingsSpec == MeetingsInit /\ [][MeetingsNext]_meetingsVars /\ WF_meetingsVars(BotGoesOn /\ UNCHANGED working)

(* A meeting that is over stays over, keeps its host, and its admin never  *)
(* changes to somebody else, whichever handlers' reads and writes          *)
(* interleave with each other and with the back-fill of an old room        *)
(* (room.controller.ts:91-133, 156-160).                                   *)
RoomsAreDurable ==
  [][\A c \in DOMAIN rooms :
       /\ rooms'[c].host = rooms[c].host /\ Admin(rooms'[c]) = Admin(rooms[c])
       /\ rooms'[c].active => rooms[c].active
       /\ rooms[c].admin # None => rooms'[c].admin = rooms[c].admin]_meetingsVars

=============================================================================
