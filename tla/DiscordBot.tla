----------------------------- MODULE DiscordBot -----------------------------
(***************************************************************************)
(* One user of Discord and the bot: /meet link and /meet create, the two   *)
(* endpoints they call, and the page that links the account (bot/src,      *)
(* discord.controller.ts, link-token.ts, LinkDiscordPage.tsx).             *)
(*                                                                         *)
(* Every call to Discord may fail, every request may take longer than the  *)
(* client's 10 s and is then carried out all the same.                     *)
(***************************************************************************)
EXTENDS MeetingDocs

CONSTANT MaxCommands   \* a bound: commands and visits of the linking page

ASSUME CommandsConstant == MaxCommands \in Nat

VARIABLES
  bot,      \* the interaction: command, where its handler is, what the user was told
  request,  \* the bot's request at the server
  link,     \* DiscordLink, and the page that makes it
  commands  \* commands and linking pages so far

botVars == <<bot, request, link, commands>>
Silent  == [cmd |-> "none", st |-> "over", deferred |-> FALSE, told |-> "nothing", room |-> None, refused |-> FALSE]
NoCall  == [st |-> "idle", as |-> None, room |-> None]

BotInit == bot = Silent /\ request = NoCall /\ link = [to |-> None, page |-> "none", by |-> None] /\ commands = 0
NoDocs  == UNCHANGED docVars

(* ------------------------------- the bot ------------------------------- *)
(* Commands one at a time, the last one's request carried out              *)
Command(cmd) ==
  /\ bot.st = "over" /\ request.st \in {"idle", "answered"} /\ commands < MaxCommands
  /\ bot' = [Silent EXCEPT !.cmd = cmd, !.st = "received"] /\ request' = NoCall /\ commands' = commands + 1
  /\ UNCHANGED link /\ NoDocs

(* deferReply; a failure goes to the net of dispatchInteraction            *)
Defer(ok) ==
  /\ bot.st = "received"
  /\ bot' = [bot EXCEPT !.deferred = ok, !.st = IF ok THEN "asking" ELSE "net"]
  /\ request' = IF ok THEN [NoCall EXCEPT !.st = "sent"] ELSE request
  /\ UNCHANGED <<link, commands>> /\ NoDocs

(* The answer, or the abort after 10 s                                     *)
Outcome == CASE request.room # None /\ bot.cmd = "create" -> "post"
             [] request.as = None /\ bot.cmd = "create" /\ request.st = "answered" -> "not linked"
             [] bot.cmd = "link" /\ request.st = "answered" -> "url"
             [] OTHER -> "error"
Heard(lost) ==
  /\ bot.st = "asking" /\ (~lost => request.st = "answered")
  /\ bot' = [bot EXCEPT !.st = IF lost THEN "error" ELSE Outcome, !.room = IF lost THEN None ELSE request.room]
  /\ UNCHANGED <<request, link, commands>> /\ NoDocs

(* The announcement in the channel, then the private answer                *)
Post(ok) ==
  /\ bot.st = "post" /\ bot' = [bot EXCEPT !.st = IF ok THEN "posted" ELSE "link"]
  /\ UNCHANGED <<request, link, commands>> /\ NoDocs

(* editReply: handleLink answers its own failure with the generic error,   *)
(* anything else falls into the net, whose own failure ends it             *)
NotRecovered(st) == "over"
AfterFailure(st) == IF st = "url" THEN "error" ELSE "net"
Reply(ok) ==
  /\ bot.st \in {"url", "error", "not linked", "posted", "link"}
  /\ bot' = IF ok THEN [bot EXCEPT !.st = "over", !.told = bot.st] ELSE [bot EXCEPT !.st = AfterFailure(bot.st)]
  /\ UNCHANGED <<request, link, commands>> /\ NoDocs
Recover(ok) ==
  /\ bot.st = "net"
  /\ bot' = [bot EXCEPT !.st = "over", !.told = IF ok THEN "something went wrong" ELSE @, !.refused = ~ok]
  /\ UNCHANGED <<request, link, commands>> /\ NoDocs

(* ----------------------------- the server ------------------------------ *)
FindLink ==
  /\ request.st = "sent" /\ bot.cmd = "create"
  /\ request' = [request EXCEPT !.st = IF link.to = None THEN "answered" ELSE "linked", !.as = link.to]
  /\ UNCHANGED <<bot, link, commands>> /\ NoDocs
CreateForDiscord ==
  /\ request.st = "linked" /\ UNCHANGED <<bot, link, commands, work, edits>>
  /\ \/ \E c \in Codes : Create(request.as, FALSE, c) /\ request' = [request EXCEPT !.st = "answered", !.room = c]
     \/ CodesClash /\ request' = [request EXCEPT !.st = "answered"]
CreateLinkToken ==
  /\ request.st = "sent" /\ bot.cmd = "link" /\ request' = [request EXCEPT !.st = "answered"]
  /\ UNCHANGED <<bot, link, commands>> /\ NoDocs

(* --------------------------- linking page ------------------------------ *)
OpenLinkPage(u) ==
  /\ link.page # "linking" /\ commands < MaxCommands /\ commands' = commands + 1
  /\ link' = [link EXCEPT !.page = "linking", !.by = u] /\ UNCHANGED <<bot, request>> /\ NoDocs

(* The upsert makes one mapping for the user of Discord; the token may     *)
(* have expired, and the answer may be lost                                *)
LinkAccount(valid, heard) ==
  /\ link.page = "linking"
  /\ link' = [link EXCEPT !.to = IF valid THEN link.by ELSE @, !.page = IF valid /\ heard THEN "linked" ELSE "invalid"]
  /\ UNCHANGED <<bot, request, commands>> /\ NoDocs

BotSteps ==
  \E ok \in BOOLEAN : Defer(ok) \/ Heard(ok) \/ Post(ok) \/ Reply(ok) \/ Recover(ok)
BotNext ==
  \/ \E cmd \in {"link", "create"} : Command(cmd)
  \/ BotSteps \/ FindLink \/ CreateForDiscord \/ CreateLinkToken
  \/ \E u \in Users : OpenLinkPage(u)
  \/ \E valid, heard \in BOOLEAN : LinkAccount(valid, heard)

(* ----------------------------- property -------------------------------- *)
(* Every command is answered unless Discord refuses the last attempt too,  *)
(* and an answer with a meeting names one that exists, of the account that *)
(* was linked when it was made (interactions.ts:34-60, handlers.ts:8-16).  *)
Truthful == bot.told \in {"posted", "link"} => Known(bot.room) /\ rooms[bot.room].host = request.as
CommandsAnswered ==
  bot.st = "received" ~> bot.st = "over" /\ (bot.told # "nothing" \/ bot.refused) /\ Truthful

=============================================================================
