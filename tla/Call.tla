-------------------------------- MODULE Call --------------------------------
(***************************************************************************)
(* The page of a call: the state each participant's page keeps for itself  *)
(* (CallPage), what the pages of a call show of each other (CallStage),    *)
(* and the mini player (MiniPlayer).  They share no state: a behaviour is  *)
(* of one part, and the others keep their initial state.                   *)
(***************************************************************************)
EXTENDS CallPage, CallStage, MiniPlayer

VARIABLE part   \* which one runs

callVars == <<part, pageVars, stageVars, miniVars>>

Init ==
  /\ part \in {"page", "stage", "mini"}
  /\ PageInit /\ StageInit /\ MiniInit
  /\ part # "page" => wanted /\ page.consent /\ room.host

Next ==
  \/ part = "page" /\ PageNext /\ UNCHANGED <<part, stageVars, miniVars>>
  \/ part = "stage" /\ StageNext /\ UNCHANGED <<part, pageVars, miniVars>>
  \/ part = "mini" /\ MiniNext /\ UNCHANGED <<part, pageVars, stageVars>>

Spec == Init /\ [][Next]_callVars

=============================================================================
