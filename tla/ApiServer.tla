------------------------------ MODULE ApiServer ------------------------------
(***************************************************************************)
(* The API server outside a call: the life of its process (Lifecycle), the *)
(* limits it puts on the events of its sockets (RateLimit), and the        *)
(* meetings it keeps for its clients (Meetings).  None of the three reads  *)
(* what another one keeps: a behaviour is of one part, and the others keep *)
(* their initial state.                                                    *)
(***************************************************************************)
EXTENDS Lifecycle, RateLimit, Meetings

VARIABLE part   \* which one runs

apiVars == <<part, vars, limiterVars, meetingsVars>>

ApiInit ==
  /\ part \in {"process", "limiter", "meetings"}
  /\ Init /\ LimiterInit /\ MeetingsInit
  /\ part # "process" => boot = "ssm" /\ announced.reachable
  /\ part # "meetings" => working = (CHOOSE c \in Casts : TRUE) /\ browser.cookie

Living(A)  == part = "process" /\ A /\ UNCHANGED <<part, limiterVars, meetingsVars>>
Limiting   == part = "limiter" /\ LimiterNext /\ UNCHANGED <<part, vars, meetingsVars>>
Meeting(A) == part = "meetings" /\ A /\ UNCHANGED <<part, vars, limiterVars>>

ApiNext == Living(Next) \/ Limiting \/ Meeting(MeetingsNext)

(* the timers of Lifecycle's Spec, and the bot of MeetingsSpec             *)
ApiFairness ==
  /\ WF_apiVars(Living(ForceExit)) /\ WF_apiVars(Living(DiedTimer))
  /\ WF_apiVars(Meeting(BotGoesOn /\ UNCHANGED working))

ApiSpec == ApiInit /\ [][ApiNext]_apiVars /\ ApiFairness

=============================================================================
