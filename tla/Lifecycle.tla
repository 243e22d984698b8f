----------------------------- MODULE Lifecycle -----------------------------
(***************************************************************************)
(* The life of the API process: its environment from SSM, the database,    *)
(* the pool of mediasoup workers, the announced address, serving, and the  *)
(* three ways it ends: a drain after a signal, a fatal error, a worker's   *)
(* death (ssm-entrypoint.ts, server.ts, lifecycle.ts, sfu/workers.ts,      *)
(* sfu/config.ts, config/db.ts, the readiness probe of app.ts).            *)
(*                                                                         *)
(* The drain's 10 s and the 2 s after a worker's death are timers that may *)
(* fire at any moment once armed.                                          *)
(***************************************************************************)
EXTENDS Naturals, Sequences, FiniteSets

CONSTANTS
  NumWorkers,   \* env.mediasoup.numWorkers, or one for each core
  MaxRooms,     \* a bound: routers placed on a worker
  MaxClients,   \* a bound: connected sockets
  MaxAsked      \* a bound: HTTP requests in flight

ASSUME LifecycleConstants ==
  NumWorkers \in Nat \ {0} /\ MaxRooms \in Nat /\ MaxClients \in Nat /\ MaxAsked \in Nat

Workers == 1 .. NumWorkers

VARIABLES
  boot,       \* where start() is: "ssm", "db", "workers", "announce", "serving"
  loaded,     \* whether an SSM parameter has been loaded
  exit,       \* "running", or how the process ended: "0", "1", "killed"
  db,         \* mongoose.connection.readyState = 1
  pool,       \* workers
  died,       \* aWorkerDied
  dead,       \* workers that died
  nextIdx,    \* nextWorkerIdx
  placed,     \* routers placed on each worker so far
  announced,  \* listenInfos' address: "configured", "public"; and whether browsers reach it
  step,       \* the drain step under way, 0 before the drain
  force,      \* forceTimer is armed
  clients,    \* connected sockets
  requests    \* HTTP requests in flight

vars == <<boot, loaded, exit, db, pool, died, dead, nextIdx, placed, announced, step, force, clients, requests>>
netVars  == <<clients, requests>>
poolVars == <<pool, died, dead, nextIdx, placed>>
Running  == exit = "running"
ShuttingDown == step > 0

(* The SSM prefix may be unset, and SFU_DISABLED set: pool stays empty     *)
Init ==
  /\ boot \in {"ssm", "db"} /\ loaded = FALSE /\ exit = "running" /\ db = FALSE
  /\ pool = <<>> /\ died = FALSE /\ dead = {} /\ nextIdx = 0 /\ placed = [w \in Workers |-> 0]
  /\ announced \in [address : {"configured"}, reachable : BOOLEAN]
  /\ step = 0 /\ force = FALSE /\ clients = 0 /\ requests = 0

(* ----------------------------- start-up -------------------------------- *)
Fails == exit' = "1" /\ UNCHANGED <<boot, loaded, db, announced, step, force>> /\ UNCHANGED poolVars /\ UNCHANGED netVars

(* One page of parameters; the last one needs something to have been loaded *)
LoadPage(some, more) ==
  /\ Running /\ boot = "ssm" /\ (more \/ loaded \/ some)
  /\ loaded' = (loaded \/ some) /\ boot' = IF more THEN "ssm" ELSE "db"
  /\ UNCHANGED <<exit, db, announced, step, force>> /\ UNCHANGED poolVars /\ UNCHANGED netVars

ConnectDb(sfuDisabled) ==
  /\ Running /\ boot = "db"
  /\ db' = TRUE /\ boot' = IF sfuDisabled THEN "serving" ELSE "workers"
  /\ UNCHANGED <<loaded, exit, announced, step, force>> /\ UNCHANGED poolVars /\ UNCHANGED netVars

CreateWorker ==
  /\ Running /\ boot = "workers"
  /\ pool' = Append(pool, Len(pool) + 1)
  /\ boot' = IF Len(pool') = NumWorkers THEN "announce" ELSE boot
  /\ UNCHANGED <<loaded, exit, db, died, dead, nextIdx, placed, announced, step, force>> /\ UNCHANGED netVars

(* A loopback or private address is replaced when the metadata service     *)
(* answers; the server is built and listens in the same turn               *)
ResolveAnnouncedIp(answers) ==
  /\ Running /\ boot = "announce"
  /\ announced' = IF ~announced.reachable /\ answers
                  THEN [address |-> "public", reachable |-> TRUE] ELSE announced
  /\ boot' = "serving"
  /\ UNCHANGED <<loaded, exit, db, step, force>> /\ UNCHANGED poolVars /\ UNCHANGED netVars

StartFails == Running /\ boot \in {"ssm", "db", "workers"} /\ Fails

(* ------------------------------- serving ------------------------------- *)
Serving == Running /\ boot = "serving"
Accepting == Serving /\ step < 2

Connects    == Accepting /\ clients < MaxClients /\ clients' = clients + 1 /\ UNCHANGED requests
Disconnects == Running /\ clients > 0 /\ clients' = clients - 1 /\ UNCHANGED requests
Asks        == Accepting /\ requests < MaxAsked /\ requests' = requests + 1 /\ UNCHANGED clients
Answered    == Running /\ requests > 0 /\ requests' = requests - 1 /\ UNCHANGED clients
Traffic ==
  /\ Connects \/ Disconnects \/ Asks \/ Answered
  /\ UNCHANGED <<boot, loaded, exit, db, announced, step, force>> /\ UNCHANGED poolVars

DbDropsOrReturns ==
  /\ Serving /\ step < 5 /\ db' = ~db
  /\ UNCHANGED <<boot, loaded, exit, announced, step, force>> /\ UNCHANGED poolVars /\ UNCHANGED netVars

NextIdx(i) == (i + 1) % Len(pool)

(* A participant's first call of a room takes the next worker for a router *)
GetWorker ==
  /\ Serving /\ clients > 0 /\ pool # <<>> /\ placed[pool[nextIdx + 1]] < MaxRooms
  /\ placed' = [placed EXCEPT ![pool[nextIdx + 1]] = @ + 1] /\ nextIdx' = NextIdx(nextIdx)
  /\ UNCHANGED <<boot, loaded, exit, db, pool, died, dead, announced, step, force>> /\ UNCHANGED netVars

AliveByLatch == ~died
AreWorkersAlive == Len(pool) > 0 /\ ~died
Ready == Serving /\ db /\ AreWorkersAlive

(* ------------------------------ the end -------------------------------- *)
WorkerDies(w) ==
  /\ Running /\ \E i \in DOMAIN pool : pool[i] = w
  /\ w \notin dead /\ dead' = dead \cup {w} /\ died' = TRUE
  /\ UNCHANGED <<boot, loaded, exit, db, pool, nextIdx, placed, announced, step, force>> /\ UNCHANGED netVars

DiedTimer   == Running /\ dead # {} /\ Fails
HandleFatal == Serving /\ Fails

(* What a drain step does when it is called: 2 io.close, 4 closeWorkers,   *)
(* 5 mongoose.disconnect, which may fail; 1 only emits, 3 finds the HTTP   *)
(* server closing                                                          *)
Begin(k) ==
  /\ step' = k
  /\ clients' = IF k = 2 THEN 0 ELSE clients
  /\ db' \in IF k = 5 THEN {FALSE, db} ELSE {db}
  /\ IF k = 4 THEN pool' = <<>> /\ nextIdx' = 0 /\ died' = FALSE ELSE UNCHANGED <<pool, nextIdx, died>>

(* io.close and httpServer.close answer when the last connection has ended *)
FinishedAtOnce(k) == TRUE
Finished(k) == k \in {2, 3} => requests = 0

(* A signal: before register() it has its default effect; a second one is  *)
(* ignored                                                                 *)
ShutdownUntimed ==
  /\ Serving /\ ~ShuttingDown /\ Begin(1)
  /\ UNCHANGED <<boot, loaded, exit, dead, placed, announced, force, requests>>
Shutdown ==
  \/ Running /\ boot # "serving" /\ exit' = "killed"
     /\ UNCHANGED <<boot, loaded, db, announced, step, force>> /\ UNCHANGED poolVars /\ UNCHANGED netVars
  \/ Serving /\ ~ShuttingDown /\ Begin(1) /\ force' = TRUE
     /\ UNCHANGED <<boot, loaded, exit, dead, placed, announced, requests>>

(* The step under way is over; that one failed is only logged, and the     *)
(* next begins all the same                                                *)
RunStep ==
  /\ Running /\ step \in 1 .. 4 /\ Finished(step) /\ Begin(step + 1)
  /\ UNCHANGED <<boot, loaded, exit, dead, placed, announced, force, requests>>

DrainComplete ==
  /\ Running /\ step = 5 /\ exit' = "0" /\ force' = FALSE
  /\ UNCHANGED <<boot, loaded, db, announced, step>> /\ UNCHANGED poolVars /\ UNCHANGED netVars

ForceExit == Running /\ force /\ Fails

Next ==
  \/ \E some, more \in BOOLEAN : LoadPage(some, more)
  \/ \E off \in BOOLEAN : ConnectDb(off)
  \/ CreateWorker \/ StartFails \/ \E answers \in BOOLEAN : ResolveAnnouncedIp(answers)
  \/ Traffic \/ DbDropsOrReturns \/ GetWorker
  \/ \E w \in Workers : WorkerDies(w)
  \/ DiedTimer \/ HandleFatal \/ Shutdown \/ RunStep \/ DrainComplete \/ ForceExit

(* Armed timers fire; nothing else is promised: a drain step may hang, a   *)
(* request may never be answered                                           *)
Spec == Init /\ [][Next]_vars /\ WF_vars(ForceExit) /\ WF_vars(DiedTimer)

(* ------------------------------ properties ----------------------------- *)
ProcessTypeOK ==
  /\ boot \in {"ssm", "db", "workers", "announce", "serving"} /\ loaded \in BOOLEAN
  /\ exit \in {"running", "0", "1", "killed"} /\ db \in BOOLEAN /\ died \in BOOLEAN
  /\ pool \in Seq(Workers) /\ dead \subseteq Workers /\ nextIdx \in Nat /\ placed \in [Workers -> Nat]
  /\ announced \in [address : {"configured", "public"}, reachable : BOOLEAN]
  /\ step \in 0 .. 5 /\ force \in BOOLEAN /\ clients \in Nat /\ requests \in Nat

(* The readiness probe never says ready on a pool that is incomplete or    *)
(* has lost a worker, through the 2 s until the process ends and through a *)
(* drain that empties the pool and clears aWorkerDied; and consecutive     *)
(* rooms are spread over the workers, none carrying two routers more than  *)
(* another (app.ts:79, workers.ts:45-67).                                  *)
ReadyIsWhole == Ready => Len(pool) = NumWorkers /\ dead = {}
RoomsSpread  == \A v, w \in Workers : placed[v] <= placed[w] + 1
PoolSound    == ReadyIsWhole /\ RoomsSpread

(* The drain takes things away in an order nobody left behind depends on:  *)
(* no request loses its database, no socket its workers, and a process     *)
(* that ends with 0 has no socket, request or worker left; the database it *)
(* may have failed to leave (lifecycle.ts:51-58, 73-83).                   *)
OrderlyDrain ==
  /\ ShuttingDown /\ requests > 0 => step <= 3
  /\ ShuttingDown /\ clients > 0 => step = 1
  /\ exit = "0" => clients = 0 /\ requests = 0 /\ pool = <<>>

(* After a signal or a worker's death the process ends, whatever hangs     *)
(* (lifecycle.ts:65-71, workers.ts:28-32).                                 *)
AlwaysEnds == (ShuttingDown \/ dead # {}) ~> ~Running

=============================================================================
