----------------------------- MODULE HealthMonitor -----------------------------
(***************************************************************************)
(* The health monitor (--health_monitor): a process beside the server's    *)
(* that checks every interval whether all its processes are alive and      *)
(* GET /health is answered, and after three failures in a row kills them   *)
(* all, the parent last, so that the service is started again.             *)
(*                                                                         *)
(* Around it are the processes: one dies of a fault or of a SIGKILL, which *)
(* takes effect later; a dead one stays a zombie as long as its parent     *)
(* lives (no process of the server waits for its children) and is gone     *)
(* when init takes over.  The service may stall and recover.               *)
(***************************************************************************)
EXTENDS Integers, Sequences

CONSTANTS
  Pids,         (* all_process_ids: the parent first, children depth first  *)
  ParentOf,     (* the parent of each of the others                         *)
  MayDie,       (* the processes that may die of a fault                    *)
  MaxFailures   (* 3                                                        *)

Server == {Pids[i] : i \in 1..Len(Pids)}
Main   == Pids[1]

ASSUME HealthMonitorAssumption ==
  /\ Len(Pids) > 1
  /\ ParentOf \in [Server \ {Main} -> Server]
  /\ MayDie \subseteq Server
  /\ MaxFailures \in Nat \ {0}

VARIABLES
  state,        \* of each process: "up", "zombie" or "gone"
  killed,       \* those that were sent SIGKILL
  stuck,        \* the service does not answer though its processes are up
  at,           \* the monitor: "sleep", "check", "get", "kill" or "ended"
  failures,     \* consecutive_failures
  next,         \* the place in Pids of the next process to kill
  dipped, sick  \* whether the service was unhealthy at some moment of this check,
                \* and the number of such checks in a row (for the properties)

vars == <<state, killed, stuck, at, failures, next, dipped, sick>>

AllUp   == \A p \in Server : state[p] = "up"
Healthy == AllUp /\ ~stuck

Init ==
  /\ state = [p \in Server |-> "up"] /\ killed = {} /\ stuck = FALSE
  /\ at = "sleep" /\ failures = 0 /\ next = 2
  /\ dipped = FALSE /\ sick = 0

-----------------------------------------------------------------------------
\* The processes after p died: p is a zombie if its parent is there to wait for
\* it, and the zombies it left are reaped.
AfterDeath(p) ==
  [q \in Server |->
     IF q = p THEN IF p # Main /\ state[ParentOf[p]] = "up" THEN "zombie" ELSE "gone"
     ELSE IF q # Main /\ ParentOf[q] = p /\ state[q] = "zombie" THEN "gone"
     ELSE state[q]]

Die(p) ==
  /\ state[p] = "up" /\ p \in MayDie \cup killed
  /\ state' = AfterDeath(p)
  /\ dipped' = TRUE
  /\ UNCHANGED <<killed, stuck, at, failures, next, sick>>

Stall ==
  /\ ~stuck /\ stuck' = TRUE /\ dipped' = TRUE
  /\ UNCHANGED <<state, killed, at, failures, next, sick>>

Recover ==
  /\ stuck /\ stuck' = FALSE
  /\ UNCHANGED <<state, killed, at, failures, next, dipped, sick>>

-----------------------------------------------------------------------------
\* time.sleep is over.
Wake ==
  /\ at = "sleep" /\ at' = "check"
  /\ dipped' = ~Healthy
  /\ UNCHANGED <<state, killed, stuck, failures, next, sick>>

\* all_is_alive looks at one process after the other; as the dead stay dead, it is
\* as if at one moment.
AllAlive == AllUp

\* sick after this check; bound: it is counted as far as it matters.
SickAfter == IF ~dipped THEN 0 ELSE IF sick < MaxFailures THEN sick + 1 ELSE sick

\* Mutant: only asyncio.TimeoutError is caught, which requests never raises.
FailUncaught == failures' = failures /\ at' = "ended" /\ sick' = SickAfter

\* A failure: either exception handler, then the threshold.
Fail ==
  /\ failures' = failures + 1
  /\ at' = IF failures' >= MaxFailures THEN "kill" ELSE "sleep"
  /\ sick' = SickAfter

\* consecutive_failures after an answer with status 200.
AfterSuccess == 0

CheckProcesses ==
  /\ at = "check"
  /\ IF AllAlive THEN at' = "get" /\ UNCHANGED <<failures, sick>> ELSE Fail
  /\ UNCHANGED <<state, killed, stuck, next, dipped>>

\* GET /health: an answer, or another status, a broken connection, a timeout.
GetHealth ==
  /\ at = "get"
  /\ IF Healthy
     THEN /\ at' = "sleep" /\ failures' = AfterSuccess
          /\ sick' = SickAfter
     ELSE Fail
  /\ UNCHANGED <<state, killed, stuck, next, dipped>>

\* The children, then the parent.
KillOrder == Tail(Pids) \o <<Main>>

\* os.kill raises ProcessLookupError for a process that is gone, outside every
\* try: the monitor ends.  After the last one it exits.
KillNext ==
  /\ at = "kill"
  /\ LET p == KillOrder[next - 1]
     IN  IF state[p] = "gone"
         THEN at' = "ended" /\ UNCHANGED <<killed, next>>
         ELSE /\ killed' = killed \cup {p}
              /\ next' = next + 1
              /\ at' = IF next - 1 = Len(Pids) THEN "ended" ELSE "kill"
  /\ UNCHANGED <<state, stuck, failures, dipped, sick>>

Monitor == Wake \/ CheckProcesses \/ GetHealth \/ KillNext

Next == (\E p \in Server : Die(p)) \/ Stall \/ Recover \/ Monitor

Spec == Init /\ [][Next]_vars

\* The monitor goes on, and SIGKILL has its effect.
FairSpec ==
  /\ Spec
  /\ WF_vars(Monitor)
  /\ \A p \in Server : WF_vars(p \in killed /\ Die(p))

-----------------------------------------------------------------------------
(***************************************************************************)
(* Properties                                                              *)
(***************************************************************************)
\* The monitor kills only after as many checks in a row as MaxFailures during each
\* of which the service was down or stalled: hiccups with a good check between
\* them never add up.
KilledOnlySick == at = "kill" => sick >= MaxFailures

\* The parent, whose end is what a supervisor restarts the service for, is sent
\* its SIGKILL only when every other process has been sent one: no process is left
\* that holds ports or GPUs when the service is started again.
ParentKilledLast == Main \in killed => killed = Server

\* "check the health of service and restart when error": a service that is not
\* healthy again and again is taken down, with all its processes; and only such a
\* service is, its parent last.
Restarted ==
  /\ [](KilledOnlySick /\ ParentKilledLast)
  /\ []<>Healthy \/ <>(\A p \in Server : state[p] # "up")
=============================================================================
