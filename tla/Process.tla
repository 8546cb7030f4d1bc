------------------------------- MODULE Process ------------------------------
(***************************************************************************)
(* One process from run in cmd/aeneas/main.go to its end: main's goroutine, *)
(* those it waits for (the database, the server, the health checker), the   *)
(* engine's Start, Stop and pollLoop, and the runner that the loop calls.   *)
(* main wires the local runner; the engine takes either.  What the loop     *)
(* does besides calling the runner is module Engine.                        *)
(*                                                                          *)
(* Callers calls Start and Stop besides main: in this program nothing does, *)
(* but both are exported and serialised by a mutex, so the engine is meant  *)
(* to be called from several goroutines.                                    *)
(***************************************************************************)
EXTENDS LocalRunner, K8sRunner

CONSTANTS
  Main,          \* main's goroutine
  Others,        \* other callers of Start and Stop
  MaxOtherCalls, \* bound on their calls
  Wirings        \* the runners a process may be built with

ASSUME ProcessAssumption ==
  /\ Main \notin Others
  /\ MaxOtherCalls \in Nat
  /\ Wirings \subseteq {"local", "k8s"}

VARIABLES
  wired,       \* the runner
  main,        \* where run is
  workers,     \* goroutines main waits for that have not returned
  panic,       \* the goroutine or channel whose panic ended the process
  running,     \* Engine.running
  stopClosed, doneClosed,   \* Engine.stopCh and doneCh
  loops,       \* the goroutines of pollLoop, in the order of their start
  stop,        \* where each caller is in Stop
  otherCalls   \* calls made by Others

engineVars == <<running, stopClosed, doneClosed, loops, stop>>
processVars == <<wired, main, workers, panic, otherCalls>>
runnerVars == <<faults, callVars, localVars, k8sVars>>
vars == <<ctxDone, runnerVars, engineVars, processVars>>

Callers == {Main} \cup Others

Causes == {"none", "database", "server", "health", "start", "stopCh", "doneCh"}

TypeOK ==
  /\ RunnerTypeOK /\ LocalTypeOK /\ K8sTypeOK
  /\ at \in {"idle"} \cup (IF wired = "local" THEN LocalPlaces ELSE K8sPlaces)
  /\ wired \in Wirings
  /\ main \in {"start", "serve", "stop", "wait"}
  /\ workers \subseteq {"database", "server", "health"}
  /\ panic \in Causes
  /\ running \in BOOLEAN /\ stopClosed \in BOOLEAN /\ doneClosed \in BOOLEAN
  /\ loops \in Seq({"select", "poll", "ended"})
  /\ stop \in [Callers -> {"no", "close", "wait", "done"}]
  /\ otherCalls \in 0..MaxOtherCalls

Init ==
  /\ RunnerInit /\ LocalInit /\ K8sInit
  /\ wired \in Wirings
  /\ main = "start"
  /\ workers = {"database", "server", "health"}
  /\ panic = "none"
  /\ running = FALSE /\ stopClosed = FALSE /\ doneClosed = FALSE
  /\ loops = <<>>
  /\ stop = [g \in Callers |-> "no"]
  /\ otherCalls = 0

\* A panic in any goroutine ends the process: no goroutine goes on, and no
\* deferred call of another goroutine is made.
Up == panic = "none"

-----------------------------------------------------------------------------
(* The engine's Start, Stop and pollLoop                                     *)

\* Start, where the engine is not running.
StartEngine ==
  /\ ~running
  /\ running' = TRUE
  /\ loops' = Append(loops, "select")
  /\ UNCHANGED <<stopClosed, doneClosed, stop>>

\* Faulty variant: Stop gives running up before it has stopped anything.
StopEnterReleasing(g) ==
  /\ running
  /\ stop[g] = "no"
  /\ stop' = [stop EXCEPT ![g] = "close"]
  /\ running' = FALSE
  /\ UNCHANGED <<stopClosed, doneClosed, loops>>

\* Stop up to the first unlock, where the engine is running.
StopEnter(g) ==
  /\ running
  /\ stop[g] = "no"
  /\ stop' = [stop EXCEPT ![g] = "close"]
  /\ UNCHANGED <<running, stopClosed, doneClosed, loops>>

\* close(e.stopCh)
StopClose(g) ==
  /\ stop[g] = "close"
  /\ stopClosed' = TRUE
  /\ stop' = [stop EXCEPT ![g] = "wait"]
  /\ panic' = IF stopClosed THEN "stopCh" ELSE panic
  /\ UNCHANGED <<running, doneClosed, loops>>

\* Faulty variant: nothing is waited for.
StopWithoutWait(g) ==
  /\ stop[g] = "wait"
  /\ stop' = [stop EXCEPT ![g] = "done"]
  /\ UNCHANGED <<panic, running, stopClosed, doneClosed, loops>>

\* <-e.doneCh
StopWait(g) ==
  /\ stop[g] = "wait"
  /\ doneClosed
  /\ stop' = [stop EXCEPT ![g] = "done"]
  /\ UNCHANGED <<panic, running, stopClosed, doneClosed, loops>>

\* The rest of Stop.
StopReturn(g) ==
  /\ stop[g] = "done"
  /\ running' = FALSE
  /\ stop' = [stop EXCEPT ![g] = "no"]
  /\ UNCHANGED <<panic, stopClosed, doneClosed, loops>>

\* Faulty variant: the loop closes stopCh as well.
LoopReturnBoth(i) ==
  /\ loops[i] = "select"
  /\ ctxDone \/ stopClosed
  /\ loops' = [loops EXCEPT ![i] = "ended"]
  /\ stopClosed' = TRUE /\ doneClosed' = TRUE
  /\ panic' = IF doneClosed THEN "doneCh" ELSE panic
  /\ UNCHANGED <<running, stop>>

\* pollLoop returns: the context is done or stopCh closed; doneCh is closed
\* by the deferred call.
LoopReturn(i) ==
  /\ loops[i] = "select"
  /\ ctxDone \/ stopClosed
  /\ loops' = [loops EXCEPT ![i] = "ended"]
  /\ doneClosed' = TRUE
  /\ panic' = IF doneClosed THEN "doneCh" ELSE panic
  /\ UNCHANGED <<running, stopClosed, stop>>

\* A tick of the ticker, which select may take although another case is ready.
LoopTick(i) ==
  /\ loops[i] = "select"
  /\ loops' = [loops EXCEPT ![i] = "poll"]
  /\ UNCHANGED <<panic, running, stopClosed, doneClosed, stop>>

\* The poll is over; a call of the runner is part of it.
LoopPolled(i) ==
  /\ loops[i] = "poll" /\ at = "idle"
  /\ loops' = [loops EXCEPT ![i] = "select"]
  /\ UNCHANGED <<panic, running, stopClosed, doneClosed, stop>>

\* The poll reaches a step: runner.Execute.
LoopExecute(i) ==
  /\ loops[i] = "poll"
  /\ IF wired = "local" THEN ExecuteLocal /\ UNCHANGED k8sVars
                        ELSE ExecuteJob /\ UNCHANGED localVars

-----------------------------------------------------------------------------
(* run                                                                       *)

\* eng.Start; its error is not context.Canceled, so main panics.
MainStart ==
  /\ main = "start"
  /\ \/ StartEngine /\ main' = "serve" /\ UNCHANGED panic
     \/ running /\ panic' = "start" /\ UNCHANGED <<main, engineVars>>
  /\ UNCHANGED <<ctxDone, runnerVars, wired, workers, otherCalls>>

\* <-ctx.Done(), then eng.Stop up to its first unlock; Stop's error is
\* dropped.
MainStop ==
  /\ main = "serve" /\ ctxDone
  /\ \/ StopEnter(Main) /\ main' = "stop"
     \/ ~running /\ main' = "wait" /\ UNCHANGED engineVars
  /\ UNCHANGED <<ctxDone, runnerVars, wired, workers, panic, otherCalls>>

\* Stop has returned: wg.Wait, which has no end because HealthReturns has none.
MainStopped ==
  /\ main = "stop"
  /\ StopReturn(Main)
  /\ main' = "wait"
  /\ UNCHANGED <<ctxDone, runnerVars, wired, workers, panic, otherCalls>>

\* database.Open and srv.Start return, or fail and panic; srv.Start returns
\* once the context is done.  External: neither fails once it is.
WorkerReturns(g) ==
  /\ g \in workers \ {"health"}
  /\ \/ (g = "server" => ctxDone) /\ workers' = workers \ {g} /\ UNCHANGED panic
     \/ ~ctxDone /\ panic' = g /\ UNCHANGED workers
  /\ UNCHANGED <<ctxDone, runnerVars, engineVars, wired, main, otherCalls>>

\* hc.Start returns: err != nil || err != context.Canceled holds of every
\* error and of nil.
HealthReturns ==
  /\ "health" \in workers
  /\ panic' = "health"
  /\ UNCHANGED <<ctxDone, runnerVars, engineVars, wired, main, workers,
                 otherCalls>>

\* os.Interrupt
Interrupt ==
  /\ ~ctxDone
  /\ ctxDone' = TRUE
  /\ UNCHANGED <<runnerVars, engineVars, processVars>>

OtherCall(g) ==
  /\ otherCalls < MaxOtherCalls
  /\ stop[g] = "no"
  /\ StartEngine \/ StopEnter(g)
  /\ otherCalls' = otherCalls + 1
  /\ UNCHANGED <<ctxDone, runnerVars, wired, main, workers, panic>>

-----------------------------------------------------------------------------

\* A step of the engine alone.
EngineOnly(A) ==
  A /\ UNCHANGED <<ctxDone, runnerVars, wired, main, workers, otherCalls>>

\* The goroutines of the engine and of Stop's callers.
EngineStep ==
  \/ EngineOnly(\/ \E g \in Callers : StopClose(g) \/ StopWait(g)
                \/ \E g \in Others : StopReturn(g)
                \/ \E i \in DOMAIN loops :
                     LoopReturn(i) \/ LoopTick(i) \/ LoopPolled(i))
  \/ /\ \E i \in DOMAIN loops : LoopExecute(i)
     /\ UNCHANGED <<ctxDone, engineVars, processVars>>

\* The step of the call of Execute.
RunnerStep ==
  /\ \/ wired = "local" /\ LocalStep /\ UNCHANGED k8sVars
     \/ wired = "k8s" /\ K8sStep /\ UNCHANGED localVars
  /\ UNCHANGED <<ctxDone, engineVars, processVars>>

RunnerDeadline ==
  /\ LocalDeadline
  /\ UNCHANGED <<ctxDone, k8sVars, engineVars, processVars>>

\* What containers and Jobs do, whether or not the process lives.
OutsideStep ==
  /\ \/ DockerStep /\ UNCHANGED k8sVars
     \/ ClusterStep /\ UNCHANGED localVars
  /\ UNCHANGED <<ctxDone, engineVars, processVars>>

Next ==
  \/ /\ Up
     /\ \/ MainStart \/ MainStop \/ MainStopped
        \/ \E g \in workers : WorkerReturns(g)
        \/ HealthReturns \/ Interrupt
        \/ \E g \in Others : OtherCall(g)
        \/ EngineStep \/ RunnerStep \/ RunnerDeadline
  \/ OutsideStep

Spec == Init /\ [][Next]_vars

-----------------------------------------------------------------------------
(* Fairness: a goroutine of main or of the engine that can go on does, a     *)
(* call of the runner needs no fault to go on, and select does not pass over *)
(* a ready case for ever.  The cluster's controllers act on every Job.  That *)
(* a container ends, an interrupt, a tick, a call of Others, a return of     *)
(* database.Open, srv.Start or hc.Start, and a fault are never assumed.      *)

Alive(A) == Up /\ A

NoFault(A) == A /\ faults' = faults

Fairness ==
  /\ WF_vars(Alive(MainStart \/ MainStop \/ MainStopped))
  /\ \A g \in Callers : WF_vars(Alive(EngineOnly(StopClose(g) \/ StopWait(g))))
  /\ \A g \in Others : WF_vars(Alive(EngineOnly(StopReturn(g))))
  /\ \A i \in 1..(1 + MaxOtherCalls) :
       /\ SF_vars(Alive(i \in DOMAIN loops /\ EngineOnly(LoopReturn(i))))
       /\ WF_vars(Alive(i \in DOMAIN loops /\ EngineOnly(LoopPolled(i))))
  /\ WF_vars(Alive(NoFault(RunnerStep)))
  /\ WF_vars(Alive(RunnerDeadline))
  /\ \A c \in Call :
       WF_vars(/\ NoFault(\/ JobFinishes(c) \/ JobDeadline(c) \/ JobExpires(c)
                          \/ PodKilled(c))
               /\ UNCHANGED <<ctxDone, localVars, engineVars, processVars>>)

FairSpec == Spec /\ Fairness
-----------------------------------------------------------------------------
(* Properties                                                                *)

\* No two polling loops run at a time, however Start and Stop are called:
\* the engine counts on it wherever it reads a row and writes it back.
OneLoop ==
  \A i, j \in DOMAIN loops :
    loops[i] # "ended" /\ loops[j] # "ended" => i = j

\* When Stop is about to return nothing of the engine is at work any more, no
\* loop and no call of the runner, so main may let the process end.
StopWaits ==
  panic = "none" /\ (\E g \in Callers : stop[g] = "done") =>
    /\ \A i \in DOMAIN loops : loops[i] = "ended"
    /\ at = "idle"

\* The engine's channels are closed once each, and main's Start succeeds, as
\* long as only main calls Start and Stop.
OnlyMisusePanics ==
  panic \in {"stopCh", "doneCh", "start"} => otherCalls > 0

\* The context of call c has ended, or may have: by the interrupt, or by the
\* step's deadline.
MayBeCut(c) == ctxDone \/ c \in timed

\* A call of the local runner that met no fault of the daemon leaves no
\* container behind, whatever it answers: none that was started, wherever the
\* context has ended, even while the start was in flight.  Only one that was
\* never started may stay, where the context ended while ContainerCreate was
\* in flight, so that its id is not known to the runner.
LocalCleanup ==
  wired = "local" /\ faults = 0 =>
    \A c \in Call : answer[c] # "none" =>
      \/ containers[c] \in {"none", "removed"}
      \/ containers[c] = "created" /\ answer[c] = "error" /\ MayBeCut(c)

\* The Kubernetes runner answers with an exit code only for a Job that has
\* ended: no pod of it is left running that a later step would race with.  (A
\* pod that its deadline has condemned may still be shutting down.)
ExitCodeMeansEnded ==
  wired = "k8s" =>
    \A c \in Call : answer[c] \in {"success", "nonzero"} =>
                      jobs[c].cond # "none" /\ jobs[c].pod # "running"

Contract == INSTANCE RunnerContract

\* Both runners keep the contract the engine relies on: a step is reported
\* to have succeeded only if its container ended with exit code 0.
ImplementsContract == Contract!Spec

\* Calls are answered in their order, one at a time.
AnswersInOrder ==
  /\ at # "idle" => call \in Call
  /\ \A c \in Call :
       answer[c] = "none" <=> c > call \/ (c = call /\ at # "idle")

\* A call not made yet has neither container nor Job, and a container that has
\* not run to its end has no ending.
WorldInv ==
  /\ containers \in [Call -> ContainerState]
  /\ jobs \in [Call -> Job]
  /\ \A c \in Call :
       /\ c > call \/ wired = "local" => jobs[c] = NoJob
       /\ c > call \/ wired = "k8s" => containers[c] = "none"
       /\ containers[c] \in {"none", "created", "running"}
            /\ jobs[c].pod \in {"none", "running", "terminating"}
          => ended[c] = "no"

\* The local runner knows how far its container is, and success is settled on
\* an ending with exit code 0.
PlaceInv ==
  /\ at \in {"image", "create"} => containers[call] = "none"
  /\ at = "start" => containers[call] = "created"
  /\ at \in {"remove", "logs"} => result \in Answers
  /\ at \in {"remove", "logs"} /\ result = "success" => ended[call] = "zero"

\* What the runners keep so that the contract holds.
CallInv ==
  /\ RunnerTypeOK /\ wired \in {"local", "k8s"}
  /\ AnswersInOrder /\ WorldInv /\ PlaceInv

\* A Job whose end is known to the cluster runs no more; an event that tells of
\* the end is one of the current call's Job, and the wait passes on no other.
ExitInv ==
  /\ CallInv
  /\ events \in Seq(Condition \cup {"error"})
  /\ at # "select" => ~watching /\ events = <<>>
  /\ \A c \in Call : jobs[c].cond # "none" => jobs[c].pod # "running"
  /\ \A i \in DOMAIN events :
       events[i] \in {"complete", "failed"} => jobs[call].cond # "none"
  /\ at \in {"code", "logs"} => jobs[call].cond # "none"
  /\ ExitCodeMeansEnded

\* A call of the runner is part of a poll.
CallInPoll == at # "idle" => \E i \in DOMAIN loops : loops[i] = "poll"

\* stopCh is closed once, by the only Stop that gets past its close; a loop
\* that is started after it is the second and last, and never returns.
ChannelInv ==
  /\ doneClosed <=> loops # <<>> /\ loops[1] = "ended"
  /\ Len(loops) <= 2
  /\ Len(loops) = 2 =>
       stopClosed /\ doneClosed /\ running /\ loops[2] # "ended"
  /\ ~stopClosed => (running <=> loops # <<>>)
  /\ stopClosed => loops # <<>> /\ (running \/ doneClosed)
  /\ \A g \in Callers :
       /\ stop[g] = "close" => running \/ stopClosed
       /\ stop[g] \in {"wait", "done"} =>
            /\ stopClosed /\ running /\ Len(loops) = 1
            /\ \A h \in Callers : stop[h] \in {"wait", "done"} => h = g
       /\ stop[g] = "done" => doneClosed

\* What main finds when nobody else has called the engine.
MainAlone ==
  /\ \A g \in Others : stop[g] = "no"
  /\ main \in {"start", "serve", "wait"} => stop[Main] = "no"
  /\ main = "start" => loops = <<>>
  /\ main = "serve" => running
  /\ main # "start" => Len(loops) = 1
  /\ main \in {"start", "serve"} \/ stop[Main] = "close" => ~stopClosed

\* What Start and Stop keep.
StopInv ==
  /\ loops \in Seq({"select", "poll", "ended"})
  /\ stop \in [Callers -> {"no", "close", "wait", "done"}]
  /\ running \in BOOLEAN /\ stopClosed \in BOOLEAN /\ doneClosed \in BOOLEAN
  /\ main \in {"start", "serve", "stop", "wait"}
  /\ workers \subseteq {"database", "server", "health"}
  /\ otherCalls \in Nat
  /\ OneLoop /\ CallInPoll /\ OnlyMisusePanics
  /\ panic = "none" => ChannelInv /\ (otherCalls = 0 => MainAlone)

\* After an interrupt main gets past eng.Stop, whatever the loop and the
\* runner are at, unless a panic ends the process first.
EngineStops == main = "serve" /\ ctxDone ~> main = "wait" \/ ~Up

\* A cancelled context ends the call in progress, at whatever request it is.
CancelEndsCall == ctxDone /\ at # "idle" ~> at = "idle" \/ ~Up

\* A step with a timeout comes to an end under the local runner, even where
\* its container never does.
TimeoutEndsCall ==
  \A c \in Call :
    wired = "local" /\ call = c /\ c \in timed ~> answer[c] # "none" \/ ~Up

\* The call waits for a Job that has finished and is there, or that has sent
\* an event which says so and is not yet received.
WaitsForFinished(c) ==
  /\ at = "select" /\ call = c
  /\ jobs[c].cond # "none"
  /\ jobs[c].exists \/ \E i \in DOMAIN events : events[i] = jobs[c].cond

\* A Job that has finished ends the wait for it, provided the watch stays
\* open: whether it finished before the watch was opened or after it, and also
\* where it expires before its events are received.  A Job that is gone when
\* the watch is opened sends nothing, and where the server closes the watch
\* the loop receives empty events: both waits last until the context ends
\* (CancelEndsCall).
FinishedJobEndsWait ==
  \A c \in Call :
    WaitsForFinished(c) ~> call # c \/ at # "select" \/ ~watching \/ ~Up

\* The runner deletes no Job, not even one it has stopped watching; a Job of
\* a step with a timeout is gone all the same in the end.
TimedJobsGo ==
  \A c \in Call : c \in timed /\ jobs[c].exists ~> ~jobs[c].exists

\* eng.Stop in main is there for an interrupt that ends the process in order:
\* no panic ends it while main waits for the engine.
GracefulShutdown == main = "stop" => panic = "none"

=============================================================================
