----------------------------- MODULE LocalRunner ----------------------------
(***************************************************************************)
(* runner/local/runner.go: Execute as one container of the Docker daemon.   *)
(* at is "image", "create", "start", "wait" or "remove"; containers[c] is   *)
(* what the daemon holds for call c, which outlives the call and the        *)
(* process.  What captureLogs returns changes no status and is left out.    *)
(***************************************************************************)
EXTENDS Runner

VARIABLES
  expired,      \* the deadline of the current call's own context has passed
  containers

localVars == <<expired, containers>>

ContainerState == {"none", "created", "running", "exited", "removed"}

LocalPlaces == {"image", "create", "start", "wait", "remove"}

LocalTypeOK ==
  /\ expired \in BOOLEAN
  /\ containers \in [Call -> ContainerState]

LocalInit ==
  /\ expired = FALSE
  /\ containers = [c \in Call |-> "none"]

\* Faulty variants: the deadline is not put on the call's context, or is put
\* on a context of its own.
EngineContextOnly == ctxDone

DeadlineOnly == expired

\* The context of the call: the engine's, with the deadline of the step.
CallDone == ctxDone \/ expired

-----------------------------------------------------------------------------

ExecuteLocal ==
  /\ Invoke("image")
  /\ expired' = FALSE
  /\ UNCHANGED <<faults, containers>>

\* The step's timeout; a step without one has no deadline.
LocalDeadline ==
  /\ at \in LocalPlaces
  /\ call \in timed /\ ~expired
  /\ expired' = TRUE
  /\ UNCHANGED <<faults, callVars, containers>>

\* ensureImage: the image is there or its pull comes to an end; a pull
\* that fails ends the call, with no container to remove.
EnsureImage ==
  /\ at = "image"
  /\ \E out \in Outcomes :
       /\ Query(out, CallDone)
       /\ IF out = "ok" THEN Goto("create") ELSE Return("error")
  /\ UNCHANGED <<localVars, ended>>

\* ContainerCreate; without its reply there is no id to remove by.
CreateContainer ==
  /\ at = "create"
  /\ \E out \in Outcomes :
       /\ Request(out, CallDone)
       /\ containers' = IF Applied(out)
                        THEN [containers EXCEPT ![call] = "created"]
                        ELSE containers
       /\ IF out = "ok" THEN Goto("start") ELSE Return("error")
  /\ UNCHANGED <<expired, ended>>

\* ContainerStart; Fail is what follows its error.
StartOr(Fail) ==
  /\ at = "start"
  /\ \E out \in Outcomes :
       /\ Request(out, CallDone)
       /\ containers' = IF Applied(out)
                        THEN [containers EXCEPT ![call] = "running"]
                        ELSE containers
       /\ IF out = "ok" THEN Goto("wait") ELSE Fail
  /\ UNCHANGED <<expired, ended>>

\* Faulty variant: the removal is deferred only once the start has succeeded.
StartWithoutCleanup == StartOr(Return("error"))

\* From the creation on every return passes the deferred removal.
StartContainer == StartOr(Settle("remove", "error"))

\* Faulty variant: the wait's status is taken before the container has ended.
WaitRunning ==
  /\ at = "wait"
  /\ Settle("remove", OfExit(IF ended[call] = "no" THEN "zero"
                                                   ELSE ended[call]))
  /\ UNCHANGED <<faults, localVars, ended>>

\* case status := <-statusCh: the exit code, with or without the logs.
WaitStatus ==
  /\ at = "wait"
  /\ containers[call] = "exited"
  /\ Settle("remove", OfExit(ended[call]))
  /\ UNCHANGED <<faults, localVars, ended>>

\* case err := <-errCh: the context has ended or the daemon has failed; where
\* a status is there too, select takes either.
WaitError ==
  /\ at = "wait"
  /\ Query("error", CallDone)
  /\ Settle("remove", "error")
  /\ UNCHANGED <<localVars, ended>>

\* Force: the daemon kills a running container before it removes it.
KillContainer ==
  /\ at = "remove"
  /\ containers[call] = "running"
  /\ containers' = [containers EXCEPT ![call] = "exited"]
  /\ ContainerEnded(call, {"killed"})
  /\ UNCHANGED <<faults, expired>>

\* ContainerRemove under a context that is cancelled iff done.
RemoveUnder(done) ==
  /\ at = "remove"
  /\ \E out \in Outcomes :
       /\ Statement(out, done)
       /\ Applied(out) => containers[call] # "running"
       /\ containers' = IF Applied(out)
                        THEN [containers EXCEPT ![call] = "removed"]
                        ELSE containers
  /\ Return(result)
  /\ UNCHANGED <<expired, ended>>

\* Faulty variant: the removal is sent under the call's own context.
RemoveUnderCallContext == RemoveUnder(CallDone)

\* The deferred removal, under a fresh context; that it fails is only logged.
RemoveContainer == RemoveUnder(FALSE)

\* External: a container runs to its end.
ContainerExits(c) ==
  /\ containers[c] = "running"
  /\ containers' = [containers EXCEPT ![c] = "exited"]
  /\ ContainerEnded(c, {"zero", "nonzero"})
  /\ UNCHANGED <<faults, expired>>

LocalStep ==
  \/ EnsureImage \/ CreateContainer \/ StartContainer
  \/ WaitStatus \/ WaitError \/ KillContainer \/ RemoveContainer

DockerStep == \E c \in Call : ContainerExits(c)

=============================================================================
