------------------------------ MODULE K8sRunner -----------------------------
(***************************************************************************)
(* runner/k8s/runner.go: Execute as one Job of the cluster.  at is          *)
(* "job", "watch", "select", "code" or "logs".  jobs[c] is what the cluster *)
(* holds for call c; nothing in the runner deletes a Job, and a Job         *)
(* outlives the call and the process.  The Kubernetes controllers are       *)
(* external: a Job gets its Complete or Failed condition when its pod has   *)
(* ended, or Failed at its deadline, and is deleted some time later.        *)
(* Job names are fresh (a uuid's prefix), pods are never retried.           *)
(***************************************************************************)
EXTENDS Runner, Sequences

VARIABLES
  jobs,
  watching,   \* the watch of the current call is open at the server
  events      \* what the watch has sent and the call has not received

k8sVars == <<jobs, watching, events>>

Condition == {"none", "complete", "failed"}

Job == [exists : BOOLEAN,
        cond   : Condition,
        pod    : {"none", "running", "terminating", "ended", "gone"}]

NoJob == [exists |-> FALSE, cond |-> "none", pod |-> "none"]

K8sPlaces == {"job", "watch", "select", "code", "logs"}

K8sTypeOK ==
  /\ jobs \in [Call -> Job]
  /\ watching \in BOOLEAN
  /\ events \in Seq(Condition \cup {"error"})

K8sInit ==
  /\ jobs = [c \in Call |-> NoJob]
  /\ watching = FALSE
  /\ events = <<>>

\* Execute returns from the watch: watcher.Stop().
StopWatching == watching' = FALSE /\ events' = <<>>

-----------------------------------------------------------------------------

ExecuteJob == Invoke("job") /\ UNCHANGED <<faults, k8sVars>>

\* Jobs.Create; when only its reply is lost the Job runs on unwatched.
CreateJob ==
  /\ at = "job"
  /\ \E out \in Outcomes :
       /\ Request(out, ctxDone)
       /\ jobs' = IF Applied(out)
                  THEN [jobs EXCEPT ![call].exists = TRUE] ELSE jobs
       /\ IF out = "ok" THEN Goto("watch") ELSE Return("error")
  /\ UNCHANGED <<ended, watching, events>>

\* Jobs.Watch: the first event shows the Job as it is by then.
OpenWatch ==
  /\ at = "watch"
  /\ \E out \in Outcomes :
       /\ Query(out, ctxDone)
       /\ IF out = "ok"
          THEN /\ Goto("select")
               /\ watching' = TRUE
               /\ events' = IF jobs[call].exists
                            THEN <<jobs[call].cond>> ELSE <<>>
          ELSE Return("error") /\ UNCHANGED <<watching, events>>
  /\ UNCHANGED <<ended, jobs>>

\* The wait is given up if done; the Job is left as it is.
SelectIf(done) ==
  /\ at = "select"
  /\ done
  /\ Return("error")
  /\ StopWatching
  /\ UNCHANGED <<faults, ended, jobs>>

\* Faulty variant: the context of the wait is only made for a timeout.
SelectTimedOnly == SelectIf(ctxDone /\ call \in timed)

\* case <-ctx.Done()
SelectDone == SelectIf(ctxDone)

\* An event is received; a Job with one of the given conditions ends the wait.
ReceiveUntil(Conditions) ==
  /\ at = "select"
  /\ events # <<>>
  /\ CASE Head(events) = "error" -> Return("error") /\ StopWatching
       [] Head(events) \in Conditions -> Goto("code") /\ StopWatching
       [] OTHER -> /\ events' = Tail(events)
                   /\ UNCHANGED <<callVars, watching>>
  /\ UNCHANGED <<faults, ended, jobs>>

\* Faulty variants: the first event ends the wait, or only Complete does.
ReceiveFirst == ReceiveUntil(Condition)

ReceiveComplete == ReceiveUntil({"complete"})

\* case event := <-watcher.ResultChan().  A closed channel delivers events
\* without an object, which change nothing however often they are received.
ReceiveEvent == ReceiveUntil({"complete", "failed"})

\* The exit code of the pod's container, or a default where the pod is not
\* found, not terminated or not to be read.
ExitCodeOr(default) ==
  /\ at = "code"
  /\ \E out \in Outcomes :
       /\ Query(out, ctxDone)
       /\ Settle("logs", IF out = "ok" /\ jobs[call].pod = "ended"
                         THEN OfExit(ended[call]) ELSE default)
  /\ UNCHANGED <<ended, k8sVars>>

\* Faulty variants: 0 by default, or what is no exit code.
DefaultExitZero == ExitCodeOr("success")

DefaultUnknown == ExitCodeOr("unknown")

\* getJobExitCode: 1 by default.
GetExitCode == ExitCodeOr("nonzero")

\* getJobPodName and getPodLogs: found or not, the exit code is returned.
GetLogs ==
  /\ at = "logs"
  /\ Return(result)
  /\ UNCHANGED <<faults, ended, k8sVars>>

-----------------------------------------------------------------------------
(* External: the cluster                                                     *)

\* The watch of call c, if it is open, sends the Job.
Notify(c, e) ==
  /\ events' = IF watching /\ c = call THEN Append(events, e) ELSE events
  /\ UNCHANGED watching

PodStarts(c) ==
  /\ jobs[c].exists /\ jobs[c].cond = "none" /\ jobs[c].pod = "none"
  /\ jobs' = [jobs EXCEPT ![c].pod = "running"]
  /\ Notify(c, "none")
  /\ UNCHANGED <<faults, callVars>>

\* The container ends; that of a pod that is being terminated may do so in
\* time, with an exit code of its own.
PodEnds(c) ==
  /\ jobs[c].pod \in {"running", "terminating"}
  /\ jobs' = [jobs EXCEPT ![c].pod = "ended"]
  /\ ContainerEnded(c, {"zero", "nonzero"})
  /\ UNCHANGED <<faults, watching, events>>

\* The pod is lost with its node, or terminated for the Job's deadline.
PodKilled(c) ==
  /\ \/ jobs[c].pod = "terminating" /\ faults' = faults
     \/ jobs[c].pod = "running" /\ faults < MaxFaults /\ faults' = faults + 1
  /\ jobs' = [jobs EXCEPT ![c].pod = "gone"]
  /\ ContainerEnded(c, {"killed"})
  /\ UNCHANGED <<watching, events>>

\* The Job controller sees the pod's end; backoffLimit is 0.
JobFinishes(c) ==
  /\ jobs[c].exists /\ jobs[c].cond = "none"
  /\ jobs[c].pod \in {"ended", "gone"}
  /\ LET cond == IF ended[c] = "zero" THEN "complete" ELSE "failed" IN
       /\ jobs' = [jobs EXCEPT ![c].cond = cond]
       /\ Notify(c, cond)
  /\ UNCHANGED <<faults, callVars>>

\* The deadline of a Job of one of the calls in Limited.
DeadlineOf(c, Limited) ==
  /\ c \in Limited
  /\ jobs[c].exists /\ jobs[c].cond = "none"
  /\ jobs' = [jobs EXCEPT ![c].cond = "failed",
                ![c].pod = CASE @ = "running" -> "terminating"
                             [] @ = "none" -> "gone"
                             [] OTHER -> @]
  /\ Notify(c, "failed")
  /\ UNCHANGED <<faults, callVars>>

\* Faulty variant: the condition on TimeoutSeconds is inverted.
JobDeadlineInverted(c) == DeadlineOf(c, (1..call) \ timed)

\* activeDeadlineSeconds is set for a step with a timeout.
JobDeadline(c) == DeadlineOf(c, timed)

\* ttlSecondsAfterFinished: the Job goes, and its pod with it.
JobExpires(c) ==
  /\ jobs[c].exists /\ jobs[c].cond # "none" /\ jobs[c].pod # "terminating"
  /\ jobs' = [jobs EXCEPT ![c].exists = FALSE, ![c].pod = "gone"]
  /\ Notify(c, jobs[c].cond)
  /\ UNCHANGED <<faults, callVars>>

\* The server ends a watch, with or without an error event before.
WatchCloses ==
  /\ watching
  /\ watching' = FALSE
  /\ events' \in {events, Append(events, "error")}
  /\ UNCHANGED <<faults, callVars, jobs>>

K8sStep ==
  \/ CreateJob \/ OpenWatch \/ SelectDone \/ ReceiveEvent
  \/ GetExitCode \/ GetLogs

ClusterStep ==
  \/ \E c \in Call : \/ PodStarts(c) \/ PodEnds(c) \/ PodKilled(c)
                     \/ JobFinishes(c) \/ JobDeadline(c) \/ JobExpires(c)
  \/ WatchCloses

=============================================================================
