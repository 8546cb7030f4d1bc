---------------------------- MODULE RunnerProofs ----------------------------
(***************************************************************************)
(* Both runners keep the contract of module RunnerContract, for any number  *)
(* of calls and faults, whatever the engine, its callers and the containers *)
(* do; what the local one may leave behind is a container that it never     *)
(* started, and the Kubernetes one reports an exit code only of a Job that  *)
(* has ended.                                                               *)
(***************************************************************************)
EXTENDS Process, TLAPS

Step == CallInv' /\ [Contract!Next]_<<ended, answer>>

LEMMA InitCallInv == Init => CallInv /\ Contract!Init
<1> SUFFICES ASSUME Init PROVE CallInv /\ Contract!Init
  OBVIOUS
<1> USE DEF Init, RunnerInit, LocalInit, K8sInit
<1>1. RunnerTypeOK
  <2>1. RunnerInit
    OBVIOUS
  <2>2. call \in 0..MaxCalls /\ faults \in 0..MaxFaults
    BY <2>1, MaxCallsAssumption, MaxFaultsAssumption
  <2>3. /\ answer \in [Call -> Answers \cup {"none"}]
        /\ ended \in [Call -> Endings \cup {"no"}]
    BY <2>1
  <2>4. ctxDone \in BOOLEAN /\ timed \subseteq Call /\ result \in Answers \cup {"none"}
    BY <2>1
  <2> QED BY <2>2, <2>3, <2>4 DEF RunnerTypeOK
<1>2. wired \in {"local", "k8s"}
  BY ProcessAssumption
<1>3. AnswersInOrder
  BY DEF AnswersInOrder, Call
<1>4. NoJob \in Job
  BY DEF NoJob, Job, Condition
<1>5. WorldInv
  BY <1>4 DEF WorldInv, ContainerState
<1>6. PlaceInv
  BY DEF PlaceInv
<1>7. Contract!Init
  BY DEF Contract!Init, Contract!Call, Call
<1> QED BY <1>1, <1>2, <1>3, <1>5, <1>6, <1>7 DEF CallInv

\* A statement or query leaves the count of faults in its range.
LEMMA FaultsType ==
  ASSUME NEW out, NEW done, CallInv, Statement(out, done)
  PROVE  faults' \in 0..MaxFaults
BY MaxFaultsAssumption DEF CallInv, RunnerTypeOK, Statement

LEMMA RequestFaults ==
  ASSUME NEW out, NEW done, CallInv, Request(out, done)
  PROVE  faults' \in 0..MaxFaults
BY FaultsType DEF Request, CallInv, RunnerTypeOK

\* A step that leaves the calls, the containers and the Jobs alone.
LEMMA Stutter ==
  ASSUME CallInv, ctxDone' \in BOOLEAN,
         UNCHANGED <<faults, callVars, containers, jobs, wired>>
  PROVE  Step
BY DEF Step, CallInv, RunnerTypeOK, AnswersInOrder, WorldInv, PlaceInv, callVars

\* The world as far as it is kept by a step of a call.
SameWorld == UNCHANGED <<wired, ended, containers, jobs>>

-----------------------------------------------------------------------------
(* What a step of Execute does to the state of the calls                     *)

LEMMA InvokeStep ==
  ASSUME CallInv, NEW p \in {"image", "job"}, Invoke(p), SameWorld,
         UNCHANGED <<ctxDone, faults>>
  PROVE  Step
<1> USE DEF Invoke, SameWorld
<1>1. call' \in Call /\ call' = call + 1
  BY MaxCallsAssumption DEF CallInv, RunnerTypeOK, Call
<1>2. RunnerTypeOK'
  BY <1>1 DEF CallInv, RunnerTypeOK, Call
<1>3. AnswersInOrder'
  BY <1>1 DEF CallInv, RunnerTypeOK, AnswersInOrder, Call
<1>4. WorldInv'
  BY <1>1 DEF CallInv, RunnerTypeOK, WorldInv, Call
<1>5. PlaceInv'
  BY <1>1 DEF CallInv, RunnerTypeOK, WorldInv, PlaceInv, Call
<1> QED BY <1>2, <1>3, <1>4, <1>5 DEF Step, CallInv

LEMMA GotoStep ==
  ASSUME CallInv, NEW p \in {"create", "start", "wait", "watch", "select", "code"},
         at # "idle", Goto(p), UNCHANGED <<ctxDone, wired, ended>>,
         faults' \in 0..MaxFaults, WorldInv', PlaceInv'
  PROVE  Step
<1>1. RunnerTypeOK'
  BY DEF Goto, CallInv, RunnerTypeOK
<1>2. AnswersInOrder'
  BY DEF Goto, CallInv, AnswersInOrder
<1> QED BY <1>1, <1>2 DEF Step, CallInv, Goto

LEMMA SettleStep ==
  ASSUME CallInv, NEW p \in {"remove", "logs"}, NEW r \in Answers,
         at # "idle", Settle(p, r), SameWorld \/ UNCHANGED <<wired, ended>>,
         UNCHANGED ctxDone, faults' \in 0..MaxFaults, WorldInv',
         r = "success" => ended[call] = "zero"
  PROVE  Step
<1>1. RunnerTypeOK'
  BY DEF Settle, SameWorld, CallInv, RunnerTypeOK
<1>2. AnswersInOrder'
  BY DEF Settle, CallInv, AnswersInOrder
<1>3. PlaceInv'
  BY DEF Settle, SameWorld, PlaceInv
<1> QED BY <1>1, <1>2, <1>3 DEF Step, CallInv, Settle, SameWorld

LEMMA ReturnStep ==
  ASSUME CallInv, NEW r \in Answers,
         at # "idle", Return(r), UNCHANGED <<ctxDone, wired, ended>>,
         faults' \in 0..MaxFaults, WorldInv',
         r = "success" => ended[call] = "zero"
  PROVE  Step
<1>1. call \in Call /\ answer[call] = "none" /\ r # "none"
  BY DEF CallInv, AnswersInOrder, Answers
<1>2. RunnerTypeOK'
  BY DEF Return, CallInv, RunnerTypeOK
<1>3. AnswersInOrder'
  BY <1>1 DEF Return, CallInv, RunnerTypeOK, AnswersInOrder
<1>4. PlaceInv'
  BY DEF Return, PlaceInv
<1>5. Contract!Answer(call, r)
  <2>1. \A d \in Call : d < call => answer[d] # "none"
    BY <1>1 DEF CallInv, RunnerTypeOK, AnswersInOrder, Call
  <2> QED BY <1>1, <2>1 DEF Return, Contract!Answer, Contract!Call, Call
<1>6. Contract!Next
  BY <1>1, <1>5 DEF Contract!Next, Contract!Call, Contract!Answers, Call, Answers
<1> QED BY <1>2, <1>3, <1>4, <1>6 DEF Step, CallInv

LEMMA EndedStep ==
  ASSUME CallInv, NEW c \in Call, NEW Ways \in SUBSET Endings,
         ContainerEnded(c, Ways), ended[c] = "no",
         UNCHANGED <<ctxDone, wired>>, faults' \in 0..MaxFaults, WorldInv',
         at \in {"image", "create", "start"} =>
           containers'[call] = containers[call]
  PROVE  Step
<1>1. PICK how \in Ways : ended' = [ended EXCEPT ![c] = how]
  BY DEF ContainerEnded
<1>2. RunnerTypeOK'
  BY <1>1 DEF ContainerEnded, CallInv, RunnerTypeOK
<1>3. AnswersInOrder'
  BY DEF ContainerEnded, CallInv, AnswersInOrder
<1>4. PlaceInv'
  BY <1>1 DEF ContainerEnded, CallInv, PlaceInv, RunnerTypeOK
<1>5. Contract!End(c, how)
  BY <1>1 DEF Contract!End, ContainerEnded
<1>6. Contract!Next
  BY <1>5 DEF Contract!Next, Contract!Call, Call, Contract!Endings, Endings
<1> QED BY <1>2, <1>3, <1>4, <1>6 DEF Step, CallInv, ContainerEnded

-----------------------------------------------------------------------------
(* What the steps do to containers and Jobs                                  *)

LEMMA WorldStays ==
  ASSUME CallInv, UNCHANGED <<wired, call, ended, containers, jobs>>
  PROVE  WorldInv'
BY DEF CallInv, WorldInv

\* The container of the current call moves on, towards or past its end.
LEMMA ContainerMoves ==
  ASSUME CallInv, NEW s \in ContainerState, NEW c \in Call,
         wired = "local", c <= call, wired' = wired, call' = call, jobs' = jobs,
         containers' = [containers EXCEPT ![c] = s],
         \A d \in Call : d # c => ended'[d] = ended[d],
         s \in {"created", "running"} => ended'[c] = "no",
         s # "none"
  PROVE  WorldInv'
BY DEF CallInv, RunnerTypeOK, WorldInv, Call

\* A Job of a call that was made changes.
LEMMA JobMoves ==
  ASSUME CallInv, NEW j \in Job, NEW c \in Call,
         wired = "k8s", c <= call, UNCHANGED <<wired, call, containers>>,
         jobs' = [jobs EXCEPT ![c] = j],
         \A d \in Call : d # c => ended'[d] = ended[d],
         j.pod \in {"none", "running", "terminating"} => ended'[c] = "no"
  PROVE  WorldInv'
BY DEF CallInv, RunnerTypeOK, WorldInv, Call

\* A Job there is belongs to a call of the Kubernetes runner.
LEMMA JobOfCall ==
  ASSUME CallInv, NEW c \in Call, jobs[c] # NoJob
  PROVE  wired = "k8s" /\ c <= call /\ jobs[c] \in Job
BY DEF CallInv, RunnerTypeOK, WorldInv, Call

-----------------------------------------------------------------------------
(* The local runner                                                          *)

LEMMA LocalStepKeeps ==
  ASSUME CallInv, LocalStep, wired = "local",
         UNCHANGED <<ctxDone, wired, k8sVars>>
  PROVE  Step
<1>0. jobs' = jobs
  BY DEF k8sVars
<1>1. CASE EnsureImage
  <2>1. PICK out \in Outcomes :
          /\ Query(out, CallDone)
          /\ IF out = "ok" THEN Goto("create") ELSE Return("error")
    BY <1>1 DEF EnsureImage
  <2>2. /\ at = "image" /\ UNCHANGED <<containers, ended>>
        /\ faults' \in 0..MaxFaults
    BY <1>1, <2>1, FaultsType DEF EnsureImage, localVars, Query
  <2>3. call' = call
    BY <2>1 DEF Goto, Return
  <2>4. WorldInv'
    BY <1>0, <2>2, <2>3, WorldStays
  <2>5. CASE out = "ok"
    <3>1. Goto("create") /\ PlaceInv'
      BY <2>1, <2>2, <2>5 DEF Goto, CallInv, PlaceInv
    <3> QED BY <2>2, <2>4, <3>1, GotoStep
  <2>6. CASE out # "ok"
    BY <2>1, <2>2, <2>4, <2>6, ReturnStep DEF Answers
  <2> QED BY <2>5, <2>6
<1>2. CASE CreateContainer
  <2>1. PICK out \in Outcomes :
          /\ Request(out, CallDone)
          /\ containers' = IF Applied(out)
                           THEN [containers EXCEPT ![call] = "created"]
                           ELSE containers
          /\ IF out = "ok" THEN Goto("start") ELSE Return("error")
    BY <1>2 DEF CreateContainer
  <2>2. at = "create" /\ UNCHANGED ended /\ faults' \in 0..MaxFaults
    BY <1>2, <2>1, RequestFaults DEF CreateContainer
  <2>3. call' = call /\ call \in Call /\ call <= call
    BY <2>1, <2>2 DEF Goto, Return, CallInv, AnswersInOrder, Call
  <2>4. containers[call] = "none" /\ ended[call] = "no"
    BY <2>2, <2>3 DEF CallInv, WorldInv, PlaceInv, NoJob
  <2>5. WorldInv'
    <3>1. CASE containers' = [containers EXCEPT ![call] = "created"]
      BY <1>0, <2>2, <2>3, <2>4, <3>1, ContainerMoves
         DEF ContainerState
    <3>2. CASE containers' = containers
      BY <1>0, <2>2, <2>3, <3>2, WorldStays
    <3> QED BY <2>1, <3>1, <3>2
  <2>6. CASE out = "ok"
    <3>1. Goto("start") /\ containers'[call] = "created"
      BY <2>1, <2>3, <2>6 DEF Applied, CallInv, WorldInv
    <3>2. PlaceInv'
      BY <2>3, <3>1 DEF Goto, PlaceInv
    <3> QED BY <2>2, <2>5, <3>1, <3>2, GotoStep
  <2>7. CASE out # "ok"
    BY <2>1, <2>2, <2>5, <2>7, ReturnStep DEF Answers
  <2> QED BY <2>6, <2>7
<1>3. CASE StartContainer
  <2>1. PICK out \in Outcomes :
          /\ Request(out, CallDone)
          /\ containers' = IF Applied(out)
                           THEN [containers EXCEPT ![call] = "running"]
                           ELSE containers
          /\ IF out = "ok" THEN Goto("wait") ELSE Settle("remove", "error")
    BY <1>3 DEF StartContainer, StartOr
  <2>2. at = "start" /\ UNCHANGED ended /\ faults' \in 0..MaxFaults
    BY <1>3, <2>1, RequestFaults DEF StartContainer, StartOr
  <2>3. call' = call /\ call \in Call /\ call <= call
    BY <2>1, <2>2 DEF Goto, Settle, CallInv, AnswersInOrder, Call
  <2>4. ended[call] = "no"
    BY <2>2, <2>3 DEF CallInv, WorldInv, PlaceInv, NoJob
  <2>5. WorldInv'
    <3>1. CASE containers' = [containers EXCEPT ![call] = "running"]
      BY <1>0, <2>2, <2>3, <2>4, <3>1, ContainerMoves
         DEF ContainerState
    <3>2. CASE containers' = containers
      BY <1>0, <2>2, <2>3, <3>2, WorldStays
    <3> QED BY <2>1, <3>1, <3>2
  <2>6. CASE out = "ok"
    <3>1. Goto("wait") /\ PlaceInv'
      BY <2>1, <2>6 DEF Goto, PlaceInv
    <3> QED BY <2>2, <2>5, <3>1, GotoStep
  <2>7. CASE out # "ok"
    BY <2>1, <2>2, <2>5, <2>7, SettleStep DEF Answers
  <2> QED BY <2>6, <2>7
<1>4. CASE WaitStatus
  <2>1. /\ at = "wait" /\ Settle("remove", OfExit(ended[call]))
        /\ UNCHANGED <<faults, containers, ended>>
    BY <1>4 DEF WaitStatus, localVars
  <2>2. /\ OfExit(ended[call]) \in Answers
        /\ OfExit(ended[call]) = "success" => ended[call] = "zero"
    BY DEF OfExit, Answers
  <2>3. WorldInv'
    BY <1>0, <2>1, WorldStays DEF Settle
  <2> QED BY <2>1, <2>2, <2>3, SettleStep DEF CallInv, RunnerTypeOK
<1>5. CASE WaitError
  <2>1. /\ at = "wait" /\ Settle("remove", "error")
        /\ UNCHANGED <<containers, ended>>
        /\ faults' \in 0..MaxFaults
    BY <1>5, FaultsType DEF WaitError, localVars, Query
  <2>2. WorldInv'
    BY <1>0, <2>1, WorldStays DEF Settle
  <2> QED BY <2>1, <2>2, SettleStep DEF Answers
<1>6. CASE KillContainer
  <2>1. /\ at = "remove" /\ containers[call] = "running"
        /\ containers' = [containers EXCEPT ![call] = "exited"]
        /\ ContainerEnded(call, {"killed"})
        /\ faults' = faults
    BY <1>6 DEF KillContainer
  <2>2. call' = call /\ call \in Call /\ call <= call
    BY <2>1 DEF CallInv, AnswersInOrder, ContainerEnded, Call
  <2>3. ended[call] = "no"
    BY <2>1, <2>2 DEF CallInv, WorldInv, NoJob
  <2>4. \A d \in Call : d # call => ended'[d] = ended[d]
    BY <2>1 DEF ContainerEnded, CallInv, RunnerTypeOK
  <2>5. WorldInv'
    BY <1>0, <2>1, <2>2, <2>4, ContainerMoves
       DEF ContainerState
  <2> QED BY <2>1, <2>2, <2>3, <2>5, EndedStep DEF Endings, CallInv, RunnerTypeOK
<1>7. CASE RemoveContainer
  <2>1. PICK out \in Outcomes :
          /\ Statement(out, FALSE)
          /\ containers' = IF Applied(out)
                           THEN [containers EXCEPT ![call] = "removed"]
                           ELSE containers
    BY <1>7 DEF RemoveContainer, RemoveUnder
  <2>2. /\ at = "remove" /\ Return(result) /\ UNCHANGED ended
        /\ faults' \in 0..MaxFaults
    BY <1>7, <2>1, FaultsType DEF RemoveContainer, RemoveUnder
  <2>3. call' = call /\ call \in Call /\ call <= call
    BY <2>2 DEF Return, CallInv, AnswersInOrder, Call
  <2>4. WorldInv'
    <3>1. CASE containers' = [containers EXCEPT ![call] = "removed"]
      BY <1>0, <2>2, <2>3, <3>1, ContainerMoves
         DEF ContainerState
    <3>2. CASE containers' = containers
      BY <1>0, <2>2, <2>3, <3>2, WorldStays
    <3> QED BY <2>1, <3>1, <3>2
  <2>5. result \in Answers /\ (result = "success" => ended[call] = "zero")
    BY <2>2 DEF CallInv, PlaceInv
  <2> QED BY <2>2, <2>4, <2>5, ReturnStep
<1> QED
  BY <1>1, <1>2, <1>3, <1>4, <1>5, <1>6, <1>7 DEF LocalStep

\* A container of the daemon runs to its end.
LEMMA DockerStepKeeps ==
  ASSUME CallInv, DockerStep, UNCHANGED <<ctxDone, wired, k8sVars>>
  PROVE  Step
<1>1. PICK c \in Call : ContainerExits(c)
  BY DEF DockerStep
<1>2. /\ containers[c] = "running"
      /\ containers' = [containers EXCEPT ![c] = "exited"]
      /\ ContainerEnded(c, {"zero", "nonzero"})
      /\ faults' = faults
  BY <1>1 DEF ContainerExits
<1>3. wired = "local" /\ c <= call /\ ended[c] = "no"
  BY <1>2 DEF CallInv, RunnerTypeOK, WorldInv, NoJob, Call
<1>4. call' = call /\ jobs' = jobs /\ wired' = wired
  BY <1>2 DEF ContainerEnded, k8sVars
<1>5. \A d \in Call : d # c => ended'[d] = ended[d]
  BY <1>2 DEF ContainerEnded, CallInv, RunnerTypeOK
<1>6. WorldInv'
  BY <1>2, <1>3, <1>4, <1>5, ContainerMoves DEF ContainerState
<1>7. ASSUME at \in {"image", "create", "start"}
      PROVE  containers'[call] = containers[call]
  BY <1>2, <1>7 DEF CallInv, AnswersInOrder, PlaceInv, WorldInv
<1> QED
  BY <1>2, <1>3, <1>4, <1>6, <1>7, EndedStep DEF Endings, CallInv, RunnerTypeOK

-----------------------------------------------------------------------------
(* The Kubernetes runner                                                     *)

LEMMA K8sStepKeeps ==
  ASSUME CallInv, K8sStep, wired = "k8s", UNCHANGED <<ctxDone, wired, localVars>>
  PROVE  Step
<1>0. containers' = containers
  BY DEF localVars
<1>1. CASE CreateJob
  <2>1. PICK out \in Outcomes :
          /\ Request(out, ctxDone)
          /\ jobs' = IF Applied(out)
                     THEN [jobs EXCEPT ![call].exists = TRUE] ELSE jobs
          /\ IF out = "ok" THEN Goto("watch") ELSE Return("error")
    BY <1>1 DEF CreateJob
  <2>2. at = "job" /\ UNCHANGED ended /\ faults' \in 0..MaxFaults
    BY <1>1, <2>1, RequestFaults DEF CreateJob
  <2>3. call' = call /\ call \in Call /\ call <= call
    BY <2>1, <2>2 DEF Goto, Return, CallInv, AnswersInOrder, Call
  <2>4. WorldInv'
    <3> DEFINE j == [jobs[call] EXCEPT !.exists = TRUE]
    <3>1. CASE Applied(out)
      <4>1. j \in Job /\ j.pod = jobs[call].pod
        BY <2>3 DEF CallInv, WorldInv, Job
      <4>2. jobs' = [jobs EXCEPT ![call] = j]
        BY <2>1, <3>1
      <4>3. containers[call] = "none"
        BY <2>3 DEF CallInv, WorldInv
      <4>4. j.pod \in {"none", "running", "terminating"} => ended'[call] = "no"
        BY <2>2, <2>3, <4>1, <4>3 DEF CallInv, WorldInv
      <4> HIDE DEF j
      <4> QED BY <1>0, <2>2, <2>3, <4>1, <4>2, <4>4, JobMoves
    <3>2. CASE ~Applied(out)
      BY <1>0, <2>1, <2>2, <2>3, <3>2, WorldStays
    <3> QED BY <3>1, <3>2
  <2>5. CASE out = "ok"
    <3>1. Goto("watch") /\ PlaceInv'
      BY <2>1, <2>5 DEF Goto, PlaceInv
    <3> QED BY <2>2, <2>4, <3>1, GotoStep
  <2>6. CASE out # "ok"
    BY <2>1, <2>2, <2>4, <2>6, ReturnStep DEF Answers
  <2> QED BY <2>5, <2>6
<1>2. CASE OpenWatch
  <2>1. PICK out \in Outcomes :
          Query(out, ctxDone) /\ (Goto("select") \/ Return("error"))
    BY <1>2 DEF OpenWatch
  <2>2. at = "watch" /\ UNCHANGED <<ended, jobs>> /\ faults' \in 0..MaxFaults
    BY <1>2, <2>1, FaultsType DEF OpenWatch, Query
  <2>3. WorldInv'
    BY <1>0, <2>1, <2>2, WorldStays DEF Goto, Return
  <2>4. CASE Goto("select")
    <3>1. PlaceInv'
      BY <2>4 DEF Goto, PlaceInv
    <3> QED BY <2>2, <2>3, <2>4, <3>1, GotoStep
  <2>5. CASE Return("error")
    BY <2>2, <2>3, <2>5, ReturnStep DEF Answers
  <2> QED BY <2>1, <2>4, <2>5
<1>3. CASE SelectDone
  <2>1. /\ at = "select" /\ Return("error")
        /\ UNCHANGED <<faults, ended, jobs>>
    BY <1>3 DEF SelectDone, SelectIf
  <2>2. WorldInv'
    BY <1>0, <2>1, WorldStays DEF Return
  <2> QED BY <2>1, <2>2, ReturnStep DEF Answers, CallInv, RunnerTypeOK
<1>4. CASE ReceiveEvent
  <2>1. /\ at = "select" /\ UNCHANGED <<faults, ended, jobs>>
        /\ \/ Return("error")
           \/ Goto("code")
           \/ UNCHANGED callVars
    BY <1>4 DEF ReceiveEvent, ReceiveUntil
  <2>2. WorldInv'
    BY <1>0, <2>1, WorldStays DEF Return, Goto, callVars
  <2>3. CASE Return("error")
    BY <2>1, <2>2, <2>3, ReturnStep DEF Answers, CallInv, RunnerTypeOK
  <2>4. CASE Goto("code")
    <3>1. PlaceInv'
      BY <2>4 DEF Goto, PlaceInv
    <3>2. faults' \in 0..MaxFaults
      BY <2>1 DEF CallInv, RunnerTypeOK
    <3> QED BY <2>1, <2>2, <2>4, <3>1, <3>2, GotoStep
  <2>5. CASE UNCHANGED callVars
    BY <1>0, <2>1, <2>5, Stutter DEF CallInv, RunnerTypeOK
  <2> QED BY <2>1, <2>3, <2>4, <2>5
<1>5. CASE GetExitCode
  <2>1. PICK out \in Outcomes :
          /\ Query(out, ctxDone)
          /\ Settle("logs", IF out = "ok" /\ jobs[call].pod = "ended"
                            THEN OfExit(ended[call]) ELSE "nonzero")
    BY <1>5 DEF GetExitCode, ExitCodeOr
  <2> DEFINE r == IF out = "ok" /\ jobs[call].pod = "ended"
                  THEN OfExit(ended[call]) ELSE "nonzero"
  <2>2. /\ at = "code" /\ UNCHANGED <<ended, jobs>>
        /\ faults' \in 0..MaxFaults
    BY <1>5, <2>1, FaultsType DEF GetExitCode, ExitCodeOr, Query, k8sVars
  <2>3. r \in Answers /\ (r = "success" => ended[call] = "zero")
    BY DEF OfExit, Answers
  <2>4. WorldInv'
    BY <1>0, <2>1, <2>2, WorldStays DEF Settle
  <2>5. Settle("logs", r)
    BY <2>1
  <2> HIDE DEF r
  <2> QED BY <2>2, <2>3, <2>4, <2>5, SettleStep
<1>6. CASE GetLogs
  <2>1. /\ at = "logs" /\ Return(result)
        /\ UNCHANGED <<faults, ended, jobs>>
    BY <1>6 DEF GetLogs, k8sVars
  <2>2. result \in Answers /\ (result = "success" => ended[call] = "zero")
    BY <2>1 DEF CallInv, PlaceInv
  <2>3. WorldInv'
    BY <1>0, <2>1, WorldStays DEF Return
  <2> QED BY <2>1, <2>2, <2>3, ReturnStep DEF CallInv, RunnerTypeOK
<1> QED
  BY <1>1, <1>2, <1>3, <1>4, <1>5, <1>6 DEF K8sStep

\* A Job changes and no container ends.
LEMMA JobStep ==
  ASSUME CallInv, NEW c \in Call, NEW j \in Job, jobs[c] # NoJob,
         jobs' = [jobs EXCEPT ![c] = j],
         j.pod \in {"none", "running", "terminating"} => ended[c] = "no",
         UNCHANGED <<ctxDone, faults, callVars, containers, wired>>
  PROVE  Step
<1>1. wired = "k8s" /\ c <= call
  BY JobOfCall
<1>2. WorldInv'
  BY <1>1, JobMoves DEF callVars
<1> QED
  BY <1>2 DEF Step, CallInv, RunnerTypeOK, AnswersInOrder, PlaceInv, callVars

\* A Job's container ends.
LEMMA PodStep ==
  ASSUME CallInv, NEW c \in Call, NEW pod \in {"ended", "gone"},
         NEW Ways \in SUBSET Endings,
         jobs[c].pod \in {"running", "terminating"},
         jobs' = [jobs EXCEPT ![c].pod = pod],
         ContainerEnded(c, Ways), faults' \in 0..MaxFaults,
         UNCHANGED <<ctxDone, containers, wired>>
  PROVE  Step
<1>1. wired = "k8s" /\ c <= call /\ jobs[c] \in Job
  BY JobOfCall DEF NoJob
<1>2. ended[c] = "no"
  BY <1>1 DEF CallInv, WorldInv
<1> DEFINE j == [jobs[c] EXCEPT !.pod = pod]
<1>3. j \in Job /\ j.pod = pod /\ jobs' = [jobs EXCEPT ![c] = j]
  BY <1>1 DEF Job
<1>4. call' = call /\ \A d \in Call : d # c => ended'[d] = ended[d]
  BY DEF ContainerEnded, CallInv, RunnerTypeOK
<1> HIDE DEF j
<1>5. WorldInv'
  BY <1>1, <1>3, <1>4, JobMoves
<1> QED BY <1>2, <1>5, EndedStep

LEMMA ClusterStepKeeps ==
  ASSUME CallInv, ClusterStep, UNCHANGED <<ctxDone, wired, localVars>>
  PROVE  Step
<1>0. containers' = containers
  BY DEF localVars
<1>1. ASSUME NEW c \in Call, PodStarts(c)
      PROVE  Step
  <2> DEFINE j == [jobs[c] EXCEPT !.pod = "running"]
  <2>1. jobs[c] # NoJob /\ jobs[c].pod = "none"
    BY <1>1 DEF PodStarts, NoJob
  <2>2. wired = "k8s" /\ jobs[c] \in Job
    BY <2>1, JobOfCall
  <2>3. j \in Job /\ jobs' = [jobs EXCEPT ![c] = j]
    BY <1>1, <2>2 DEF PodStarts, Job
  <2>4. ended[c] = "no"
    BY <2>1, <2>2 DEF CallInv, WorldInv
  <2> HIDE DEF j
  <2> QED BY <1>0, <1>1, <2>1, <2>3, <2>4, JobStep DEF PodStarts
<1>2. ASSUME NEW c \in Call, PodEnds(c)
      PROVE  Step
  BY <1>0, <1>2, PodStep DEF PodEnds, Endings, CallInv, RunnerTypeOK
<1>3. ASSUME NEW c \in Call, PodKilled(c)
      PROVE  Step
  <2>1. faults' \in 0..MaxFaults
    BY <1>3, MaxFaultsAssumption DEF PodKilled, CallInv, RunnerTypeOK
  <2>2. /\ jobs[c].pod \in {"running", "terminating"}
        /\ jobs' = [jobs EXCEPT ![c].pod = "gone"]
        /\ ContainerEnded(c, {"killed"})
    BY <1>3 DEF PodKilled
  <2> QED BY <1>0, <2>1, <2>2, PodStep DEF Endings
<1>4. ASSUME NEW c \in Call, JobFinishes(c)
      PROVE  Step
  <2>1. PICK cond \in {"complete", "failed"} :
          jobs' = [jobs EXCEPT ![c].cond = cond]
    BY <1>4 DEF JobFinishes
  <2>2. /\ jobs[c] # NoJob /\ jobs[c].pod \in {"ended", "gone"}
        /\ UNCHANGED <<faults, callVars>>
    BY <1>4 DEF JobFinishes, NoJob
  <2> DEFINE j == [jobs[c] EXCEPT !.cond = cond]
  <2>3. /\ j \in Job /\ j.pod \in {"ended", "gone"}
        /\ jobs' = [jobs EXCEPT ![c] = j]
    BY <2>1, <2>2, JobOfCall DEF Job, Condition
  <2> HIDE DEF j
  <2> QED BY <1>0, <2>2, <2>3, JobStep
<1>5. ASSUME NEW c \in Call, JobDeadline(c)
      PROVE  Step
  <2>1. /\ jobs[c] # NoJob
        /\ UNCHANGED <<faults, callVars>>
    BY <1>5 DEF JobDeadline, DeadlineOf, NoJob
  <2>2. wired = "k8s" /\ jobs[c] \in Job
    BY <2>1, JobOfCall
  <2> DEFINE pod == CASE jobs[c].pod = "running" -> "terminating"
                      [] jobs[c].pod = "none" -> "gone"
                      [] OTHER -> jobs[c].pod
             j == [jobs[c] EXCEPT !.cond = "failed", !.pod = pod]
  <2>3. jobs' = [jobs EXCEPT ![c] = j]
    BY <1>5, <2>2 DEF JobDeadline, DeadlineOf, CallInv, WorldInv, Job
  <2>4. j \in Job
    BY <2>2 DEF Job, Condition
  <2>5. j.pod \in {"none", "running", "terminating"} => ended[c] = "no"
    BY <2>2 DEF CallInv, WorldInv, Job
  <2> HIDE DEF j
  <2> QED BY <1>0, <2>1, <2>3, <2>4, <2>5, JobStep
<1>6. ASSUME NEW c \in Call, JobExpires(c)
      PROVE  Step
  <2>1. /\ jobs[c] # NoJob
        /\ jobs' = [jobs EXCEPT ![c].exists = FALSE, ![c].pod = "gone"]
        /\ UNCHANGED <<faults, callVars>>
    BY <1>6 DEF JobExpires, NoJob
  <2>2. wired = "k8s" /\ jobs[c] \in Job
    BY <2>1, JobOfCall
  <2> DEFINE j == [jobs[c] EXCEPT !.exists = FALSE, !.pod = "gone"]
  <2>3. j \in Job /\ j.pod = "gone" /\ jobs' = [jobs EXCEPT ![c] = j]
    BY <2>1, <2>2 DEF Job, CallInv, WorldInv
  <2> HIDE DEF j
  <2> QED BY <1>0, <2>1, <2>3, JobStep
<1>7. CASE WatchCloses
  BY <1>0, <1>7, Stutter DEF WatchCloses, CallInv, RunnerTypeOK
<1> QED
  BY <1>1, <1>2, <1>3, <1>4, <1>5, <1>6, <1>7 DEF ClusterStep

-----------------------------------------------------------------------------
(* The process                                                               *)

\* What the engine, main and Stop's callers do to the calls.
LEMMA ExecuteKeeps ==
  ASSUME CallInv, NEW i \in DOMAIN loops, LoopExecute(i),
         UNCHANGED <<ctxDone, wired>>
  PROVE  Step
<1>1. CASE ExecuteLocal /\ UNCHANGED k8sVars
  BY <1>1, InvokeStep DEF ExecuteLocal, SameWorld, Invoke, k8sVars
<1>2. CASE ExecuteJob /\ UNCHANGED localVars
  BY <1>2, InvokeStep DEF ExecuteJob, SameWorld, Invoke, k8sVars, localVars
<1> QED BY <1>1, <1>2 DEF LoopExecute

LEMMA NextKeeps == CallInv /\ [Next]_vars => Step
<1> SUFFICES ASSUME CallInv, [Next]_vars PROVE Step
  OBVIOUS
<1>1. CASE UNCHANGED vars
  BY <1>1, Stutter
     DEF vars, runnerVars, localVars, k8sVars, processVars, CallInv, RunnerTypeOK
<1>2. CASE \/ MainStart \/ MainStop \/ MainStopped \/ HealthReturns
           \/ \E g \in workers : WorkerReturns(g)
           \/ \E g \in Others : OtherCall(g)
  BY <1>2, Stutter
     DEF MainStart, MainStop, MainStopped, HealthReturns, WorkerReturns,
         OtherCall, runnerVars, localVars, k8sVars, CallInv, RunnerTypeOK
<1>3. CASE Interrupt
  BY <1>3, Stutter DEF Interrupt, runnerVars, localVars, k8sVars, processVars
<1>4. CASE EngineStep
  <2>1. CASE \E i \in DOMAIN loops : LoopExecute(i)
             /\ UNCHANGED <<ctxDone, engineVars, processVars>>
    BY <2>1, ExecuteKeeps DEF processVars
  <2>2. CASE UNCHANGED <<ctxDone, runnerVars, wired>>
    BY <2>2, Stutter
       DEF runnerVars, localVars, k8sVars, CallInv, RunnerTypeOK
  <2> QED BY <1>4, <2>1, <2>2 DEF EngineStep, EngineOnly
<1>5. CASE RunnerStep
  BY <1>5, LocalStepKeeps, K8sStepKeeps DEF RunnerStep, processVars
<1>6. CASE RunnerDeadline
  BY <1>6, Stutter
     DEF RunnerDeadline, LocalDeadline, k8sVars, processVars, CallInv,
         RunnerTypeOK
<1>7. CASE OutsideStep
  BY <1>7, DockerStepKeeps, ClusterStepKeeps DEF OutsideStep, processVars
<1> QED
  BY <1>1, <1>2, <1>3, <1>4, <1>5, <1>6, <1>7 DEF Next

\* What the runners keep holds throughout.
THEOREM CallsKept == Spec => []CallInv
<1>1. CallInv /\ [Next]_vars => CallInv'
  BY NextKeeps DEF Step
<1> QED BY InitCallInv, <1>1, PTL DEF Spec

\* The process with either runner implements the contract of the runner: a
\* call is answered once, in its order, with success only for exit code 0.
THEOREM RunnersKeepContract == Spec => ImplementsContract
<1>1. CallInv /\ [Next]_vars => [Contract!Next]_<<ended, answer>>
  BY NextKeeps DEF Step
<1> QED
  BY InitCallInv, CallsKept, <1>1, PTL DEF Spec, ImplementsContract, Contract!Spec

-----------------------------------------------------------------------------
(* What the local runner leaves behind                                       *)

LEMMA FaultsGrow ==
  ASSUME CallInv, NEW out, NEW done, Statement(out, done), faults' = 0
  PROVE  faults = 0 /\ out = IF done THEN "error" ELSE "ok"
BY DEF CallInv, RunnerTypeOK, Statement

LEMMA RequestCut ==
  ASSUME CallInv, NEW out, NEW done, Request(out, done), faults' = 0
  PROVE  /\ faults = 0 /\ out \in {"ok", "error", "lost"}
         /\ out = "lost" => done
BY FaultsGrow DEF Request

\* Only the call of a step with a timeout runs into a deadline.
DeadlineKnown == wired = "local" /\ expired => call \in timed

CleanupInv == LocalCleanup /\ DeadlineKnown

\* No answer and no container changes; contexts only end.
LEMMA CleanupFrame ==
  ASSUME LocalCleanup, UNCHANGED <<wired, answer, containers>>,
         ctxDone => ctxDone', timed \subseteq timed', faults' = 0 => faults = 0
  PROVE  LocalCleanup'
BY DEF LocalCleanup, MayBeCut

\* What a step of the local runner leaves of the call c.
Cleaned(c) ==
  answer'[c] # "none" =>
    \/ containers'[c] \in {"none", "removed"}
    \/ containers'[c] = "created" /\ answer'[c] = "error" /\ MayBeCut(c)'

LEMMA CleanupLocal ==
  ASSUME CallInv, CleanupInv, LocalStep, wired = "local",
         UNCHANGED <<ctxDone, wired>>
  PROVE  LocalCleanup'
<1> SUFFICES ASSUME faults' = 0, NEW c \in Call PROVE Cleaned(c)
  BY DEF LocalCleanup, Cleaned
<1>0. /\ answer \in [Call -> Answers \cup {"none"}]
      /\ containers \in [Call -> ContainerState]
      /\ faults \in Nat
      /\ at # "idle" => call \in Call /\ answer[call] = "none"
  BY DEF CallInv, RunnerTypeOK, AnswersInOrder, WorldInv
<1>1. timed' = timed
  BY DEF LocalStep, EnsureImage, CreateContainer, StartContainer, StartOr,
         WaitStatus, WaitError, KillContainer, RemoveContainer, RemoveUnder,
         Goto, Settle, Return, ContainerEnded
<1>2. ASSUME faults = 0, answer'[c] = answer[c], containers'[c] = containers[c]
      PROVE  Cleaned(c)
  BY <1>1, <1>2 DEF CleanupInv, LocalCleanup, MayBeCut, Cleaned
<1>3. ASSUME answer'[c] = "none" PROVE Cleaned(c)
  BY <1>3 DEF Cleaned
<1>4. CASE EnsureImage
  <2>1. PICK out \in Outcomes :
          /\ Query(out, CallDone)
          /\ IF out = "ok" THEN Goto("create") ELSE Return("error")
    BY <1>4 DEF EnsureImage
  <2>2. faults = 0 /\ containers' = containers /\ at = "image"
    BY <1>4, <2>1, FaultsGrow DEF EnsureImage, Query, localVars
  <2>3. containers[call] = "none"
    BY <2>2 DEF CallInv, PlaceInv
  <2>4. c # call => answer'[c] = answer[c]
    BY <1>0, <2>1 DEF Goto, Return
  <2> QED BY <1>2, <2>2, <2>3, <2>4 DEF Cleaned
<1>5. CASE CreateContainer
  <2>1. PICK out \in Outcomes :
          /\ Request(out, CallDone)
          /\ containers' = IF Applied(out)
                           THEN [containers EXCEPT ![call] = "created"]
                           ELSE containers
          /\ IF out = "ok" THEN Goto("start") ELSE Return("error")
    BY <1>5 DEF CreateContainer
  <2>2. /\ faults = 0 /\ at = "create" /\ out \in {"ok", "error", "lost"}
        /\ out = "lost" => CallDone
    BY <1>5, <2>1, RequestCut DEF CreateContainer
  <2>3. /\ call \in Call /\ answer[call] = "none"
        /\ containers[call] = "none"
    BY <1>0, <2>2 DEF CallInv, PlaceInv
  <2>4. CASE c # call
    <3>1. answer'[c] = answer[c] /\ containers'[c] = containers[c]
      BY <1>0, <2>1, <2>4 DEF Goto, Return
    <3> QED BY <1>2, <2>2, <3>1
  <2>5. CASE c = call /\ out = "ok"
    BY <1>3, <2>1, <2>3, <2>5 DEF Goto
  <2>6. CASE c = call /\ out = "error"
    BY <2>1, <2>3, <2>6 DEF Applied, Cleaned
  <2>7. CASE c = call /\ out = "lost"
    <3>1. containers'[c] = "created" /\ answer'[c] = "error"
      BY <1>0, <2>1, <2>7 DEF Applied, Return
    <3>2. MayBeCut(c)'
      BY <1>1, <2>2, <2>7 DEF CallDone, CleanupInv, DeadlineKnown, MayBeCut
    <3> QED BY <3>1, <3>2 DEF Cleaned
  <2> QED BY <2>2, <2>4, <2>5, <2>6, <2>7
<1>6. CASE StartContainer
  <2>1. PICK out \in Outcomes :
          /\ Request(out, CallDone)
          /\ containers' = IF Applied(out)
                           THEN [containers EXCEPT ![call] = "running"]
                           ELSE containers
          /\ IF out = "ok" THEN Goto("wait") ELSE Settle("remove", "error")
    BY <1>6 DEF StartContainer, StartOr
  <2>2. faults = 0 /\ at = "start" /\ answer' = answer
    BY <1>6, <2>1, RequestCut DEF StartContainer, StartOr, Goto, Settle
  <2>3. CASE c = call
    BY <1>0, <1>3, <2>2, <2>3
  <2>4. CASE c # call
    BY <1>0, <1>2, <2>1, <2>2, <2>4
  <2> QED BY <2>3, <2>4
<1>7. CASE WaitStatus
  BY <1>2, <1>7 DEF WaitStatus, Settle, localVars
<1>8. CASE WaitError
  BY <1>2, <1>8, FaultsGrow DEF WaitError, Settle, localVars, Query
<1>9. CASE KillContainer
  <2>1. /\ answer' = answer /\ faults' = faults /\ at = "remove"
        /\ containers' = [containers EXCEPT ![call] = "exited"]
    BY <1>9 DEF KillContainer, ContainerEnded
  <2>2. CASE c = call
    BY <1>0, <1>3, <2>1, <2>2
  <2>3. CASE c # call
    BY <1>0, <1>2, <2>1, <2>3
  <2> QED BY <2>2, <2>3
<1>10. CASE RemoveContainer
  <2>1. PICK out \in Outcomes :
          /\ Statement(out, FALSE)
          /\ containers' = IF Applied(out)
                           THEN [containers EXCEPT ![call] = "removed"]
                           ELSE containers
    BY <1>10 DEF RemoveContainer, RemoveUnder
  <2>2. faults = 0 /\ out = "ok"
    BY <2>1, FaultsGrow
  <2>3. containers' = [containers EXCEPT ![call] = "removed"]
    BY <2>1, <2>2 DEF Applied
  <2>4. at = "remove" /\ (c # call => answer'[c] = answer[c])
    BY <1>0, <1>10 DEF RemoveContainer, RemoveUnder, Return
  <2>5. CASE c = call
    BY <1>0, <2>3, <2>5 DEF Cleaned
  <2>6. CASE c # call
    BY <1>0, <1>2, <2>2, <2>3, <2>4, <2>6
  <2> QED BY <2>5, <2>6
<1> QED
  BY <1>4, <1>5, <1>6, <1>7, <1>8, <1>9, <1>10 DEF LocalStep

LEMMA CleanupOutside ==
  ASSUME CallInv, LocalCleanup, OutsideStep
  PROVE  LocalCleanup'
<1>0. faults \in Nat /\ UNCHANGED <<wired, ctxDone>>
      /\ containers \in [Call -> ContainerState]
  BY DEF CallInv, RunnerTypeOK, WorldInv, OutsideStep, processVars
<1>1. CASE DockerStep
  <2>1. PICK c \in Call : ContainerExits(c)
    BY <1>1 DEF DockerStep
  <2>2. /\ containers[c] = "running" /\ UNCHANGED <<faults, answer, timed>>
        /\ \A d \in Call : d # c => containers'[d] = containers[d]
    BY <1>0, <2>1 DEF ContainerExits, ContainerEnded
  <2> QED BY <1>0, <2>2 DEF LocalCleanup, MayBeCut
<1>2. CASE ClusterStep /\ UNCHANGED localVars
  <2>1. UNCHANGED <<answer, timed, containers>> /\ (faults' = 0 => faults = 0)
    <3>1. CASE \E c \in Call : PodKilled(c)
      BY <1>0, <1>2, <3>1 DEF PodKilled, ContainerEnded, localVars
    <3>2. CASE \E c \in Call : \/ PodStarts(c) \/ PodEnds(c) \/ JobFinishes(c)
                              \/ JobDeadline(c) \/ JobExpires(c)
      BY <1>2, <3>2 DEF PodStarts, PodEnds, ContainerEnded, JobFinishes,
                        JobDeadline, DeadlineOf, JobExpires, callVars, localVars
    <3>3. CASE WatchCloses
      BY <1>2, <3>3 DEF WatchCloses, callVars, localVars
    <3> QED BY <1>2, <3>1, <3>2, <3>3 DEF ClusterStep
  <2> QED BY <1>0, <2>1, CleanupFrame
<1> QED BY <1>1, <1>2 DEF OutsideStep

\* A deadline is one of the current call.
LEMMA DeadlineNext == CallInv /\ DeadlineKnown /\ [Next]_vars => DeadlineKnown'
<1> SUFFICES ASSUME CallInv, DeadlineKnown, [Next]_vars PROVE DeadlineKnown'
  OBVIOUS
<1>1. ASSUME UNCHANGED <<wired, expired, call, timed>> PROVE DeadlineKnown'
  BY <1>1 DEF DeadlineKnown
<1>2. CASE UNCHANGED vars
  BY <1>1, <1>2 DEF vars, runnerVars, callVars, localVars, processVars
<1>3. CASE \/ MainStart \/ MainStop \/ MainStopped \/ HealthReturns
           \/ \E g \in workers : WorkerReturns(g)
           \/ \E g \in Others : OtherCall(g)
           \/ Interrupt
  BY <1>1, <1>3
     DEF MainStart, MainStop, MainStopped, HealthReturns, WorkerReturns,
         OtherCall, Interrupt, runnerVars, callVars, localVars, processVars
<1>4. CASE EngineStep
  <2>1. CASE \E i \in DOMAIN loops : LoopExecute(i)
             /\ UNCHANGED <<ctxDone, engineVars, processVars>>
    BY <2>1 DEF LoopExecute, ExecuteLocal, processVars, DeadlineKnown
  <2>2. CASE UNCHANGED <<ctxDone, runnerVars, wired>>
    BY <1>1, <2>2 DEF runnerVars, callVars, localVars
  <2> QED BY <1>4, <2>1, <2>2 DEF EngineStep, EngineOnly
<1>5. CASE RunnerStep
  <2>1. CASE wired = "local" /\ LocalStep
    <3>1. UNCHANGED <<expired, call, timed>>
      BY <2>1
         DEF LocalStep, EnsureImage, CreateContainer, StartContainer, StartOr,
             WaitStatus, WaitError, KillContainer, RemoveContainer, RemoveUnder,
             Goto, Settle, Return, ContainerEnded, localVars
    <3> QED BY <1>1, <1>5, <3>1 DEF RunnerStep, processVars
  <2>2. CASE wired = "k8s"
    BY <1>5, <2>2 DEF RunnerStep, processVars, DeadlineKnown
  <2> QED BY <1>5, <2>1, <2>2 DEF RunnerStep
<1>6. CASE RunnerDeadline
  BY <1>6 DEF RunnerDeadline, LocalDeadline, callVars, processVars, DeadlineKnown
<1>7. CASE OutsideStep
  <2>1. CASE DockerStep
    BY <1>1, <1>7, <2>1
       DEF OutsideStep, DockerStep, ContainerExits, ContainerEnded, processVars
  <2>2. CASE ClusterStep /\ UNCHANGED localVars
    <3>1. UNCHANGED <<call, timed>>
      BY <2>2 DEF ClusterStep, PodKilled, PodStarts, PodEnds, ContainerEnded,
                  JobFinishes, JobDeadline, DeadlineOf, JobExpires, WatchCloses,
                  callVars
    <3> QED BY <1>1, <1>7, <2>2, <3>1 DEF OutsideStep, localVars, processVars
  <2> QED BY <1>7, <2>1, <2>2 DEF OutsideStep
<1> QED BY <1>2, <1>3, <1>4, <1>5, <1>6, <1>7 DEF Next

\* An engine's or main's step leaves what calls have answered and the
\* containers alone.
LEMMA CleanupNext == CallInv /\ CleanupInv /\ [Next]_vars => CleanupInv'
<1> SUFFICES ASSUME CallInv, CleanupInv, [Next]_vars PROVE LocalCleanup'
  BY DeadlineNext DEF CleanupInv
<1>0. LocalCleanup
  BY DEF CleanupInv
<1>1. CASE UNCHANGED vars
  BY <1>0, <1>1, CleanupFrame DEF vars, runnerVars, callVars, localVars, processVars
<1>2. CASE \/ MainStart \/ MainStop \/ MainStopped \/ HealthReturns
           \/ \E g \in workers : WorkerReturns(g)
           \/ \E g \in Others : OtherCall(g)
           \/ Interrupt
  BY <1>0, <1>2, CleanupFrame
     DEF MainStart, MainStop, MainStopped, HealthReturns, WorkerReturns,
         OtherCall, Interrupt, runnerVars, callVars, localVars, processVars
<1>3. CASE EngineStep
  <2>1. CASE \E i \in DOMAIN loops : LoopExecute(i)
             /\ UNCHANGED <<ctxDone, engineVars, processVars>>
    <3>1. /\ UNCHANGED <<wired, ctxDone, faults, answer, containers>>
          /\ timed \subseteq timed'
      BY <2>1
         DEF LoopExecute, ExecuteLocal, ExecuteJob, Invoke, localVars, processVars
    <3> QED BY <1>0, <3>1, CleanupFrame
  <2>2. CASE UNCHANGED <<ctxDone, runnerVars, wired>>
    BY <1>0, <2>2, CleanupFrame DEF runnerVars, callVars, localVars
  <2> QED BY <1>3, <2>1, <2>2 DEF EngineStep, EngineOnly
<1>4. CASE RunnerStep
  <2>1. CASE wired = "local"
    BY <1>4, <2>1, CleanupLocal DEF RunnerStep, processVars
  <2>2. CASE wired # "local"
    BY <1>4, <2>2 DEF RunnerStep, processVars, LocalCleanup
  <2> QED BY <2>1, <2>2
<1>5. CASE RunnerDeadline
  BY <1>0, <1>5, CleanupFrame
     DEF RunnerDeadline, LocalDeadline, callVars, processVars
<1>6. CASE OutsideStep
  BY <1>0, <1>6, CleanupOutside
<1> QED BY <1>1, <1>2, <1>3, <1>4, <1>5, <1>6 DEF Next

\* A call of the local runner that no request failed, other than by the end of
\* its context, leaves no container, or only one that was never started,
\* because the context ended while ContainerCreate was in flight and its id did
\* not arrive (local/runner.go, the deferred removal of Execute).
THEOREM NothingLeftBehind == Spec => []LocalCleanup
<1>1. Init => CleanupInv
  BY DEF Init, RunnerInit, LocalInit, LocalCleanup, DeadlineKnown, CleanupInv
<1>2. CleanupInv => LocalCleanup
  BY DEF CleanupInv
<1> QED BY <1>1, <1>2, CallsKept, CleanupNext, PTL DEF Spec

-----------------------------------------------------------------------------
(* What the Kubernetes runner takes for the end of a Job                     *)

\* The parts of ExitInv that a step of a call may disturb.
JobsStop == \A c \in Call : jobs[c].cond # "none" => jobs[c].pod # "running"

EventsTell ==
  /\ events \in Seq(Condition \cup {"error"})
  /\ at # "select" => ~watching /\ events = <<>>
  /\ \A i \in DOMAIN events :
       events[i] \in {"complete", "failed"} => jobs[call].cond # "none"
  /\ at \in {"code", "logs"} => jobs[call].cond # "none"

LEMMA ExitParts == ExitInv = (CallInv /\ JobsStop /\ EventsTell /\ ExitCodeMeansEnded)
BY DEF ExitInv, JobsStop, EventsTell

LEMMA ExitInit == Init => ExitInv
<1> SUFFICES ASSUME Init PROVE ExitInv
  OBVIOUS
<1>1. CallInv
  BY InitCallInv
<1>2. JobsStop /\ EventsTell /\ ExitCodeMeansEnded
  BY DEF Init, RunnerInit, K8sInit, NoJob, JobsStop, EventsTell, ExitCodeMeansEnded
<1> QED BY <1>1, <1>2, ExitParts

\* No Job, no event and no answer changes, and the call stays out of the places
\* that a Job's end leads to.
LEMMA ExitFrame ==
  ASSUME ExitInv, UNCHANGED <<wired, jobs, watching, events>>,
         \/ UNCHANGED <<at, call, answer>>
         \/ /\ at # "select" /\ at' \notin {"select", "code", "logs"}
            /\ \A c \in Call : answer'[c] = answer[c] \/ wired = "local"
                                \/ answer'[c] \notin {"success", "nonzero"}
  PROVE  JobsStop' /\ EventsTell' /\ ExitCodeMeansEnded'
<1>1. JobsStop' /\ ExitCodeMeansEnded'
  BY DEF ExitInv, JobsStop, ExitCodeMeansEnded
<1>2. EventsTell'
  BY DEF ExitInv, EventsTell
<1> QED BY <1>1, <1>2

\* One Job changes, and its condition is not taken back.
LEMMA ExitJob ==
  ASSUME ExitInv, NEW c \in Call, NEW j \in Job,
         jobs' = [jobs EXCEPT ![c] = j],
         j.cond # "none" => j.pod # "running",
         jobs[c].cond # "none" => j.cond # "none",
         UNCHANGED <<wired, at, call, answer, watching>>,
         \/ events' = events
         \/ /\ watching
            /\ \E e \in Condition : /\ events' = Append(events, e)
                                    /\ e # "none" => c = call /\ j.cond # "none"
  PROVE  JobsStop' /\ EventsTell' /\ ExitCodeMeansEnded'
<1>0. /\ jobs \in [Call -> Job] /\ JobsStop /\ EventsTell /\ ExitCodeMeansEnded
      /\ call \in 0..MaxCalls
  BY DEF ExitInv, CallInv, RunnerTypeOK, WorldInv, JobsStop, EventsTell
<1>1. /\ jobs'[c] = j
      /\ \A d \in Call : d # c => jobs'[d] = jobs[d]
  BY <1>0
<1>2. JobsStop'
  BY <1>0, <1>1 DEF JobsStop
<1>3. ExitCodeMeansEnded'
  BY <1>0, <1>1, <1>2 DEF ExitCodeMeansEnded, JobsStop
<1>4. \A d \in Call : jobs[d].cond # "none" => jobs'[d].cond # "none"
  BY <1>1
<1>5. at # "idle" => call \in Call
  BY DEF ExitInv, CallInv, AnswersInOrder
<1>6. ASSUME events' = events PROVE EventsTell'
  <2>1. events # <<>> => call \in Call
    BY <1>0, <1>5 DEF EventsTell
  <2>2. \A i \in DOMAIN events : call \in Call
    BY <1>0, <2>1 DEF EventsTell
  <2>3. \A i \in DOMAIN events :
          events[i] \in {"complete", "failed"} => jobs'[call].cond # "none"
    BY <1>0, <1>4, <2>2 DEF EventsTell
  <2>4. at \in {"code", "logs"} => jobs'[call].cond # "none"
    BY <1>0, <1>4, <1>5 DEF EventsTell
  <2>5. /\ events \in Seq(Condition \cup {"error"})
        /\ at # "select" => ~watching /\ events = <<>>
    BY <1>0 DEF EventsTell
  <2> QED BY <1>6, <2>3, <2>4, <2>5 DEF EventsTell
<1>7. ASSUME events' # events PROVE EventsTell'
  <2>1. PICK e \in Condition : /\ events' = Append(events, e)
                               /\ e # "none" => c = call /\ j.cond # "none"
    BY <1>7
  <2>2. at = "select" /\ call \in Call
    BY <1>0, <1>5, <1>7 DEF EventsTell
  <2>3. /\ events \in Seq(Condition \cup {"error"})
        /\ e \in Condition \cup {"error"}
    BY <1>0 DEF EventsTell
  <2>4. /\ events' \in Seq(Condition \cup {"error"})
        /\ DOMAIN events' = 1..(Len(events) + 1) /\ DOMAIN events = 1..Len(events)
        /\ Len(events) \in Nat
        /\ events'[Len(events) + 1] = e
        /\ \A i \in 1..Len(events) : events'[i] = events[i]
    BY <2>1, <2>3
  <2>5. \A i \in DOMAIN events' :
          events'[i] \in {"complete", "failed"} => jobs'[call].cond # "none"
    <3> SUFFICES ASSUME NEW i \in DOMAIN events',
                        events'[i] \in {"complete", "failed"}
                 PROVE  jobs'[call].cond # "none"
      OBVIOUS
    <3>1. CASE i = Len(events) + 1
      BY <1>1, <2>1, <2>4, <3>1
    <3>2. CASE i \in 1..Len(events)
      BY <1>0, <1>4, <2>2, <2>4, <3>2 DEF EventsTell
    <3> QED BY <2>4, <3>1, <3>2
  <2>6. at' = "select" /\ call' = call
    BY <2>2
  <2> QED BY <2>4, <2>5, <2>6 DEF EventsTell
<1> QED BY <1>2, <1>3, <1>6, <1>7

LEMMA ExitK8s ==
  ASSUME ExitInv, K8sStep, wired = "k8s", UNCHANGED wired
  PROVE  JobsStop' /\ EventsTell' /\ ExitCodeMeansEnded'
<1>0. /\ jobs \in [Call -> Job] /\ JobsStop /\ EventsTell /\ ExitCodeMeansEnded
      /\ answer \in [Call -> Answers \cup {"none"}]
      /\ at # "idle" => call \in Call
  BY DEF ExitInv, CallInv, RunnerTypeOK, WorldInv, AnswersInOrder, JobsStop,
         EventsTell
<1>1. CASE CreateJob
  <2>1. PICK out \in Outcomes :
          /\ jobs' = IF Applied(out)
                     THEN [jobs EXCEPT ![call].exists = TRUE] ELSE jobs
          /\ IF out = "ok" THEN Goto("watch") ELSE Return("error")
    BY <1>1 DEF CreateJob
  <2>2. at = "job" /\ call \in Call /\ UNCHANGED <<watching, events>>
    BY <1>0, <1>1 DEF CreateJob
  <2>3. \A d \in Call : /\ jobs'[d].cond = jobs[d].cond
                        /\ jobs'[d].pod = jobs[d].pod
    BY <1>0, <2>1 DEF Job
  <2>4. /\ at' \in {"watch", "idle"} /\ call' = call
        /\ \A d \in Call : answer'[d] \in {answer[d], "error"}
    BY <1>0, <2>1, <2>2 DEF Goto, Return
  <2>5. JobsStop' /\ ExitCodeMeansEnded'
    BY <1>0, <2>3, <2>4 DEF JobsStop, ExitCodeMeansEnded
  <2>6. EventsTell'
    BY <1>0, <2>2, <2>4 DEF EventsTell
  <2> QED BY <2>5, <2>6
<1>2. CASE OpenWatch
  <2>1. at = "watch" /\ jobs' = jobs /\ call \in Call
    BY <1>0, <1>2 DEF OpenWatch
  <2>2. CASE /\ Goto("select") /\ watching'
             /\ events' = IF jobs[call].exists THEN <<jobs[call].cond>> ELSE <<>>
    <3>1. at' = "select" /\ UNCHANGED <<call, answer>>
      BY <2>2 DEF Goto
    <3>2. JobsStop' /\ ExitCodeMeansEnded'
      BY <1>0, <2>1, <3>1 DEF JobsStop, ExitCodeMeansEnded
    <3>3. jobs[call].cond \in Condition
      BY <1>0, <2>1 DEF Job
    <3>4. /\ events' \in Seq(Condition \cup {"error"})
          /\ \A i \in DOMAIN events' : events'[i] = jobs[call].cond
      <4>1. CASE jobs[call].exists
        BY <2>2, <3>3, <4>1
      <4>2. CASE ~jobs[call].exists
        BY <2>2, <4>2
      <4> QED BY <4>1, <4>2
    <3>5. EventsTell'
      BY <2>1, <3>1, <3>4 DEF EventsTell
    <3> QED BY <3>2, <3>5
  <2>3. CASE Return("error") /\ UNCHANGED <<watching, events>>
    <3>1. \A d \in Call : answer'[d] \in {answer[d], "error"}
      BY <1>0, <2>3 DEF Return
    <3> QED BY <2>1, <2>3, <3>1, ExitFrame DEF Return
  <2> QED BY <1>2, <2>2, <2>3 DEF OpenWatch
<1>3. ASSUME Return("error"), StopWatching, jobs' = jobs
      PROVE  JobsStop' /\ EventsTell' /\ ExitCodeMeansEnded'
  <2>1. /\ at' = "idle" /\ call' = call /\ ~watching' /\ events' = <<>>
        /\ \A d \in Call : answer'[d] \in {answer[d], "error"}
    BY <1>0, <1>3 DEF Return, StopWatching
  <2>2. JobsStop' /\ ExitCodeMeansEnded'
    BY <1>0, <1>3, <2>1 DEF JobsStop, ExitCodeMeansEnded
  <2>3. EventsTell'
    BY <2>1 DEF EventsTell
  <2> QED BY <2>2, <2>3
<1>4. CASE SelectDone
  BY <1>3, <1>4 DEF SelectDone, SelectIf
<1>5. CASE ReceiveEvent
  <2>1. /\ at = "select" /\ events # <<>> /\ jobs' = jobs /\ call \in Call
        /\ events \in Seq(Condition \cup {"error"})
    BY <1>0, <1>5 DEF ReceiveEvent, ReceiveUntil, EventsTell
  <2>2. CASE Head(events) = "error"
    BY <1>3, <1>5, <2>1, <2>2 DEF ReceiveEvent, ReceiveUntil
  <2>3. CASE Head(events) \in {"complete", "failed"}
    <3>1. Goto("code") /\ StopWatching
      BY <1>5, <2>3 DEF ReceiveEvent, ReceiveUntil
    <3>2. 1 \in DOMAIN events /\ events[1] = Head(events)
      BY <2>1
    <3>3. jobs[call].cond # "none"
      BY <1>0, <2>3, <3>2 DEF EventsTell
    <3>4. /\ at' = "code" /\ UNCHANGED <<call, answer>>
          /\ ~watching' /\ events' = <<>>
      BY <3>1 DEF Goto, StopWatching
    <3>5. JobsStop' /\ ExitCodeMeansEnded'
      BY <1>0, <2>1, <3>4 DEF JobsStop, ExitCodeMeansEnded
    <3>6. EventsTell'
      BY <2>1, <3>3, <3>4 DEF EventsTell
    <3> QED BY <3>5, <3>6
  <2>4. CASE Head(events) \notin {"error", "complete", "failed"}
    <3>1. events' = Tail(events) /\ UNCHANGED <<callVars, watching>>
      BY <1>5, <2>4 DEF ReceiveEvent, ReceiveUntil
    <3>2. UNCHANGED <<at, call, answer>>
      BY <3>1 DEF callVars
    <3>3. /\ events' \in Seq(Condition \cup {"error"})
          /\ \A i \in DOMAIN events' : i + 1 \in DOMAIN events
                                     /\ events'[i] = events[i + 1]
      BY <2>1, <3>1
    <3>4. JobsStop' /\ ExitCodeMeansEnded'
      BY <1>0, <2>1, <3>2 DEF JobsStop, ExitCodeMeansEnded
    <3>5. EventsTell'
      BY <1>0, <2>1, <3>2, <3>3 DEF EventsTell
    <3> QED BY <3>4, <3>5
  <2> QED BY <2>2, <2>3, <2>4
<1>6. CASE GetExitCode
  <2>1. /\ at = "code" /\ at' = "logs" /\ UNCHANGED <<call, answer, k8sVars>>
    BY <1>6 DEF GetExitCode, ExitCodeOr, Settle
  <2>2. UNCHANGED <<jobs, watching, events>>
    BY <2>1 DEF k8sVars
  <2>3. JobsStop' /\ ExitCodeMeansEnded'
    BY <1>0, <2>1, <2>2 DEF JobsStop, ExitCodeMeansEnded
  <2>4. EventsTell'
    BY <1>0, <2>1, <2>2 DEF EventsTell
  <2> QED BY <2>3, <2>4
<1>7. CASE GetLogs
  <2>1. /\ at = "logs" /\ at' = "idle" /\ call' = call /\ call \in Call
        /\ UNCHANGED <<jobs, watching, events>>
        /\ \A d \in Call : d # call => answer'[d] = answer[d]
    BY <1>0, <1>7 DEF GetLogs, Return, k8sVars
  <2>2. JobsStop' /\ ExitCodeMeansEnded'
    BY <1>0, <2>1 DEF JobsStop, ExitCodeMeansEnded, EventsTell
  <2>3. EventsTell'
    BY <1>0, <2>1 DEF EventsTell
  <2> QED BY <2>2, <2>3
<1> QED BY <1>1, <1>2, <1>4, <1>5, <1>6, <1>7 DEF K8sStep

\* The cluster: a condition, once there, stays, and only a Job without a running
\* pod gets one.
LEMMA ExitCluster ==
  ASSUME ExitInv, ClusterStep, UNCHANGED wired
  PROVE  JobsStop' /\ EventsTell' /\ ExitCodeMeansEnded'
<1>0. jobs \in [Call -> Job] /\ JobsStop /\ EventsTell /\ ExitCodeMeansEnded
  BY DEF ExitInv, CallInv, WorldInv, JobsStop, EventsTell
<1>1. ASSUME NEW c \in Call, PodStarts(c)
      PROVE  JobsStop' /\ EventsTell' /\ ExitCodeMeansEnded'
  <2> DEFINE j == [jobs[c] EXCEPT !.pod = "running"]
  <2>1. jobs' = [jobs EXCEPT ![c] = j] /\ j \in Job /\ j.cond = "none"
        /\ jobs[c].cond = "none"
    BY <1>0, <1>1 DEF PodStarts, Job
  <2>2. /\ UNCHANGED <<at, call, answer, watching>>
        /\ events' = events \/ (watching /\ events' = Append(events, "none"))
    BY <1>1 DEF PodStarts, Notify, callVars
  <2> HIDE DEF j
  <2> QED BY <2>1, <2>2, ExitJob DEF Condition
<1>2. ASSUME NEW c \in Call, PodEnds(c) \/ PodKilled(c)
      PROVE  JobsStop' /\ EventsTell' /\ ExitCodeMeansEnded'
  <2>1. PICK pod \in {"ended", "gone"} : jobs' = [jobs EXCEPT ![c].pod = pod]
    BY <1>2 DEF PodEnds, PodKilled
  <2> DEFINE j == [jobs[c] EXCEPT !.pod = pod]
  <2>2. /\ jobs' = [jobs EXCEPT ![c] = j] /\ j \in Job /\ j.pod # "running"
        /\ j.cond = jobs[c].cond
    BY <1>0, <2>1 DEF Job
  <2>3. UNCHANGED <<at, call, answer, watching, events>>
    BY <1>2 DEF PodEnds, PodKilled, ContainerEnded
  <2> HIDE DEF j
  <2> QED BY <2>2, <2>3, ExitJob
<1>3. ASSUME NEW c \in Call, JobFinishes(c)
      PROVE  JobsStop' /\ EventsTell' /\ ExitCodeMeansEnded'
  <2>1. PICK cond \in {"complete", "failed"} :
          jobs' = [jobs EXCEPT ![c].cond = cond] /\ Notify(c, cond)
    BY <1>3 DEF JobFinishes
  <2> DEFINE j == [jobs[c] EXCEPT !.cond = cond]
  <2>2. /\ jobs' = [jobs EXCEPT ![c] = j] /\ j \in Job /\ j.pod # "running"
        /\ j.cond # "none"
    BY <1>0, <1>3, <2>1 DEF JobFinishes, Job, Condition
  <2>3. /\ UNCHANGED <<at, call, answer, watching>>
        /\ events' = events \/ (/\ watching /\ c = call
                              /\ events' = Append(events, cond))
    BY <1>3, <2>1 DEF JobFinishes, Notify, callVars
  <2> HIDE DEF j
  <2> QED BY <2>1, <2>2, <2>3, ExitJob DEF Condition
<1>4. ASSUME NEW c \in Call, JobDeadline(c)
      PROVE  JobsStop' /\ EventsTell' /\ ExitCodeMeansEnded'
  <2> DEFINE pod == CASE jobs[c].pod = "running" -> "terminating"
                      [] jobs[c].pod = "none" -> "gone"
                      [] OTHER -> jobs[c].pod
             j == [jobs[c] EXCEPT !.cond = "failed", !.pod = pod]
  <2>1. jobs' = [jobs EXCEPT ![c] = j]
    BY <1>0, <1>4 DEF JobDeadline, DeadlineOf, Job
  <2>2. j \in Job /\ j.pod # "running" /\ j.cond = "failed"
    BY <1>0 DEF Job, Condition
  <2>3. /\ UNCHANGED <<at, call, answer, watching>>
        /\ events' = events \/ (/\ watching /\ c = call
                              /\ events' = Append(events, "failed"))
    BY <1>4 DEF JobDeadline, DeadlineOf, Notify, callVars
  <2> HIDE DEF j
  <2> QED BY <2>1, <2>2, <2>3, ExitJob DEF Condition
<1>5. ASSUME NEW c \in Call, JobExpires(c)
      PROVE  JobsStop' /\ EventsTell' /\ ExitCodeMeansEnded'
  <2> DEFINE j == [jobs[c] EXCEPT !.exists = FALSE, !.pod = "gone"]
  <2>1. /\ jobs' = [jobs EXCEPT ![c] = j] /\ j \in Job /\ j.pod = "gone"
        /\ j.cond = jobs[c].cond /\ jobs[c].cond # "none"
        /\ jobs[c].cond \in Condition
    BY <1>0, <1>5 DEF JobExpires, Job
  <2>2. /\ UNCHANGED <<at, call, answer, watching>>
        /\ events' = events \/ (/\ watching /\ c = call
                              /\ events' = Append(events, jobs[c].cond))
    BY <1>5 DEF JobExpires, Notify, callVars
  <2> HIDE DEF j
  <2> QED BY <2>1, <2>2, ExitJob
<1>6. ASSUME WatchCloses
      PROVE  JobsStop' /\ EventsTell' /\ ExitCodeMeansEnded'
  <2>1. UNCHANGED <<at, call, answer, jobs>> /\ watching
        /\ events' \in {events, Append(events, "error")}
    BY <1>6 DEF WatchCloses, callVars
  <2>2. JobsStop' /\ ExitCodeMeansEnded'
    BY <1>0, <2>1 DEF JobsStop, ExitCodeMeansEnded
  <2>3. at = "select" /\ events \in Seq(Condition \cup {"error"})
    BY <1>0, <2>1 DEF EventsTell
  <2>4. /\ events' \in Seq(Condition \cup {"error"})
        /\ \A i \in DOMAIN events' :
             events'[i] = "error" \/ (i \in DOMAIN events /\ events'[i] = events[i])
    BY <2>1, <2>3
  <2>5. EventsTell'
    BY <1>0, <2>1, <2>3, <2>4 DEF EventsTell
  <2> QED BY <2>2, <2>5
<1> QED BY <1>1, <1>2, <1>3, <1>4, <1>5, <1>6 DEF ClusterStep

\* The local runner answers without a Job, and never waits for one.
LEMMA ExitLocal ==
  ASSUME ExitInv, LocalStep, wired = "local", UNCHANGED <<wired, k8sVars>>
  PROVE  JobsStop' /\ EventsTell' /\ ExitCodeMeansEnded'
<1>1. at # "select" /\ at' \notin {"select", "code", "logs"}
  BY DEF LocalStep, EnsureImage, CreateContainer, StartContainer, StartOr,
         WaitStatus, WaitError, KillContainer, RemoveContainer, RemoveUnder,
         Goto, Settle, Return, ContainerEnded
<1> QED BY <1>1, ExitFrame DEF k8sVars

LEMMA ExitNext == ExitInv /\ [Next]_vars => ExitInv'
<1>0. ExitInv /\ [Next]_vars => CallInv'
  BY NextKeeps DEF Step, ExitInv
<1> SUFFICES ASSUME ExitInv, [Next]_vars
             PROVE  JobsStop' /\ EventsTell' /\ ExitCodeMeansEnded'
  BY <1>0 DEF ExitInv, JobsStop, EventsTell
<1>1. CASE UNCHANGED vars
  BY <1>1, ExitFrame DEF vars, runnerVars, callVars, k8sVars, processVars
<1>2. CASE \/ MainStart \/ MainStop \/ MainStopped \/ HealthReturns
           \/ \E g \in workers : WorkerReturns(g)
           \/ \E g \in Others : OtherCall(g)
           \/ Interrupt
  BY <1>2, ExitFrame
     DEF MainStart, MainStop, MainStopped, HealthReturns, WorkerReturns,
         OtherCall, Interrupt, runnerVars, callVars, k8sVars, processVars
<1>3. CASE EngineStep
  <2>1. CASE \E i \in DOMAIN loops : LoopExecute(i)
             /\ UNCHANGED <<ctxDone, engineVars, processVars>>
    <3>1. /\ at = "idle" /\ at' \in {"image", "job"} /\ answer' = answer
          /\ UNCHANGED <<wired, jobs, watching, events>>
      BY <2>1 DEF LoopExecute, ExecuteLocal, ExecuteJob, Invoke, k8sVars,
                  processVars
    <3> QED BY <3>1, ExitFrame
  <2>2. CASE UNCHANGED <<ctxDone, runnerVars, wired>>
    BY <2>2, ExitFrame DEF runnerVars, callVars, k8sVars
  <2> QED BY <1>3, <2>1, <2>2 DEF EngineStep, EngineOnly
<1>4. CASE RunnerStep
  BY <1>4, ExitLocal, ExitK8s DEF RunnerStep, processVars
<1>5. CASE RunnerDeadline
  BY <1>5, ExitFrame
     DEF RunnerDeadline, LocalDeadline, callVars, k8sVars, processVars
<1>6. CASE OutsideStep
  <2>1. CASE DockerStep /\ UNCHANGED k8sVars
    <3>1. UNCHANGED <<wired, at, call, answer, jobs, watching, events>>
      BY <1>6, <2>1 DEF OutsideStep, DockerStep, ContainerExits, ContainerEnded,
                        k8sVars, processVars
    <3> QED BY <3>1, ExitFrame
  <2>2. CASE ClusterStep
    BY <1>6, <2>2, ExitCluster DEF OutsideStep, processVars
  <2> QED BY <1>6, <2>1, <2>2 DEF OutsideStep
<1> QED BY <1>1, <1>2, <1>3, <1>4, <1>5, <1>6 DEF Next

\* The Kubernetes runner reports an exit code only of a Job that has ended, and no
\* pod of it runs on (k8s/runner.go,
\* watchJobCompletion and getJobExitCode).
THEOREM ExitCodesAreFinal == Spec => []ExitCodeMeansEnded
<1>1. ExitInv => ExitCodeMeansEnded
  BY DEF ExitInv
<1> QED BY <1>1, ExitInit, ExitNext, PTL DEF Spec

=============================================================================
