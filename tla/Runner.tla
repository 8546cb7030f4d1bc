------------------------------- MODULE Runner -------------------------------
(***************************************************************************)
(* runner.Runner as the engine sees it: Execute is called for one step at a *)
(* time, the calls are numbered, and a call ends with an answer, the Result *)
(* reduced to what processStep tells apart.  The two implementations        *)
(* (LocalRunner, K8sRunner) share the state of the call.  Each request they *)
(* send to Docker or to the Kubernetes API is done, not done, or done with  *)
(* its reply lost.                                                          *)
(***************************************************************************)
EXTENDS Database

CONSTANT MaxCalls    \* bound on the calls of Execute

ASSUME MaxCallsAssumption == MaxCalls \in Nat

VARIABLES
  ctxDone,   \* the context the engine passes is cancelled
  at,        \* where Execute is, "idle" between calls
  call,      \* number of the current call, or of the last one
  timed,     \* the calls whose step has TimeoutSeconds > 0
  result,    \* what the current call will return, once that is known
  answer,    \* what each call has returned
  ended      \* history: how the container of each call has ended

callVars == <<at, call, timed, result, answer, ended>>

Call == 1..MaxCalls

Answers == {"success", "nonzero", "error"}

Endings == {"zero", "nonzero", "killed"}

RunnerTypeOK ==
  /\ ctxDone \in BOOLEAN
  /\ call \in 0..MaxCalls
  /\ timed \subseteq Call
  /\ result \in Answers \cup {"none"}
  /\ answer \in [Call -> Answers \cup {"none"}]
  /\ ended \in [Call -> Endings \cup {"no"}]
  /\ faults \in 0..MaxFaults

RunnerInit ==
  /\ ctxDone = FALSE
  /\ at = "idle" /\ call = 0 /\ timed = {} /\ result = "none"
  /\ answer = [c \in Call |-> "none"]
  /\ ended = [c \in Call |-> "no"]
  /\ faults = 0

\* A request is a Statement of module Database, except that a context that
\* ends while it is in flight is no fault: the reply is not waited for, and
\* the request may have been carried out.
Request(out, done) ==
  \/ Statement(out, done)
  \/ done /\ out = "lost" /\ faults' = faults

\* The engine calls Execute; its first request is sent at place p.
Invoke(p) ==
  /\ at = "idle" /\ call < MaxCalls
  /\ at' = p
  /\ call' = call + 1
  /\ timed' \in {timed, timed \cup {call'}}
  /\ UNCHANGED <<result, answer, ended>>

Goto(p) == at' = p /\ UNCHANGED <<call, timed, result, answer>>

\* What is returned is settled; what is left to do before the return is at p.
Settle(p, r) ==
  /\ at' = p
  /\ result' = r
  /\ UNCHANGED <<call, timed, answer>>

\* Execute returns r.
Return(r) ==
  /\ at' = "idle"
  /\ result' = "none"
  /\ answer' = [answer EXCEPT ![call] = r]
  /\ UNCHANGED <<call, timed>>

\* The container of call c ends, in one of the given ways.
ContainerEnded(c, Ways) ==
  /\ \E how \in Ways : ended' = [ended EXCEPT ![c] = how]
  /\ UNCHANGED <<at, call, timed, result, answer>>

\* The Result of an exit code.
OfExit(how) == IF how = "zero" THEN "success" ELSE "nonzero"

=============================================================================
