----------------------------- MODULE StopProofs ------------------------------
(***************************************************************************)
(* Start and Stop of the engine: StopInv of Process is inductive, for any   *)
(* number of callers and of their calls.  With what is known of the runners *)
(* it gives the types of Process.                                           *)
(***************************************************************************)
EXTENDS RunnerProofs

LoopPlace == {"select", "poll", "ended"}

LEMMA LengthZero ==
  ASSUME NEW s \in Seq(LoopPlace), Len(s) = 0
  PROVE  s = <<>>
OBVIOUS

LEMMA OnlyOne ==
  ASSUME NEW n \in Nat, n # 0, n # 2, n <= 2
  PROVE  n = 1
OBVIOUS

LEMMA StopInit == Init => StopInv
<1> SUFFICES ASSUME Init PROVE StopInv
  OBVIOUS
<1> USE DEF Init
<1>1. /\ loops = <<>> /\ at = "idle" /\ panic = "none" /\ otherCalls = 0
      /\ main = "start" /\ ~running /\ ~stopClosed /\ ~doneClosed
      /\ \A g \in Callers : stop[g] = "no"
      /\ stop \in [Callers -> {"no", "close", "wait", "done"}]
  BY DEF RunnerInit
<1>2. OneLoop /\ CallInPoll /\ OnlyMisusePanics
  BY <1>1 DEF OneLoop, CallInPoll, OnlyMisusePanics
<1>3. ChannelInv
  BY <1>1 DEF ChannelInv
<1>4. MainAlone
  BY <1>1 DEF MainAlone, Callers
<1>5. /\ loops \in Seq(LoopPlace) /\ otherCalls \in Nat
      /\ workers = {"database", "server", "health"}
  BY <1>1
<1> QED BY <1>1, <1>2, <1>3, <1>4, <1>5 DEF StopInv, LoopPlace

\* A loop that moves leaves the others where they are.
LEMMA LoopMoves ==
  ASSUME StopInv, NEW i \in DOMAIN loops, NEW p \in LoopPlace,
         loops' = [loops EXCEPT ![i] = p]
  PROVE  /\ loops' \in Seq({"select", "poll", "ended"})
         /\ Len(loops') = Len(loops) /\ DOMAIN loops' = DOMAIN loops
         /\ loops'[i] = p
         /\ \A j \in DOMAIN loops : j # i => loops'[j] = loops[j]
         /\ (loops' # <<>>) = (loops # <<>>)
         /\ Len(loops) \in Nat /\ DOMAIN loops = 1..Len(loops)
BY DEF StopInv, LoopPlace

\* Nothing that StopInv speaks of changes, but for the place of the runner.
LEMMA StopFrame ==
  ASSUME StopInv, UNCHANGED <<engineVars, main, workers, panic, otherCalls>>,
         at' # "idle" => at # "idle"
  PROVE  StopInv'
<1>1. UNCHANGED <<running, stopClosed, doneClosed, loops, stop>>
  BY DEF engineVars
<1>2. OneLoop' /\ CallInPoll' /\ OnlyMisusePanics'
  BY <1>1 DEF StopInv, OneLoop, CallInPoll, OnlyMisusePanics
<1>3. panic = "none" => ChannelInv' /\ (otherCalls = 0 => MainAlone')
  BY <1>1 DEF StopInv, ChannelInv, MainAlone
<1> QED BY <1>1, <1>2, <1>3 DEF StopInv

-----------------------------------------------------------------------------
(* The engine's channels                                                     *)

\* What a step of the engine may leave behind when it does not panic.
Kept ==
  /\ loops' \in Seq({"select", "poll", "ended"})
  /\ stop' \in [Callers -> {"no", "close", "wait", "done"}]
  /\ running' \in BOOLEAN /\ stopClosed' \in BOOLEAN /\ doneClosed' \in BOOLEAN
  /\ OneLoop' /\ CallInPoll'

LEMMA StartKeeps ==
  ASSUME StopInv, panic = "none", StartEngine, UNCHANGED at
  PROVE  Kept /\ ChannelInv'
<1>0. /\ loops \in Seq({"select", "poll", "ended"}) /\ Len(loops) \in Nat
      /\ DOMAIN loops = 1..Len(loops) /\ ChannelInv /\ ~running
  BY DEF StopInv, StartEngine
<1>1. /\ loops' = Append(loops, "select") /\ running'
      /\ UNCHANGED <<stopClosed, doneClosed, stop>>
  BY DEF StartEngine
<1>2. /\ loops' \in Seq({"select", "poll", "ended"})
      /\ Len(loops') = Len(loops) + 1 /\ loops' # <<>>
      /\ DOMAIN loops' = 1..(Len(loops) + 1)
      /\ loops'[Len(loops) + 1] = "select"
      /\ \A i \in 1..Len(loops) : loops'[i] = loops[i]
  BY <1>0, <1>1
<1>3. Len(loops) = 0 \/ (Len(loops) = 1 /\ loops[1] = "ended" /\ stopClosed
                         /\ doneClosed)
  BY <1>0 DEF ChannelInv
<1>4. OneLoop'
  BY <1>2, <1>3 DEF OneLoop
<1>5. CallInPoll'
  BY <1>0, <1>2 DEF StopInv, CallInPoll
<1>6. ChannelInv'
  <2>1. \A g \in Callers : stop[g] \notin {"wait", "done"}
    BY <1>0 DEF ChannelInv
  <2>2. CASE Len(loops) = 0
    <3>1. loops = <<>> /\ ~doneClosed /\ ~stopClosed
      BY <1>0, <2>2 DEF ChannelInv
    <3> QED BY <1>1, <1>2, <2>1, <2>2, <3>1 DEF ChannelInv
  <2>3. CASE Len(loops) = 1
    BY <1>0, <1>1, <1>2, <1>3, <2>1, <2>3 DEF ChannelInv
  <2> QED BY <1>3, <2>2, <2>3
<1> QED BY <1>1, <1>2, <1>4, <1>5, <1>6 DEF Kept, StopInv

LEMMA EnterKeeps ==
  ASSUME StopInv, panic = "none", NEW g \in Callers, StopEnter(g), UNCHANGED at
  PROVE  Kept /\ ChannelInv'
<1>1. /\ UNCHANGED <<running, stopClosed, doneClosed, loops>> /\ running
      /\ stop' = [stop EXCEPT ![g] = "close"] /\ stop[g] = "no"
      /\ stop \in [Callers -> {"no", "close", "wait", "done"}]
  BY DEF StopEnter, StopInv
<1>2. \A h \in Callers : stop'[h] = IF h = g THEN "close" ELSE stop[h]
  BY <1>1
<1>3. OneLoop' /\ CallInPoll'
  BY <1>1 DEF StopInv, OneLoop, CallInPoll
<1>4. ChannelInv'
  BY <1>1, <1>2 DEF StopInv, ChannelInv
<1> QED BY <1>1, <1>3, <1>4 DEF Kept, StopInv

LEMMA CloseKeeps ==
  ASSUME StopInv, panic = "none", NEW g \in Callers, StopClose(g), UNCHANGED at
  PROVE  Kept /\ (panic' = "none" => ~stopClosed /\ ChannelInv')
<1>1. /\ UNCHANGED <<running, doneClosed, loops>> /\ stop[g] = "close"
      /\ stop' = [stop EXCEPT ![g] = "wait"] /\ stopClosed'
      /\ stop \in [Callers -> {"no", "close", "wait", "done"}]
      /\ panic' = IF stopClosed THEN "stopCh" ELSE panic
  BY DEF StopClose, StopInv
<1>2. \A h \in Callers : stop'[h] = IF h = g THEN "wait" ELSE stop[h]
  BY <1>1
<1>3. OneLoop' /\ CallInPoll'
  BY <1>1 DEF StopInv, OneLoop, CallInPoll
<1>4. ASSUME ~stopClosed PROVE ChannelInv'
  <2>1. /\ running /\ loops # <<>> /\ Len(loops) \in Nat /\ Len(loops) <= 2
        /\ Len(loops) # 2
        /\ \A h \in Callers : stop[h] \notin {"wait", "done"}
    BY <1>1, <1>4 DEF StopInv, ChannelInv
  <2>2. Len(loops) = 1
    <3>1. loops \in Seq(LoopPlace)
      BY DEF StopInv, LoopPlace
    <3>2. Len(loops) # 0
      BY <2>1, <3>1, LengthZero
    <3>3. Len(loops) \in Nat /\ Len(loops) <= 2 /\ Len(loops) # 2
      BY <2>1
    <3> QED BY <3>2, <3>3, OnlyOne
  <2>3. doneClosed <=> loops # <<>> /\ loops[1] = "ended"
    BY DEF StopInv, ChannelInv
  <2>4. \A h \in Callers : stop'[h] \in {"wait", "done"} => h = g
    BY <1>2, <2>1
  <2>5. \A h \in Callers : stop'[h] # "done"
    BY <1>2, <2>1
  <2> QED BY <1>1, <2>1, <2>2, <2>3, <2>4, <2>5 DEF ChannelInv
<1> QED BY <1>1, <1>3, <1>4 DEF Kept, StopInv

LEMMA WaitKeeps ==
  ASSUME StopInv, panic = "none", NEW g \in Callers, StopWait(g), UNCHANGED at
  PROVE  Kept /\ ChannelInv'
<1>1. /\ UNCHANGED <<running, stopClosed, doneClosed, loops>> /\ doneClosed
      /\ stop' = [stop EXCEPT ![g] = "done"] /\ stop[g] = "wait"
      /\ stop \in [Callers -> {"no", "close", "wait", "done"}]
  BY DEF StopWait, StopInv
<1>2. \A h \in Callers : stop'[h] = IF h = g THEN "done" ELSE stop[h]
  BY <1>1
<1>3. OneLoop' /\ CallInPoll'
  BY <1>1 DEF StopInv, OneLoop, CallInPoll
<1>4. ChannelInv'
  BY <1>1, <1>2 DEF StopInv, ChannelInv
<1> QED BY <1>1, <1>3, <1>4 DEF Kept, StopInv

LEMMA ReturnKeeps ==
  ASSUME StopInv, panic = "none", NEW g \in Callers, StopReturn(g), UNCHANGED at
  PROVE  Kept /\ ChannelInv'
<1>1. /\ UNCHANGED <<stopClosed, doneClosed, loops>> /\ ~running'
      /\ running' \in BOOLEAN
      /\ stop' = [stop EXCEPT ![g] = "no"] /\ stop[g] = "done"
      /\ stop \in [Callers -> {"no", "close", "wait", "done"}]
  BY DEF StopReturn, StopInv
<1>2. \A h \in Callers : stop'[h] = IF h = g THEN "no" ELSE stop[h]
  BY <1>1
<1>3. OneLoop' /\ CallInPoll'
  BY <1>1 DEF StopInv, OneLoop, CallInPoll
<1>4. /\ stopClosed /\ doneClosed /\ Len(loops) = 1 /\ loops # <<>>
      /\ \A h \in Callers : h # g => stop[h] \notin {"wait", "done"}
  BY <1>1 DEF StopInv, ChannelInv
<1>5. ChannelInv'
  BY <1>1, <1>2, <1>4 DEF StopInv, ChannelInv
<1> QED BY <1>1, <1>3, <1>5 DEF Kept, StopInv

\* The loop returns: once, or the process panics.
LEMMA LoopReturnKeeps ==
  ASSUME StopInv, panic = "none", NEW i \in DOMAIN loops, LoopReturn(i),
         UNCHANGED at
  PROVE  Kept /\ (panic' = "none" => ChannelInv')
         /\ (panic' # "none" => Len(loops) = 2)
<1>1. /\ UNCHANGED <<running, stopClosed, stop>> /\ loops[i] = "select"
      /\ loops' = [loops EXCEPT ![i] = "ended"] /\ doneClosed'
      /\ doneClosed' \in BOOLEAN
      /\ panic' = IF doneClosed THEN "doneCh" ELSE panic
  BY DEF LoopReturn
<1>2. /\ loops' \in Seq({"select", "poll", "ended"})
      /\ Len(loops') = Len(loops) /\ DOMAIN loops' = DOMAIN loops
      /\ loops'[i] = "ended"
      /\ \A j \in DOMAIN loops : j # i => loops'[j] = loops[j]
      /\ (loops' # <<>>) = (loops # <<>>)
      /\ Len(loops) \in Nat /\ DOMAIN loops = 1..Len(loops)
  BY <1>1, LoopMoves DEF LoopPlace
<1>3. OneLoop'
  BY <1>2 DEF StopInv, OneLoop
<1>4. CallInPoll'
  BY <1>1, <1>2 DEF StopInv, CallInPoll
<1>5. Len(loops) \in {1, 2} /\ (~doneClosed => Len(loops) = 1)
      /\ (doneClosed => Len(loops) = 2)
  BY <1>1, <1>2 DEF StopInv, ChannelInv
<1>6. ASSUME ~doneClosed PROVE ChannelInv'
  <2>1. Len(loops) = 1 /\ i \in 1..Len(loops)
    BY <1>2, <1>5, <1>6
  <2>2. i = 1 /\ loops # <<>>
    BY <2>1
  <2> QED BY <1>1, <1>2, <1>6, <2>1, <2>2 DEF StopInv, ChannelInv
<1> QED BY <1>1, <1>2, <1>3, <1>4, <1>5, <1>6 DEF Kept, StopInv

\* A tick, or the end of a poll.
LEMMA LoopPollKeeps ==
  ASSUME StopInv, panic = "none", NEW i \in DOMAIN loops,
         LoopTick(i) \/ LoopPolled(i), UNCHANGED at
  PROVE  Kept /\ ChannelInv'
<1>1. /\ UNCHANGED <<running, stopClosed, doneClosed, stop>>
      /\ \E p \in {"select", "poll"} :
           /\ loops' = [loops EXCEPT ![i] = p]
           /\ at # "idle" => p = "poll"
      /\ loops[i] \in {"select", "poll"}
  BY DEF LoopTick, LoopPolled
<1>2. PICK p \in {"select", "poll"} :
        /\ loops' = [loops EXCEPT ![i] = p]
        /\ at # "idle" => p = "poll"
  BY <1>1
<1>3. /\ loops' \in Seq({"select", "poll", "ended"})
      /\ Len(loops') = Len(loops) /\ DOMAIN loops' = DOMAIN loops
      /\ loops'[i] = p
      /\ \A j \in DOMAIN loops : j # i => loops'[j] = loops[j]
      /\ (loops' # <<>>) = (loops # <<>>)
      /\ Len(loops) \in Nat /\ DOMAIN loops = 1..Len(loops)
  BY <1>2, LoopMoves DEF LoopPlace
<1>4. OneLoop'
  BY <1>1, <1>3 DEF StopInv, OneLoop
<1>5. CallInPoll'
  BY <1>2, <1>3 DEF CallInPoll
<1>6. (loops' # <<>> /\ loops'[1] = "ended") = (loops # <<>> /\ loops[1] = "ended")
  BY <1>1, <1>3
<1>7. Len(loops) = 2 => loops'[2] # "ended"
  BY <1>3 DEF StopInv, ChannelInv
<1>8. ChannelInv'
  BY <1>1, <1>3, <1>6, <1>7 DEF StopInv, ChannelInv
<1> QED BY <1>1, <1>3, <1>4, <1>5, <1>8 DEF Kept, StopInv


\* From what a step keeps to StopInv.
LEMMA Gather ==
  ASSUME StopInv, Kept, OnlyMisusePanics',
         panic' = "none" => ChannelInv' /\ (otherCalls' = 0 => MainAlone'),
         main' \in {"start", "serve", "stop", "wait"},
         workers' \subseteq {"database", "server", "health"},
         otherCalls' \in Nat
  PROVE  StopInv'
BY DEF Kept, StopInv

-----------------------------------------------------------------------------
(* main alone                                                                *)

LEMMA AloneFrame ==
  ASSUME MainAlone, UNCHANGED <<main, running, stopClosed, stop>>,
         Len(loops') = Len(loops), (loops' # <<>>) = (loops # <<>>)
  PROVE  MainAlone'
BY DEF MainAlone

LEMMA LoopAlone ==
  ASSUME StopInv, panic = "none", otherCalls = 0, UNCHANGED main,
         NEW i \in DOMAIN loops,
         LoopReturn(i) \/ LoopTick(i) \/ LoopPolled(i)
  PROVE  MainAlone' /\ Len(loops) # 2
<1>1. /\ UNCHANGED <<running, stopClosed, stop>>
      /\ \E p \in LoopPlace : loops' = [loops EXCEPT ![i] = p]
  BY DEF LoopReturn, LoopTick, LoopPolled, LoopPlace
<1>2. MainAlone
  BY DEF StopInv
<1>3. Len(loops') = Len(loops) /\ (loops' # <<>>) = (loops # <<>>)
  BY <1>1, LoopMoves
<1>4. Len(loops) # 2
  <2>1. CASE main = "start"
    BY <1>2, <2>1 DEF MainAlone
  <2>2. CASE main # "start"
    BY <1>2, <2>2 DEF MainAlone
  <2> QED BY <2>1, <2>2
<1> QED BY <1>1, <1>2, <1>3, <1>4, AloneFrame

LEMMA StopAlone ==
  ASSUME StopInv, panic = "none", otherCalls = 0, UNCHANGED main,
         NEW g \in Callers, StopClose(g) \/ StopWait(g)
  PROVE  MainAlone' /\ (StopClose(g) => ~stopClosed)
<1>1. /\ UNCHANGED <<running, loops>> /\ stop[g] \in {"close", "wait"}
      /\ \E p \in {"wait", "done"} : stop' = [stop EXCEPT ![g] = p]
      /\ stop \in [Callers -> {"no", "close", "wait", "done"}]
      /\ StopClose(g) => stop[g] = "close"
  BY DEF StopClose, StopWait, StopInv
<1>2. MainAlone
  BY DEF StopInv
<1>3. g = Main /\ main = "stop"
  BY <1>1, <1>2 DEF MainAlone, Callers, StopInv
<1>4. /\ \A h \in Others : stop'[h] = stop[h]
      /\ stop'[Main] \in {"wait", "done"}
  BY <1>1, <1>3, ProcessAssumption DEF Callers
<1> QED BY <1>1, <1>2, <1>3, <1>4 DEF MainAlone

-----------------------------------------------------------------------------
(* The steps                                                                 *)

LEMMA EngineKeeps ==
  ASSUME StopInv, panic = "none", UNCHANGED <<at, main, workers, otherCalls>>,
         \/ \E g \in Callers : StopClose(g) \/ StopWait(g)
         \/ \E g \in Others : StopReturn(g)
         \/ \E i \in DOMAIN loops : LoopReturn(i) \/ LoopTick(i) \/ LoopPolled(i)
  PROVE  StopInv'
<1>0. /\ main' \in {"start", "serve", "stop", "wait"}
      /\ workers' \subseteq {"database", "server", "health"}
      /\ otherCalls' \in Nat /\ otherCalls' = otherCalls
  BY DEF StopInv
<1>1. ASSUME NEW g \in Callers, StopClose(g) PROVE StopInv'
  <2>1. Kept /\ (panic' = "none" => ChannelInv')
    BY <1>1, CloseKeeps
  <2>2. otherCalls = 0 => MainAlone' /\ ~stopClosed
    BY <1>1, StopAlone
  <2>3. OnlyMisusePanics'
    BY <1>0, <1>1, <2>2 DEF StopClose, OnlyMisusePanics, StopInv
  <2> QED BY <1>0, <2>1, <2>2, <2>3, Gather
<1>2. ASSUME NEW g \in Callers, StopWait(g) PROVE StopInv'
  <2>1. Kept /\ ChannelInv'
    BY <1>2, WaitKeeps
  <2>2. otherCalls = 0 => MainAlone'
    BY <1>2, StopAlone
  <2>3. OnlyMisusePanics'
    BY <1>2 DEF StopWait, OnlyMisusePanics
  <2> QED BY <1>0, <2>1, <2>2, <2>3, Gather
<1>3. ASSUME NEW g \in Others, StopReturn(g) PROVE StopInv'
  <2>1. Kept /\ ChannelInv'
    BY <1>3, ReturnKeeps DEF Callers
  <2>2. otherCalls # 0
    BY <1>3 DEF StopReturn, StopInv, MainAlone
  <2>3. OnlyMisusePanics'
    BY <1>3 DEF StopReturn, OnlyMisusePanics
  <2> QED BY <1>0, <2>1, <2>2, <2>3, Gather
<1>4. ASSUME NEW i \in DOMAIN loops, LoopReturn(i) PROVE StopInv'
  <2>1. /\ Kept /\ (panic' = "none" => ChannelInv')
        /\ (panic' # "none" => Len(loops) = 2)
    BY <1>4, LoopReturnKeeps
  <2>2. otherCalls = 0 => MainAlone' /\ Len(loops) # 2
    BY <1>4, LoopAlone
  <2>3. OnlyMisusePanics'
    BY <1>0, <2>1, <2>2 DEF OnlyMisusePanics, StopInv
  <2> QED BY <1>0, <2>1, <2>2, <2>3, Gather
<1>5. ASSUME NEW i \in DOMAIN loops, LoopTick(i) \/ LoopPolled(i)
      PROVE  StopInv'
  <2>1. Kept /\ ChannelInv'
    BY <1>5, LoopPollKeeps
  <2>2. otherCalls = 0 => MainAlone'
    BY <1>5, LoopAlone
  <2>3. OnlyMisusePanics'
    BY <1>5 DEF LoopTick, LoopPolled, OnlyMisusePanics
  <2> QED BY <1>0, <2>1, <2>2, <2>3, Gather
<1> QED BY <1>1, <1>2, <1>3, <1>4, <1>5

LEMMA MainKeeps ==
  ASSUME StopInv, panic = "none", MainStart \/ MainStop \/ MainStopped
  PROVE  StopInv'
<1>0. /\ UNCHANGED <<at, workers, otherCalls>>
      /\ workers \subseteq {"database", "server", "health"}
      /\ otherCalls \in Nat
  BY DEF MainStart, MainStop, MainStopped, runnerVars, callVars, StopInv
<1>1. CASE MainStart /\ StartEngine
  <2>1. Kept /\ ChannelInv'
    BY <1>0, <1>1, StartKeeps
  <2>2. main = "start" /\ main' = "serve" /\ UNCHANGED panic
    BY <1>1 DEF MainStart, StartEngine
  <2>3. otherCalls = 0 => MainAlone'
    <3> SUFFICES ASSUME otherCalls = 0 PROVE MainAlone'
      OBVIOUS
    <3>1. MainAlone /\ loops = <<>>
      BY <2>2 DEF StopInv, MainAlone
    <3>2. Len(loops') = 1 /\ running' /\ UNCHANGED <<stop, stopClosed>>
      BY <1>1, <3>1 DEF StartEngine
    <3> QED BY <2>2, <3>1, <3>2 DEF MainAlone
  <2>4. OnlyMisusePanics'
    BY <2>2 DEF OnlyMisusePanics
  <2> QED BY <1>0, <2>1, <2>2, <2>3, <2>4, Gather
<1>2. CASE MainStart /\ ~StartEngine
  <2>1. running /\ panic' = "start" /\ UNCHANGED <<main, engineVars>>
        /\ main = "start"
    BY <1>2 DEF MainStart
  <2>2. otherCalls # 0
    BY <2>1 DEF StopInv, MainAlone, ChannelInv
  <2>3. Kept
    BY <1>0, <2>1 DEF Kept, StopInv, engineVars, OneLoop, CallInPoll
  <2> QED BY <1>0, <2>1, <2>2, <2>3, Gather DEF OnlyMisusePanics
<1>3. CASE MainStop /\ StopEnter(Main)
  <2>1. Kept /\ ChannelInv'
    BY <1>0, <1>3, EnterKeeps DEF Callers
  <2>2. main = "serve" /\ main' \in {"stop", "wait"} /\ UNCHANGED panic
        /\ running
    BY <1>3 DEF MainStop, StopEnter
  <2>3. main' = "stop"
    BY <1>3, <2>2 DEF MainStop
  <2>4. otherCalls = 0 => MainAlone'
    <3> SUFFICES ASSUME otherCalls = 0 PROVE MainAlone'
      OBVIOUS
    <3>1. MainAlone /\ stop \in [Callers -> {"no", "close", "wait", "done"}]
      BY DEF StopInv
    <3>2. /\ stop' = [stop EXCEPT ![Main] = "close"]
          /\ UNCHANGED <<running, stopClosed, loops>>
      BY <1>3 DEF StopEnter
    <3>3. \A h \in Others : stop'[h] = stop[h]
      BY <3>1, <3>2, ProcessAssumption DEF Callers
    <3> QED BY <2>2, <2>3, <3>1, <3>2, <3>3 DEF MainAlone
  <2>5. OnlyMisusePanics'
    BY <2>2 DEF OnlyMisusePanics
  <2> QED BY <1>0, <2>1, <2>2, <2>3, <2>4, <2>5, Gather
<1>4. CASE MainStop /\ ~StopEnter(Main)
  <2>1. /\ ~running /\ main' = "wait" /\ main = "serve"
        /\ UNCHANGED <<engineVars, panic>>
    BY <1>4 DEF MainStop
  <2>2. otherCalls # 0
    BY <2>1 DEF StopInv, MainAlone
  <2>3. Kept /\ ChannelInv'
    BY <1>0, <2>1
       DEF Kept, StopInv, engineVars, OneLoop, CallInPoll, ChannelInv
  <2> QED BY <1>0, <2>1, <2>2, <2>3, Gather DEF OnlyMisusePanics
<1>5. CASE MainStopped
  <2>1. StopReturn(Main) /\ main = "stop" /\ main' = "wait"
        /\ UNCHANGED <<panic, stopClosed, loops>>
    BY <1>5 DEF MainStopped, StopReturn
  <2>2. Kept /\ ChannelInv'
    BY <1>0, <2>1, ReturnKeeps DEF Callers
  <2>3. otherCalls = 0 => MainAlone'
    <3> SUFFICES ASSUME otherCalls = 0 PROVE MainAlone'
      OBVIOUS
    <3>1. MainAlone /\ stop \in [Callers -> {"no", "close", "wait", "done"}]
      BY DEF StopInv
    <3>2. stop' = [stop EXCEPT ![Main] = "no"]
      BY <2>1 DEF StopReturn
    <3>3. (\A h \in Others : stop'[h] = stop[h]) /\ stop'[Main] = "no"
      BY <3>1, <3>2, ProcessAssumption DEF Callers
    <3> QED BY <2>1, <3>1, <3>3 DEF MainAlone
  <2>4. OnlyMisusePanics'
    BY <2>1 DEF OnlyMisusePanics
  <2> QED BY <1>0, <2>1, <2>2, <2>3, <2>4, Gather
<1> QED BY <1>1, <1>2, <1>3, <1>4, <1>5

LEMMA OtherKeeps ==
  ASSUME StopInv, panic = "none", NEW g \in Others, OtherCall(g)
  PROVE  StopInv'
<1>1. /\ UNCHANGED <<at, main, workers, panic>>
      /\ otherCalls' = otherCalls + 1 /\ otherCalls \in Nat
      /\ main \in {"start", "serve", "stop", "wait"}
      /\ workers \subseteq {"database", "server", "health"}
  BY DEF OtherCall, runnerVars, callVars, StopInv
<1>2. Kept /\ ChannelInv'
  BY <1>1, StartKeeps, EnterKeeps DEF OtherCall, Callers
<1>3. OnlyMisusePanics'
  BY <1>1 DEF OnlyMisusePanics
<1>4. otherCalls' \in Nat /\ otherCalls' # 0
  BY <1>1
<1> QED BY <1>1, <1>2, <1>3, <1>4, Gather

\* The database, the server, the health checker and the interrupt.
LEMMA WorkerKeeps ==
  ASSUME StopInv, panic = "none",
         (\E g \in workers : WorkerReturns(g)) \/ HealthReturns \/ Interrupt
  PROVE  StopInv'
<1>1. /\ UNCHANGED <<at, engineVars, main, otherCalls>>
      /\ panic' \in {panic, "database", "server", "health"}
      /\ workers' \subseteq workers
  BY DEF WorkerReturns, HealthReturns, Interrupt, runnerVars, callVars,
         processVars, StopInv
<1>2. Kept
  BY <1>1 DEF Kept, StopInv, engineVars, OneLoop, CallInPoll
<1>3. ChannelInv' /\ (otherCalls' = 0 => MainAlone')
  BY <1>1 DEF StopInv, engineVars, ChannelInv, MainAlone
<1>4. OnlyMisusePanics'
  BY <1>1 DEF OnlyMisusePanics
<1> QED BY <1>1, <1>2, <1>3, <1>4, Gather DEF StopInv

\* A step of the runner's call is one of a call that has begun.
LEMMA RunnerAt ==
  ASSUME RunnerStep
  PROVE  at # "idle"
<1>1. CASE LocalStep
  BY <1>1 DEF LocalStep, EnsureImage, CreateContainer, StartContainer, StartOr,
              WaitStatus, WaitError, KillContainer, RemoveContainer, RemoveUnder
<1>2. CASE K8sStep
  BY <1>2 DEF K8sStep, CreateJob, OpenWatch, SelectDone, SelectIf, ReceiveEvent,
              ReceiveUntil, GetExitCode, ExitCodeOr, GetLogs
<1> QED BY <1>1, <1>2 DEF RunnerStep

LEMMA OutsideAt ==
  ASSUME OutsideStep
  PROVE  UNCHANGED at
<1>1. CASE DockerStep
  BY <1>1 DEF DockerStep, ContainerExits, ContainerEnded
<1>2. CASE ClusterStep
  BY <1>2 DEF ClusterStep, PodStarts, PodEnds, PodKilled, ContainerEnded,
              JobFinishes, JobDeadline, DeadlineOf, JobExpires, WatchCloses,
              callVars
<1> QED BY <1>1, <1>2 DEF OutsideStep

LEMMA CallInThePoll ==
  ASSUME StopInv, NEW i \in DOMAIN loops, LoopExecute(i),
         UNCHANGED <<engineVars, processVars>>
  PROVE  StopInv'
<1>1. UNCHANGED <<running, stopClosed, doneClosed, loops, stop, main, workers,
                  panic, otherCalls>>
  BY DEF engineVars, processVars
<1>2. loops[i] = "poll"
  BY DEF LoopExecute
<1>3. OneLoop' /\ CallInPoll' /\ OnlyMisusePanics'
  BY <1>1, <1>2 DEF StopInv, OneLoop, CallInPoll, OnlyMisusePanics
<1>4. panic = "none" => ChannelInv' /\ (otherCalls = 0 => MainAlone')
  BY <1>1 DEF StopInv, ChannelInv, MainAlone
<1> QED BY <1>1, <1>3, <1>4 DEF StopInv

LEMMA StopNext == StopInv /\ [Next]_vars => StopInv'
<1> SUFFICES ASSUME StopInv, [Next]_vars PROVE StopInv'
  OBVIOUS
<1>1. CASE UNCHANGED vars
  BY <1>1, StopFrame DEF vars, runnerVars, callVars, processVars
<1>2. CASE OutsideStep
  BY <1>2, OutsideAt, StopFrame DEF OutsideStep, processVars
<1>3. CASE RunnerStep
  BY <1>3, RunnerAt, StopFrame DEF RunnerStep, processVars
<1>4. CASE RunnerDeadline
  BY <1>4, StopFrame DEF RunnerDeadline, LocalDeadline, callVars, processVars
<1>5. CASE panic = "none" /\ EngineStep
  <2>1. CASE \E i \in DOMAIN loops : LoopExecute(i)
             /\ UNCHANGED <<ctxDone, engineVars, processVars>>
    BY <2>1, CallInThePoll
  <2>2. CASE ~\E i \in DOMAIN loops : LoopExecute(i)
             /\ UNCHANGED <<ctxDone, engineVars, processVars>>
    <3>1. UNCHANGED <<at, main, workers, otherCalls>>
      BY <1>5, <2>2 DEF EngineStep, EngineOnly, runnerVars, callVars
    <3>2. \/ \E g \in Callers : StopClose(g) \/ StopWait(g)
          \/ \E g \in Others : StopReturn(g)
          \/ \E i \in DOMAIN loops :
               LoopReturn(i) \/ LoopTick(i) \/ LoopPolled(i)
      BY <1>5, <2>2 DEF EngineStep, EngineOnly
    <3> QED BY <1>5, <3>1, <3>2, EngineKeeps
  <2> QED BY <2>1, <2>2
<1>6. CASE panic = "none" /\ (MainStart \/ MainStop \/ MainStopped)
  BY <1>6, MainKeeps
<1>7. CASE panic = "none" /\ \E g \in Others : OtherCall(g)
  BY <1>7, OtherKeeps
<1>8. CASE panic = "none" /\ (\/ \E g \in workers : WorkerReturns(g)
                             \/ HealthReturns \/ Interrupt)
  BY <1>8, WorkerKeeps
<1> QED BY <1>1, <1>2, <1>3, <1>4, <1>5, <1>6, <1>7, <1>8 DEF Next, Up

-----------------------------------------------------------------------------

\* However Start and Stop are called, and by however many goroutines, at most
\* one pollLoop runs.
THEOREM LoopsExclude == Spec => []OneLoop
<1>1. StopInv => OneLoop
  BY DEF StopInv
<1> QED BY <1>1, StopInit, StopNext, PTL DEF Spec

\* Stop returns to nobody before the loop has returned and with it the call of
\* the runner that it was in.
THEOREM StopIsQuiet == Spec => []StopWaits
<1>1. StopInv => StopWaits
  <2> SUFFICES ASSUME StopInv, panic = "none",
                      NEW g \in Callers, stop[g] = "done"
               PROVE  /\ \A i \in DOMAIN loops : loops[i] = "ended"
                      /\ at = "idle"
    BY DEF StopWaits
  <2>1. /\ Len(loops) = 1 /\ loops[1] = "ended"
        /\ DOMAIN loops = 1..Len(loops)
    BY DEF StopInv, ChannelInv
  <2>2. \A i \in DOMAIN loops : loops[i] = "ended"
    BY <2>1
  <2> QED BY <2>2 DEF StopInv, CallInPoll
<1> QED BY <1>1, StopInit, StopNext, PTL DEF Spec

\* In a process in which only main calls Start and Stop no channel of the
\* engine is closed twice and Start does not fail.
THEOREM MainIsSafe == Spec => []OnlyMisusePanics
<1>1. StopInv => OnlyMisusePanics
  BY DEF StopInv
<1> QED BY <1>1, StopInit, StopNext, PTL DEF Spec

-----------------------------------------------------------------------------
(* Types                                                                     *)

\* What StopInv and ExitInv do not say of the types.
PlaceTypes ==
  /\ at \in {"idle"} \cup (IF wired = "local" THEN LocalPlaces ELSE K8sPlaces)
  /\ wired \in Wirings
  /\ expired \in BOOLEAN /\ watching \in BOOLEAN
  /\ panic \in Causes
  /\ otherCalls \in 0..MaxOtherCalls

LEMMA PlaceInit == Init => PlaceTypes
<1> SUFFICES ASSUME Init PROVE PlaceTypes
  OBVIOUS
<1>1. /\ at = "idle" /\ wired \in Wirings /\ ~watching
      /\ panic = "none" /\ otherCalls = 0
  BY DEF Init, RunnerInit, K8sInit
<1>2. expired = FALSE
  BY DEF Init, LocalInit
<1>3. 0 \in 0..MaxOtherCalls
  BY ProcessAssumption
<1>4. watching \in BOOLEAN
  BY DEF Init, K8sInit
<1> QED BY <1>1, <1>2, <1>3, <1>4 DEF PlaceTypes, Causes

\* The goroutines of main, of the engine and of its callers.
LEMMA PlaceProcess ==
  ASSUME PlaceTypes,
         UNCHANGED <<at, wired, expired, watching>>,
         panic' \in Causes,
         \/ otherCalls' = otherCalls
         \/ otherCalls < MaxOtherCalls /\ otherCalls' = otherCalls + 1
  PROVE  PlaceTypes'
BY ProcessAssumption DEF PlaceTypes

\* A call moves from one place of its runner to another.
LEMMA PlaceRunner ==
  ASSUME PlaceTypes, RunnerStep
  PROVE  PlaceTypes'
<1>1. UNCHANGED <<wired, panic, otherCalls>>
  BY DEF RunnerStep, processVars
<1>2. CASE wired = "local" /\ LocalStep /\ UNCHANGED k8sVars
  <2>1. at' \in {"idle"} \cup LocalPlaces
    BY <1>2 DEF LocalStep, EnsureImage, CreateContainer, StartContainer,
       StartOr, WaitStatus, WaitError, KillContainer, RemoveContainer,
       RemoveUnder, Goto, Settle, Return, ContainerEnded, LocalPlaces
  <2>2. expired' = expired /\ watching' = watching
    BY <1>2 DEF LocalStep, EnsureImage, CreateContainer, StartContainer,
       StartOr, WaitStatus, WaitError, KillContainer, RemoveContainer,
       RemoveUnder, localVars, k8sVars
  <2> QED BY <1>1, <1>2, <2>1, <2>2 DEF PlaceTypes
<1>3. CASE wired = "k8s" /\ K8sStep /\ UNCHANGED localVars
  <2>1. at' \in {"idle"} \cup K8sPlaces
    BY <1>3 DEF K8sStep, CreateJob, OpenWatch, SelectDone, SelectIf,
       ReceiveEvent, ReceiveUntil, GetExitCode, ExitCodeOr, GetLogs, Goto,
       Settle, Return, callVars, K8sPlaces
  <2>2. expired' = expired /\ watching' \in {watching, TRUE, FALSE}
    BY <1>3 DEF K8sStep, CreateJob, OpenWatch, SelectDone, SelectIf,
       ReceiveEvent, ReceiveUntil, GetExitCode, ExitCodeOr, GetLogs,
       StopWatching, localVars, k8sVars
  <2> QED BY <1>1, <1>3, <2>1, <2>2 DEF PlaceTypes
<1> QED BY <1>2, <1>3 DEF RunnerStep

\* Containers and Jobs move on without the call.
LEMMA PlaceOutside ==
  ASSUME PlaceTypes, OutsideStep
  PROVE  PlaceTypes'
<1>1. UNCHANGED <<at, wired, panic, otherCalls, expired>>
      /\ watching' \in {watching, FALSE}
  <2>1. CASE DockerStep /\ UNCHANGED k8sVars
    BY <2>1 DEF OutsideStep, DockerStep, ContainerExits, ContainerEnded,
                k8sVars, processVars
  <2>2. CASE ClusterStep /\ UNCHANGED localVars
    BY <2>2 DEF OutsideStep, ClusterStep, PodStarts, PodEnds, PodKilled,
       JobFinishes, JobDeadline, DeadlineOf, JobExpires, WatchCloses, Notify,
       ContainerEnded, callVars, localVars, processVars
  <2> QED BY <2>1, <2>2 DEF OutsideStep
<1> QED BY <1>1 DEF PlaceTypes

LEMMA PlaceNext == StopInv /\ PlaceTypes /\ [Next]_vars => PlaceTypes'
<1> SUFFICES ASSUME StopInv, PlaceTypes, [Next]_vars PROVE PlaceTypes'
  OBVIOUS
<1> USE DEF runnerVars, callVars, localVars, k8sVars, processVars
<1>1. CASE UNCHANGED vars
  BY <1>1, PlaceProcess DEF vars, PlaceTypes
<1>2. ASSUME \/ MainStart \/ MainStop \/ MainStopped
             \/ HealthReturns \/ Interrupt
      PROVE  PlaceTypes'
  <2>1. UNCHANGED <<at, wired, expired, watching, otherCalls>>
    BY <1>2 DEF MainStart, MainStop, MainStopped, HealthReturns, Interrupt
  <2>2. panic' \in {panic, "start", "health"}
    BY <1>2 DEF MainStart, MainStop, MainStopped, HealthReturns, Interrupt
  <2>3. panic' \in Causes
    BY <2>2 DEF PlaceTypes, Causes
  <2> QED BY <2>1, <2>3, PlaceProcess
<1>3. ASSUME NEW g \in workers, WorkerReturns(g)
      PROVE  PlaceTypes'
  <2>1. UNCHANGED <<at, wired, expired, watching, otherCalls>>
    BY <1>3 DEF WorkerReturns
  <2>2. panic' \in {panic, g}
    BY <1>3 DEF WorkerReturns
  <2>3. panic' \in Causes
    BY <2>2 DEF PlaceTypes, Causes, StopInv
  <2> QED BY <2>1, <2>3, PlaceProcess
<1>4. CASE \E g \in Others : OtherCall(g)
  BY <1>4, PlaceProcess DEF OtherCall, PlaceTypes
<1>5. ASSUME NEW i \in DOMAIN loops, LoopExecute(i),
             UNCHANGED <<ctxDone, engineVars, processVars>>
      PROVE  PlaceTypes'
  BY <1>5 DEF LoopExecute, ExecuteLocal, ExecuteJob, Invoke, PlaceTypes,
              LocalPlaces, K8sPlaces
<1>6. CASE EngineStep
  <2>1. CASE EngineOnly(\/ \E g \in Callers : StopClose(g) \/ StopWait(g)
                        \/ \E g \in Others : StopReturn(g)
                        \/ \E i \in DOMAIN loops :
                             LoopReturn(i) \/ LoopTick(i) \/ LoopPolled(i))
    <3>1. panic' \in Causes
      BY <2>1 DEF EngineOnly, StopClose, StopWait, StopReturn, LoopReturn,
                  LoopTick, LoopPolled, PlaceTypes, Causes
    <3> QED BY <2>1, <3>1, PlaceProcess DEF EngineOnly
  <2> QED BY <1>5, <1>6, <2>1 DEF EngineStep
<1>7. CASE RunnerDeadline
  BY <1>7 DEF RunnerDeadline, LocalDeadline, PlaceTypes
<1> QED
  BY <1>1, <1>2, <1>4, <1>6, <1>7, <1>3, PlaceRunner, PlaceOutside DEF Next

\* Every goroutine, channel, call, container and Job is in one of its states.
THEOREM ProcessTypeCorrect == Spec => []TypeOK
<1>1. ExitInv /\ StopInv /\ PlaceTypes => TypeOK
  BY DEF ExitInv, CallInv, WorldInv, StopInv, PlaceTypes, TypeOK, LocalTypeOK,
         K8sTypeOK
<1> QED
  BY ExitInit, ExitNext, StopInit, StopNext, PlaceInit, PlaceNext, <1>1, PTL
     DEF Spec

=============================================================================
