----------------------------- MODULE DaemonProofs -----------------------------
(***************************************************************************)
(* Proofs about Daemon, for any number of calls in flight, rotations of    *)
(* the TLS pair and signals.                                               *)
(***************************************************************************)
EXTENDS Daemon, TLAPS

(* What each stage of run may rely on: nothing is closed before the first  *)
(* deferred close; SIGTERM is notified from before Serve until the         *)
(* deferred stop; SIGHUP is notified exactly while a daemon with TLS       *)
(* serves; and the channel is closed only after signal.Stop.               *)
Phases ==
    /\ stage \in {"load", "loadKey", "term", "hup", "serve", "hupStop", "hupClose",
                  "termStop", "recvStop"} => open = Resources
    /\ stage \in {"hup", "serve", "hupStop", "hupClose", "termStop"} => termSet
    /\ stage = "hup" => tls
    /\ tls /\ stage = "serve" => hupSet
    /\ hupSet => tls /\ stage \in {"serve", "hupStop"}
    /\ ~hupOpen => stage \in {"termStop", "recvStop", "storeClose", "weftClose",
                              "natsClose", "exit"}

(* Calls are in flight only while Serve runs, and GracefulStop has waited  *)
(* for them, unless the listener failed.                                   *)
CallsAreServed ==
    /\ rpcs # {} => stage = "serve" \/ serveErr
    /\ stopper = "done" => rpcs = {}

IInv == TypeOK /\ Phases /\ CallsAreServed /\ RPCsFinish /\ NoSendOnClosedChannel

-----------------------------------------------------------------------------
(* Helpers *)

(* A pair both halves of which are of one generation is that generation's. *)
LEMMA MatchingPair ==
    ASSUME NEW c \in Generations, NEW k \in Generations, X509KeyPair(c, k)
    PROVE  [cert |-> c, key |-> k] \in {Pair(g) : g \in Generations}
  BY DEF X509KeyPair, Pair

(* The process ends: if it takes calls along, the listener had failed, or  *)
(* it was SIGHUP and there is no TLS.                                      *)
LEMMA EndPreserves ==
    ASSUME IInv, Alive, NEW how \in {"exit", "SIGTERM", "SIGHUP"}, End(how),
           stage = "serve" => how = "SIGHUP" /\ ~tls,
           UNCHANGED <<rpcs, termSet, stopper, hupSet, hupOpen>>
    PROVE  Phases' /\ CallsAreServed' /\ RPCsFinish' /\ NoSendOnClosedChannel'
  <1>1. Phases'
    BY DEF IInv, Phases, End
  <1>2. CallsAreServed'
    BY DEF IInv, CallsAreServed, End
  <1>3. RPCsFinish'
    BY DEF IInv, RPCsFinish, CallsAreServed, End, Alive
  <1>4. NoSendOnClosedChannel'
    BY DEF NoSendOnClosedChannel, End
  <1> QED BY <1>1, <1>2, <1>3, <1>4

(* A step that leaves run, the stopper, the calls and the two              *)
(* notifications alone leaves all but the types alone.                     *)
LEMMA QuietPreserves ==
    ASSUME IInv, UNCHANGED <<process, termSet, stopper, rpcs, hupSet, hupOpen>>
    PROVE  Phases' /\ CallsAreServed' /\ RPCsFinish' /\ NoSendOnClosedChannel'
  BY DEF IInv, Phases, CallsAreServed, RPCsFinish, NoSendOnClosedChannel, process

-----------------------------------------------------------------------------
(* run, up to Serve. *)
LEMMA StartUpPreserves ==
    ASSUME IInv, StartUp
    PROVE  IInv'
  <1> USE BoundsAssumption DEF Goto, stopVars, operator, tlsVars
  <1>1. CASE Boot
    <2>1. TypeOK'
      BY <1>1 DEF Boot, IInv, TypeOK, Stages
    <2>2. Phases' /\ CallsAreServed' /\ RPCsFinish' /\ NoSendOnClosedChannel'
      BY <1>1 DEF Boot, IInv, TypeOK, Phases, CallsAreServed, RPCsFinish, NoSendOnClosedChannel
    <2> QED BY <2>1, <2>2 DEF IInv
  <1>2. CASE LoadCert
    <2>1. TypeOK'
      BY <1>2 DEF LoadCert, IInv, TypeOK, Stages
    <2>2. Phases' /\ CallsAreServed' /\ RPCsFinish' /\ NoSendOnClosedChannel'
      BY <1>2 DEF LoadCert, IInv, TypeOK, Phases, CallsAreServed, RPCsFinish, NoSendOnClosedChannel
    <2> QED BY <2>1, <2>2 DEF IInv
  <1>3. CASE LoadKey
    <2>1. loaded' \in {Pair(g) : g \in Generations}
      BY <1>3, MatchingPair DEF LoadKey, IInv, TypeOK
    <2>2. stage' \in {"term", "recvStop"}
      BY <1>3 DEF LoadKey
    <2>3. TypeOK'
      BY <1>3, <2>1, <2>2 DEF LoadKey, IInv, TypeOK, Stages
    <2>4. Phases' /\ CallsAreServed' /\ RPCsFinish' /\ NoSendOnClosedChannel'
      BY <1>3, <2>2 DEF LoadKey, IInv, TypeOK, Phases, CallsAreServed, RPCsFinish,
                        NoSendOnClosedChannel
    <2> QED BY <2>3, <2>4 DEF IInv
  <1>4. CASE NotifyContext
    <2>1. TypeOK'
      BY <1>4 DEF NotifyContext, IInv, TypeOK, Stages, Phases
    <2>2. Phases' /\ CallsAreServed' /\ RPCsFinish' /\ NoSendOnClosedChannel'
      BY <1>4 DEF NotifyContext, IInv, TypeOK, Phases, CallsAreServed, RPCsFinish,
                  NoSendOnClosedChannel
    <2> QED BY <2>1, <2>2 DEF IInv
  <1>5. CASE NotifyHup
    <2>1. TypeOK'
      BY <1>5 DEF NotifyHup, IInv, TypeOK, Stages, Phases
    <2>2. Phases' /\ CallsAreServed' /\ RPCsFinish' /\ NoSendOnClosedChannel'
      BY <1>5 DEF NotifyHup, IInv, TypeOK, Phases, CallsAreServed, RPCsFinish,
                  NoSendOnClosedChannel
    <2> QED BY <2>1, <2>2 DEF IInv
  <1> QED BY <1>1, <1>2, <1>3, <1>4, <1>5 DEF StartUp

(* Calls arrive and return; none meets a closed resource while the         *)
(* listener is well.                                                       *)
LEMMA HandlersPreserve ==
    ASSUME IInv, NEW c \in RPCs, Accept(c) \/ MeetsClosed(c) \/ HandlerReturns(c)
    PROVE  IInv'
  <1> USE DEF process, stopVars, operator, tlsVars
  <1>1. CASE Accept(c)
    <2>1. TypeOK'
      BY <1>1 DEF Accept, IInv, TypeOK
    <2>2. Phases' /\ CallsAreServed' /\ RPCsFinish' /\ NoSendOnClosedChannel'
      BY <1>1 DEF Accept, IInv, Phases, CallsAreServed, RPCsFinish, NoSendOnClosedChannel
    <2> QED BY <2>1, <2>2 DEF IInv
  <1>2. CASE MeetsClosed(c)
    <2>1. TypeOK'
      BY <1>2 DEF MeetsClosed, IInv, TypeOK
    <2>2. serveErr
      BY <1>2 DEF MeetsClosed, IInv, Phases, CallsAreServed
    <2>3. Phases' /\ CallsAreServed' /\ RPCsFinish' /\ NoSendOnClosedChannel'
      BY <1>2, <2>2 DEF MeetsClosed, IInv, Phases, CallsAreServed, RPCsFinish,
                        NoSendOnClosedChannel
    <2> QED BY <2>1, <2>3 DEF IInv
  <1>3. CASE HandlerReturns(c)
    <2>1. TypeOK'
      BY <1>3 DEF HandlerReturns, IInv, TypeOK
    <2>2. Phases' /\ CallsAreServed' /\ RPCsFinish' /\ NoSendOnClosedChannel'
      BY <1>3 DEF HandlerReturns, IInv, Phases, CallsAreServed, RPCsFinish,
                  NoSendOnClosedChannel
    <2> QED BY <2>1, <2>2 DEF IInv
  <1> QED BY <1>1, <1>2, <1>3

(* Serve returns, drained or broken. *)
LEMMA ServePreserves ==
    ASSUME IInv, ServeReturns \/ ServeFails
    PROVE  IInv'
  <1> USE DEF Goto, stopVars, operator, tlsVars
  <1>1. /\ stage = "serve" /\ stage' = FirstDefer
        /\ UNCHANGED <<tls, open, ended, cut, stopVars, rpcs, operator, tlsVars, signals>>
        /\ (serveErr' = serveErr /\ stopper = "done") \/ serveErr' = TRUE
    BY DEF ServeReturns, ServeFails
  <1>2. stage' = IF tls THEN "hupStop" ELSE "termStop"
    BY <1>1 DEF FirstDefer
  <1>3. TypeOK'
    <2>1. stage' \in Stages /\ stage' # "serve"
      BY <1>2 DEF Stages
    <2>2. serveErr' \in BOOLEAN
      BY <1>1 DEF IInv, TypeOK
    <2> QED BY <1>1, <2>1, <2>2 DEF IInv, TypeOK
  <1>4. Phases'
    <2>1. CASE tls
      BY <1>1, <1>2, <2>1 DEF IInv, Phases
    <2>2. CASE ~tls
      <3>1. hupOpen
        BY <1>1 DEF IInv, Phases
      <3> QED BY <1>1, <1>2, <2>2, <3>1 DEF IInv, Phases
    <2> QED BY <2>1, <2>2
  <1>5. CallsAreServed'
    BY <1>1 DEF IInv, CallsAreServed
  <1>6. RPCsFinish' /\ NoSendOnClosedChannel'
    BY <1>1 DEF IInv, RPCsFinish, NoSendOnClosedChannel
  <1> QED BY <1>3, <1>4, <1>5, <1>6 DEF IInv

(* The goroutine that waits for SIGTERM. *)
LEMMA StopperPreserves ==
    ASSUME IInv, Stopper
    PROVE  IInv'
  <1> USE DEF Stopper, CtxDone, GracefulStop, Drained, process, operator, tlsVars
  <1>1. TypeOK'
    BY DEF IInv, TypeOK
  <1>2. Phases' /\ CallsAreServed' /\ RPCsFinish' /\ NoSendOnClosedChannel'
    BY DEF IInv, Phases, CallsAreServed, RPCsFinish, NoSendOnClosedChannel
  <1> QED BY <1>1, <1>2 DEF IInv

(* run's deferred calls. *)
LEMMA DefersPreserve ==
    ASSUME IInv, Defers
    PROVE  IInv'
  <1> USE DEF Goto, stopVars, operator, tlsVars
  <1>1. CASE SignalStop
    <2>1. TypeOK'
      <3>1. hupSet' \in BOOLEAN
        BY <1>1 DEF SignalStop
      <3>2. /\ stage' = "hupClose"
            /\ UNCHANGED <<tls, ended, serveErr, cut, open, rpcs, stopper, termSet, ctxDone, hup, hupOpen,
                           disk, rotation, rotated, reloader, certRead, loaded, signals>>
        BY <1>1 DEF SignalStop
      <3> QED BY <3>1, <3>2 DEF IInv, TypeOK, Stages
    <2>2. Phases'
      BY <1>1 DEF SignalStop, IInv, Phases
    <2>3. CallsAreServed'
      BY <1>1 DEF SignalStop, IInv, CallsAreServed
    <2>4. RPCsFinish' /\ NoSendOnClosedChannel'
      BY <1>1 DEF SignalStop, IInv, RPCsFinish, NoSendOnClosedChannel
    <2> QED BY <2>1, <2>2, <2>3, <2>4 DEF IInv
  <1>2. CASE CloseHup
    <2>1. TypeOK'
      <3>1. hupOpen' \in BOOLEAN
        BY <1>2 DEF CloseHup
      <3>2. /\ stage' = "termStop"
            /\ UNCHANGED <<tls, ended, serveErr, cut, open, rpcs, stopper, termSet, ctxDone, hupSet, hup,
                           disk, rotation, rotated, reloader, certRead, loaded, signals>>
        BY <1>2 DEF CloseHup
      <3> QED BY <3>1, <3>2 DEF IInv, TypeOK, Stages
    <2>2. Phases'
      BY <1>2 DEF CloseHup, IInv, Phases
    <2>3. CallsAreServed'
      BY <1>2 DEF CloseHup, IInv, CallsAreServed
    <2>4. RPCsFinish' /\ NoSendOnClosedChannel'
      BY <1>2 DEF CloseHup, IInv, RPCsFinish, NoSendOnClosedChannel
    <2> QED BY <2>1, <2>2, <2>3, <2>4 DEF IInv
  <1>3. CASE StopNotify
    <2>1. TypeOK'
      <3>1. termSet' \in BOOLEAN /\ ctxDone' \in BOOLEAN
        BY <1>3 DEF StopNotify
      <3>2. /\ stage' = "recvStop"
            /\ UNCHANGED <<tls, ended, serveErr, cut, open, rpcs, stopper, hupSet, hup, hupOpen,
                           disk, rotation, rotated, reloader, certRead, loaded, signals>>
        BY <1>3 DEF StopNotify
      <3> QED BY <3>1, <3>2 DEF IInv, TypeOK, Stages
    <2>2. Phases'
      BY <1>3 DEF StopNotify, IInv, Phases
    <2>3. CallsAreServed'
      BY <1>3 DEF StopNotify, IInv, CallsAreServed
    <2>4. RPCsFinish' /\ NoSendOnClosedChannel'
      BY <1>3 DEF StopNotify, IInv, RPCsFinish, NoSendOnClosedChannel
    <2> QED BY <2>1, <2>2, <2>3, <2>4 DEF IInv
  <1>4. CASE Closes
    <2>1. TypeOK'
      BY <1>4 DEF Closes, Close, IInv, TypeOK, Stages
    <2>2. Phases' /\ CallsAreServed' /\ RPCsFinish' /\ NoSendOnClosedChannel'
      BY <1>4 DEF Closes, Close, IInv, TypeOK, Phases, CallsAreServed, RPCsFinish,
                  NoSendOnClosedChannel
    <2> QED BY <2>1, <2>2 DEF IInv
  <1>5. CASE Exit
    <2>1. TypeOK'
      BY <1>5 DEF Exit, End, IInv, TypeOK
    <2>2. Phases' /\ CallsAreServed' /\ RPCsFinish' /\ NoSendOnClosedChannel'
      BY <1>5, EndPreserves DEF Exit
    <2> QED BY <2>1, <2>2 DEF IInv
  <1> QED BY <1>1, <1>2, <1>3, <1>4, <1>5 DEF Defers

(* The delivery of a SIGHUP: a channel that is notified is open, and a     *)
(* daemon with TLS that serves is notified.                                *)
LEMMA DeliverHupPreserves ==
    ASSUME IInv, Alive, DeliverHup, UNCHANGED <<rpcs, termSet, stopper, hupSet, hupOpen>>
    PROVE  /\ Phases' /\ CallsAreServed' /\ RPCsFinish' /\ NoSendOnClosedChannel'
           /\ hup' \in 0..1 /\ UNCHANGED <<tls, stage, open, serveErr>>
           /\ ended' \in {"no", "SIGHUP"} /\ cut' \in BOOLEAN
  <1>1. CASE hupSet
    <2>1. hupOpen
      BY <1>1 DEF IInv, Phases
    <2>2. UNCHANGED process /\ hup' = 1
      BY <1>1, <2>1 DEF DeliverHup, Notify
    <2>3. Phases' /\ CallsAreServed' /\ RPCsFinish' /\ NoSendOnClosedChannel'
      BY <2>2, QuietPreserves
    <2>4. hup' \in 0..1 /\ ended' \in {"no", "SIGHUP"}
      BY <2>2 DEF process, Alive
    <2>5. cut' \in BOOLEAN /\ UNCHANGED <<tls, stage, open, serveErr>>
      BY <2>2 DEF process, IInv, TypeOK
    <2> QED BY <2>3, <2>4, <2>5
  <1>2. CASE ~hupSet
    <2>1. End("SIGHUP") /\ hup' = hup
      BY <1>2 DEF DeliverHup
    <2>2. stage = "serve" => ~tls
      BY <1>2 DEF IInv, Phases
    <2>3. Phases' /\ CallsAreServed' /\ RPCsFinish' /\ NoSendOnClosedChannel'
      BY <2>1, <2>2, EndPreserves
    <2>4. hup' \in 0..1 /\ ended' \in {"no", "SIGHUP"}
      BY <2>1 DEF End, IInv, TypeOK
    <2>5. cut' \in BOOLEAN /\ UNCHANGED <<tls, stage, open, serveErr>>
      BY <2>1 DEF End
    <2> QED BY <2>3, <2>4, <2>5
  <1> QED BY <1>1, <1>2

(* Signals from outside, and the operator's rotation. *)
LEMMA SignalsPreserve ==
    ASSUME IInv, SigTerm \/ SigHup \/ RotationSignal
    PROVE  IInv'
  <1> USE BoundsAssumption DEF stopVars, operator, tlsVars
  <1>1. CASE SigTerm
    <2>1. CASE termSet
      <3>1. /\ UNCHANGED <<process, termSet, stopper, rpcs, hupSet, hupOpen>>
            /\ ctxDone' = TRUE /\ signals' = signals + 1 /\ signals < MaxSignals
            /\ UNCHANGED <<disk, rotation, rotated, hup, reloader, certRead, loaded>>
        BY <1>1, <2>1 DEF SigTerm
      <3>2. TypeOK'
        BY <3>1 DEF process, IInv, TypeOK
      <3> QED BY <3>1, <3>2, QuietPreserves DEF IInv
    <2>2. CASE ~termSet
      <3>1. /\ Alive /\ End("SIGTERM") /\ signals' = signals + 1 /\ signals < MaxSignals
            /\ UNCHANGED <<termSet, ctxDone, stopper, rpcs, hupSet, hupOpen>>
            /\ UNCHANGED <<disk, rotation, rotated, hup, reloader, certRead, loaded>>
        BY <1>1, <2>2 DEF SigTerm
      <3>2. TypeOK'
        BY <3>1 DEF End, IInv, TypeOK
      <3>3. stage # "serve"
        BY <2>2 DEF IInv, Phases
      <3> QED BY <3>1, <3>2, <3>3, EndPreserves DEF IInv
    <2> QED BY <2>1, <2>2
  <1>2. CASE SigHup
    <2>1. Alive /\ DeliverHup /\ UNCHANGED <<rpcs, termSet, stopper, hupSet, hupOpen>>
      BY <1>2 DEF SigHup
    <2>2. /\ Phases' /\ CallsAreServed' /\ RPCsFinish' /\ NoSendOnClosedChannel'
          /\ hup' \in 0..1 /\ UNCHANGED <<tls, stage, open, serveErr>>
          /\ ended' \in {"no", "SIGHUP"} /\ cut' \in BOOLEAN
      BY <2>1, DeliverHupPreserves
    <2>3. TypeOK'
      BY <1>2, <2>2 DEF SigHup, IInv, TypeOK
    <2> QED BY <2>2, <2>3 DEF IInv
  <1>3. CASE RotationSignal
    <2>1. Alive /\ DeliverHup /\ UNCHANGED <<rpcs, termSet, stopper, hupSet, hupOpen>>
      BY <1>3 DEF RotationSignal
    <2>2. /\ Phases' /\ CallsAreServed' /\ RPCsFinish' /\ NoSendOnClosedChannel'
          /\ hup' \in 0..1 /\ UNCHANGED <<tls, stage, open, serveErr>>
          /\ ended' \in {"no", "SIGHUP"} /\ cut' \in BOOLEAN
      BY <2>1, DeliverHupPreserves
    <2>3. TypeOK'
      BY <1>3, <2>2 DEF RotationSignal, IInv, TypeOK
    <2> QED BY <2>2, <2>3 DEF IInv
  <1> QED BY <1>1, <1>2, <1>3

(* A file is replaced. *)
LEMMA ReplacePreserves ==
    ASSUME IInv, NEW file \in {"cert", "key"}, Replace(file)
    PROVE  IInv'
  <1> USE BoundsAssumption DEF stopVars, tlsVars
  <1>1. disk' \in [{"cert", "key"} -> Generations]
    BY DEF Replace, IInv, TypeOK, Generations
  <1>2. TypeOK'
    BY <1>1 DEF Replace, process, IInv, TypeOK
  <1>3. Phases' /\ CallsAreServed' /\ RPCsFinish' /\ NoSendOnClosedChannel'
    BY QuietPreserves DEF Replace
  <1> QED BY <1>2, <1>3 DEF IInv

(* The goroutine that reloads the pair. *)
LEMMA ReloaderPreserves ==
    ASSUME IInv, Reloader
    PROVE  IInv'
  <1> USE DEF stopVars, operator
  <1>1. Phases' /\ CallsAreServed' /\ RPCsFinish' /\ NoSendOnClosedChannel'
    BY QuietPreserves DEF Reloader, Receive, ReloadCert, ReloadKey
  <1>2. CASE Receive
    <2>1. TypeOK'
      BY <1>2 DEF Receive, process, IInv, TypeOK
    <2> QED BY <1>1, <2>1 DEF IInv
  <1>3. CASE ReloadCert
    <2>1. TypeOK'
      BY <1>3 DEF ReloadCert, process, IInv, TypeOK
    <2> QED BY <1>1, <2>1 DEF IInv
  <1>4. CASE ReloadKey
    <2>1. loaded' \in {Pair(g) : g \in Generations}
      BY <1>4, MatchingPair DEF ReloadKey, IInv, TypeOK
    <2>2. TypeOK'
      BY <1>4, <2>1 DEF ReloadKey, process, IInv, TypeOK
    <2> QED BY <1>1, <2>2 DEF IInv
  <1> QED BY <1>2, <1>3, <1>4 DEF Reloader

-----------------------------------------------------------------------------
(* IInv holds initially and survives every step. *)
LEMMA IInvInit == Init => IInv
  <1> SUFFICES ASSUME Init PROVE IInv
    OBVIOUS
  <1>1. 0 \in Generations
    BY BoundsAssumption DEF Generations
  <1>2. disk \in [{"cert", "key"} -> Generations]
    BY <1>1 DEF Init, Pair
  <1>3. loaded \in {Pair(g) : g \in Generations}
    BY <1>1 DEF Init
  <1>4. TypeOK
    <2>1. /\ tls \in BOOLEAN /\ termSet \in BOOLEAN /\ ctxDone \in BOOLEAN
          /\ serveErr \in BOOLEAN /\ cut \in BOOLEAN
          /\ hupSet \in BOOLEAN /\ hupOpen \in BOOLEAN
      BY DEF Init
    <2>2. signals \in 0..MaxSignals /\ hup \in 0..1
      BY BoundsAssumption DEF Init
    <2> QED BY <1>1, <1>2, <1>3, <2>1, <2>2 DEF Init, TypeOK, Stages
  <1>5. Phases /\ CallsAreServed /\ RPCsFinish /\ NoSendOnClosedChannel
    BY DEF Init, Phases, CallsAreServed, RPCsFinish, NoSendOnClosedChannel
  <1> QED BY <1>4, <1>5 DEF IInv

LEMMA IInvStep == IInv /\ [Next]_vars => IInv'
  <1> SUFFICES ASSUME IInv, [Next]_vars PROVE IInv'
    OBVIOUS
  <1>1. CASE Next
    BY <1>1, StartUpPreserves, HandlersPreserve, ServePreserves, StopperPreserves,
       DefersPreserve, SignalsPreserve, ReplacePreserves, ReloaderPreserves DEF Next, Run
  <1>2. CASE UNCHANGED vars
    BY <1>2 DEF IInv, TypeOK, Phases, CallsAreServed, RPCsFinish, NoSendOnClosedChannel, vars
  <1> QED BY <1>1, <1>2

LEMMA IInvAlways == Spec => []IInv
  BY IInvInit, IInvStep, PTL DEF Spec

(* The goroutines' state keeps its types: the pair served is always one    *)
(* the operator installed together, however a reload overlaps a rotation,  *)
(* the channel never holds more than one signal, and everything is open    *)
(* while the daemon serves.                                                *)
THEOREM TypeCorrect == Spec => []TypeOK
  <1>1. IInv => TypeOK
    BY DEF IInv
  <1> QED BY IInvAlways, <1>1, PTL

(* No call in flight meets a closed store, publisher or weft connection,   *)
(* or the end of the process, unless the listener failed or SIGHUP was     *)
(* sent to a daemon without TLS.                                           *)
THEOREM CallsFinish == Spec => []RPCsFinish
  <1>1. IInv => RPCsFinish
    BY DEF IInv
  <1> QED BY IInvAlways, <1>1, PTL

(* Nothing is ever sent on the closed hup channel. *)
THEOREM HupIsNotSentAfterClose == Spec => []NoSendOnClosedChannel
  <1>1. IInv => NoSendOnClosedChannel
    BY DEF IInv
  <1> QED BY IInvAlways, <1>1, PTL
=============================================================================
