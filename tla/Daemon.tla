-------------------------------- MODULE Daemon --------------------------------
(***************************************************************************)
(* The process from boot to exit: the order of run's start-up and of its   *)
(* deferred closes, the two signal handlers, the graceful stop, and the    *)
(* reload of the TLS pair on SIGHUP (cmd/weft-network/main.go,             *)
(* internal/tlsutil/tlsutil.go, statusreceiver's Start and Stop).          *)
(*                                                                         *)
(* Goroutines: run itself (stage), the one that waits for SIGTERM          *)
(* (stopper), the one that ranges over hup (reloader) and the gRPC         *)
(* handlers.  The status handler and the floating-IP loops are not waited  *)
(* for and do not wait: their context is cobra's, which no signal cancels. *)
(*                                                                         *)
(* External: the Go runtime (a signal nobody asked for ends the process;   *)
(* Notify never blocks on a full channel; Stop waits for a delivery in     *)
(* progress), gRPC (Serve returns once GracefulStop has, GracefulStop once *)
(* the handlers have; Serve may also fail), NATS (Drain returns at once),  *)
(* and the operator, who replaces two files, one after the other, and      *)
(* sends SIGHUP.  A generation of the pair is a number; LoadX509KeyPair    *)
(* reads the certificate, then the key, and refuses two generations.       *)
(***************************************************************************)
EXTENDS Naturals

CONSTANTS
    RPCs,          \* calls in flight at the same time
    MaxRotations,  \* bound on the pairs the operator installs
    MaxSignals     \* bound on signals sent for other reasons

ASSUME BoundsAssumption == MaxRotations \in Nat /\ MaxSignals \in Nat

Generations == 0..MaxRotations

(* What run opens and its deferred calls close. *)
Resources == {"receiver", "store", "weft", "publisher"}

VARIABLES
    tls,        \* --tls-cert and --tls-key are set
    stage,      \* run: what it does next
    open,       \* the resources that are open
    ended,      \* "no", or how the process ended
    termSet,    \* SIGTERM and SIGINT are notified to ctx
    ctxDone,    \* ctx is cancelled
    stopper,    \* "wait", "metrics", "drain" or "done"
    rpcs,       \* calls in flight
    serveErr,   \* Serve returned an error
    disk,       \* the generations of the certificate and key files
    rotation,   \* the operator: "idle", "half", or "signal" (both replaced)
    rotated,    \* the last generation SIGHUP was sent for
    hupSet,     \* SIGHUP is notified to hup
    hup,        \* signals in the channel, of capacity one
    hupOpen,    \* the channel is not closed
    reloader,   \* "off", "wait", "cert" or "key"
    certRead,   \* the certificate a load has read
    loaded,     \* the pair getCertificate serves
    signals,    \* signals sent for other reasons
    cut         \* history: a call met a closed resource, or the end of the
                \* process

vars == <<tls, stage, open, ended, termSet, ctxDone, stopper, rpcs, serveErr, disk, rotation,
          rotated, hupSet, hup, hupOpen, reloader, certRead, loaded, signals, cut>>
process  == <<tls, stage, open, ended, serveErr, cut>>
stopVars == <<termSet, ctxDone, stopper>>
operator == <<disk, rotation, rotated>>
tlsVars  == <<hupSet, hup, hupOpen, reloader, certRead, loaded>>

Pair(g) == [cert |-> g, key |-> g]

Init ==
    /\ tls \in BOOLEAN
    /\ stage = "boot" /\ open = {} /\ ended = "no" /\ serveErr = FALSE
    /\ termSet = FALSE /\ ctxDone = FALSE /\ stopper = "wait"
    /\ rpcs = {}
    /\ disk = Pair(0) /\ rotation = "idle" /\ rotated = 0
    /\ hupSet = FALSE /\ hup = 0 /\ hupOpen = TRUE
    /\ reloader = "off" /\ certRead = 0 /\ loaded = Pair(0)
    /\ signals = 0
    /\ cut = FALSE

-----------------------------------------------------------------------------
Alive == ended = "no"

(* The process ends, and with it the calls in flight. *)
End(how) == /\ ended' = how
            /\ cut' = (cut \/ rpcs # {})
            /\ UNCHANGED <<tls, stage, open, serveErr>>

(* tls.LoadX509KeyPair accepts the key only if it is the certificate's. *)
X509KeyPair(cert, key) == cert = key

-----------------------------------------------------------------------------
(* run, up to Serve *)

Goto(s) == Alive /\ stage' = s /\ UNCHANGED <<tls, ended, serveErr, cut>>

(* The publisher, the lifecycle, the stores, the boot resync, the status   *)
(* receiver and the floating-IP loops.                                     *)
Boot ==
    /\ stage = "boot"
    /\ open' = Resources
    /\ Goto(IF tls THEN "load" ELSE "term")
    /\ UNCHANGED <<stopVars, rpcs, operator, tlsVars, signals>>

(* ServerCredentialsWithReloader: any error ends run, by way of the        *)
(* deferred calls there are so far.  It reads the pair twice, first only   *)
(* to see whether it loads; one reading that may fail stands for both.     *)
LoadCert ==
    /\ stage = "load"
    /\ certRead' = disk.cert
    /\ Goto("loadKey")
    /\ UNCHANGED <<open, stopVars, rpcs, operator, hupSet, hup, hupOpen, reloader, loaded, signals>>

LoadKey ==
    /\ stage = "loadKey"
    /\ IF X509KeyPair(certRead, disk.key)
       THEN loaded' = [cert |-> certRead, key |-> disk.key] /\ Goto("term")
       ELSE UNCHANGED loaded /\ Goto("recvStop")
    /\ UNCHANGED <<open, stopVars, rpcs, operator, hupSet, hup, hupOpen, reloader, certRead, signals>>

NotifyContext ==
    /\ stage = "term"
    /\ termSet' = TRUE
    /\ Goto(IF tls THEN "hup" ELSE "serve")
    /\ UNCHANGED <<open, ctxDone, stopper, rpcs, operator, tlsVars, signals>>

NotifyHup ==
    /\ stage = "hup"
    /\ hupSet' = TRUE /\ reloader' = "wait"
    /\ Goto("serve")
    /\ UNCHANGED <<open, stopVars, rpcs, operator, hup, hupOpen, certRead, loaded, signals>>

-----------------------------------------------------------------------------
(* gRPC *)

Accept(c) ==
    /\ Alive /\ stage = "serve" /\ stopper \in {"wait", "metrics"} /\ c \notin rpcs
    /\ rpcs' = rpcs \union {c}
    /\ UNCHANGED <<process, stopVars, operator, tlsVars, signals>>

(* A handler uses the store, the publisher and the lifecycle. *)
MeetsClosed(c) ==
    /\ Alive /\ c \in rpcs /\ open # Resources
    /\ cut' = TRUE
    /\ UNCHANGED <<tls, stage, open, ended, serveErr, stopVars, rpcs, operator, tlsVars, signals>>

HandlerReturns(c) ==
    /\ Alive /\ c \in rpcs
    /\ rpcs' = rpcs \ {c}
    /\ UNCHANGED <<process, stopVars, operator, tlsVars, signals>>

FirstDefer == IF tls THEN "hupStop" ELSE "termStop"

(* Mutant: Serve returns as soon as the listener is closed. *)
ServeReturnsEarly ==
    /\ stage = "serve" /\ stopper \in {"drain", "done"}
    /\ Goto(FirstDefer)
    /\ UNCHANGED <<open, stopVars, rpcs, operator, tlsVars, signals>>

ServeReturns ==
    /\ stage = "serve" /\ stopper = "done"
    /\ Goto(FirstDefer)
    /\ UNCHANGED <<open, stopVars, rpcs, operator, tlsVars, signals>>

(* The listener fails: Serve returns the error and waits for nobody. *)
ServeFails ==
    /\ Alive /\ stage = "serve" /\ stopper \in {"wait", "metrics"}
    /\ serveErr' = TRUE
    /\ stage' = FirstDefer
    /\ UNCHANGED <<tls, open, ended, cut, stopVars, rpcs, operator, tlsVars, signals>>

-----------------------------------------------------------------------------
(* The stopper *)

CtxDone ==
    /\ Alive /\ stopper = "wait" /\ ctxDone
    /\ stopper' = "metrics"
    /\ UNCHANGED <<process, termSet, ctxDone, rpcs, operator, tlsVars, signals>>

(* The metrics listener has shut down, or five seconds have passed. *)
GracefulStop ==
    /\ Alive /\ stopper = "metrics"
    /\ stopper' = "drain"
    /\ UNCHANGED <<process, termSet, ctxDone, rpcs, operator, tlsVars, signals>>

(* Mutant: it waits for the reloader as well, whose channel run closes. *)
DrainedAndReloaded ==
    /\ Alive /\ stopper = "drain" /\ rpcs = {} /\ reloader = "off"
    /\ stopper' = "done"
    /\ UNCHANGED <<process, termSet, ctxDone, rpcs, operator, tlsVars, signals>>

Drained ==
    /\ Alive /\ stopper = "drain" /\ rpcs = {}
    /\ stopper' = "done"
    /\ UNCHANGED <<process, termSet, ctxDone, rpcs, operator, tlsVars, signals>>

-----------------------------------------------------------------------------
(* run's deferred calls, last one first *)

(* Mutant: the channel is closed first. *)
CloseBeforeStop ==
    /\ stage = "hupStop"
    /\ hupOpen' = FALSE
    /\ Goto("hupClose")
    /\ UNCHANGED <<open, stopVars, rpcs, operator, hupSet, hup, reloader, certRead, loaded, signals>>

SignalStop ==
    /\ stage = "hupStop"
    /\ hupSet' = FALSE
    /\ Goto("hupClose")
    /\ UNCHANGED <<open, stopVars, rpcs, operator, hup, hupOpen, reloader, certRead, loaded, signals>>

CloseHup ==
    /\ stage = "hupClose"
    /\ hupOpen' = FALSE
    /\ Goto("termStop")
    /\ UNCHANGED <<open, stopVars, rpcs, operator, hupSet, hup, reloader, certRead, loaded, signals>>

(* stop also cancels ctx. *)
StopNotify ==
    /\ stage = "termStop"
    /\ termSet' = FALSE /\ ctxDone' = TRUE
    /\ Goto("recvStop")
    /\ UNCHANGED <<open, stopper, rpcs, operator, tlsVars, signals>>

Close(s, resource, next) ==
    /\ stage = s
    /\ open' = open \ {resource}
    /\ Goto(next)
    /\ UNCHANGED <<stopVars, rpcs, operator, tlsVars, signals>>

Closes == \/ Close("recvStop", "receiver", "storeClose")
          \/ Close("storeClose", "store", "weftClose")
          \/ Close("weftClose", "weft", "natsClose")
          \/ Close("natsClose", "publisher", "exit")

(* The listener and the tracer are closed, run returns, main exits. *)
Exit ==
    /\ Alive /\ stage = "exit"
    /\ End("exit")
    /\ UNCHANGED <<stopVars, rpcs, operator, tlsVars, signals>>

-----------------------------------------------------------------------------
(* Signals *)

SigTerm ==
    /\ Alive /\ signals < MaxSignals
    /\ signals' = signals + 1
    /\ \/ termSet /\ ctxDone' = TRUE /\ UNCHANGED process
       \/ ~termSet /\ End("SIGTERM") /\ UNCHANGED ctxDone
    /\ UNCHANGED <<termSet, stopper, rpcs, operator, tlsVars>>

(* Mutant: the channel has no buffer, so only a waiting reloader hears. *)
NotifyUnbuffered == IF reloader = "wait" THEN 1 ELSE hup

(* Mutant: every signal has room. *)
NotifyUnbounded == hup + 1

(* The channel holds one signal; another is dropped. *)
Notify == 1

DeliverHup ==
    \/ /\ hupSet
       /\ hup' = Notify
       /\ IF hupOpen THEN UNCHANGED process ELSE End("panic")
    \/ ~hupSet /\ End("SIGHUP") /\ UNCHANGED hup

SigHup ==
    /\ Alive /\ signals < MaxSignals
    /\ signals' = signals + 1
    /\ DeliverHup
    /\ UNCHANGED <<stopVars, rpcs, operator, hupSet, hupOpen, reloader, certRead, loaded>>

(* The operator installs the next pair, a file at a time, in either order. *)
Replace(file) ==
    /\ Alive /\ disk[file] < MaxRotations
    /\ \/ rotation = "idle" /\ rotation' = "half"
       \/ rotation = "half" /\ disk[file] = rotated /\ rotation' = "signal"
    /\ disk' = [disk EXCEPT ![file] = @ + 1]
    /\ UNCHANGED <<process, stopVars, rpcs, rotated, tlsVars, signals>>

RotationSignal ==
    /\ Alive /\ rotation = "signal"
    /\ rotation' = "idle" /\ rotated' = disk.cert
    /\ DeliverHup
    /\ UNCHANGED <<stopVars, rpcs, disk, hupSet, hupOpen, reloader, certRead, loaded, signals>>

-----------------------------------------------------------------------------
(* The reloader *)

Receive ==
    /\ Alive /\ reloader = "wait"
    /\ \/ hup = 1 /\ hup' = 0 /\ reloader' = "cert"
       \/ hup = 0 /\ ~hupOpen /\ reloader' = "off" /\ UNCHANGED hup
    /\ UNCHANGED <<process, stopVars, rpcs, operator, hupSet, hupOpen, certRead, loaded, signals>>

ReloadCert ==
    /\ Alive /\ reloader = "cert"
    /\ certRead' = disk.cert
    /\ reloader' = "key"
    /\ UNCHANGED <<process, stopVars, rpcs, operator, hupSet, hup, hupOpen, loaded, signals>>

(* A pair that does not fit is logged, and the previous one stays. *)
ReloadKey ==
    /\ Alive /\ reloader = "key"
    /\ loaded' = IF X509KeyPair(certRead, disk.key)
                 THEN [cert |-> certRead, key |-> disk.key] ELSE loaded
    /\ reloader' = "wait"
    /\ UNCHANGED <<process, stopVars, rpcs, operator, hupSet, hup, hupOpen, certRead, signals>>

-----------------------------------------------------------------------------
StartUp == Boot \/ LoadCert \/ LoadKey \/ NotifyContext \/ NotifyHup

Defers == SignalStop \/ CloseHup \/ StopNotify \/ Closes \/ Exit

Run == StartUp \/ ServeReturns \/ Defers

Stopper == CtxDone \/ GracefulStop \/ Drained

Reloader == Receive \/ ReloadCert \/ ReloadKey

Next == \/ Run \/ ServeFails \/ Stopper \/ Reloader
        \/ \E c \in RPCs : Accept(c) \/ MeetsClosed(c) \/ HandlerReturns(c)
        \/ SigTerm \/ SigHup \/ RotationSignal
        \/ \E file \in {"cert", "key"} : Replace(file)

Spec == Init /\ [][Next]_vars

(* Goroutines are scheduled, the metrics listener's shutdown is bounded,   *)
(* and every call in flight returns: GracefulStop has no bound of its own. *)
FairSpec == /\ Spec
            /\ WF_vars(Run) /\ WF_vars(Stopper) /\ WF_vars(Reloader)
            /\ \A c \in RPCs : WF_vars(HandlerReturns(c))

-----------------------------------------------------------------------------
(* Properties *)

Stages == {"boot", "load", "loadKey", "term", "hup", "serve", "hupStop", "hupClose",
           "termStop", "recvStop", "storeClose", "weftClose", "natsClose", "exit"}

(* The types of the goroutines' state; the channel never holds more than   *)
(* one signal, a certificate is served with its own key, and everything is *)
(* open while the daemon serves.                                           *)
TypeOK ==
    /\ tls \in BOOLEAN /\ stage \in Stages /\ open \subseteq Resources
    /\ ended \in {"no", "exit", "SIGTERM", "SIGHUP", "panic"}
    /\ termSet \in BOOLEAN /\ ctxDone \in BOOLEAN /\ serveErr \in BOOLEAN /\ cut \in BOOLEAN
    /\ stopper \in {"wait", "metrics", "drain", "done"}
    /\ rpcs \subseteq RPCs
    /\ disk \in [{"cert", "key"} -> Generations] /\ loaded \in {Pair(g) : g \in Generations}
    /\ rotation \in {"idle", "half", "signal"} /\ rotated \in Generations
    /\ hupSet \in BOOLEAN /\ hup \in 0..1 /\ hupOpen \in BOOLEAN
    /\ reloader \in {"off", "wait", "cert", "key"} /\ certRead \in Generations
    /\ signals \in 0..MaxSignals
    /\ stage = "serve" => open = Resources

(* Signals that arrive while the channel is full are dropped, and a reload *)
(* may read the files before they are replaced; all the same the last pair *)
(* installed is served in the end, unless the operator is at it again or   *)
(* the daemon stops.                                                       *)
RotationIsServed ==
    \A g \in Generations :
        (Alive /\ rotated = g)
            ~> (loaded = Pair(g) \/ disk # Pair(g) \/ ctxDone \/ serveErr \/ ~Alive)

(* main.go:572-573, "SIGINT / SIGTERM triggers GracefulStop so in-flight   *)
(* RPCs finish before exit", and a reload costs no call either: no handler *)
(* meets a store, publisher or weft connection that run has closed, or the *)
(* end of the process.  The exceptions: the listener failed, or SIGHUP was *)
(* sent to a daemon without TLS, which nobody notifies of it.              *)
RPCsFinish == cut => serveErr \/ (~tls /\ ended = "SIGHUP")

(* The deferred close of hup never races a signal: nothing is ever sent on *)
(* the closed channel.                                                     *)
NoSendOnClosedChannel == ended # "panic"

(* A signal that asks the daemon to stop does stop it: run waits for the   *)
(* stopper, the stopper for the handlers, and nobody for run.              *)
StopCompletes == ctxDone ~> ~Alive
=============================================================================
