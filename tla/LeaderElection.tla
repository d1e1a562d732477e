---------------------------- MODULE LeaderElection ----------------------------
(***************************************************************************)
(* Leader election (internal/leader/leader.go, run by runLeaderElection in *)
(* cmd/weft-network/main.go): every instance campaigns over an etcd lease  *)
(* and runs the gated loops while it leads.                                *)
(*                                                                         *)
(* External: etcd and its client's concurrency package.  A session owns a  *)
(* lease, and Campaign puts a key under it, then waits until every key     *)
(* created before its own is gone; it does not look at its own key again.  *)
(* The lease can end on the server (taking the key with it) before the     *)
(* client's Done channel closes, and the other way round.                  *)
(*                                                                         *)
(* The gated loops are one thing here: they run from the callback until    *)
(* the leader-scoped context is cancelled and they notice.  The daemon's   *)
(* own context is never cancelled, so leaving is a stop of the process.    *)
(***************************************************************************)
EXTENDS Naturals

CONSTANTS
    Instances,   \* weft-network processes
    MaxSessions, \* bound on the sessions created
    MaxTroubles  \* bound on lost sessions, failed requests and stops

ASSUME BoundsAssumption == MaxSessions \in Nat /\ MaxTroubles \in Nat

(* Sessions are numbered in order of creation; 0 is none. *)
Sessions == 1..MaxSessions

VARIABLES
    leases,    \* etcd: sessions whose lease is alive
    keys,      \* etcd: sessions whose campaign key exists
    revision,  \* etcd: the last creation revision given to a key
    rank,      \* etcd: each session's key creation revision, 0 before
    sessions,  \* sessions created so far
    done,      \* sessions whose Done channel is closed
    pc,        \* per instance: where runOnce is
    sess,      \* per instance: its session
    loops,     \* per instance: the sessions (terms) whose loops still run
    troubles   \* things that went wrong

vars == <<leases, keys, revision, rank, sessions, done, pc, sess, loops, troubles>>
etcd == <<leases, keys, revision, rank>>

ElectionInit ==
    /\ leases = {} /\ keys = {}
    /\ revision = 0 /\ rank = [s \in Sessions |-> 0]
    /\ sessions = 0
    /\ done = {}
    /\ pc = [i \in Instances |-> "session"]
    /\ sess = [i \in Instances |-> 0]
    /\ loops = [i \in Instances |-> {}]
    /\ troubles = 0

-----------------------------------------------------------------------------
goto(i, label) == pc' = [pc EXCEPT ![i] = label]

(* sess.Close: Done closes and the lease is revoked, if etcd is reachable; *)
(* otherwise the lease lives on until it expires.                          *)
CloseSession(s) ==
    /\ done' = done \union {s}
    /\ \/ leases' = leases \ {s} /\ keys' = keys \ {s}
       \/ UNCHANGED <<leases, keys>>
    /\ UNCHANGED <<revision, rank>>

(* el.Resign deletes the session's key and leaves the lease. *)
Resign(s) == keys' = keys \ {s} /\ UNCHANGED <<leases, revision, rank, done>>

NewSession(i) ==
    /\ pc[i] = "session" /\ sessions < MaxSessions
    /\ sessions' = sessions + 1
    /\ sess' = [sess EXCEPT ![i] = sessions']
    /\ leases' = leases \union {sessions'}
    /\ goto(i, "campaign")
    /\ UNCHANGED <<keys, revision, rank, done, loops, troubles>>

(* Campaign puts its key under the lease, if the lease is still there ... *)
CampaignPut(i) ==
    LET s == sess[i]
    IN /\ pc[i] = "campaign" /\ s \in leases
       /\ keys' = keys \union {s}
       /\ revision' = revision + 1
       /\ rank' = [rank EXCEPT ![s] = revision']
       /\ goto(i, "wait")
       /\ UNCHANGED <<leases, sessions, done, sess, loops, troubles>>

(* Mutant: having put the key is enough. *)
WonByPutting(i) == sess[i] \in leases

(* ... and returns once no key created before it is left. *)
Won(i) == \A t \in keys : rank[t] >= rank[sess[i]]

CampaignWon(i) ==
    /\ pc[i] = "wait" /\ Won(i)
    /\ goto(i, "acquire")
    /\ UNCHANGED <<etcd, sessions, done, sess, loops, troubles>>

(* The put finds its lease expired: runOnce closes the session, and Run    *)
(* tries again after a second.                                             *)
CampaignRefused(i) ==
    /\ pc[i] = "campaign" /\ sess[i] \notin leases
    /\ CloseSession(sess[i])
    /\ goto(i, "session")
    /\ UNCHANGED <<sessions, sess, loops, troubles>>

(* onAcquire(leaderCtx): the loops start, even if the session has ended. *)
OnAcquire(i) ==
    /\ pc[i] = "acquire"
    /\ loops' = [loops EXCEPT ![i] = @ \union {sess[i]}]
    /\ goto(i, "lead")
    /\ UNCHANGED <<etcd, sessions, done, sess, troubles>>

(* Mutant: an instance that lost its session does not campaign again. *)
SessionLostForGood(i) ==
    /\ pc[i] = "lead" /\ sess[i] \in done
    /\ CloseSession(sess[i]) \/ Resign(sess[i])
    /\ goto(i, "lead")
    /\ UNCHANGED <<sessions, sess, loops, troubles>>

(* The session is lost: onLost, a best-effort Resign, then sess.Close; the *)
(* Resign may get through where the revocation does not.                   *)
SessionLost(i) ==
    /\ pc[i] = "lead" /\ sess[i] \in done
    /\ CloseSession(sess[i]) \/ Resign(sess[i])
    /\ goto(i, "session")
    /\ UNCHANGED <<sessions, sess, loops, troubles>>

(* Mutant: the loops run under the context of the process. *)
LoopsStopWithProcess(i) ==
    /\ pc[i] = "stopped" /\ loops[i] # {}
    /\ loops' = [loops EXCEPT ![i] = {}]
    /\ UNCHANGED <<etcd, sessions, done, pc, sess, troubles>>

(* leaderCtx is cancelled and the loops of that term notice. *)
LoopsStop(i) ==
    /\ \E s \in loops[i] \intersect done : loops' = [loops EXCEPT ![i] = @ \ {s}]
    /\ UNCHANGED <<etcd, sessions, done, pc, sess, troubles>>

-----------------------------------------------------------------------------
(* Trouble *)

Trouble == troubles < MaxTroubles /\ troubles' = troubles + 1

(* Mutant: the key outlives the lease. *)
ExpireLeaseOnly(s) == leases' = leases \ {s} /\ UNCHANGED <<keys, revision, rank>>

(* A lease nobody keeps alive any more runs out. *)
Expire(s) == leases' = leases \ {s} /\ keys' = keys \ {s} /\ UNCHANGED <<revision, rank>>

Orphan(s) == s \in leases /\ (s \in done \/ \A i \in Instances : pc[i] = "stopped" \/ sess[i] # s)

LeaseRunsOut(s) ==
    /\ Orphan(s)
    /\ Expire(s)
    /\ UNCHANGED <<sessions, done, pc, sess, loops, troubles>>

(* The instance cannot reach etcd for longer than the TTL: the server      *)
(* drops the lease while the client still believes in it.                  *)
LeaseExpires(s) ==
    /\ Trouble
    /\ s \in leases /\ ~Orphan(s)
    /\ Expire(s)
    /\ UNCHANGED <<sessions, done, pc, sess, loops>>

(* The client gives the session up: its keep-alive stream was refused, or  *)
(* found the lease gone.                                                   *)
SessionDone(s) ==
    /\ s \in Sessions \ done
    /\ \E i \in Instances : sess[i] = s /\ pc[i] \in {"campaign", "wait", "acquire", "lead"}
    /\ \/ s \notin leases /\ UNCHANGED troubles
       \/ s \in leases /\ Trouble
    /\ done' = done \union {s}
    /\ UNCHANGED <<etcd, sessions, pc, sess, loops>>

(* A request of Campaign fails: runOnce closes the session and Run retries. *)
CampaignFails(i) ==
    /\ Trouble
    /\ pc[i] \in {"campaign", "wait"}
    /\ CloseSession(sess[i])
    /\ goto(i, "session")
    /\ UNCHANGED <<sessions, sess, loops>>

(* The process stops; nothing resigns. *)
Stop(i) ==
    /\ Trouble
    /\ pc[i] # "stopped"
    /\ goto(i, "stopped")
    /\ loops' = [loops EXCEPT ![i] = {}]
    /\ UNCHANGED <<etcd, sessions, done, sess>>

Restart(i) ==
    /\ pc[i] = "stopped"
    /\ goto(i, "session")
    /\ sess' = [sess EXCEPT ![i] = 0]
    /\ UNCHANGED <<etcd, sessions, done, loops, troubles>>

-----------------------------------------------------------------------------
Run(i) == \/ NewSession(i) \/ CampaignPut(i) \/ CampaignWon(i) \/ CampaignRefused(i)
          \/ OnAcquire(i) \/ SessionLost(i)

ElectionNext ==
    \/ \E i \in Instances : Run(i) \/ LoopsStop(i) \/ CampaignFails(i) \/ Stop(i) \/ Restart(i)
    \/ \E s \in Sessions : LeaseRunsOut(s) \/ LeaseExpires(s) \/ SessionDone(s)

ElectionSpec == ElectionInit /\ [][ElectionNext]_vars

(* Goroutines are scheduled, orphaned leases run out, a client whose lease *)
(* is gone finds out, and stopped instances are restarted.                 *)
FairSpec ==
    /\ ElectionSpec
    /\ \A i \in Instances : WF_vars(Run(i)) /\ WF_vars(LoopsStop(i)) /\ WF_vars(Restart(i))
    /\ \A s \in Sessions : /\ WF_vars(LeaseRunsOut(s))
                           /\ WF_vars(s \notin leases /\ SessionDone(s))

-----------------------------------------------------------------------------
(* Properties *)

(* The types of etcd's and the instances' state. *)
ElectionTypeOK ==
    /\ leases \subseteq Sessions /\ keys \subseteq leases /\ done \subseteq Sessions
    /\ revision \in Nat /\ rank \in [Sessions -> 0..revision]
    /\ sessions \in 0..MaxSessions
    /\ pc \in [Instances -> {"session", "campaign", "wait", "acquire", "lead", "stopped"}]
    /\ sess \in [Instances -> 0..MaxSessions]
    /\ loops \in [Instances -> SUBSET Sessions]
    /\ troubles \in 0..MaxTroubles

(* main.go:414-417, "only ONE weft-network instance per cluster runs       *)
(* these", up to the time a term that has lost its key takes to stop: no   *)
(* two terms whose keys are both in etcd overlap.                          *)
OverlapOnlyAfterLoss ==
    \A i, j \in Instances : \A s \in loops[i], t \in loops[j] :
        (s \in keys /\ t \in keys) => s = t

(* leader.go:9-12: the loops of a term that lost its key stop ...          *)
DeposedLoopsStop ==
    \A i \in Instances, s \in Sessions : (s \in loops[i] /\ s \notin keys) ~> s \notin loops[i]

(* ... and an instance takes over: once nothing goes wrong any more, one   *)
(* leads for good, running the loops of its current term and nobody else   *)
(* any, whoever lost which session at which point of its campaign.         *)
SomeoneLeads ==
    <>[](\E i \in Instances : /\ loops[i] = {sess[i]} /\ sess[i] \in keys
                              /\ \A j \in Instances \ {i} : loops[j] = {})
=============================================================================
