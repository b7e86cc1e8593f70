----------------------------- MODULE HAElection -----------------------------
(***************************************************************************)
(* Leader election between coordinators: class RayFaultTolerance of        *)
(* core/ha_coordinator.py, started by CoordinatorElection.enable_ha and    *)
(* reached from outside through POST /api/v1/ha/heartbeat.                 *)
(*                                                                         *)
(* Every coordinator runs one thread that repeats an election round: probe *)
(* each peer with an outbound heartbeat, outside the lock, one peer after  *)
(* the other; then, in one critical section, mark silent peers offline and *)
(* decide who leads.  Inbound heartbeats are handled concurrently, each in *)
(* one critical section.  A critical section is one step here; the network *)
(* is between the sending, the handling and the answering of a heartbeat.  *)
(*                                                                         *)
(* Coordinator ids are strings compared lexicographically; only their      *)
(* order matters, so they are numbers.  Clock readings are abstracted to   *)
(* the one fact a round asks of them: whether a peer's last_seen is older  *)
(* than election_timeout_s.                                                *)
(***************************************************************************)
EXTENDS Naturals, FiniteSets

CONSTANTS
    Coordinator,       \* the coordinators' ids
    Config,            \* Config[c]: the peers c is given by add_peer
    Booted,            \* the coordinators that are up to begin with
    None,              \* Python's None
    TermInReply,       \* whether the transport's answer carries "term" at
                       \* its top level: it does when the transport returns
                       \* handle_heartbeat_request's dict as it is; the HTTP
                       \* endpoint nests it under "peer", so it does not
    MaxTerm,           \* bound: no election beyond this term
    MaxCutTerm,        \* bound: nor, while a link is cut, beyond this one
    MaxFaults          \* bound: crashes, cut links and late heartbeats

ASSUME CoordinatorAssumption ==
    Coordinator \subseteq Nat /\ IsFiniteSet(Coordinator)
ASSUME ConfigAssumption ==
    Config \in [Coordinator -> SUBSET Coordinator]
ASSUME BootedAssumption == Booted \subseteq Coordinator
ASSUME ConfigNotSelf == \A c \in Coordinator : c \notin Config[c]
ASSUME NoneAssumption == None \notin Nat
ASSUME TransportAssumption == TermInReply \in BOOLEAN
ASSUME BoundsAssumption ==
    MaxTerm \in Nat /\ MaxCutTerm \in Nat /\ MaxFaults \in Nat

VARIABLES
    up,             \* up[c]: the process runs and enable_ha has been called
    state,          \* state[c]: _state (CANDIDATE is never assigned)
    leader_id,      \* leader_id[c]: _leader_id
    current_term,   \* current_term[c]: _current_term
    voted_for,      \* voted_for[c]: _voted_for
    peers,          \* peers[c]: the keys of _peers
    online,         \* online[c]: the peers whose "online" is True
    stale,          \* stale[c]: the peers not heard of for election_timeout_s
    pc,             \* pc[c]: whether c's election thread is in the transport
    todo,           \* todo[c]: the peers c's round has still to probe
    target,         \* target[c]: the peer being probed
    request,        \* request[c][d]: term of c's heartbeat on its way to d
    reply,          \* reply[c]: term in the answer to c's current probe
    cut,            \* the pairs of coordinators whose link is down
    faults          \* faults that have happened

electionVars == <<state, leader_id, current_term, voted_for>>
peerVars == <<peers, online, stale>>
roundVars == <<pc, todo, target>>
netVars == <<request, reply, cut, faults>>
vars == <<up, electionVars, peerVars, roundVars, netVars>>

TermOrNone == Nat \cup {None}

TypeOK ==
    /\ up \in [Coordinator -> BOOLEAN]
    /\ state \in [Coordinator -> {"FOLLOWER", "LEADER"}]
    /\ leader_id \in [Coordinator -> Coordinator \cup {None}]
    /\ current_term \in [Coordinator -> Nat]
    /\ voted_for \in [Coordinator -> Coordinator \cup {None}]
    /\ peers \in [Coordinator -> SUBSET Coordinator]
    /\ online \in [Coordinator -> SUBSET Coordinator]
    /\ stale \in [Coordinator -> SUBSET Coordinator]
    /\ pc \in [Coordinator -> {"probe", "wait"}]
    /\ todo \in [Coordinator -> SUBSET Coordinator]
    /\ target \in [Coordinator -> Coordinator \cup {None}]
    /\ request \in [Coordinator -> [Coordinator -> TermOrNone]]
    /\ reply \in [Coordinator -> TermOrNone]
    /\ cut \in SUBSET SUBSET Coordinator
    /\ faults \in Nat

-----------------------------------------------------------------------------
(* Helpers.                                                                *)

\* The quorum of the fixed initial membership.  add_peer raises
\* _initial_cluster_size; a peer admitted by an inbound heartbeat does not.
InitialClusterSize(c) == Cardinality(Config[c]) + 1
Quorum(c) == InitialClusterSize(c) \div 2 + 1

Linked(c, d) == {c, d} \notin cut
Reachable(c, d) == up[d] /\ Linked(c, d)

\* One fault, out of the MaxFaults a behaviour may have.
Fault == faults < MaxFaults /\ faults' = faults + 1

\* A step of the environment that costs a fault unless ok holds.
FaultUnless(ok) == IF ok THEN UNCHANGED faults ELSE Fault

\* _peers[d] gets a fresh last_seen and online = True, in c.
Heard(c, d) ==
    /\ peers' = [peers EXCEPT ![c] = @ \cup {d}]
    /\ online' = [online EXCEPT ![c] = @ \cup {d}]
    /\ stale' = [stale EXCEPT ![c] = @ \ {d}]

\* Mutant: the sender's term is taken over without comparing it.
TakeTerm(c, term) ==
    /\ current_term' = [current_term EXCEPT ![c] = term]
    /\ voted_for' = [voted_for EXCEPT ![c] = None]

\* A higher term is adopted and the vote dropped (the callers drop leadership).
AdoptTerm(c, term) ==
    /\ current_term' = [current_term EXCEPT ![c] = IF term > @ THEN term ELSE @]
    /\ voted_for' = [voted_for EXCEPT ![c] =
                        IF term > current_term[c] THEN None ELSE @]

-----------------------------------------------------------------------------
(* The life of a process.                                                  *)

Init ==
    /\ up = [c \in Coordinator |-> c \in Booted]
    /\ state = [c \in Coordinator |-> "FOLLOWER"]
    /\ leader_id = [c \in Coordinator |-> None]
    /\ current_term = [c \in Coordinator |-> 0]
    /\ voted_for = [c \in Coordinator |-> None]
    /\ peers = Config
    /\ online = Config
    /\ stale = [c \in Coordinator |-> {}]
    /\ pc = [c \in Coordinator |-> "probe"]
    /\ todo = Config
    /\ target = [c \in Coordinator |-> None]
    /\ request = [c \in Coordinator |-> [d \in Coordinator |-> None]]
    /\ reply = [c \in Coordinator |-> None]
    /\ cut = {}
    /\ faults = 0

\* What a new RayFaultTolerance holds once add_peer has run for each configured
\* peer: a peer is online and seen just now without having been contacted.
Fresh(c) ==
    /\ state' = [state EXCEPT ![c] = "FOLLOWER"]
    /\ leader_id' = [leader_id EXCEPT ![c] = None]
    /\ current_term' = [current_term EXCEPT ![c] = 0]
    /\ voted_for' = [voted_for EXCEPT ![c] = None]
    /\ peers' = [peers EXCEPT ![c] = Config[c]]
    /\ online' = [online EXCEPT ![c] = Config[c]]
    /\ stale' = [stale EXCEPT ![c] = {}]

\* The process comes up and calls enable_ha, which ends with start().
EnableHA(c) ==
    /\ ~up[c]
    /\ up' = [up EXCEPT ![c] = TRUE]
    /\ Fresh(c)
    /\ UNCHANGED <<roundVars, netVars>>

\* The process dies.  Nothing was saved: save_election_state has no caller.
Crash(c) ==
    /\ up[c]
    /\ up' = [up EXCEPT ![c] = FALSE]
    /\ Fresh(c)
    /\ pc' = [pc EXCEPT ![c] = "probe"]
    /\ todo' = [todo EXCEPT ![c] = Config[c]]
    /\ target' = [target EXCEPT ![c] = None]
    /\ reply' = [reply EXCEPT ![c] = None]
    /\ Fault
    /\ UNCHANGED <<request, cut>>

-----------------------------------------------------------------------------
(* The election round of c's thread: _run_election_round.  Between rounds    *)
(* the thread sleeps and then copies the peers under the lock; neither      *)
(* changes anything, so a round is about to begin whenever all are to do.   *)
(* A peer admitted by its own heartbeat has host "" and port 0, for which   *)
(* the transport raises at once without effect: only the configured peers   *)
(* are to do.                                                              *)

RoundToBegin(c) == pc[c] = "probe" /\ todo[c] = Config[c]

\* _probe_peer, up to the transport: the payload is read under the lock.  Peers
\* are probed in the order they were added (a dict keeps it), which is that of
\* their ids when they are configured in it.  An older heartbeat from c to d
\* still on its way is superseded (bound: one in flight per ordered pair).
SendProbe(c, d) ==
    /\ up[c] /\ pc[c] = "probe"
    /\ d \in todo[c] /\ \A e \in todo[c] : d <= e
    /\ pc' = [pc EXCEPT ![c] = "wait"]
    /\ todo' = [todo EXCEPT ![c] = @ \ {d}]
    /\ target' = [target EXCEPT ![c] = d]
    /\ request' = [request EXCEPT ![c][d] = current_term[c]]
    /\ UNCHANGED <<up, electionVars, peerVars, reply, cut, faults>>

\* Mutant: a leader does not yield to a lower id.
YieldsToTermOnly(d, c) == request[c][d] > current_term[d]

\* Whether c's heartbeat makes d a follower: a higher term, or a lower id.  The
\* sender's own state is not part of the heartbeat.
Yields(d, c) == request[c][d] > current_term[d] \/ c < d

\* What the transport's answer shows under "term"; 0 when it is not there.
AnswerTerm(d) == IF TermInReply THEN current_term'[d] ELSE 0

\* d's endpoint handles c's heartbeat (handle_heartbeat_request, one critical
\* section) and answers, if c is still waiting for it.
HandleHeartbeat(d, c) ==
    /\ up[d] /\ Linked(c, d) /\ request[c][d] # None
    /\ Heard(d, c)
    /\ AdoptTerm(d, request[c][d])
    /\ state' = [state EXCEPT ![d] = IF Yields(d, c) THEN "FOLLOWER" ELSE @]
    /\ leader_id' = [leader_id EXCEPT ![d] = IF c < d THEN c ELSE @]
    /\ request' = [request EXCEPT ![c][d] = None]
    /\ reply' = [reply EXCEPT ![c] =
                    IF pc[c] = "wait" /\ target[c] = d THEN AnswerTerm(d) ELSE @]
    /\ UNCHANGED <<up, roundVars, cut, faults>>

\* The rest of _probe_peer, when the transport returned.
ProbeReply(c) ==
    /\ pc[c] = "wait" /\ reply[c] # None
    /\ Heard(c, target[c])
    /\ AdoptTerm(c, reply[c])
    /\ state' = [state EXCEPT ![c] =
                    IF reply[c] > current_term[c] THEN "FOLLOWER" ELSE @]
    /\ pc' = [pc EXCEPT ![c] = "probe"]
    /\ target' = [target EXCEPT ![c] = None]
    /\ reply' = [reply EXCEPT ![c] = None]
    /\ UNCHANGED <<up, leader_id, todo, request, cut, faults>>

\* The transport raised.  An unreachable peer refuses the connection or lets it
\* time out, and the request is lost.  A reachable one was too slow (a fault):
\* the request is lost, or still on its way and handled later; an answer is lost.
ProbeFail(c) ==
    /\ pc[c] = "wait"
    /\ FaultUnless(~Reachable(c, target[c]))
    /\ \/ request' = [request EXCEPT ![c][target[c]] = None]
       \/ Reachable(c, target[c]) /\ UNCHANGED request
    /\ pc' = [pc EXCEPT ![c] = "probe"]
    /\ target' = [target EXCEPT ![c] = None]
    /\ reply' = [reply EXCEPT ![c] = None]
    /\ UNCHANGED <<up, electionVars, peerVars, todo, cut>>

\* Mutant: a silent peer is never marked offline.
NeverOffline(c) == online[c]

\* The closing critical section of a round: the peers that stay online.
StillOnline(c) == online[c] \ stale[c]
AliveIds(c) == {c} \cup StillOnline(c)

RoundDone(c) ==
    /\ up[c] /\ pc[c] = "probe" /\ todo[c] = {}
    /\ todo' = [todo EXCEPT ![c] = Config[c]]
    /\ online' = [online EXCEPT ![c] = StillOnline(c)]
    /\ UNCHANGED <<up, peers, stale, pc, target, netVars>>

\* Mutant: a leader that lost its quorum keeps leading.
RoundIgnoresQuorum(c) ==
    /\ RoundDone(c)
    /\ Cardinality(AliveIds(c)) < Quorum(c)
    /\ UNCHANGED electionVars

\* Mutant: without a quorum it becomes a candidate.
RoundMakesCandidate(c) ==
    /\ RoundDone(c)
    /\ Cardinality(AliveIds(c)) < Quorum(c)
    /\ state' = [state EXCEPT ![c] = "CANDIDATE"]
    /\ UNCHANGED <<leader_id, current_term, voted_for>>

\* Too few are alive: a leader steps down, and a follower keeps its view.
RoundWithoutQuorum(c) ==
    /\ RoundDone(c)
    /\ Cardinality(AliveIds(c)) < Quorum(c)
    /\ state' = [state EXCEPT ![c] = "FOLLOWER"]
    /\ leader_id' = [leader_id EXCEPT ![c] = IF state[c] = "LEADER" THEN None ELSE @]
    /\ UNCHANGED <<current_term, voted_for>>

\* While a link is cut, two coordinators that both reach a third one but not
\* each other can outbid each other's terms through it, for as long as it is cut.
TermBound == IF cut = {} THEN MaxTerm ELSE MaxCutTerm

\* The lowest id that is alive leads; it opens a new term if it did not lead.
RoundElects(c) ==
    /\ RoundDone(c)
    /\ Cardinality(AliveIds(c)) >= Quorum(c)
    /\ \E new_leader \in AliveIds(c) :
          LET wins == new_leader = c
              opens == wins /\ state[c] # "LEADER"
          IN  /\ \A d \in AliveIds(c) : new_leader <= d
              /\ opens => current_term[c] < TermBound
              /\ current_term' = [current_term EXCEPT ![c] = IF opens THEN @ + 1 ELSE @]
              /\ voted_for' = [voted_for EXCEPT ![c] = IF opens THEN c ELSE @]
              /\ state' = [state EXCEPT ![c] = IF wins THEN "LEADER" ELSE "FOLLOWER"]
              /\ leader_id' = [leader_id EXCEPT ![c] = new_leader]

-----------------------------------------------------------------------------
(* The environment.                                                        *)

\* election_timeout_s passes at c without news of d: either d cannot be
\* reached, or its heartbeats and answers were late (a fault).
Expire(c, d) ==
    /\ up[c] /\ d \in peers[c] \ stale[c]
    /\ FaultUnless(~Reachable(c, d))
    /\ stale' = [stale EXCEPT ![c] = @ \cup {d}]
    /\ UNCHANGED <<up, electionVars, peers, online, roundVars, request, reply, cut>>

CutLink(c, d) ==
    /\ c # d /\ Linked(c, d)
    /\ Fault
    /\ cut' = cut \cup {{c, d}}
    /\ UNCHANGED <<up, electionVars, peerVars, roundVars, request, reply>>

HealLink(c, d) ==
    /\ c # d /\ ~Linked(c, d)
    /\ cut' = cut \ {{c, d}}
    /\ UNCHANGED <<up, electionVars, peerVars, roundVars, request, reply, faults>>

-----------------------------------------------------------------------------
\* The steps of c's election thread.
ThreadStep(c) ==
    \/ \E d \in Coordinator : SendProbe(c, d)
    \/ ProbeReply(c)
    \/ ProbeFail(c)
    \/ RoundWithoutQuorum(c)
    \/ RoundElects(c)

EnvironmentStep(c) ==
    \/ EnableHA(c)
    \/ Crash(c)
    \/ \E d \in Coordinator : Expire(c, d) \/ CutLink(c, d) \/ HealLink(c, d)

Next ==
    \E c \in Coordinator :
        \/ ThreadStep(c)
        \/ \E d \in Coordinator : HandleHeartbeat(c, d)
        \/ EnvironmentStep(c)

\* The thread of a running process is scheduled and time passes; the network
\* delivers over a link that stays up, and a cut link comes back.  Nothing
\* makes a process crash or come up.
Fairness ==
    \A c \in Coordinator :
        /\ WF_vars(ThreadStep(c))
        /\ \A d \in Coordinator \ {c} :
              /\ WF_vars(HandleHeartbeat(d, c))
              /\ WF_vars(Expire(c, d) /\ UNCHANGED faults)
              /\ c < d => WF_vars(HealLink(c, d))

Spec == Init /\ [][Next]_vars
FairSpec == Spec /\ Fairness

-----------------------------------------------------------------------------
(* Properties.                                                             *)

\* A coordinator in state LEADER counts a quorum of the initial membership as
\* online, at every moment and not only when it was elected: every path that
\* takes a peer offline also reconsiders leadership in the same critical section.
LeaderHasQuorum ==
    \A c \in Coordinator :
        state[c] = "LEADER" => Cardinality({c} \cup online[c]) >= Quorum(c)

\* A LEADER that counts a lower id as online is in the middle of a round, whose
\* end will make it step down: between rounds it outranks every peer it sees.
LeaderOutranksOnline ==
    \A c \in Coordinator :
        state[c] = "LEADER" /\ RoundToBegin(c) => \A d \in online[c] : c < d

\* A tenure belongs to one term: whoever becomes LEADER has opened a term higher
\* than every term it held, with its own vote, and a LEADER whose term changes
\* has lost its leadership in the same critical section.
TenureIsOneTerm ==
    [][\A c \in Coordinator :
          state'[c] = "LEADER" =>
              \/ state[c] = "LEADER" /\ current_term'[c] = current_term[c]
              \/ current_term'[c] > current_term[c] /\ voted_for'[c] = c]_vars

UpSet == {c \in Coordinator : up[c]}

\* With a quorum up, the lowest running id leads and no other coordinator does;
\* without one, nobody leads.
Settled ==
    \A c \in UpSet :
        state[c] = "LEADER" <=> /\ \A d \in UpSet : c <= d
                                /\ Cardinality(UpSet) >= Quorum(c)

\* Once faults have stopped, leadership settles for good: "the coordinator with
\* the lowest ID that is alive becomes the leader", after a crash, a restart, a
\* cut link or a lost or late heartbeat at any point of anyone's round.
LeadershipSettles == <>[]Settled

\* Two coordinators never lead in the same term: what "Quorum-based election
\* (prevents split-brain)" promises in the sense of Raft.
ElectionSafety ==
    \A c, d \in Coordinator :
        state[c] = "LEADER" /\ state[d] = "LEADER" /\ c # d
            => current_term[c] # current_term[d]
=============================================================================
