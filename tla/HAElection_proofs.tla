-------------------------- MODULE HAElection_proofs --------------------------
(***************************************************************************)
(* Safety of the leader election for any number of coordinators, any       *)
(* configuration of peers and any bounds.                                  *)
(***************************************************************************)
EXTENDS HAElection, FiniteSetTheorems, TLAPS

(***************************************************************************)
(* What the election thread knows of its own round: it only probes peers   *)
(* it was configured with, and the one it waits for is no longer to do.    *)
(* Hence no coordinator sends itself a heartbeat or counts itself a peer.  *)
(***************************************************************************)
ProbeInv ==
    \A c \in Coordinator :
        /\ todo[c] \subseteq Config[c]
        /\ pc[c] = "wait" => target[c] \in Config[c] \ todo[c]
        /\ request[c][c] = None
        /\ c \notin online[c]

TypeInv == TypeOK /\ ProbeInv

(***************************************************************************)
(* TypeOK is not inductive by itself: when an answer arrives, the thread    *)
(* must have a target.  With ProbeInv it is.                               *)
(***************************************************************************)
LEMMA TypeInvariant == Spec => []TypeInv
<1>. USE CoordinatorAssumption, ConfigAssumption, ConfigNotSelf, BootedAssumption,
         BoundsAssumption DEF TypeInv, TypeOK, ProbeInv, TermOrNone
<1>1. Init => TypeInv
  BY DEF Init
<1>2. ASSUME TypeInv, [Next]_vars PROVE TypeInv'
  <2>. USE <1>2
  <2>. USE DEF electionVars, peerVars, roundVars, netVars, Fault, FaultUnless
  <2>1. ASSUME NEW c \in Coordinator, EnableHA(c) PROVE TypeInv'
    BY <2>1 DEF EnableHA, Fresh
  <2>2. ASSUME NEW c \in Coordinator, Crash(c) PROVE TypeInv'
    BY <2>2 DEF Crash, Fresh
  <2>3. ASSUME NEW c \in Coordinator, NEW d \in Coordinator, SendProbe(c, d)
        PROVE  TypeInv'
    BY <2>3 DEF SendProbe
  <2>4. ASSUME NEW c \in Coordinator, NEW d \in Coordinator, HandleHeartbeat(d, c)
        PROVE  TypeInv'
    BY <2>4 DEF HandleHeartbeat, Heard, AdoptTerm, AnswerTerm
  <2>5. ASSUME NEW c \in Coordinator, ProbeReply(c) PROVE TypeInv'
    BY <2>5 DEF ProbeReply, Heard, AdoptTerm
  <2>6. ASSUME NEW c \in Coordinator, ProbeFail(c) PROVE TypeInv'
    BY <2>6 DEF ProbeFail
  <2>7. ASSUME NEW c \in Coordinator, RoundWithoutQuorum(c) PROVE TypeInv'
    BY <2>7 DEF RoundWithoutQuorum, RoundDone, StillOnline
  <2>8. ASSUME NEW c \in Coordinator, RoundElects(c) PROVE TypeInv'
    BY <2>8 DEF RoundElects, RoundDone, StillOnline, AliveIds
  <2>9. ASSUME NEW c \in Coordinator, NEW d \in Coordinator, Expire(c, d)
        PROVE  TypeInv'
    BY <2>9 DEF Expire
  <2>10. ASSUME NEW c \in Coordinator, NEW d \in Coordinator, CutLink(c, d)
         PROVE  TypeInv'
    BY <2>10 DEF CutLink
  <2>11. ASSUME NEW c \in Coordinator, NEW d \in Coordinator, HealLink(c, d)
         PROVE  TypeInv'
    BY <2>11 DEF HealLink
  <2>12. CASE UNCHANGED vars
    BY <2>12 DEF vars
  <2>. QED
    BY <2>1, <2>2, <2>3, <2>4, <2>5, <2>6, <2>7, <2>8, <2>9, <2>10, <2>11, <2>12
    DEF Next, ThreadStep, EnvironmentStep
<1>. QED
  BY <1>1, <1>2, PTL DEF Spec

(***************************************************************************)
(* Every variable keeps its type; in particular nothing but a term is ever *)
(* stored where the election compares terms.                               *)
(***************************************************************************)
THEOREM TypeCorrect == Spec => []TypeOK
  BY TypeInvariant, PTL DEF TypeInv

-----------------------------------------------------------------------------
(***************************************************************************)
(* A leader that still leads after a step either saw no peer go offline in *)
(* it, or has just counted its peers and found a quorum.                   *)
(***************************************************************************)
Counted(c) ==
    state'[c] = "LEADER" =>
        \/ state[c] = "LEADER" /\ online[c] \subseteq online'[c]
        \/ Cardinality({c} \cup online'[c]) >= Quorum(c)

LEMMA LeaderCounted ==
    ASSUME TypeInv, [Next]_vars, NEW c \in Coordinator
    PROVE  Counted(c)
<1>. USE DEF Counted, TypeInv, TypeOK
<1>. USE DEF electionVars, peerVars, roundVars, netVars
<1>1. ASSUME NEW b \in Coordinator, EnableHA(b) PROVE Counted(c)
  BY <1>1 DEF EnableHA, Fresh
<1>2. ASSUME NEW b \in Coordinator, Crash(b) PROVE Counted(c)
  BY <1>2 DEF Crash, Fresh
<1>3. ASSUME NEW b \in Coordinator, NEW d \in Coordinator, SendProbe(b, d)
      PROVE  Counted(c)
  BY <1>3 DEF SendProbe
<1>4. ASSUME NEW b \in Coordinator, NEW d \in Coordinator, HandleHeartbeat(b, d)
      PROVE  Counted(c)
  BY <1>4 DEF HandleHeartbeat, Heard
<1>5. ASSUME NEW b \in Coordinator, ProbeReply(b) PROVE Counted(c)
  BY <1>5 DEF ProbeReply, Heard
<1>6. ASSUME NEW b \in Coordinator, ProbeFail(b) PROVE Counted(c)
  BY <1>6 DEF ProbeFail
<1>7. ASSUME NEW b \in Coordinator, RoundWithoutQuorum(b) PROVE Counted(c)
  BY <1>7 DEF RoundWithoutQuorum, RoundDone
<1>8. ASSUME NEW b \in Coordinator, RoundElects(b) PROVE Counted(c)
  <2>1. CASE b = c
    <3>1. {c} \cup online'[c] = AliveIds(c)
      BY <1>8, <2>1 DEF RoundElects, RoundDone, AliveIds
    <3>. QED
      BY <1>8, <2>1, <3>1 DEF RoundElects
  <2>2. CASE b # c
    BY <1>8, <2>2 DEF RoundElects, RoundDone
  <2>. QED
    BY <2>1, <2>2
<1>9. ASSUME NEW b \in Coordinator, NEW d \in Coordinator,
             Expire(b, d) \/ CutLink(b, d) \/ HealLink(b, d)
      PROVE  Counted(c)
  BY <1>9 DEF Expire, CutLink, HealLink
<1>10. CASE UNCHANGED vars
  BY <1>10 DEF vars
<1>. QED
  BY <1>1, <1>2, <1>3, <1>4, <1>5, <1>6, <1>7, <1>8, <1>9, <1>10
  DEF Next, ThreadStep, EnvironmentStep

(***************************************************************************)
(* What is online only grows between two counts, so a leader's quorum      *)
(* holds between rounds too, whatever heartbeats arrive.                   *)
(***************************************************************************)
THEOREM QuorumSafety == Spec => []LeaderHasQuorum
<1>1. Init => LeaderHasQuorum
  BY DEF Init, LeaderHasQuorum
<1>2. ASSUME TypeInv, TypeInv', LeaderHasQuorum, [Next]_vars
      PROVE  LeaderHasQuorum'
  <2>. SUFFICES ASSUME NEW c \in Coordinator, state'[c] = "LEADER"
                PROVE  Cardinality({c} \cup online'[c]) >= Quorum(c)
    BY DEF LeaderHasQuorum
  <2>1. CASE Cardinality({c} \cup online'[c]) >= Quorum(c)
    BY <2>1
  <2>2. CASE state[c] = "LEADER" /\ online[c] \subseteq online'[c]
    <3>1. IsFiniteSet({c} \cup online'[c])
      BY <1>2, CoordinatorAssumption, FS_Subset DEF TypeInv, TypeOK
    <3>2. /\ IsFiniteSet({c} \cup online[c])
          /\ Cardinality({c} \cup online[c]) <= Cardinality({c} \cup online'[c])
      BY <2>2, <3>1, FS_Subset
    <3>3. /\ Cardinality({c} \cup online[c]) \in Nat
          /\ Cardinality({c} \cup online'[c]) \in Nat
      BY <3>1, <3>2, FS_CardinalityType
    <3>4. Quorum(c) \in Nat
      <4>1. Cardinality(Config[c]) \in Nat
        BY CoordinatorAssumption, ConfigAssumption, FS_Subset, FS_CardinalityType
      <4>. QED
        BY <4>1 DEF Quorum, InitialClusterSize
    <3>. QED
      BY <1>2, <2>2, <3>2, <3>3, <3>4 DEF LeaderHasQuorum
  <2>. QED
    BY <1>2, <2>1, <2>2, LeaderCounted DEF Counted
<1>. QED
  BY <1>1, <1>2, TypeInvariant, PTL DEF Spec

-----------------------------------------------------------------------------
(***************************************************************************)
(* Between rounds a leader outranks every peer it counts as online: an     *)
(* inbound heartbeat of a lower id makes it step down at once, and an      *)
(* answer from one to a probe is followed by the end of the same round.    *)
(***************************************************************************)
THEOREM Outranking == Spec => []LeaderOutranksOnline
<1>. USE CoordinatorAssumption, ConfigAssumption, ConfigNotSelf
         DEF LeaderOutranksOnline, RoundToBegin
<1>1. Init => LeaderOutranksOnline
  BY DEF Init
<1>2. ASSUME TypeInv, LeaderOutranksOnline, [Next]_vars
      PROVE  LeaderOutranksOnline'
  <2>. USE <1>2 DEF TypeInv, TypeOK, ProbeInv
  <2>. USE DEF electionVars, peerVars, roundVars, netVars
  <2>1. ASSUME NEW b \in Coordinator, EnableHA(b) PROVE LeaderOutranksOnline'
    BY <2>1 DEF EnableHA, Fresh
  <2>2. ASSUME NEW b \in Coordinator, Crash(b) PROVE LeaderOutranksOnline'
    BY <2>2 DEF Crash, Fresh
  <2>3. ASSUME NEW b \in Coordinator, NEW d \in Coordinator, SendProbe(b, d)
        PROVE  LeaderOutranksOnline'
    BY <2>3 DEF SendProbe
  <2>4. ASSUME NEW b \in Coordinator, NEW d \in Coordinator, HandleHeartbeat(b, d)
        PROVE  LeaderOutranksOnline'
    <3>1. d # b
      BY <2>4 DEF HandleHeartbeat
    <3>2. state'[b] = "LEADER" => b < d
      BY <2>4, <3>1 DEF HandleHeartbeat, Yields
    <3>. QED
      BY <2>4, <3>2 DEF HandleHeartbeat, Heard
  <2>5. ASSUME NEW b \in Coordinator, ProbeReply(b) PROVE LeaderOutranksOnline'
    BY <2>5 DEF ProbeReply, Heard
  <2>6. ASSUME NEW b \in Coordinator, ProbeFail(b) PROVE LeaderOutranksOnline'
    BY <2>6 DEF ProbeFail
  <2>7. ASSUME NEW b \in Coordinator, RoundWithoutQuorum(b)
        PROVE  LeaderOutranksOnline'
    BY <2>7 DEF RoundWithoutQuorum, RoundDone
  <2>8. ASSUME NEW b \in Coordinator, RoundElects(b) PROVE LeaderOutranksOnline'
    BY <2>8 DEF RoundElects, RoundDone, AliveIds, StillOnline
  <2>9. ASSUME NEW b \in Coordinator, NEW d \in Coordinator,
               Expire(b, d) \/ CutLink(b, d) \/ HealLink(b, d)
        PROVE  LeaderOutranksOnline'
    BY <2>9 DEF Expire, CutLink, HealLink
  <2>10. CASE UNCHANGED vars
    BY <2>10 DEF vars
  <2>. QED
    BY <2>1, <2>2, <2>3, <2>4, <2>5, <2>6, <2>7, <2>8, <2>9, <2>10
    DEF Next, ThreadStep, EnvironmentStep
<1>. QED
  BY <1>1, <1>2, TypeInvariant, PTL DEF Spec

-----------------------------------------------------------------------------
(***************************************************************************)
(* Leadership and term move together: no step changes the term of a        *)
(* coordinator that goes on leading, and none makes a leader without       *)
(* opening a term with its own vote.                                       *)
(***************************************************************************)
TenureStep(c) ==
    state'[c] = "LEADER" =>
        \/ state[c] = "LEADER" /\ current_term'[c] = current_term[c]
        \/ current_term'[c] > current_term[c] /\ voted_for'[c] = c

THEOREM Tenure == Spec => TenureIsOneTerm
<1>1. ASSUME TypeInv, [Next]_vars, NEW c \in Coordinator PROVE TenureStep(c)
  <2>. USE <1>1 DEF TenureStep, TypeInv, TypeOK, ProbeInv, TermOrNone
  <2>. USE DEF electionVars, peerVars, roundVars, netVars
  <2>1. ASSUME NEW b \in Coordinator, EnableHA(b) \/ Crash(b) PROVE TenureStep(c)
    BY <2>1 DEF EnableHA, Crash, Fresh
  <2>2. ASSUME NEW b \in Coordinator, NEW d \in Coordinator, SendProbe(b, d)
        PROVE  TenureStep(c)
    BY <2>2 DEF SendProbe
  <2>3. ASSUME NEW b \in Coordinator, NEW d \in Coordinator, HandleHeartbeat(b, d)
        PROVE  TenureStep(c)
    BY <2>3 DEF HandleHeartbeat, AdoptTerm, Yields
  <2>4. ASSUME NEW b \in Coordinator, ProbeReply(b) PROVE TenureStep(c)
    BY <2>4 DEF ProbeReply, AdoptTerm
  <2>5. ASSUME NEW b \in Coordinator, ProbeFail(b) PROVE TenureStep(c)
    BY <2>5 DEF ProbeFail
  <2>6. ASSUME NEW b \in Coordinator, RoundWithoutQuorum(b) PROVE TenureStep(c)
    BY <2>6 DEF RoundWithoutQuorum
  <2>7. ASSUME NEW b \in Coordinator, RoundElects(b) PROVE TenureStep(c)
    BY <2>7 DEF RoundElects
  <2>8. ASSUME NEW b \in Coordinator, NEW d \in Coordinator,
               Expire(b, d) \/ CutLink(b, d) \/ HealLink(b, d)
        PROVE  TenureStep(c)
    BY <2>8 DEF Expire, CutLink, HealLink
  <2>9. CASE UNCHANGED vars
    BY <2>9 DEF vars
  <2>. QED
    BY <2>1, <2>2, <2>3, <2>4, <2>5, <2>6, <2>7, <2>8, <2>9
    DEF Next, ThreadStep, EnvironmentStep
<1>2. TypeInv /\ [Next]_vars =>
        [\A c \in Coordinator :
            state'[c] = "LEADER" =>
              \/ state[c] = "LEADER" /\ current_term'[c] = current_term[c]
              \/ current_term'[c] > current_term[c] /\ voted_for'[c] = c]_vars
  BY <1>1 DEF TenureStep
<1>. QED
  BY <1>2, TypeInvariant, PTL DEF Spec, TenureIsOneTerm

=============================================================================
