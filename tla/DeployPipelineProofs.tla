------------------------- MODULE DeployPipelineProofs -------------------------
(* What holds of DeployPipeline for every value of its constants. *)
EXTENDS DeployPipeline, SequenceTheorems, TLAPS

-------------------------------------------------------------------------------
(* The newest n elements of a sequence are a sequence of at most n elements *)
(* when it had at most one more.                                            *)
LEMMA NewestType ==
  ASSUME NEW S, NEW s \in Seq(S), NEW n \in Nat
  PROVE  /\ Newest(s, n) \in Seq(S)
         /\ Len(Newest(s, n)) <= n
<1>1. CASE Len(s) > n
  <2> DEFINE m == Len(s) - n + 1
  <2>1. Len(s) \in Nat /\ m \in Int
    BY LenProperties
  <2>2. \A i \in m .. Len(s) : s[i] \in S
    BY <1>1, <2>1, ElementOfSeq
  <2>3. /\ SubSeq(s, m, Len(s)) \in Seq(S)
        /\ Len(SubSeq(s, m, Len(s))) = IF m <= Len(s) THEN Len(s) - m + 1 ELSE 0
    BY <2>1, <2>2, SubSeqProperties
  <2> QED
    BY <1>1, <2>1, <2>3 DEF Newest
<1>2. CASE ~(Len(s) > n)
  BY <1>2, LenProperties DEF Newest
<1> QED
  BY <1>1, <1>2

(* Advancing a state gives a state, with a history within its bound. *)
LEMMA AdvanceType ==
  ASSUME NEW s \in States, Len(s.history) <= MaxHistory,
         NEW seq \in Nat, NEW snap \in Snapshots
  PROVE  /\ Advance(s, seq, snap) \in States
         /\ Len(Advance(s, seq, snap).history) <= MaxHistory
<1>1. CASE s.good = None
  BY <1>1 DEF Advance, States
<1>2. CASE s.good # None
  <2>1. s.good \in Snapshots /\ s.history \in Seq(Snapshots)
    BY <1>2 DEF States
  <2>2. Append(s.history, s.good) \in Seq(Snapshots)
    BY <2>1, AppendProperties
  <2>3. /\ Newest(Append(s.history, s.good), MaxHistory) \in Seq(Snapshots)
        /\ Len(Newest(Append(s.history, s.good), MaxHistory)) <= MaxHistory
    BY <2>2, NewestType, ConstantsAssumption
  <2> QED
    BY <1>2, <2>3 DEF Advance, States
<1> QED
  BY <1>1, <1>2

-------------------------------------------------------------------------------
LEMMA PayloadsTyped == \A p \in Payloads :
  /\ p.seq \in Nat
  /\ p.digest \in Digests
  /\ p.env \in Envs
  /\ p.edge \in SUBSET Edges
  /\ SetOf(p) \in RunSets
BY ConstantsAssumption DEF PayloadType, SetOf, RunSets

(* One more directory leaves the others as they are. *)
LEMMA GrowsKeeping ==
  ASSUME NEW S, NEW s \in Seq(S), NEW e \in S
  PROVE  /\ Append(s, e) \in Seq(S)
         /\ Len(s) \in Nat
         /\ DOMAIN s = 1 .. Len(s)
         /\ DOMAIN Append(s, e) = 1 .. Len(s) + 1
         /\ DOMAIN s \subseteq DOMAIN Append(s, e)
         /\ \A n \in DOMAIN s : Append(s, e)[n] = s[n]
         /\ Append(s, e)[Len(s) + 1] = e
BY AppendProperties, LenProperties

(* What a restart leaves of the directories is a sequence as long. *)
LEMMA AllGone ==
  ASSUME NEW S, NEW s \in Seq(S)
  PROVE  [n \in DOMAIN s |-> None] \in Seq(S \cup {None})
<1>1. DOMAIN s = 1 .. Len(s) /\ Len(s) \in Nat
  BY LenProperties
<1> QED
  BY <1>1, IsASeq

LEMMA FreshStateType == FreshState \in States /\ Len(FreshState.history) = 0
BY DEF FreshState, States

(* A Run past admission has a payload; one that rolls back has found a      *)
(* snapshot to go back to.                                                  *)
HasPayload == \A r \in Runs :
  /\ pc[r] # "idle" => req[r] \in Payloads
  /\ pc[r] \in {"idle", "verify"} => ~back[r]
  /\ back[r] /\ InFlight(r) =>
       /\ st[r].good # None
       /\ st[r].good.ref \in DOMAIN snaps
       /\ snaps[st[r].good.ref] # None

TypeInv == TypeOK /\ HasPayload

LEMMA TypeInvariant == Spec => []TypeInv
<1>1. Init => TypeInv
  BY ConstantsAssumption
  DEF Init, TypeInv, TypeOK, HasPayload, States, FreshState, NoRef, Stages, InFlight
<1>2. TypeInv /\ [Next]_vars => TypeInv'
  <2> SUFFICES ASSUME TypeInv, [Next]_vars
               PROVE  TypeInv'
    OBVIOUS
  <2> USE ConstantsAssumption DEF TypeInv, TypeOK, HasPayload
  <2>1. ASSUME NEW r \in Runs, NEW p \in Payloads, Admit(r, p) \/ Refuse(r, p)
        PROVE  TypeInv'
    <3>1. /\ deploys' \in 0 .. MaxDeploys
          /\ req' = [req EXCEPT ![r] = p]
          /\ st' = [st EXCEPT ![r] = state]
          /\ UNCHANGED <<slotVars, noteVars, cancelled>>
      BY <2>1 DEF Admit, Refuse, MayBegin, Begin
    <3>2. \E stage \in {"verify", "done"} : pc' = [pc EXCEPT ![r] = stage]
      BY <2>1 DEF Admit, Refuse
    <3>3. result' \in [Runs -> Results \cup {None}]
      BY <2>1 DEF Admit, Refuse, Results
    <3>4. ~back[r]
      BY <2>1 DEF Admit, Refuse, MayBegin, Idle
    <3>5. TypeOK'
      <4>1. /\ st' \in [Runs -> States]
            /\ \A q \in Runs : Len(st'[q].history) <= MaxHistory
        BY <3>1
      <4>2. pc' \in [Runs -> Stages]
        BY <3>2 DEF Stages
      <4>3. req' \in [Runs -> Payloads \cup {None}]
        BY <3>1
      <4> QED
        BY <3>1, <3>3, <4>1, <4>2, <4>3 DEF slotVars, noteVars
    <3>6. HasPayload'
      <4> SUFFICES ASSUME NEW q \in Runs
                   PROVE  HasPayload!(q)'
        OBVIOUS
      <4>1. CASE q = r
        BY <3>1, <3>2, <3>4, <4>1 DEF slotVars, noteVars, InFlight
      <4>2. CASE q # r
        BY <3>1, <3>2, <4>2 DEF slotVars, noteVars, InFlight
      <4> QED
        BY <4>1, <4>2
    <3> QED
      BY <3>5, <3>6
  <2>2. ASSUME NEW r \in Runs, StageFails(r)
        PROVE  TypeInv'
    BY <2>2, PayloadsTyped DEF StageFails, Finish, slotVars, noteVars, entryVars, Stages, Results, InFlight
  <2>3. ASSUME NEW r \in Runs, Verify(r)
        PROVE  TypeInv'
    BY <2>3, PayloadsTyped DEF Verify, GoTo, At, slotVars, noteVars, entryVars, Stages, Results, InFlight
  <2>4. ASSUME NEW r \in Runs, NoOp(r)
        PROVE  TypeInv'
    BY <2>4, PayloadsTyped DEF NoOp, Finish, At, slotVars, noteVars, entryVars, Stages, Results, InFlight
  <2>5. ASSUME NEW r \in Runs, Proceed(r)
        PROVE  TypeInv'
    BY <2>5, PayloadsTyped DEF Proceed, GoTo, At, slotVars, noteVars, entryVars, Stages, Results, InFlight
  <2>6. ASSUME NEW r \in Runs, Pull(r)
        PROVE  TypeInv'
    BY <2>6, PayloadsTyped DEF Pull, GoTo, At, slotVars, noteVars, entryVars, Stages, Results, InFlight
  <2>7. ASSUME NEW r \in Runs, WriteCompose(r)
        PROVE  TypeInv'
    BY <2>7, PayloadsTyped DEF WriteCompose, GoTo, At, Target, RunSets, SetOf, slotVars, noteVars, entryVars, Stages, Results, InFlight
  <2>8. ASSUME NEW r \in Runs, WriteEnv(r)
        PROVE  TypeInv'
    BY <2>8, PayloadsTyped DEF WriteEnv, GoTo, At, Target, RunSets, SetOf, slotVars, noteVars, entryVars, Stages, Results, InFlight
  <2>9. ASSUME NEW r \in Runs, ComposeUp(r)
        PROVE  TypeInv'
    BY <2>9, PayloadsTyped DEF ComposeUp, GoTo, At, OnDisk, slotVars, noteVars, entryVars, Stages, Results, InFlight
  <2>10. ASSUME NEW r \in Runs, ComposeUpFails(r)
        PROVE  TypeInv'
    BY <2>10, PayloadsTyped DEF ComposeUpFails, Finish, At, UpOutcomes, OnDisk, slotVars, noteVars, entryVars, Stages, Results, InFlight
  <2>11. ASSUME NEW r \in Runs, Healthy(r)
        PROVE  TypeInv'
    BY <2>11, PayloadsTyped DEF Healthy, GoTo, At, slotVars, noteVars, entryVars, Stages, Results, InFlight
  <2>12. ASSUME NEW r \in Runs, StartRollback(r)
         PROVE  TypeInv'
    <3>1. /\ pc' = [pc EXCEPT ![r] = "compose"]
          /\ back' = [back EXCEPT ![r] = TRUE]
          /\ UNCHANGED <<slotVars, ref, degraded, result, cancelled, entryVars>>
      BY <2>12 DEF StartRollback, GoTo
    <3>2. /\ st[r].good # None
          /\ st[r].good.ref \in DOMAIN snaps
          /\ snaps[st[r].good.ref] # None
      BY <2>12 DEF StartRollback, CanRollBack
    <3>5. pc[r] # "idle"
      BY <2>12 DEF StartRollback, At
    <3>6. TypeOK'
      BY <3>1 DEF slotVars, entryVars, Stages
    <3>7. HasPayload'
      BY <3>1, <3>2, <3>5 DEF slotVars, entryVars, InFlight
    <3> QED
      BY <3>6, <3>7
  <2>13. ASSUME NEW r \in Runs, NoRollback(r)
        PROVE  TypeInv'
    BY <2>13, PayloadsTyped DEF NoRollback, Finish, At, slotVars, noteVars, entryVars, Stages, Results, InFlight
  <2>14. ASSUME NEW r \in Runs, RolledBack(r)
        PROVE  TypeInv'
    BY <2>14, PayloadsTyped DEF RolledBack, Finish, At, slotVars, noteVars, entryVars, Stages, Results, InFlight
  <2>15. ASSUME NEW r \in Runs, RollbackUnhealthy(r)
        PROVE  TypeInv'
    BY <2>15, PayloadsTyped DEF RollbackUnhealthy, Finish, At, slotVars, noteVars, entryVars, Stages, Results, InFlight
  <2>16. ASSUME NEW r \in Runs, TakeSnapshot(r)
        PROVE  TypeInv'
    <3>1. /\ pc[r] = "snapshot"
          /\ pc' = [pc EXCEPT ![r] = "proxy"]
          /\ ref' = [ref EXCEPT ![r] = Len(snaps) + 1]
          /\ UNCHANGED <<state, composeFile, envFile, running, edge, back, degraded,
                         result, cancelled, entryVars>>
      BY <2>16 DEF TakeSnapshot, GoTo, At
    <3>2. SetOf(req[r]) \in RunSets \cup {None} /\ snaps' = Append(snaps, SetOf(req[r]))
      BY <2>16, <3>1, PayloadsTyped DEF TakeSnapshot
    <3>3. /\ snaps' \in Seq(RunSets \cup {None})
          /\ Len(snaps) \in Nat
          /\ DOMAIN snaps \subseteq DOMAIN snaps'
          /\ \A n \in DOMAIN snaps : snaps'[n] = snaps[n]
      BY <3>2, GrowsKeeping
    <3>4. TypeOK'
      BY <3>1, <3>3 DEF entryVars, Stages
    <3>5. HasPayload'
      BY <3>1, <3>3 DEF entryVars, InFlight
    <3> QED
      BY <3>4, <3>5
  <2>17. ASSUME NEW r \in Runs, SkipSnapshot(r)
        PROVE  TypeInv'
    BY <2>17, PayloadsTyped DEF SkipSnapshot, GoTo, At, slotVars, noteVars, entryVars, Stages, Results, InFlight
  <2>18. ASSUME NEW r \in Runs, NEW e \in Edges,
                Publish(r, e) \/ PublishFails(r, e) \/ SkipPublish(r, e)
         PROVE  TypeInv'
    <3>1. edge' \in SUBSET Edges /\ degraded' \in [Runs -> BOOLEAN]
      BY <2>18 DEF Publish, PublishFails, SkipPublish, slotVars, noteVars
    <3>2. pc[r] # "idle" /\ pc' = [pc EXCEPT ![r] = After(e)]
      BY <2>18 DEF Publish, PublishFails, SkipPublish, GoTo, At, Edges
    <3>3. UNCHANGED <<state, composeFile, envFile, snaps, running, back, ref,
                      result, cancelled, entryVars>>
      BY <2>18 DEF Publish, PublishFails, SkipPublish, GoTo, slotVars, noteVars
    <3>4. After(e) \in {"dns", "persist"}
      BY DEF After
    <3>5. pc[r] \in {"proxy", "dns"}
      BY <2>18 DEF Publish, PublishFails, SkipPublish, At, Edges
    <3>6. TypeOK'
      BY <3>1, <3>2, <3>3, <3>4 DEF entryVars, Stages
    <3>7. HasPayload'
      BY <3>2, <3>3, <3>4, <3>5 DEF entryVars, InFlight
    <3> QED
      BY <3>6, <3>7
  <2>19. ASSUME NEW r \in Runs, Persist(r)
        PROVE  TypeInv'
    <3> DEFINE snap == [set |-> SetOf(req[r]), ref |-> ref[r]]
    <3>1. req[r] \in Payloads /\ st[r] \in States /\ Len(st[r].history) <= MaxHistory
      BY <2>19 DEF Persist, At
    <3>2. snap \in Snapshots /\ req[r].seq \in Nat
      BY <3>1, PayloadsTyped DEF Snapshots
    <3>3. state' \in States /\ Len(state'.history) <= MaxHistory
      BY <2>19, <3>1, <3>2, AdvanceType DEF Persist
    <3> QED
      BY <2>19, <3>3 DEF Persist, Finish, At, noteVars, entryVars, Stages, Results, InFlight
  <2>20. ASSUME NEW r \in Runs, Answer(r)
        PROVE  TypeInv'
    BY <2>20, FreshStateType DEF Answer, At, slotVars, NoRef, Stages, InFlight
  <2>21. ASSUME NEW r \in Runs, Disconnect(r)
        PROVE  TypeInv'
    BY <2>21 DEF Disconnect, slotVars, noteVars, entryVars, InFlight
  <2>22. ASSUME AgentRestart
        PROVE  TypeInv'
    <3>1. snaps' \in Seq(RunSets \cup {None})
      BY <2>22, AllGone DEF AgentRestart
    <3>2. running' \in RunSets \cup {None}
      BY <2>22 DEF AgentRestart, UpOutcomes
    <3> QED
      BY <2>22, <3>1, <3>2, FreshStateType DEF AgentRestart, NoRef, Stages, InFlight
  <2>23. CASE UNCHANGED vars
    BY <2>23 DEF vars, slotVars, noteVars, entryVars, InFlight
  <2> QED
    BY <2>1, <2>2, <2>3, <2>4, <2>5, <2>6, <2>7, <2>8, <2>9, <2>10, <2>11, <2>12, <2>13, <2>14, <2>15, <2>16, <2>17, <2>18, <2>19, <2>20, <2>21, <2>22, <2>23 DEF Next, Step
<1> QED
  BY <1>1, <1>2, PTL DEF Spec

(* Every variable keeps its type, for any number of overlapping Runs: in    *)
(* particular the history of releases stays within its bound.               *)
THEOREM TypeCorrect == Spec => []TypeOK
<1>1. TypeInv => TypeOK
  BY DEF TypeInv
<1> QED
  BY <1>1, TypeInvariant, PTL

-------------------------------------------------------------------------------
(* A Run between its verification and its answer carries a verified image,  *)
(* and what it read from state.json was a verified release.                 *)
RunsTrusted == \A r \in Runs :
  /\ pc[r] \notin {"idle", "verify", "done"} => req[r].digest \in Trusted
  /\ st[r].good # None => st[r].good.set.digest \in Trusted

TrustInv == OnlyTrusted /\ RunsTrusted

(* The compose file a rollback or a deploy writes names a verified image.   *)
LEMMA TargetTrusted ==
  ASSUME TypeInv, TrustInv, NEW r \in Runs,
         pc[r] \notin {"idle", "verify", "done"}
  PROVE  Target(r) \in RunSets /\ Target(r).digest \in Trusted
<1> USE DEF TypeInv, TypeOK, HasPayload, TrustInv, OnlyTrusted, RunsTrusted, InFlight
<1>1. CASE back[r]
  BY <1>1 DEF Target
<1>2. CASE ~back[r]
  BY <1>2, PayloadsTyped DEF Target, SetOf
<1> QED
  BY <1>1, <1>2

(* No image is started, snapshotted or released unless its signature        *)
(* verified, however many Runs mix their files.                             *)
THEOREM TrustedCorrect == Spec => []OnlyTrusted
<1>1. Init => TrustInv
  BY DEF Init, TrustInv, OnlyTrusted, RunsTrusted, FreshState
<1>2. TypeInv /\ TrustInv /\ [Next]_vars => TrustInv'
  <2> SUFFICES ASSUME TypeInv, TrustInv, [Next]_vars
               PROVE  TrustInv'
    OBVIOUS
  <2> USE ConstantsAssumption DEF TrustInv, OnlyTrusted, RunsTrusted
  <2> USE DEF slotVars, noteVars, entryVars, At, GoTo, Finish
  <2>a. /\ composeFile \in Digests \cup {None}
        /\ pc \in [Runs -> Stages]
        /\ req \in [Runs -> Payloads \cup {None}]
        /\ st \in [Runs -> States]
        /\ snaps \in Seq(RunSets \cup {None})
        /\ \A r \in Runs : pc[r] # "idle" => req[r] \in Payloads
    BY DEF TypeInv, TypeOK, HasPayload
  <2>1. ASSUME NEW r \in Runs, NEW p \in Payloads, Admit(r, p) \/ Refuse(r, p)
        PROVE  TrustInv'
    BY <2>1, <2>a DEF Admit, Refuse, Begin
  <2>2. ASSUME NEW r \in Runs, Verify(r)
        PROVE  TrustInv'
    BY <2>2, <2>a DEF Verify
  <2>3. ASSUME NEW r \in Runs,
               StageFails(r) \/ NoOp(r) \/ NoRollback(r) \/ RolledBack(r) \/ RollbackUnhealthy(r)
        PROVE  TrustInv'
    BY <2>3, <2>a DEF StageFails, NoOp, NoRollback, RolledBack, RollbackUnhealthy
  <2>4. ASSUME NEW r \in Runs,
               Proceed(r) \/ Pull(r) \/ Healthy(r) \/ SkipSnapshot(r) \/ StartRollback(r)
        PROVE  TrustInv'
    BY <2>4, <2>a DEF Proceed, Pull, Healthy, SkipSnapshot, StartRollback
  <2>5. ASSUME NEW r \in Runs, WriteCompose(r)
        PROVE  TrustInv'
    BY <2>5, <2>a, TargetTrusted DEF WriteCompose
  <2>6. ASSUME NEW r \in Runs, WriteEnv(r)
        PROVE  TrustInv'
    BY <2>6, <2>a DEF WriteEnv
  <2>7. ASSUME NEW r \in Runs, ComposeUp(r)
        PROVE  TrustInv'
    <3>1. running'.digest = composeFile /\ composeFile # None
      BY <2>7 DEF ComposeUp, OnDisk, RunSets
    <3> QED
      BY <2>7, <2>a, <3>1 DEF ComposeUp
  <2>8. ASSUME NEW r \in Runs, ComposeUpFails(r)
        PROVE  TrustInv'
    <3>1. running' # None => running'.digest \in Trusted
      BY <2>8 DEF ComposeUpFails, UpOutcomes, OnDisk, RunSets
    <3> QED
      BY <2>8, <2>a, <3>1 DEF ComposeUpFails
  <2>9. ASSUME NEW r \in Runs, TakeSnapshot(r)
        PROVE  TrustInv'
    <3>1. /\ req[r].digest \in Trusted /\ SetOf(req[r]).digest = req[r].digest
          /\ SetOf(req[r]) \in RunSets \cup {None}
      BY <2>9, <2>a, PayloadsTyped DEF TakeSnapshot, SetOf
    <3>2. \A n \in DOMAIN snaps' : snaps'[n] # None => snaps'[n].digest \in Trusted
      <4>1. snaps' = Append(snaps, SetOf(req[r]))
        BY <2>9 DEF TakeSnapshot
      <4>2. /\ DOMAIN snaps = 1 .. Len(snaps) /\ DOMAIN snaps' = 1 .. Len(snaps) + 1
            /\ Len(snaps) \in Nat
            /\ \A n \in DOMAIN snaps : snaps'[n] = snaps[n]
            /\ snaps'[Len(snaps) + 1] = SetOf(req[r])
        BY <2>a, <3>1, <4>1, GrowsKeeping
      <4> QED
        BY <3>1, <4>2
    <3> QED
      BY <2>9, <2>a, <3>1, <3>2 DEF TakeSnapshot
  <2>10. ASSUME NEW r \in Runs, NEW e \in Edges,
                Publish(r, e) \/ PublishFails(r, e) \/ SkipPublish(r, e)
         PROVE  TrustInv'
    BY <2>10, <2>a DEF Publish, PublishFails, SkipPublish, Edges
  <2>11. ASSUME NEW r \in Runs, Persist(r)
         PROVE  TrustInv'
    BY <2>11, <2>a DEF Persist, Advance, SetOf
  <2>12. ASSUME NEW r \in Runs, Answer(r)
         PROVE  TrustInv'
    BY <2>12, <2>a DEF Answer, FreshState
  <2>13. ASSUME NEW r \in Runs, Disconnect(r)
         PROVE  TrustInv'
    BY <2>13, <2>a DEF Disconnect
  <2>14. ASSUME AgentRestart
         PROVE  TrustInv'
    <3>1. running' # None => running'.digest \in Trusted
      BY <2>14 DEF AgentRestart, UpOutcomes, OnDisk, RunSets
    <3> QED
      BY <2>14, <3>1 DEF AgentRestart, FreshState
  <2>15. CASE UNCHANGED vars
    BY <2>15 DEF vars
  <2> QED
    BY <2>1, <2>2, <2>3, <2>4, <2>5, <2>6, <2>7, <2>8, <2>9, <2>10, <2>11, <2>12,
       <2>13, <2>14, <2>15 DEF Next, Step
<1>3. TrustInv => OnlyTrusted
  BY DEF TrustInv
<1> QED
  BY <1>1, <1>2, <1>3, TypeInvariant, PTL DEF Spec
-------------------------------------------------------------------------------
(* A Run in flight carries a payload at least as new as the record it read. *)
RecordInv ==
  /\ RecordIsWhole
  /\ \A r \in Runs : InFlight(r) => req[r].seq >= st[r].lastSeq

(* The record and a Run's copy of it go to the same release and number.     *)
LEMMA AdvanceIsWhole ==
  ASSUME NEW s \in States, NEW p \in Payloads, NEW n, p.seq >= s.lastSeq
  PROVE  LET new == Advance(s, p.seq, [set |-> SetOf(p), ref |-> n])
         IN  new.lastSeq = p.seq /\ new.good.set = SetOf(p) /\ new.good = [set |-> SetOf(p), ref |-> n]
<1>1. p.seq \in Nat /\ s.lastSeq \in Nat
  BY PayloadsTyped DEF States
<1> QED
  BY <1>1 DEF Advance

LEMMA RecordInvariant == Spec => []RecordInv
<1>1. Init => RecordInv
  BY DEF Init, RecordInv, RecordIsWhole, FreshState, InFlight
<1>2. TypeInv /\ RecordInv /\ [Next]_vars => RecordInv'
  <2> SUFFICES ASSUME TypeInv, RecordInv, [Next]_vars
               PROVE  RecordInv'
    OBVIOUS
  <2> USE DEF slotVars, noteVars, entryVars, At, InFlight
  <2>a. /\ pc \in [Runs -> Stages] /\ req \in [Runs -> Payloads \cup {None}]
        /\ st \in [Runs -> States] /\ state \in States
        /\ \A r \in Runs : pc[r] # "idle" => req[r] \in Payloads
    BY DEF TypeInv, TypeOK, HasPayload
  <2>q. ASSUME UNCHANGED <<state, req, st>>, \A r \in Runs : InFlight(r)' => InFlight(r)
        PROVE  RecordInv'
    BY <2>q DEF RecordInv, RecordIsWhole
  <2>1. ASSUME NEW r \in Runs, NEW p \in Payloads, Admit(r, p) \/ Refuse(r, p)
        PROVE  RecordInv'
    <3>1. /\ req' = [req EXCEPT ![r] = p] /\ st' = [st EXCEPT ![r] = state] /\ UNCHANGED state
          /\ \/ pc' = [pc EXCEPT ![r] = "done"]
             \/ pc' = [pc EXCEPT ![r] = "verify"] /\ ~(p.seq < state.lastSeq)
      BY <2>1 DEF Admit, Refuse, Begin, Replayed
    <3>2. p.seq \in Nat /\ state.lastSeq \in Nat
      BY <2>a, PayloadsTyped DEF States
    <3>3. \A q \in Runs : InFlight(q)' => req'[q].seq >= st'[q].lastSeq
      BY <2>a, <3>1, <3>2 DEF RecordInv
    <3>4. RecordIsWhole'
      BY <3>1 DEF RecordInv, RecordIsWhole
    <3> QED
      BY <3>3, <3>4 DEF RecordInv
  <2>2. ASSUME NEW r \in Runs,
               \/ StageFails(r) \/ Verify(r) \/ NoOp(r) \/ Proceed(r) \/ Pull(r)
               \/ WriteCompose(r) \/ WriteEnv(r) \/ ComposeUp(r) \/ ComposeUpFails(r)
               \/ Healthy(r) \/ StartRollback(r) \/ NoRollback(r)
               \/ RolledBack(r) \/ RollbackUnhealthy(r) \/ TakeSnapshot(r) \/ SkipSnapshot(r)
               \/ \E e \in Edges : Publish(r, e) \/ PublishFails(r, e) \/ SkipPublish(r, e)
        PROVE  RecordInv'
    <3>1. /\ UNCHANGED <<state, req, st>> /\ InFlight(r)
          /\ \E stage \in Stages : pc' = [pc EXCEPT ![r] = stage]
      BY <2>2 DEF StageFails, Verify, NoOp, Proceed, Pull, WriteCompose, WriteEnv, ComposeUp,
         ComposeUpFails, Healthy, StartRollback, NoRollback, RolledBack, RollbackUnhealthy,
         TakeSnapshot, SkipSnapshot, Publish, PublishFails, SkipPublish, GoTo, Finish, After, Edges, Stages
    <3> QED
      BY <2>a, <2>q, <3>1
  <2>3. ASSUME NEW r \in Runs, Persist(r)
        PROVE  RecordInv'
    <3>1. /\ req[r] \in Payloads /\ st[r] \in States /\ req[r].seq >= st[r].lastSeq
          /\ state' = Advance(st[r], req[r].seq, [set |-> SetOf(req[r]), ref |-> ref[r]])
          /\ pc' = [pc EXCEPT ![r] = "done"] /\ UNCHANGED <<req, st>>
      BY <2>3, <2>a DEF Persist, Finish, RecordInv
    <3>2. /\ state'.lastSeq = req[r].seq /\ state'.good.set = SetOf(req[r])
          /\ state'.good = [set |-> SetOf(req[r]), ref |-> ref[r]]
      BY <3>1, AdvanceIsWhole
    <3>3. state'.good # None
      <4>1. state'.good \in Snapshots
        BY <3>1, <3>2, PayloadsTyped DEF TypeInv, TypeOK, Snapshots
      <4> QED
        BY <4>1, ConstantsAssumption DEF Snapshots
    <3>4. RecordIsWhole'
      BY <3>1, <3>2, <3>3 DEF RecordIsWhole
    <3>5. \A q \in Runs : InFlight(q)' => req'[q].seq >= st'[q].lastSeq
      BY <2>a, <3>1 DEF RecordInv
    <3> QED
      BY <3>4, <3>5 DEF RecordInv
  <2>4. ASSUME NEW r \in Runs, Answer(r)
        PROVE  RecordInv'
    <3>1. /\ UNCHANGED state /\ pc' = [pc EXCEPT ![r] = "idle"]
          /\ req' = [req EXCEPT ![r] = None] /\ st' = [st EXCEPT ![r] = FreshState]
      BY <2>4 DEF Answer
    <3> QED
      BY <2>a, <3>1 DEF RecordInv, RecordIsWhole
  <2>5. ASSUME NEW r \in Runs, Disconnect(r)
        PROVE  RecordInv'
    BY <2>5, <2>q DEF Disconnect
  <2>6. ASSUME AgentRestart
        PROVE  RecordInv'
    BY <2>6 DEF AgentRestart, RecordInv, RecordIsWhole
  <2>7. CASE UNCHANGED vars
    BY <2>7, <2>q DEF vars
  <2> QED
    BY <2>1, <2>2, <2>3, <2>4, <2>5, <2>6, <2>7 DEF Next, Step
<1> QED
  BY <1>1, <1>2, TypeInvariant, PTL DEF Spec

(* The last good release and last_seq on record are of one payload, however *)
(* Runs overlap and overwrite each other's records.                         *)
THEOREM RecordCorrect == Spec => []RecordIsWhole
<1>1. RecordInv => RecordIsWhole
  BY DEF RecordInv
<1> QED
  BY <1>1, RecordInvariant, PTL

-------------------------------------------------------------------------------
(* The steps of the pipeline in their order. *)
Ahead == {<<"verify", "idempotency">>, <<"idempotency", "pull">>, <<"pull", "compose">>,
          <<"compose", "env">>, <<"env", "up">>, <<"up", "health">>, <<"health", "snapshot">>,
          <<"snapshot", "proxy">>, <<"proxy", "dns">>, <<"dns", "persist">>}

LEMMA StageOrder ==
  ASSUME NEW from, NEW to, <<from, to>> \in Ahead
  PROVE  StagesLeft[from] \in Nat /\ StagesLeft[to] \in Nat /\ StagesLeft[to] < StagesLeft[from]
BY DEF StagesLeft, Ahead

(* Every step of a Run brings it closer to its answer, and no step of       *)
(* another Run sets it back: the way back to compose is taken once.         *)
THEOREM AdvanceCorrect == Spec => RequestsAdvance
<1> DEFINE Nearer(r) == InFlight(r) /\ InFlight(r)' /\ pc'[r] # pc[r] => StepsLeft(r)' < StepsLeft(r)
<1>1. TypeInv /\ [Next]_vars => [\A r \in Runs : Nearer(r)]_vars
  <2> SUFFICES ASSUME TypeInv, Next, NEW r \in Runs, InFlight(r), InFlight(r)', pc'[r] # pc[r]
               PROVE  StepsLeft(r)' < StepsLeft(r)
    BY DEF vars
  <2>t. pc \in [Runs -> Stages] /\ back \in [Runs -> BOOLEAN]
    BY DEF TypeInv, TypeOK
  <2>1. ASSUME NEW q \in Runs, NEW to, pc' = [pc EXCEPT ![q] = to], <<pc[q], to>> \in Ahead,
               UNCHANGED back
        PROVE  StepsLeft(r)' < StepsLeft(r)
    <3>1. q = r /\ pc'[r] = to
      BY <2>1, <2>t
    <3>2. /\ StagesLeft[pc[r]] \in Nat /\ StagesLeft[pc'[r]] \in Nat
          /\ StagesLeft[pc'[r]] < StagesLeft[pc[r]]
      BY <2>1, <3>1, StageOrder
    <3> QED
      BY <2>1, <3>2 DEF StepsLeft
  <2>2. ASSUME NEW q \in Runs, StartRollback(q)
        PROVE  StepsLeft(r)' < StepsLeft(r)
    <3>1. /\ pc[q] = "health" /\ ~back[q]
          /\ pc' = [pc EXCEPT ![q] = "compose"] /\ back' = [back EXCEPT ![q] = TRUE]
      BY <2>2 DEF StartRollback, GoTo, At
    <3>2. r = q /\ pc'[r] = "compose" /\ back'[r]
      BY <2>t, <3>1
    <3> QED
      BY <3>1, <3>2 DEF StepsLeft, StagesLeft
  <2>3. ASSUME NEW q \in Runs,
               \/ Verify(q) \/ Proceed(q) \/ Pull(q) \/ WriteCompose(q) \/ WriteEnv(q)
               \/ ComposeUp(q) \/ Healthy(q) \/ TakeSnapshot(q) \/ SkipSnapshot(q)
               \/ \E e \in Edges : Publish(q, e) \/ PublishFails(q, e) \/ SkipPublish(q, e)
        PROVE  StepsLeft(r)' < StepsLeft(r)
    <3>1. UNCHANGED back /\ \E to \in Stages : pc' = [pc EXCEPT ![q] = to] /\ <<pc[q], to>> \in Ahead
      BY <2>3 DEF Verify, Proceed, Pull, WriteCompose, WriteEnv, ComposeUp, Healthy, TakeSnapshot,
         SkipSnapshot, Publish, PublishFails, SkipPublish, GoTo, At, After, Edges, noteVars, Ahead, Stages
    <3> QED
      BY <2>1, <3>1
  <2>4. ASSUME NEW q \in Runs,
               \/ StageFails(q) \/ NoOp(q) \/ ComposeUpFails(q) \/ NoRollback(q) \/ RolledBack(q)
               \/ RollbackUnhealthy(q) \/ Persist(q) \/ Answer(q)
               \/ \E p \in Payloads : Refuse(q, p)
        PROVE  FALSE
    <3>1. \E to \in {"idle", "done"} : pc' = [pc EXCEPT ![q] = to]
      BY <2>4 DEF StageFails, NoOp, ComposeUpFails, NoRollback, RolledBack, RollbackUnhealthy,
         Persist, Answer, Refuse, Finish
    <3> QED
      BY <2>t, <3>1 DEF InFlight
  <2>5. ASSUME NEW q \in Runs, NEW p \in Payloads, Admit(q, p)
        PROVE  FALSE
    BY <2>5, <2>t DEF Admit, MayBegin, Idle, InFlight
  <2>6. ASSUME NEW q \in Runs, Disconnect(q)
        PROVE  FALSE
    BY <2>6 DEF Disconnect
  <2>7. ASSUME AgentRestart
        PROVE  FALSE
    BY <2>7 DEF AgentRestart, InFlight
  <2> QED
    BY <2>2, <2>3, <2>4, <2>5, <2>6, <2>7 DEF Next, Step
<1> QED
  BY <1>1, TypeInvariant, PTL DEF Spec, RequestsAdvance
===============================================================================
