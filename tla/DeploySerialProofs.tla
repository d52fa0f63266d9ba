-------------------------- MODULE DeploySerialProofs --------------------------
(* What DeployPipeline guarantees when its Runs do not overlap.             *)
EXTENDS DeployHistoryProofs

-------------------------------------------------------------------------------
(* The stages at which the slot runs what its one Run put there. *)
Deployed == {"health", "snapshot", "proxy", "dns", "persist"}

(* The state a Run read is still on disk, the slot holds as much of its     *)
(* target as its stage says, and past its health check the target is sound. *)
RunInv(r) ==
  /\ result[r] # None => pc[r] = "done"
  /\ InFlight(r) => st[r] = state /\ req[r].seq >= state.lastSeq
  /\ back[r] => pc[r] \in {"compose", "env", "up", "health", "done"}
  /\ pc[r] = "env" => composeFile = Target(r).digest
  /\ pc[r] = "up" => OnDisk = Target(r)
  /\ pc[r] \in Deployed => running = Target(r)
  /\ pc[r] \in Deployed \ {"health"} => PassesItsProbe(SetOf(req[r]))
  /\ result[r] \in {"success", "success_degraded"} =>
       running = SetOf(req[r]) /\ state.good.set = running
  /\ result[r] = "failure_rolled_back" => running = state.good.set

Alone(r) == \A q \in Runs \ {r} : pc[q] = "idle"

SerialInv ==
  /\ GoodIsSound
  /\ \A r \in Runs : pc[r] # "idle" => Alone(r)
  /\ \A r \in Runs : RunInv(r)

(* An idle Run has no claim on the slot, so a step of the one other Run     *)
(* answers only for its own part of the invariant.                          *)
LEMMA SerialStep ==
  ASSUME TypeInv, SerialInv, NEW r \in Runs, Alone(r),
         \A q \in Runs \ {r} : pc'[q] = pc[q] /\ result'[q] = result[q] /\ back'[q] = back[q],
         RunInv(r)', GoodIsSound'
  PROVE  SerialInv'
<1>1. ASSUME NEW q \in Runs \ {r}
      PROVE  pc'[q] = "idle" /\ RunInv(q)'
  <2>1. pc'[q] = "idle" /\ result'[q] = None /\ ~back'[q]
    BY DEF Alone, SerialInv, RunInv, TypeInv, HasPayload
  <2> QED
    BY <2>1, ConstantsAssumption DEF RunInv, InFlight, Deployed, Results
<1>2. ASSUME NEW q \in Runs, pc'[q] # "idle"
      PROVE  Alone(q)'
  BY <1>1, <1>2 DEF Alone
<1> QED
  BY <1>1, <1>2 DEF SerialInv

(* A rollback's target is the last good release, as it shipped. *)
LEMMA TargetIsGood ==
  ASSUME TypeInv, HistoryInv, NEW r \in Runs, InFlight(r), back[r], st[r] = state
  PROVE  Target(r) = state.good.set
BY TargetIsWhatShipped

(* What the probe accepts of r's own run set passes r's probe. *)
LEMMA ProbeIsSound ==
  ASSUME TypeInv, NEW r \in Runs, req[r] \in Payloads,
         ProbePasses(r), running = SetOf(req[r])
  PROVE  PassesItsProbe(SetOf(req[r]))
BY DEF ProbePasses, PassesItsProbe, SetOf

-------------------------------------------------------------------------------
LEMMA SerialInvariant == ASSUME OneAtATime PROVE Spec => []SerialInv
<1>1. Init => SerialInv
  BY ConstantsAssumption
  DEF Init, SerialInv, GoodIsSound, FreshState, RunInv, Alone, InFlight, Deployed, Results
<1>2. TypeInv /\ HistoryInv /\ SerialInv /\ [Next]_vars => SerialInv'
  <2> SUFFICES ASSUME TypeInv, HistoryInv, SerialInv, [Next]_vars
               PROVE  SerialInv'
    OBVIOUS
  <2> USE DEF slotVars, noteVars, entryVars, At, GoTo, Finish
  <2>a. /\ pc \in [Runs -> Stages] /\ req \in [Runs -> Payloads \cup {None}]
        /\ st \in [Runs -> States] /\ result \in [Runs -> Results \cup {None}]
        /\ back \in [Runs -> BOOLEAN]
        /\ state \in States /\ state.lastSeq \in Nat
        /\ None \notin Results
    BY ConstantsAssumption DEF TypeInv, TypeOK, States
  <2>b. \A r \in Runs : pc[r] # "idle" => Alone(r) /\ req[r] \in Payloads /\ req[r].seq \in Nat
    BY PayloadsTyped DEF SerialInv, TypeInv, HasPayload
  <2>c. \A r \in Runs : RunInv(r)
    BY DEF SerialInv
  <2>d. \A r \in Runs : InFlight(r) => Target(r) \in RunSets /\ (~back[r] => Target(r) = SetOf(req[r]))
    BY PayloadsTyped DEF TypeInv, TypeOK, HasPayload, Target, InFlight
  <2>e. GoodIsSound
    BY DEF SerialInv
  <2>1. ASSUME NEW r \in Runs, NEW p \in Payloads, Admit(r, p) \/ Refuse(r, p)
        PROVE  SerialInv'
    <3>1. Alone(r) /\ pc[r] = "idle"
      BY <2>1 DEF Admit, Refuse, MayBegin, Idle, Alone
    <3>2. ~back[r] /\ result[r] = None
      BY <2>c, <3>1 DEF RunInv, TypeInv, HasPayload
    <3>3. RunInv(r)'
      <4>1. /\ pc'[r] \in {"verify", "done"} /\ result'[r] \in {None, "failure"}
            /\ result'[r] # None => pc'[r] = "done"
            /\ st'[r] = state /\ state' = state /\ req'[r] = p /\ back'[r] = FALSE
        BY <2>1, <2>a, <3>2 DEF Admit, Refuse, Begin
      <4>2. pc'[r] = "verify" => p.seq >= state.lastSeq
        <5>1. p.seq \in Nat
          BY PayloadsTyped
        <5> QED
          BY <2>1, <2>a, <5>1 DEF Admit, Refuse, Replayed
      <4> QED
        BY <2>a, <4>1, <4>2 DEF RunInv, InFlight, Deployed, Results
    <3>4. GoodIsSound'
      BY <2>1, <2>e DEF GoodIsSound, PassesItsProbe, Admit, Refuse, Begin
    <3>5. \A q \in Runs \ {r} : pc'[q] = pc[q] /\ result'[q] = result[q] /\ back'[q] = back[q]
      BY <2>1, <2>a DEF Admit, Refuse, Begin
    <3> QED
      BY <3>1, <3>3, <3>4, <3>5, SerialStep
  <2>2. ASSUME NEW r \in Runs,
               StageFails(r) \/ NoOp(r) \/ NoRollback(r) \/ RollbackUnhealthy(r) \/ ComposeUpFails(r)
        PROVE  SerialInv'
    <3>1. Alone(r) /\ InFlight(r)
      BY <2>2, <2>b DEF StageFails, NoOp, NoRollback, RollbackUnhealthy, ComposeUpFails, InFlight
    <3>2. /\ pc' = [pc EXCEPT ![r] = "done"] /\ UNCHANGED <<state, back>>
          /\ \E outcome \in {"failure", "no_op"} : result' = [result EXCEPT ![r] = outcome]
      BY <2>2 DEF StageFails, NoOp, NoRollback, RollbackUnhealthy, ComposeUpFails
    <3>3. RunInv(r)'
      BY <2>a, <3>2 DEF RunInv, InFlight, Deployed, Results
    <3>4. GoodIsSound'
      BY <2>e, <3>2 DEF GoodIsSound, PassesItsProbe
    <3> QED
      BY <2>a, <3>1, <3>2, <3>3, <3>4, SerialStep
  <2>3. ASSUME NEW r \in Runs, Verify(r) \/ Proceed(r) \/ Pull(r)
        PROVE  SerialInv'
    <3>1. Alone(r) /\ InFlight(r) /\ pc[r] \in {"verify", "idempotency", "pull"}
      BY <2>3, <2>b DEF Verify, Proceed, Pull, InFlight
    <3>2. /\ \E stage \in {"idempotency", "pull", "compose"} : pc' = [pc EXCEPT ![r] = stage]
          /\ UNCHANGED <<state, back, result, st, req>>
      BY <2>3 DEF Verify, Proceed, Pull
    <3>3. RunInv(r)'
      BY <2>a, <2>c, <3>1, <3>2 DEF RunInv, InFlight, Deployed, Results
    <3>4. GoodIsSound'
      BY <2>e, <3>2 DEF GoodIsSound, PassesItsProbe
    <3> QED
      BY <2>a, <3>1, <3>2, <3>3, <3>4, SerialStep
  <2>4. ASSUME NEW r \in Runs, WriteCompose(r)
        PROVE  SerialInv'
    <3>1. Alone(r) /\ InFlight(r) /\ pc[r] = "compose"
      BY <2>4, <2>b DEF WriteCompose, InFlight
    <3>2. /\ pc' = [pc EXCEPT ![r] = "env"]
          /\ composeFile' = Target(r).digest
          /\ UNCHANGED <<state, back, result, st, req, snaps>>
      BY <2>4 DEF WriteCompose
    <3>3. RunInv(r)'
      BY <2>a, <2>c, <3>1, <3>2 DEF RunInv, InFlight, Deployed, Results, Target
    <3>4. GoodIsSound'
      BY <2>e, <3>2 DEF GoodIsSound, PassesItsProbe
    <3> QED
      BY <2>a, <3>1, <3>2, <3>3, <3>4, SerialStep
  <2>5. ASSUME NEW r \in Runs, WriteEnv(r)
        PROVE  SerialInv'
    <3>1. Alone(r) /\ InFlight(r) /\ pc[r] = "env"
      BY <2>5, <2>b DEF WriteEnv, InFlight
    <3>2. /\ pc' = [pc EXCEPT ![r] = "up"]
          /\ envFile' = Target(r).env
          /\ UNCHANGED <<state, back, result, st, req, snaps, composeFile>>
      BY <2>5 DEF WriteEnv
    <3>3. OnDisk' = Target(r)
      <4>1. composeFile = Target(r).digest /\ Target(r) \in RunSets
        BY <2>c, <2>d, <3>1 DEF RunInv
      <4> QED
        BY <3>2, <4>1 DEF OnDisk, RunSets
    <3>4. RunInv(r)'
      BY <2>a, <2>c, <3>1, <3>2, <3>3 DEF RunInv, InFlight, Deployed, Results, Target
    <3>5. GoodIsSound'
      BY <2>e, <3>2 DEF GoodIsSound, PassesItsProbe
    <3> QED
      BY <2>a, <3>1, <3>2, <3>4, <3>5, SerialStep
  <2>6. ASSUME NEW r \in Runs, ComposeUp(r)
        PROVE  SerialInv'
    <3>1. Alone(r) /\ InFlight(r) /\ pc[r] = "up"
      BY <2>6, <2>b DEF ComposeUp, InFlight
    <3>2. /\ pc' = [pc EXCEPT ![r] = "health"]
          /\ running' = OnDisk
          /\ UNCHANGED <<state, back, result, st, req, snaps>>
      BY <2>6 DEF ComposeUp
    <3>3. RunInv(r)'
      BY <2>a, <2>c, <3>1, <3>2 DEF RunInv, InFlight, Deployed, Results, Target
    <3>4. GoodIsSound'
      BY <2>e, <3>2 DEF GoodIsSound, PassesItsProbe
    <3> QED
      BY <2>a, <3>1, <3>2, <3>3, <3>4, SerialStep
  <2>7. ASSUME NEW r \in Runs, Healthy(r)
        PROVE  SerialInv'
    <3>1. Alone(r) /\ InFlight(r) /\ pc[r] = "health" /\ ~back[r]
      BY <2>7, <2>b DEF Healthy, InFlight
    <3>2. /\ pc' = [pc EXCEPT ![r] = "snapshot"]
          /\ UNCHANGED <<state, back, result, st, req, snaps, running>>
      BY <2>7 DEF Healthy
    <3>3. running = SetOf(req[r])
      BY <2>c, <2>d, <3>1 DEF RunInv, Deployed
    <3>4. PassesItsProbe(SetOf(req[r]))
      BY <2>7, <2>b, <3>1, <3>3, ProbeIsSound DEF Healthy
    <3>5. RunInv(r)'
      BY <2>a, <2>c, <3>1, <3>2, <3>4 DEF RunInv, InFlight, Deployed, Results, Target, PassesItsProbe
    <3>6. GoodIsSound'
      BY <2>e, <3>2 DEF GoodIsSound, PassesItsProbe
    <3> QED
      BY <2>a, <3>1, <3>2, <3>5, <3>6, SerialStep
  <2>8. ASSUME NEW r \in Runs, StartRollback(r)
        PROVE  SerialInv'
    <3>1. Alone(r) /\ InFlight(r) /\ pc[r] = "health"
      BY <2>8, <2>b DEF StartRollback, InFlight
    <3>2. /\ pc' = [pc EXCEPT ![r] = "compose"]
          /\ back' = [back EXCEPT ![r] = TRUE]
          /\ UNCHANGED <<state, result, st, req>>
      BY <2>8 DEF StartRollback
    <3>3. RunInv(r)'
      BY <2>a, <2>c, <3>1, <3>2 DEF RunInv, InFlight, Deployed, Results
    <3>4. GoodIsSound'
      BY <2>e, <3>2 DEF GoodIsSound, PassesItsProbe
    <3> QED
      BY <2>a, <3>1, <3>2, <3>3, <3>4, SerialStep
  <2>9. ASSUME NEW r \in Runs, RolledBack(r)
        PROVE  SerialInv'
    <3>1. Alone(r) /\ InFlight(r) /\ pc[r] = "health" /\ back[r]
      BY <2>9, <2>b DEF RolledBack, InFlight
    <3>2. /\ pc' = [pc EXCEPT ![r] = "done"]
          /\ result' = [result EXCEPT ![r] = "failure_rolled_back"]
          /\ UNCHANGED <<state, back, running>>
      BY <2>9 DEF RolledBack
    <3>3. running = state.good.set
      BY <2>c, <3>1, TargetIsGood DEF RunInv, Deployed
    <3>4. RunInv(r)'
      BY <2>a, <3>1, <3>2, <3>3 DEF RunInv, InFlight, Deployed, Results
    <3>5. GoodIsSound'
      BY <2>e, <3>2 DEF GoodIsSound, PassesItsProbe
    <3> QED
      BY <2>a, <3>1, <3>2, <3>4, <3>5, SerialStep
  <2>10. ASSUME NEW r \in Runs, TakeSnapshot(r) \/ SkipSnapshot(r)
         PROVE  SerialInv'
    <3>1. Alone(r) /\ InFlight(r) /\ pc[r] = "snapshot" /\ ~back[r]
      BY <2>10, <2>b, <2>c DEF TakeSnapshot, SkipSnapshot, InFlight, RunInv
    <3>2. /\ pc' = [pc EXCEPT ![r] = "proxy"]
          /\ UNCHANGED <<state, back, result, st, req, running>>
      BY <2>10 DEF TakeSnapshot, SkipSnapshot
    <3>3. RunInv(r)'
      BY <2>a, <2>c, <3>1, <3>2 DEF RunInv, InFlight, Deployed, Results, Target, PassesItsProbe
    <3>4. GoodIsSound'
      BY <2>e, <3>2 DEF GoodIsSound, PassesItsProbe
    <3> QED
      BY <2>a, <3>1, <3>2, <3>3, <3>4, SerialStep
  <2>11. ASSUME NEW r \in Runs, NEW e \in Edges,
                Publish(r, e) \/ PublishFails(r, e) \/ SkipPublish(r, e)
         PROVE  SerialInv'
    <3>1. pc[r] \in {"proxy", "dns"}
      BY <2>11 DEF Publish, PublishFails, SkipPublish, Edges
    <3>2. Alone(r) /\ InFlight(r) /\ ~back[r]
      BY <3>1, <2>b, <2>c DEF InFlight, RunInv
    <3>3. /\ \E stage \in {"dns", "persist"} : pc' = [pc EXCEPT ![r] = stage]
          /\ UNCHANGED <<state, back, result, st, req, running>>
      BY <2>11 DEF Publish, PublishFails, SkipPublish, After
    <3>4. RunInv(r)'
      BY <2>a, <2>c, <3>1, <3>2, <3>3 DEF RunInv, InFlight, Deployed, Results, Target, PassesItsProbe
    <3>5. GoodIsSound'
      BY <2>e, <3>3 DEF GoodIsSound, PassesItsProbe
    <3> QED
      BY <2>a, <3>2, <3>3, <3>4, <3>5, SerialStep
  <2>12. ASSUME NEW r \in Runs, Persist(r)
         PROVE  SerialInv'
    <3>1. pc[r] = "persist" /\ InFlight(r) /\ Alone(r)
      BY <2>12, <2>b DEF Persist, InFlight
    <3>2. ~back[r] /\ PassesItsProbe(SetOf(req[r])) /\ running = SetOf(req[r])
      BY <2>c, <2>d, <3>1 DEF RunInv, Deployed
    <3>3. /\ pc' = [pc EXCEPT ![r] = "done"]
          /\ \E outcome \in {"success", "success_degraded"} :
               result' = [result EXCEPT ![r] = outcome]
          /\ UNCHANGED <<back, req, running>>
      BY <2>12 DEF Persist
    <3>4. state'.good.set = SetOf(req[r])
      BY <2>12 DEF Persist, Advance
    <3>5. RunInv(r)'
      BY <2>a, <3>2, <3>3, <3>4 DEF RunInv, InFlight, Deployed, Results
    <3>6. GoodIsSound'
      BY <3>2, <3>4 DEF GoodIsSound, PassesItsProbe
    <3> QED
      BY <2>a, <3>1, <3>3, <3>5, <3>6, SerialStep
  <2>13. ASSUME NEW r \in Runs, Answer(r)
         PROVE  SerialInv'
    <3>1. Alone(r)
      BY <2>13, <2>b DEF Answer
    <3>2. pc'[r] = "idle" /\ back'[r] = FALSE /\ result'[r] = None
      BY <2>13, <2>a DEF Answer
    <3>3. RunInv(r)'
      BY <2>a, <3>2 DEF RunInv, InFlight, Deployed, Results
    <3>4. GoodIsSound'
      BY <2>13, <2>e DEF Answer, GoodIsSound, PassesItsProbe
    <3>5. \A q \in Runs \ {r} : pc'[q] = pc[q] /\ result'[q] = result[q] /\ back'[q] = back[q]
      BY <2>13, <2>a DEF Answer
    <3> QED
      BY <3>1, <3>3, <3>4, <3>5, SerialStep
  <2>14. ASSUME AgentRestart
         PROVE  SerialInv'
    BY <2>14, <2>a, <2>e
    DEF AgentRestart, SerialInv, RunInv, GoodIsSound, PassesItsProbe, Alone, InFlight, Deployed, Results
  <2>15. ASSUME (\E r \in Runs : Disconnect(r)) \/ UNCHANGED vars
         PROVE  SerialInv'
    BY <2>15 DEF Disconnect, vars, SerialInv, RunInv, GoodIsSound, PassesItsProbe, Alone,
                 InFlight, Deployed, Target, OnDisk
  <2> QED
    BY <2>1, <2>2, <2>3, <2>4, <2>5, <2>6, <2>7, <2>8, <2>9, <2>10, <2>11, <2>12,
       <2>13, <2>14, <2>15 DEF Next, Step
<1> QED
  BY <1>1, <1>2, TypeInvariant, HistoryInvariant, PTL DEF Spec

-------------------------------------------------------------------------------
(* Only a run set its own probe accepted is ever the last good one.         *)
THEOREM GoodIsSoundCorrect == ASSUME OneAtATime PROVE Spec => []GoodIsSound
<1>1. SerialInv => GoodIsSound
  BY DEF SerialInv
<1> QED
  BY <1>1, SerialInvariant, PTL

(* What a success or a rollback answers is what the slot runs.              *)
THEOREM AnswerCorrect == ASSUME OneAtATime PROVE Spec => []AnswerIsTrue
<1>1. SerialInv => AnswerIsTrue
  BY DEF SerialInv, RunInv, AnswerIsTrue
<1> QED
  BY <1>1, SerialInvariant, PTL

(* The replay check made at admission still holds at every later step.      *)
THEOREM DowngradeCorrect == ASSUME OneAtATime PROVE Spec => []NoDowngrade
<1>1. SerialInv => NoDowngrade
  BY DEF SerialInv, RunInv, NoDowngrade
<1> QED
  BY <1>1, SerialInvariant, PTL

(* The edge is touched only for a version that passed its probe and runs.   *)
THEOREM ExposureCorrect == ASSUME OneAtATime PROVE Spec => ExposureGate
<1>1. TypeInv /\ SerialInv /\ [Next]_vars
        => [edge' # edge => running # None /\ PassesItsProbe(running)]_vars
  <2> SUFFICES ASSUME TypeInv, SerialInv, Next, edge' # edge
               PROVE  running # None /\ PassesItsProbe(running)
    BY DEF vars, slotVars
  <2>1. PICK r \in Runs, e \in Edges : Publish(r, e) \/ PublishFails(r, e)
    BY DEF Next, Step, Admit, Refuse, Begin, StageFails, Verify, NoOp, Proceed, Pull,
           WriteCompose, WriteEnv, ComposeUp, ComposeUpFails, Healthy, StartRollback,
           NoRollback, RolledBack, RollbackUnhealthy, TakeSnapshot, SkipSnapshot,
           SkipPublish, Persist, Answer, Disconnect, AgentRestart, slotVars
  <2>2. pc[r] \in {"proxy", "dns"}
    BY <2>1 DEF Publish, PublishFails, At, Edges
  <2>3. ~back[r] /\ running = Target(r) /\ PassesItsProbe(SetOf(req[r]))
    BY <2>2 DEF SerialInv, RunInv, Deployed
  <2>4. SetOf(req[r]) \in RunSets
    BY <2>2, PayloadsTyped DEF TypeInv, HasPayload
  <2> QED
    BY <2>3, <2>4, ConstantsAssumption DEF Target
<1> QED
  BY <1>1, TypeInvariant, SerialInvariant, PTL DEF Spec, ExposureGate

-------------------------------------------------------------------------------
SetsOf(s) == [i \in DOMAIN s |-> s[i].set]

(* Mapping snapshots to their run sets commutes with appending and pruning. *)
LEMMA SetsOfType ==
  ASSUME NEW s \in Seq(Snapshots)
  PROVE  /\ SetsOf(s) \in Seq(RunSets)
         /\ Len(SetsOf(s)) = Len(s)
         /\ \A i \in 1 .. Len(s) : SetsOf(s)[i] = s[i].set
<1>1. DOMAIN s = 1 .. Len(s) /\ Len(s) \in Nat
  BY LenProperties
<1>2. SetsOf(s) \in [1 .. Len(s) -> RunSets]
  <2>1. \A i \in 1 .. Len(s) : s[i] \in Snapshots
    BY ElementOfSeq
  <2>2. \A i \in 1 .. Len(s) : s[i].set \in RunSets
    BY <2>1 DEF Snapshots
  <2> QED
    BY <1>1, <2>2 DEF SetsOf
<1>3. SetsOf(s) \in Seq(RunSets)
  BY <1>1, <1>2
<1>4. Len(SetsOf(s)) = Len(s)
  BY <1>1, <1>2, <1>3, LenProperties
<1> QED
  BY <1>1, <1>3, <1>4 DEF SetsOf

LEMMA SetsOfAppend ==
  ASSUME NEW s \in Seq(Snapshots), NEW g \in Snapshots
  PROVE  SetsOf(Append(s, g)) = Append(SetsOf(s), g.set)
<1> DEFINE a == SetsOf(Append(s, g))
           b == Append(SetsOf(s), g.set)
<1>1. Append(s, g) \in Seq(Snapshots) /\ g.set \in RunSets /\ Len(s) \in Nat
  BY AppendProperties, LenProperties DEF Snapshots
<1>2. /\ a \in Seq(RunSets) /\ Len(a) = Len(s) + 1
      /\ \A i \in 1 .. Len(s) + 1 : a[i] = Append(s, g)[i].set
  <2>1. Len(Append(s, g)) = Len(s) + 1
    BY AppendProperties
  <2> QED
    BY <1>1, <2>1, SetsOfType
<1>3. /\ b \in Seq(RunSets) /\ Len(b) = Len(s) + 1
      /\ \A i \in 1 .. Len(s) : b[i] = s[i].set
      /\ b[Len(s) + 1] = g.set
  BY <1>1, SetsOfType, AppendProperties
<1>4. \A i \in 1 .. Len(s) + 1 : a[i] = b[i]
  BY <1>1, <1>2, <1>3, AppendProperties
<1> HIDE DEF a, b
<1>5. a = b
  BY <1>2, <1>3, <1>4, SeqEqual
<1> QED
  BY <1>5 DEF a, b

LEMMA SetsOfNewest ==
  ASSUME NEW s \in Seq(Snapshots), NEW n \in Nat
  PROVE  SetsOf(Newest(s, n)) = Newest(SetsOf(s), n)
<1> DEFINE a == SetsOf(Newest(s, n))
           b == Newest(SetsOf(s), n)
<1>1. Newest(s, n) \in Seq(Snapshots) /\ Len(s) \in Nat
  BY NewestType, LenProperties
<1>2. SetsOf(s) \in Seq(RunSets) /\ Len(SetsOf(s)) = Len(s)
      /\ \A i \in 1 .. Len(s) : SetsOf(s)[i] = s[i].set
  BY SetsOfType
<1>3. PICK j \in Nat : /\ j + Len(Newest(s, n)) = Len(s)
                      /\ \A i \in 1 .. Len(Newest(s, n)) : Newest(s, n)[i] = s[i + j]
  BY NewestIsSuffix
<1>4. PICK k \in Nat : /\ k + Len(b) = Len(SetsOf(s))
                      /\ \A i \in 1 .. Len(b) : b[i] = SetsOf(s)[i + k]
  BY <1>2, NewestIsSuffix
<1>5. /\ a \in Seq(RunSets) /\ Len(a) = Len(Newest(s, n))
      /\ \A i \in 1 .. Len(a) : a[i] = Newest(s, n)[i].set
      /\ b \in Seq(RunSets) /\ Len(b) \in Nat /\ Len(a) \in Nat
  BY <1>1, <1>2, SetsOfType, NewestType, LenProperties
<1>6. Len(Newest(s, n)) = Len(b)
  <2>1. CASE Len(s) > n
    BY <1>1, <1>2, <2>1, NewestLength
  <2>2. CASE ~(Len(s) > n)
    BY <1>2, <2>2 DEF Newest
  <2> QED
    BY <2>1, <2>2
<1>7. j = k
  BY <1>1, <1>2, <1>3, <1>4, <1>5, <1>6
<1> HIDE DEF a, b
<1>8. ASSUME NEW i \in 1 .. Len(b)
      PROVE  a[i] = b[i]
  <2>1. i \in 1 .. Len(a) /\ i \in 1 .. Len(Newest(s, n)) /\ i + k \in 1 .. Len(s)
    BY <1>1, <1>2, <1>4, <1>5, <1>6
  <2>2. a[i] = s[i + k].set
    BY <1>3, <1>5, <1>7, <2>1
  <2>3. b[i] = s[i + k].set
    BY <1>2, <1>4, <2>1
  <2> QED
    BY <2>2, <2>3
<1>9. a = b
  BY <1>5, <1>6, <1>8, SeqEqual
<1> QED
  BY <1>9 DEF a, b

(* state.json, written by Runs that do not overlap, is the abstract ledger: *)
(* each Persist is one release, and no other step changes it.               *)
THEOREM LedgerCorrect == ASSUME OneAtATime PROVE Spec => ImplementsLedger
<1>1. Init => Ledger!Init
  BY DEF Init, Ledger!Init, FreshState, SetOfGood
<1>2. TypeInv /\ SerialInv /\ [Next]_vars => [Ledger!Next]_(Ledger!ledger)
  <2> SUFFICES ASSUME TypeInv, SerialInv, [Next]_vars
               PROVE  [Ledger!Next]_(Ledger!ledger)
    OBVIOUS
  <2>1. ASSUME NEW r \in Runs, Persist(r)
        PROVE  Ledger!Next
    <3> DEFINE snap == [set |-> SetOf(req[r]), ref |-> ref[r]]
    <3>1. pc[r] = "persist" /\ state' = Advance(st[r], req[r].seq, snap)
      BY <2>1 DEF Persist, At
    <3>2. /\ st[r] = state /\ req[r].seq >= state.lastSeq
          /\ PassesItsProbe(SetOf(req[r]))
      BY <3>1 DEF SerialInv, RunInv, InFlight, Deployed
    <3>3. /\ req[r] \in Payloads /\ req[r].seq \in Nat /\ SetOf(req[r]) \in RunSets
          /\ state \in States /\ state.lastSeq \in Nat /\ state.history \in Seq(Snapshots)
          /\ snap \in Snapshots /\ snap # None
      BY <3>1, PayloadsTyped, ConstantsAssumption
      DEF TypeInv, TypeOK, HasPayload, States, Snapshots
    <3>4. state'.lastSeq = req[r].seq /\ SetOfGood(state'.good) = SetOf(req[r])
      BY <3>1, <3>2, <3>3 DEF Advance, SetOfGood
    <3>5. SetsOf(state'.history) =
            IF SetOfGood(state.good) = None THEN SetsOf(state.history)
            ELSE Newest(Append(SetsOf(state.history), SetOfGood(state.good)), MaxHistory)
      <4>1. CASE state.good = None
        BY <3>1, <3>2, <4>1 DEF Advance, SetOfGood
      <4>2. CASE state.good # None
        <5>1. /\ state.good \in Snapshots /\ state.good.set \in RunSets
              /\ SetOfGood(state.good) = state.good.set /\ SetOfGood(state.good) # None
          BY <3>3, <4>2, ConstantsAssumption DEF States, Snapshots, SetOfGood
        <5>2. state'.history = Newest(Append(state.history, state.good), MaxHistory)
          BY <3>1, <3>2, <4>2 DEF Advance
        <5>3. Append(state.history, state.good) \in Seq(Snapshots)
          BY <3>3, <5>1, AppendProperties
        <5>4. SetsOf(state'.history)
                = Newest(SetsOf(Append(state.history, state.good)), MaxHistory)
          BY <5>2, <5>3, SetsOfNewest, ConstantsAssumption
        <5> QED
          BY <3>3, <5>1, <5>4, SetsOfAppend
      <4> QED
        BY <4>1, <4>2
    <3>6. Ledger!Release(req[r].seq, SetOf(req[r]))
      BY <3>2, <3>3, <3>4, <3>5 DEF Ledger!Release, Ledger!Newest, Newest, SetsOf
    <3>7. req[r].seq \in {p.seq : p \in Payloads}
      BY <3>3
    <3> QED
      <4> DEFINE Seqs == {p.seq : p \in Payloads}
                 seq == req[r].seq
                 set == SetOf(req[r])
      <4>1. seq \in Seqs /\ set \in RunSets /\ Ledger!Release(seq, set)
        BY <3>3, <3>6, <3>7
      <4> HIDE DEF Seqs, seq, set
      <4>2. \E s \in Seqs, t \in RunSets : Ledger!Release(s, t)
        BY <4>1 DEF Ledger!Release
      <4> QED
        BY <4>2 DEF Ledger!Next, Seqs
  <2>2. CASE UNCHANGED state
    BY <2>2 DEF Ledger!ledger
  <2>3. (\E r \in Runs : Persist(r)) \/ UNCHANGED state
    BY DEF Next, Step, Admit, Refuse, Begin, StageFails, Verify, NoOp, Proceed, Pull,
           WriteCompose, WriteEnv, ComposeUp, ComposeUpFails, Healthy, StartRollback,
           NoRollback, RolledBack, RollbackUnhealthy, TakeSnapshot, SkipSnapshot,
           Publish, PublishFails, SkipPublish, Answer, Disconnect, AgentRestart,
           vars, slotVars
  <2> QED
    BY <2>1, <2>2, <2>3
<1> QED
  BY <1>1, <1>2, TypeInvariant, SerialInvariant, PTL DEF Spec, ImplementsLedger, Ledger!Spec

(* last_seq is the highest sequence number applied, as state.go says it is, *)
(* once the lock that pipeline.md speaks of keeps Runs apart: the record of *)
(* a release is never overwritten by an older one.                          *)
THEOREM LastSeqCorrect == ASSUME OneAtATime PROVE Spec => LastSeqNeverDrops
<1>1. TypeInv /\ SerialInv /\ [Next]_vars => [state'.lastSeq >= state.lastSeq]_vars
  <2> SUFFICES ASSUME TypeInv, SerialInv, Next
               PROVE  state'.lastSeq >= state.lastSeq
    OBVIOUS
  <2>t. state.lastSeq \in Nat
    BY DEF TypeInv, TypeOK, States
  <2>1. ASSUME NEW r \in Runs, Persist(r)
        PROVE  state'.lastSeq >= state.lastSeq
    <3>1. /\ pc[r] = "persist"
          /\ state' = Advance(st[r], req[r].seq, [set |-> SetOf(req[r]), ref |-> ref[r]])
      BY <2>1 DEF Persist, At
    <3>2. st[r] = state /\ req[r].seq >= state.lastSeq
      BY <3>1 DEF SerialInv, RunInv, InFlight
    <3> QED
      BY <2>t, <3>1, <3>2 DEF Advance
  <2>2. CASE UNCHANGED state
    BY <2>2, <2>t
  <2>3. (\E r \in Runs : Persist(r)) \/ UNCHANGED state
    BY DEF Next, Step, Admit, Refuse, Begin, StageFails, Verify, NoOp, Proceed, Pull,
           WriteCompose, WriteEnv, ComposeUp, ComposeUpFails, Healthy, StartRollback,
           NoRollback, RolledBack, RollbackUnhealthy, TakeSnapshot, SkipSnapshot,
           Publish, PublishFails, SkipPublish, Answer, Disconnect, AgentRestart, slotVars
  <2> QED
    BY <2>1, <2>2, <2>3
<1> QED
  BY <1>1, TypeInvariant, SerialInvariant, PTL DEF Spec, LastSeqNeverDrops
===============================================================================
