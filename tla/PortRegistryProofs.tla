-------------------------- MODULE PortRegistryProofs --------------------------
(* What holds of PortRegistry however its writers overlap.                  *)
EXTENDS PortRegistry, TLAPS

(* Every writer's copy of the registry is free of conflicts, as the file is. *)
RegistryInv ==
  /\ TypeOK
  /\ Injective(registry)
  /\ \A a \in Actors : Injective(loaded[a])
  /\ \A a \in Actors : pc[a] = "rollback up" => previous[a] # NoSnapshot

LEMMA NoPortsInjective == NoPorts \in Registries /\ Injective(NoPorts)
BY DEF NoPorts, Registries, Injective

(* A port nobody has can be given to a slot. *)
LEMMA AssignKeepsInjective ==
  ASSUME NEW r \in Registries, Injective(r), NEW s \in Slots, NEW p \in Pool \ Taken(r)
  PROVE  [r EXCEPT ![s] = p] \in Registries /\ Injective([r EXCEPT ![s] = p])
<1>1. \A t \in Slots : r[t] # p
  BY PoolAssumption DEF Taken
<1> QED
  BY <1>1 DEF Registries, Injective

LEMMA ReleaseKeepsInjective ==
  ASSUME NEW r \in Registries, Injective(r), NEW s \in Slots
  PROVE  [r EXCEPT ![s] = Unassigned] \in Registries /\ Injective([r EXCEPT ![s] = Unassigned])
BY DEF Registries, Injective

LEMMA RegistryInvariant == Spec => []RegistryInv
<1>1. Init => RegistryInv
  BY NoPortsInjective DEF Init, RegistryInv, TypeOK, Steps, Releases
<1>2. RegistryInv /\ [Next]_vars => RegistryInv'
  <2> SUFFICES ASSUME RegistryInv, [Next]_vars
               PROVE  RegistryInv'
    OBVIOUS
  <2>a. /\ TypeOK /\ Injective(registry) /\ \A a \in Actors : Injective(loaded[a])
        /\ \A a \in Actors : pc[a] = "rollback up" => previous[a] # NoSnapshot
    BY DEF RegistryInv
  <2> USE DEF TypeOK, GoTo, hostVars, memoryVars
  <2>1. ASSUME NEW a \in Actors, NEW s \in Slots, BeginDeploy(a, s) \/ RemoveApp(a, s)
        PROVE  RegistryInv'
    <3>1. CASE BeginDeploy(a, s)
      BY <2>a, <3>1 DEF BeginDeploy, Start, Steps, RegistryInv
    <3>2. CASE RemoveApp(a, s)
      BY <2>a, <3>2 DEF RemoveApp, Start, Steps, RegistryInv
    <3> QED
      BY <2>1, <3>1, <3>2
  <2>2. ASSUME NEW a \in Actors, InternalOnly(a) \/ RollBack(a)
        PROVE  RegistryInv'
    BY <2>2, <2>a DEF InternalOnly, RollBack, Steps, RegistryInv
  <2>3. ASSUME NEW a \in Actors, Load(a)
        PROVE  RegistryInv'
    <3>1. port' \in [Actors -> Pool \cup {Unassigned}]
      BY <2>3, <2>a DEF Load, Registries
    <3> QED
      BY <2>3, <2>a, <3>1 DEF Load, Steps, RegistryInv
  <2>4. ASSUME NEW a \in Actors, Assign(a)
        PROVE  RegistryInv'
    <3>1. PICK p \in Pool \ Taken(loaded[a]) :
            /\ port' = [port EXCEPT ![a] = p]
            /\ loaded' = [loaded EXCEPT ![a] = [loaded[a] EXCEPT ![slot[a]] = p]]
      BY <2>4, <2>a DEF Assign, Assignable
    <3>2. /\ loaded[a] \in Registries /\ slot[a] \in Slots
      BY <2>a
    <3> DEFINE new == [loaded[a] EXCEPT ![slot[a]] = p]
    <3>3. new \in Registries /\ Injective(new)
      BY <2>a, <3>1, <3>2, AssignKeepsInjective
    <3>4. loaded' = [loaded EXCEPT ![a] = new]
      BY <3>1
    <3> HIDE DEF new
    <3>5. /\ loaded' \in [Actors -> Registries]
          /\ \A b \in Actors : Injective(loaded'[b])
      BY <2>a, <3>3, <3>4
    <3> QED
      BY <2>4, <2>a, <3>1, <3>5 DEF Assign, Steps, RegistryInv
  <2>5. ASSUME NEW a \in Actors,
               \/ Exhausted(a) \/ DeployEnds(a) \/ NothingToRelease(a)
               \/ UpFails(a) \/ RollbackUpFails(a) \/ Succeed(a) \/ ReleaseSave(a)
        PROVE  RegistryInv'
    <3>1. End(a)
      BY <2>5 DEF Exhausted, DeployEnds, NothingToRelease, UpFails, RollbackUpFails, Succeed,
         ReleaseSave
    <3>2. /\ loaded' \in [Actors -> Registries]
          /\ \A b \in Actors : Injective(loaded'[b])
          /\ port' \in [Actors -> Pool \cup {Unassigned}]
          /\ previous' \in [Actors -> Releases]
          /\ pc' \in [Actors -> Steps]
          /\ \A b \in Actors : pc'[b] = "rollback up" => previous'[b] # NoSnapshot
      BY <2>a, <3>1, NoPortsInjective DEF End, Steps, Releases
    <3>3. CASE Exhausted(a) \/ DeployEnds(a) \/ NothingToRelease(a)
      BY <2>a, <3>2, <3>3 DEF Exhausted, DeployEnds, NothingToRelease, RegistryInv
    <3>4. ASSUME NEW p \in Releases, RecreateFails(slot[a], p)
          PROVE  bound' \in [Pool -> Slots \cup {Free, Foreign}]
      BY <2>a, <3>4 DEF RecreateFails, Listen
    <3>5. CASE UpFails(a)
      <4>1. port[a] \in Pool \cup {Unassigned} /\ RecreateFails(slot[a], port[a])
        BY <2>a, <3>5 DEF UpFails
      <4>2. published' \in Registries
        BY <2>a, <4>1 DEF RecreateFails, Registries
      <4> QED
        BY <2>a, <3>2, <3>4, <3>5, <4>1, <4>2 DEF UpFails, RegistryInv, Releases
    <3>6. CASE RollbackUpFails(a)
      <4>1. RecreateFails(slot[a], previous[a])
        BY <3>6 DEF RollbackUpFails
      <4>2. previous[a] \in Pool \cup {Unassigned}
        BY <2>a, <3>6 DEF RollbackUpFails, RegistryInv, Releases
      <4>3. published' \in Registries
        BY <2>a, <4>1, <4>2 DEF RecreateFails, Registries
      <4> QED
        BY <2>a, <3>2, <3>4, <3>6, <4>1, <4>2, <4>3 DEF RollbackUpFails, RegistryInv, Releases
    <3>7. CASE Succeed(a)
      <4>1. lastGood' \in [Slots -> Releases]
        BY <2>a, <3>7 DEF Succeed, Releases
      <4> QED
        BY <2>a, <3>2, <3>7, <4>1 DEF Succeed, RegistryInv
    <3>8. CASE ReleaseSave(a)
      BY <2>a, <3>2, <3>8 DEF ReleaseSave, RegistryInv
    <3> QED
      BY <2>5, <3>3, <3>5, <3>6, <3>7, <3>8
  <2>6. ASSUME NEW a \in Actors, Save(a)
        PROVE  RegistryInv'
    BY <2>6, <2>a DEF Save, Steps, RegistryInv
  <2>7. ASSUME NEW a \in Actors, Up(a) \/ RollbackUp(a)
        PROVE  RegistryInv'
    <3>1. PICK p \in Pool \cup {Unassigned} : Recreate(slot[a], p)
      BY <2>7, <2>a DEF Up, RollbackUp, RegistryInv, Releases
    <3>2. published' \in Registries /\ bound' \in [Pool -> Slots \cup {Free, Foreign}]
      BY <2>a, <3>1 DEF Recreate, Listen, Registries
    <3> QED
      BY <2>7, <2>a, <3>2 DEF Up, RollbackUp, Steps, RegistryInv
  <2>8. ASSUME NEW a \in Actors, ReleaseLoad(a)
        PROVE  RegistryInv'
    <3> DEFINE new == [registry EXCEPT ![slot[a]] = Unassigned]
    <3>1. new \in Registries /\ Injective(new)
      BY <2>a, ReleaseKeepsInjective
    <3> HIDE DEF new
    <3>2. loaded' = [loaded EXCEPT ![a] = new]
      BY <2>8 DEF ReleaseLoad, new
    <3> QED
      BY <2>8, <2>a, <3>1, <3>2 DEF ReleaseLoad, Steps, RegistryInv
  <2>9. ASSUME NEW s \in Slots, Accept(s) \/ ContainerStops(s) \/ ContainerRestarts(s)
        PROVE  RegistryInv'
    BY <2>9, <2>a DEF Accept, ContainerStops, ContainerRestarts, RegistryInv
  <2>10. ASSUME NEW p \in Pool, ForeignListens(p) \/ ForeignStops(p)
         PROVE  RegistryInv'
    BY <2>10, <2>a DEF ForeignListens, ForeignStops, RegistryInv
  <2>11. CASE UNCHANGED vars
    BY <2>11, <2>a DEF vars, RegistryInv
  <2> QED
    BY <2>1, <2>2, <2>3, <2>4, <2>5, <2>6, <2>7, <2>8, <2>9, <2>10, <2>11
    DEF Next, Step
<1> QED
  BY <1>1, <1>2, PTL DEF Spec

(* Every variable keeps its type: no port outside the pool is handed out.   *)
THEOREM TypeCorrect == Spec => []TypeOK
<1>1. RegistryInv => TypeOK
  BY DEF RegistryInv
<1> QED
  BY <1>1, RegistryInvariant, PTL

(* ports.json never gives one port to two slots, for any number of deploys  *)
(* and removals that overlap and overwrite each other's file.               *)
THEOREM NoConflictsCorrect == Spec => []NoConflicts
<1>1. RegistryInv => NoConflicts
  BY DEF RegistryInv, NoConflicts
<1> QED
  BY <1>1, RegistryInvariant, PTL
===============================================================================
