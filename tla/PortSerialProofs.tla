--------------------------- MODULE PortSerialProofs ---------------------------
(* What holds of PortRegistry while its writers do not overlap.             *)
EXTENDS PortRegistryProofs

WithPort == {"up", "health", "rollback up", "rollback health"}
Deploying == {"load", "assign", "save"} \cup WithPort
Removing == {"rm load", "rm save"}

(* What an actor holds in memory is what ports.json says, but for the entry *)
(* of its own slot, which it is about to change.                            *)
ActorInv(a) ==
  /\ pc[a] \in Deploying => slot[a] \in accepted
  /\ pc[a] \in Removing => slot[a] \notin accepted
  /\ pc[a] = "assign" => loaded[a] = registry /\ registry[slot[a]] = Unassigned
  /\ pc[a] = "save" =>
       /\ registry[slot[a]] = Unassigned
       /\ port[a] \in Pool
       /\ loaded[a] = [registry EXCEPT ![slot[a]] = port[a]]
  /\ pc[a] \in WithPort => port[a] \in {registry[slot[a]], Unassigned}
  /\ pc[a] = "health" => published[slot[a]] = port[a]
  /\ pc[a] \in Deploying => previous[a] = lastGood[slot[a]]
  /\ pc[a] = "rollback health" =>
       previous[a] # NoSnapshot /\ published[slot[a]] = previous[a]
  /\ pc[a] \in Removing => lastGood[slot[a]] = NoSnapshot \/ slot[a] \in renewed
  /\ pc[a] = "rm save" => loaded[a] = [registry EXCEPT ![slot[a]] = Unassigned]

BeingRemoved(s) == \E a \in Actors : pc[a] \in Removing /\ slot[a] = s

Alone(a) == \A b \in Actors \ {a} : pc[b] = "idle"

(* A snapshot publishes the port its slot has, unless the app is a new one. *)
SnapshotInv ==
  \A s \in Slots : lastGood[s] \in Pool => s \in renewed \/ lastGood[s] = registry[s]

SerialInv ==
  /\ \A a \in Actors : pc[a] # "idle" => Alone(a)
  /\ \A a \in Actors : ActorInv(a)
  /\ \A s \in Slots : registry[s] # Unassigned => s \in accepted \/ BeingRemoved(s)
  /\ SnapshotInv

(* An actor that works alone has only its own part of the invariant to keep.*)
LEMMA AloneSuffices ==
  ASSUME NEW a \in Actors, TypeOK, SerialInv, Alone(a),
         NEW step \in Steps, pc' = [pc EXCEPT ![a] = step],
         ActorInv(a)', SnapshotInv',
         \A s \in Slots : registry'[s] # Unassigned =>
           s \in accepted' \/ (step \in Removing /\ slot'[a] = s)
  PROVE  SerialInv'
<1>1. pc'[a] = step /\ \A b \in Actors \ {a} : pc'[b] = "idle"
  BY DEF TypeOK, Alone
<1>2. \A b \in Actors : ActorInv(b)'
  BY <1>1 DEF ActorInv, Deploying, WithPort, Removing
<1>3. \A b \in Actors : pc'[b] # "idle" => Alone(b)'
  BY <1>1 DEF Alone
<1> QED
  BY <1>1, <1>2, <1>3 DEF SerialInv, BeingRemoved

LEMMA SerialInvariant ==
  ASSUME OneAtATime
  PROVE  Spec => []SerialInv
<1>1. Init => SerialInv
  BY PoolAssumption DEF Init, SerialInv, ActorInv, SnapshotInv, NoPorts, Deploying, WithPort, Removing
<1>2. RegistryInv /\ SerialInv /\ [Next]_vars => SerialInv'
  <2> SUFFICES ASSUME RegistryInv, SerialInv, [Next]_vars
               PROVE  SerialInv'
    OBVIOUS
  <2>a. TypeOK
    BY DEF RegistryInv
  <2>t. /\ pc \in [Actors -> Steps] /\ slot \in [Actors -> Slots]
        /\ loaded \in [Actors -> Registries] /\ registry \in Registries
        /\ port \in [Actors -> Pool \cup {Unassigned}]
        /\ published \in Registries /\ lastGood \in [Slots -> Releases]
        /\ previous \in [Actors -> Releases] /\ renewed \subseteq Slots
    BY <2>a DEF TypeOK
  <2>s. /\ SnapshotInv
        /\ UNCHANGED <<registry, lastGood, renewed>> => SnapshotInv'
    BY DEF SerialInv, SnapshotInv
  <2>b. ASSUME NEW a \in Actors, pc[a] # "idle"
        PROVE  /\ Alone(a) /\ ActorInv(a)
               /\ \A s \in Slots : registry[s] # Unassigned =>
                    s \in accepted \/ (pc[a] \in Removing /\ slot[a] = s)
    <3>1. Alone(a) /\ ActorInv(a)
      BY <2>b DEF SerialInv
    <3>2. ASSUME NEW s \in Slots, registry[s] # Unassigned, s \notin accepted
          PROVE  pc[a] \in Removing /\ slot[a] = s
      <4>1. PICK b \in Actors : pc[b] \in Removing /\ slot[b] = s
        BY <3>2 DEF SerialInv, BeingRemoved
      <4>2. pc[b] # "idle"
        BY <4>1 DEF Removing
      <4>3. b = a
        BY <3>1, <4>2 DEF Alone
      <4> QED
        BY <4>1, <4>3
    <3> QED
      BY <3>1, <3>2
  <2> USE DEF GoTo, hostVars, memoryVars
  <2>1. ASSUME NEW a \in Actors, NEW s \in Slots, BeginDeploy(a, s) \/ RemoveApp(a, s)
        PROVE  SerialInv'
    <3>1. Alone(a) /\ \A b \in Actors : pc[b] = "idle"
      BY <2>1 DEF BeginDeploy, RemoveApp, Start, Alone
    <3>2. PICK step \in {"load", "rm load"} : pc' = [pc EXCEPT ![a] = step]
      BY <2>1 DEF BeginDeploy, RemoveApp, Start
    <3>3. pc'[a] = step /\ slot'[a] = s
      BY <2>1, <2>t, <3>2 DEF BeginDeploy, RemoveApp, Start
    <3>4. ActorInv(a)'
      <4>1. CASE BeginDeploy(a, s)
        <5>1. /\ previous'[a] = lastGood[s] /\ lastGood' = lastGood /\ s \in accepted'
              /\ pc'[a] = "load"
          BY <2>t, <3>3, <4>1 DEF BeginDeploy, Start
        <5> QED
          BY <3>3, <5>1 DEF ActorInv, Deploying, WithPort, Removing
      <4>2. CASE RemoveApp(a, s)
        BY <2>t, <3>3, <4>2 DEF RemoveApp, Start, ActorInv, Deploying, WithPort, Removing
      <4> QED
        BY <2>1, <4>1, <4>2
    <3>5. \A t \in Slots : registry'[t] # Unassigned =>
            t \in accepted' \/ (step \in Removing /\ slot'[a] = t)
      <4>1. \A t \in Slots : registry[t] # Unassigned => t \in accepted
        BY <3>1 DEF SerialInv, BeingRemoved, Removing
      <4>2. CASE BeginDeploy(a, s)
        <5>1. registry' = registry /\ accepted' = accepted
          BY <4>2 DEF BeginDeploy
        <5> QED
          BY <4>1, <5>1
      <4>3. CASE RemoveApp(a, s)
        <5>1. step = "rm load" /\ accepted' = accepted \ {s} /\ registry' = registry
          BY <2>t, <3>3, <4>3 DEF RemoveApp, Start
        <5> QED
          <6> SUFFICES ASSUME NEW t \in Slots, registry'[t] # Unassigned, t # s
                       PROVE  t \in accepted'
            BY <3>3, <5>1 DEF Removing
          <6> QED
            BY <4>1, <5>1
      <4> QED
        BY <2>1, <4>2, <4>3
    <3>6. SnapshotInv'
      BY <2>1, <2>s DEF BeginDeploy, RemoveApp, SnapshotInv
    <3> QED
      BY <2>a, <3>1, <3>2, <3>4, <3>5, <3>6, AloneSuffices DEF Steps
  <2>2. ASSUME NEW a \in Actors, Load(a)
        PROVE  SerialInv'
    <3>1. pc[a] = "load"
      BY <2>2 DEF Load
    <3>2. PICK step \in {"assign", "up"} : pc' = [pc EXCEPT ![a] = step]
      BY <2>2 DEF Load
    <3>3. ActorInv(a)'
      BY <2>2, <2>b, <2>t, <3>1 DEF Load, ActorInv, Deploying, WithPort, Removing
    <3> QED
      BY <2>2, <2>a, <2>b, <2>s, <3>1, <3>2, <3>3, AloneSuffices DEF Load, Steps, Removing
  <2>3. ASSUME NEW a \in Actors, Assign(a)
        PROVE  SerialInv'
    <3>1. PICK p \in Pool :
            /\ port' = [port EXCEPT ![a] = p]
            /\ loaded' = [loaded EXCEPT ![a] = [loaded[a] EXCEPT ![slot[a]] = p]]
      BY <2>3 DEF Assign, Assignable
    <3>2. pc[a] = "assign" /\ pc' = [pc EXCEPT ![a] = "save"] /\ UNCHANGED <<registry, hostVars, slot, previous>>
      BY <2>3 DEF Assign
    <3>3. port'[a] = p /\ loaded'[a] = [registry EXCEPT ![slot[a]] = p]
      BY <2>b, <2>t, <3>1, <3>2 DEF ActorInv
    <3>4. ActorInv(a)'
      BY <2>b, <2>t, <3>2, <3>3 DEF ActorInv, Deploying, WithPort, Removing
    <3> QED
      BY <2>3, <2>a, <2>b, <2>s, <3>2, <3>4, AloneSuffices DEF Assign, Steps, Removing
  <2>4. ASSUME NEW a \in Actors, Save(a)
        PROVE  SerialInv'
    <3>1. pc[a] = "save" /\ pc' = [pc EXCEPT ![a] = "up"] /\ registry' = loaded[a]
          /\ UNCHANGED <<hostVars, slot, memoryVars>>
      BY <2>4 DEF Save
    <3>2. /\ registry' = [registry EXCEPT ![slot[a]] = port[a]]
          /\ slot[a] \in accepted /\ slot[a] \in Slots
      BY <2>b, <2>t, <3>1 DEF ActorInv, Deploying
    <3>3. registry'[slot[a]] = port[a] /\ \A s \in Slots \ {slot[a]} : registry'[s] = registry[s]
      BY <2>t, <3>2 DEF Registries
    <3>4. ActorInv(a)'
      BY <2>b, <2>t, <3>1, <3>2, <3>3 DEF ActorInv, Deploying, WithPort, Removing
    <3>5. \A s \in Slots : registry'[s] # Unassigned => s \in accepted'
      BY <2>b, <3>1, <3>2, <3>3 DEF Removing
    <3>6. SnapshotInv'
      <4>1. registry[slot[a]] = Unassigned /\ Unassigned \notin Pool
        BY <2>b, <3>1, PoolAssumption DEF ActorInv
      <4> QED
        BY <2>s, <3>1, <3>3, <4>1 DEF SnapshotInv
    <3> QED
      BY <2>a, <2>b, <3>1, <3>4, <3>5, <3>6, AloneSuffices DEF Steps
  <2>5. ASSUME NEW a \in Actors,
               InternalOnly(a) \/ Up(a) \/ RollBack(a) \/ RollbackUp(a)
        PROVE  SerialInv'
    <3>1. UNCHANGED <<registry, accepted, lastGood, renewed, slot, loaded, previous>>
      BY <2>5 DEF InternalOnly, Up, RollBack, RollbackUp
    <3>2. PICK step \in WithPort : pc' = [pc EXCEPT ![a] = step]
      BY <2>5 DEF InternalOnly, Up, RollBack, RollbackUp, WithPort
    <3>3. pc[a] # "idle" /\ pc[a] \in Deploying
      BY <2>5 DEF InternalOnly, Up, RollBack, RollbackUp, Deploying, WithPort
    <3>4. ActorInv(a)'
      <4>0. ActorInv(a) /\ pc'[a] = step /\ slot[a] \in Slots
        BY <2>b, <2>t, <3>2, <3>3
      <4>1. CASE InternalOnly(a)
        <5>1. pc'[a] = "up" /\ port'[a] = Unassigned
          BY <2>t, <4>1 DEF InternalOnly
        <5> QED
          BY <3>1, <3>3, <4>0, <5>1 DEF ActorInv, Deploying, WithPort, Removing
      <4>2. CASE Up(a)
        <5>1. /\ pc[a] = "up" /\ pc'[a] = "health" /\ port' = port
              /\ published' = [published EXCEPT ![slot[a]] = port[a]]
          BY <2>t, <4>2 DEF Up, Recreate
        <5>2. published'[slot[a]] = port[a]
          BY <2>t, <4>0, <5>1 DEF Registries
        <5> QED
          BY <3>1, <4>0, <5>1, <5>2 DEF ActorInv, Deploying, WithPort, Removing
      <4>3. CASE RollBack(a)
        <5>1. pc[a] = "health" /\ pc'[a] = "rollback up" /\ port' = port
          BY <2>t, <4>3 DEF RollBack
        <5> QED
          BY <3>1, <4>0, <5>1 DEF ActorInv, Deploying, WithPort, Removing
      <4>4. CASE RollbackUp(a)
        <5>1. /\ pc[a] = "rollback up" /\ pc'[a] = "rollback health" /\ port' = port
              /\ published' = [published EXCEPT ![slot[a]] = previous[a]]
              /\ previous[a] # NoSnapshot
          BY <2>t, <4>4 DEF RollbackUp, Recreate, RegistryInv
        <5>2. published'[slot[a]] = previous[a]
          BY <2>t, <4>0, <5>1 DEF Registries
        <5> QED
          BY <3>1, <4>0, <5>1, <5>2 DEF ActorInv, Deploying, WithPort, Removing
      <4> QED
        BY <2>5, <4>1, <4>2, <4>3, <4>4
    <3>5. \A s \in Slots : registry'[s] # Unassigned => s \in accepted'
      BY <2>b, <3>1, <3>3 DEF Deploying, WithPort, Removing
    <3>6. step \in Steps /\ Alone(a)
      BY <2>b, <3>3 DEF WithPort, Steps
    <3> QED
      BY <2>a, <2>s, <3>1, <3>2, <3>4, <3>5, <3>6, AloneSuffices
  <2>6. ASSUME NEW a \in Actors,
               \/ Exhausted(a) \/ UpFails(a) \/ RollbackUpFails(a) \/ Succeed(a)
               \/ DeployEnds(a) \/ NothingToRelease(a)
        PROVE  SerialInv'
    <3>1. /\ pc[a] # "idle" /\ pc' = [pc EXCEPT ![a] = "idle"]
          /\ UNCHANGED <<registry, accepted, slot>>
      BY <2>6 DEF Exhausted, UpFails, RollbackUpFails, Succeed, DeployEnds, NothingToRelease, End
    <3>2. ActorInv(a)'
      BY <2>t, <3>1 DEF ActorInv, Deploying, WithPort, Removing
    <3>3. ASSUME NEW s \in Slots, registry'[s] # Unassigned
          PROVE  s \in accepted'
      <4>1. CASE NothingToRelease(a)
        BY <2>b, <3>1, <3>3, <4>1 DEF NothingToRelease
      <4>2. CASE pc[a] \notin Removing
        BY <2>b, <3>1, <3>3, <4>2
      <4> QED
        BY <2>6, <4>1, <4>2
        DEF Exhausted, UpFails, RollbackUpFails, Succeed, DeployEnds, Removing
    <3>4. SnapshotInv'
      <4>1. CASE Succeed(a)
        <5>1. PICK release \in {port[a], NoSnapshot} :
                lastGood' = [lastGood EXCEPT ![slot[a]] = release]
          BY <4>1 DEF Succeed
        <5>2. /\ renewed' = renewed \ {slot[a]} /\ registry' = registry
              /\ port[a] \in {registry[slot[a]], Unassigned}
          BY <2>b, <4>1 DEF Succeed, ActorInv, WithPort
        <5>3. /\ lastGood'[slot[a]] = release
              /\ \A s \in Slots \ {slot[a]} : lastGood'[s] = lastGood[s]
          BY <2>t, <5>1
        <5>4. release \in Pool => release = registry[slot[a]]
          BY <5>2, PoolAssumption
        <5> QED
          BY <2>s, <5>2, <5>3, <5>4 DEF SnapshotInv
      <4>2. CASE ~Succeed(a)
        BY <2>6, <2>s, <4>2 DEF Exhausted, UpFails, RollbackUpFails, DeployEnds, NothingToRelease
      <4> QED
        BY <4>1, <4>2
    <3> QED
      BY <2>a, <2>b, <3>1, <3>2, <3>3, <3>4, AloneSuffices DEF Steps
  <2>7. ASSUME NEW a \in Actors, ReleaseLoad(a)
        PROVE  SerialInv'
    <3>1. /\ pc[a] = "rm load" /\ pc' = [pc EXCEPT ![a] = "rm save"]
          /\ loaded' = [loaded EXCEPT ![a] = [registry EXCEPT ![slot[a]] = Unassigned]]
          /\ UNCHANGED <<registry, hostVars, slot, port, previous>>
      BY <2>7 DEF ReleaseLoad
    <3>2. ActorInv(a)'
      BY <2>b, <2>t, <3>1 DEF ActorInv, Deploying, WithPort, Removing
    <3> QED
      BY <2>a, <2>b, <2>s, <3>1, <3>2, AloneSuffices DEF Steps, Removing
  <2>8. ASSUME NEW a \in Actors, ReleaseSave(a)
        PROVE  SerialInv'
    <3>1. /\ pc[a] = "rm save" /\ pc' = [pc EXCEPT ![a] = "idle"]
          /\ registry' = loaded[a] /\ UNCHANGED <<hostVars, slot>>
      BY <2>8 DEF ReleaseSave, End
    <3>2. registry' = [registry EXCEPT ![slot[a]] = Unassigned]
      BY <2>b, <3>1 DEF ActorInv
    <3>3. ActorInv(a)'
      BY <2>t, <3>1 DEF ActorInv, Deploying, WithPort, Removing
    <3>4. \A s \in Slots : registry'[s] # Unassigned => s \in accepted'
      BY <2>b, <2>t, <3>1, <3>2 DEF Registries
    <3>5. SnapshotInv'
      <4>1. lastGood[slot[a]] = NoSnapshot \/ slot[a] \in renewed
        BY <2>b, <3>1 DEF ActorInv, Removing
      <4>2. \A s \in Slots \ {slot[a]} : registry'[s] = registry[s]
        BY <2>t, <3>2 DEF Registries
      <4> QED
        BY <2>s, <3>1, <4>1, <4>2, PoolAssumption DEF SnapshotInv
    <3> QED
      BY <2>a, <2>b, <3>1, <3>3, <3>4, <3>5, AloneSuffices DEF Steps
  <2>9. ASSUME NEW s \in Slots, Accept(s)
        PROVE  SerialInv'
    <3>1. \A a \in Actors : pc[a] = "idle"
      BY <2>9 DEF Accept
    <3> QED
      BY <2>9, <2>s, <3>1
      DEF Accept, SerialInv, ActorInv, BeingRemoved, Alone, Deploying, WithPort, Removing
  <2>10. ASSUME UNCHANGED <<registry, accepted, published, lastGood, renewed, pc, slot, memoryVars>>
         PROVE  SerialInv'
    BY <2>10, <2>s DEF SerialInv, ActorInv, BeingRemoved, Alone
  <2> QED
    BY <2>1, <2>2, <2>3, <2>4, <2>5, <2>6, <2>7, <2>8, <2>9, <2>10
    DEF Next, Step, ContainerStops, ContainerRestarts, ForeignListens, ForeignStops, vars
<1> QED
  BY <1>1, <1>2, RegistryInvariant, PTL DEF Spec

-------------------------------------------------------------------------------
(* Once app rm is done the removed app's port is in the pool again, for any *)
(* number of slots and ports.                                               *)
THEOREM NoLeakCorrect ==
  ASSUME OneAtATime
  PROVE  Spec => []NoLeak
<1>1. SerialInv => NoLeak
  BY DEF SerialInv, NoLeak, BeingRemoved, Removing
<1> QED
  BY <1>1, SerialInvariant, PTL

(* A deploy probes the port that ports.json records for its slot and that   *)
(* its container was created with; its rollback puts the slot back on that  *)
(* port, unless the app was removed since the release put back.             *)
THEOREM ProbeCorrect ==
  ASSUME OneAtATime
  PROVE  Spec => []ProbesItsOwnPort
<1>1. RegistryInv /\ SerialInv => ProbesItsOwnPort
  <2> SUFFICES ASSUME RegistryInv, SerialInv, NEW a \in Actors
               PROVE  /\ pc[a] \in {"health", "rollback up", "rollback health"} =>
                           port[a] \in {registry[slot[a]], Unassigned}
                      /\ pc[a] = "health" => published[slot[a]] = port[a]
                      /\ pc[a] = "rollback health" /\ slot[a] \notin renewed =>
                           published[slot[a]] \in {registry[slot[a]], Unassigned}
    BY DEF ProbesItsOwnPort
  <2>1. ActorInv(a) /\ SnapshotInv
    BY DEF SerialInv
  <2>2. CASE pc[a] = "rollback health" /\ slot[a] \notin renewed
    <3>1. /\ published[slot[a]] = lastGood[slot[a]] /\ lastGood[slot[a]] # NoSnapshot
          /\ slot[a] \in Slots /\ lastGood[slot[a]] \in Releases
      BY <2>1, <2>2 DEF ActorInv, Deploying, WithPort, RegistryInv, TypeOK
    <3> QED
      BY <2>1, <2>2, <3>1 DEF SnapshotInv, Releases, ActorInv, WithPort
  <2> QED
    BY <2>1, <2>2 DEF ActorInv, WithPort
<1> QED
  BY <1>1, RegistryInvariant, SerialInvariant, PTL

(* No deploy, of this slot or another, moves a slot's port, and only the    *)
(* removal of the app gives it back.                                        *)
THEOREM StableCorrect ==
  ASSUME OneAtATime
  PROVE  Spec => PortIsStable
<1>1. RegistryInv /\ SerialInv /\ [Next]_vars =>
        \/ UNCHANGED vars
        \/ \A s \in Slots : registry[s] # Unassigned /\ registry'[s] # registry[s]
             => registry'[s] = Unassigned /\ s \notin accepted
  <2> SUFFICES ASSUME RegistryInv, SerialInv, [Next]_vars,
                      NEW s \in Slots, registry[s] # Unassigned, registry'[s] # registry[s]
               PROVE  registry'[s] = Unassigned /\ s \notin accepted
    OBVIOUS
  <2>1. PICK a \in Actors : Save(a) \/ ReleaseSave(a)
    BY DEF Next, Step, BeginDeploy, RemoveApp, Load, InternalOnly, Assign, Exhausted, Up, UpFails, Succeed,
           RollBack, RollbackUp, RollbackUpFails, DeployEnds, ReleaseLoad, NothingToRelease, Accept, ContainerStops, ContainerRestarts,
           ForeignListens, ForeignStops, vars
  <2>2. registry \in Registries /\ slot[a] \in Slots
    BY DEF RegistryInv, TypeOK
  <2>3. CASE Save(a)
    <3>1. /\ registry' = [registry EXCEPT ![slot[a]] = port[a]]
          /\ registry[slot[a]] = Unassigned
      BY <2>3 DEF Save, SerialInv, ActorInv
    <3> QED
      BY <2>2, <3>1 DEF Registries
  <2>4. CASE ReleaseSave(a)
    <3>1. /\ registry' = [registry EXCEPT ![slot[a]] = Unassigned]
          /\ slot[a] \notin accepted
      BY <2>4 DEF ReleaseSave, SerialInv, ActorInv, Removing
    <3> QED
      BY <2>2, <3>1 DEF Registries
  <2> QED
    BY <2>1, <2>3, <2>4
<1> QED
  BY <1>1, RegistryInvariant, SerialInvariant, PTL DEF Spec, PortIsStable

-------------------------------------------------------------------------------
(* Refinement: of a deploy's steps the one that saves ports.json gives a    *)
(* port, of app rm's the one that removes the manifest takes it back, and   *)
(* the others leave the table as it is.                                     *)

Held == [s \in Slots |-> IF s \in accepted THEN registry[s] ELSE Unassigned]

(* The port of a deploy that saves its assignment is no other slot's. *)
LEMMA SavedPortIsFree ==
  ASSUME RegistryInv, SerialInv, NEW a \in Actors, pc[a] = "save"
  PROVE  \A s \in Slots : registry[s] # port[a]
<1>1. /\ loaded[a] \in Registries /\ slot[a] \in Slots /\ registry \in Registries
      /\ Injective(loaded[a])
  BY DEF RegistryInv, TypeOK
<1>2. /\ registry[slot[a]] = Unassigned /\ port[a] \in Pool
      /\ loaded[a] = [registry EXCEPT ![slot[a]] = port[a]]
  BY DEF SerialInv, ActorInv
<1>3. port[a] # Unassigned /\ loaded[a][slot[a]] = port[a]
  BY <1>1, <1>2, PoolAssumption DEF Registries
<1> SUFFICES ASSUME NEW s \in Slots, registry[s] = port[a]
             PROVE  FALSE
  OBVIOUS
<1>4. s # slot[a]
  BY <1>2, <1>3
<1>5. loaded[a][s] = port[a]
  BY <1>1, <1>2, <1>4 DEF Registries
<1> QED
  BY <1>1, <1>3, <1>4, <1>5 DEF Injective

(* The file and the manifests implement the table of ports, for any number  *)
(* of slots, ports and actors that take turns.                              *)
THEOREM TableCorrect ==
  ASSUME OneAtATime
  PROVE  Spec => ImplementsTable
<1>1. Init => Table!Init
  BY DEF Init, NoPorts, Table!Init
<1>2. RegistryInv /\ SerialInv /\ [Next]_vars => [Table!Next]_(Table!table)
  <2> SUFFICES ASSUME RegistryInv, SerialInv, [Next]_vars
               PROVE  Table!Next \/ (accepted' = accepted /\ Held' = Held)
    BY DEF Held, Table!table
  <2>t. registry \in Registries /\ slot \in [Actors -> Slots]
    BY DEF RegistryInv, TypeOK
  <2>1. ASSUME NEW a \in Actors, Save(a)
        PROVE  Table!Next
    <3>1. /\ pc[a] = "save" /\ slot[a] \in accepted /\ slot[a] \in Slots
          /\ registry[slot[a]] = Unassigned /\ port[a] \in Pool
          /\ registry' = [registry EXCEPT ![slot[a]] = port[a]] /\ accepted' = accepted
      BY <2>1, <2>t DEF Save, hostVars, SerialInv, ActorInv, Deploying, WithPort
    <3>2. \A t \in Slots : Held[t] # port[a]
      <4>1. port[a] # Unassigned
        BY <3>1, PoolAssumption
      <4> QED
        BY <3>1, <4>1, SavedPortIsFree DEF Held
    <3>3. Held' = [Held EXCEPT ![slot[a]] = port[a]]
      BY <3>1, <2>t DEF Held, Registries
    <3>4. \E s \in Slots, p \in Pool : Table!Give(s, p)
      BY <3>1, <3>2, <3>3 DEF Table!Give, Held
    <3> QED
      BY <3>4 DEF Table!Next
  <2>2. ASSUME NEW a \in Actors, ReleaseSave(a)
        PROVE  accepted' = accepted /\ Held' = Held
    <3>1. /\ slot[a] \notin accepted /\ accepted' = accepted
          /\ registry' = [registry EXCEPT ![slot[a]] = Unassigned]
      BY <2>2 DEF ReleaseSave, hostVars, SerialInv, ActorInv, Removing
    <3> QED
      BY <3>1, <2>t DEF Held, Registries
  <2>3. ASSUME NEW a \in Actors, NEW s \in Slots, RemoveApp(a, s)
        PROVE  Table!Next
    <3>1. s \in accepted /\ accepted' = accepted \ {s} /\ registry' = registry
      BY <2>3 DEF RemoveApp
    <3>2. Held' = [Held EXCEPT ![s] = Unassigned]
      BY <3>1 DEF Held
    <3>3. Table!Remove(s)
      BY <3>1, <3>2 DEF Table!Remove, Held
    <3> QED
      BY <3>3 DEF Table!Next
  <2>4. ASSUME NEW s \in Slots, Accept(s)
        PROVE  Table!Next \/ (accepted' = accepted /\ Held' = Held)
    <3>1. /\ accepted' = accepted \cup {s} /\ registry' = registry
          /\ \A a \in Actors : pc[a] = "idle"
      BY <2>4 DEF Accept
    <3>2. CASE s \in accepted
      BY <3>1, <3>2 DEF Held
    <3>3. CASE s \notin accepted
      <4>1. registry[s] = Unassigned
        BY <3>1, <3>3 DEF SerialInv, BeingRemoved, Removing
      <4>2. Held' = Held
        BY <3>1, <3>3, <4>1 DEF Held
      <4>3. Table!Add(s)
        BY <3>1, <3>3, <4>2 DEF Table!Add, Held
      <4> QED
        BY <4>3 DEF Table!Next
    <3> QED
      BY <3>2, <3>3
  <2>5. ASSUME UNCHANGED <<registry, accepted>>
        PROVE  accepted' = accepted /\ Held' = Held
    BY <2>5 DEF Held
  <2> QED
    BY <2>1, <2>2, <2>3, <2>4, <2>5
    DEF Next, Step, BeginDeploy, Load, InternalOnly, Assign, Exhausted, Up, UpFails, Succeed,
        RollBack, RollbackUp, RollbackUpFails, DeployEnds, hostVars, ReleaseLoad, NothingToRelease, ContainerStops, ContainerRestarts,
        ForeignListens, ForeignStops, vars
<1> QED
  BY <1>1, <1>2, RegistryInvariant, SerialInvariant, PTL DEF Spec, ImplementsTable, Table!Spec
===============================================================================
