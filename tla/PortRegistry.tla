----------------------------- MODULE PortRegistry -----------------------------
(****************************************************************************)
(* The host ports of a server's slots: ports.json (internal/deploy/ports.go)*)
(* as the deploys of several slots (allocatePort, pipeline.go) and          *)
(* `statio app rm` (internal/cli/app.go) read, change and replace it, and   *)
(* the listeners those ports end up with.                                   *)
(*                                                                          *)
(* Every writer loads the whole file, changes one slot's entry and replaces *)
(* the file.  Nothing excludes two writers: deploys are goroutines of the   *)
(* agent and `app rm` is another process.  OneAtATime keeps them apart.     *)
(*                                                                          *)
(* A deploy whose probe fails restores the run set of the last good release *)
(* and publishes what that release published.  The snapshot and state.json  *)
(* outlive `app rm`, so the release may be of an app of that name before.   *)
(****************************************************************************)
EXTENDS Naturals

CONSTANTS
  Actors,      \* deploy goroutines and app rm processes
  Slots,       \* app names
  Pool,        \* PortPoolStart .. PortPoolEnd
  OneAtATime,  \* no two actors at work together
  Unassigned, NoSnapshot, Free, Foreign

ASSUME PoolAssumption ==
  /\ Pool \subseteq Nat
  /\ Unassigned \notin Pool
  /\ NoSnapshot \notin Pool \cup {Unassigned}
  /\ {Free, Foreign} \cap Slots = {}
  /\ Free # Foreign
  /\ OneAtATime \in BOOLEAN

VARIABLES
  registry,   \* ports.json: slot -> port or Unassigned
  accepted,   \* slots with a manifest
  published,  \* slot -> the host port its container was created with
  bound,      \* port -> who listens on it
  lastGood,   \* slot -> what its last good release publishes, if there is a snapshot of it
  renewed,    \* slots whose last good release is of an app removed since (history)
  pc, slot, loaded, port,  \* per actor: step, slot, registry read, port resolved
  previous    \* per actor: the slot's last good release as it was at admission

vars == <<registry, accepted, published, bound, lastGood, renewed, pc, slot, loaded, port, previous>>
hostVars == <<accepted, published, bound, lastGood, renewed>>
memoryVars == <<loaded, port, previous>>

Registries == [Slots -> Pool \cup {Unassigned}]
Releases == Pool \cup {Unassigned, NoSnapshot}
Steps == {"idle", "load", "assign", "save", "up", "health", "rollback up", "rollback health",
          "rm load", "rm save"}
NoPorts == [s \in Slots |-> Unassigned]

Init ==
  /\ registry = NoPorts
  /\ accepted = {}
  /\ published = NoPorts
  /\ bound = [p \in Pool |-> Free]
  /\ lastGood = [s \in Slots |-> NoSnapshot]
  /\ renewed = {}
  /\ pc = [a \in Actors |-> "idle"]
  /\ slot \in [Actors -> Slots]
  /\ loaded = [a \in Actors |-> NoPorts]
  /\ port = [a \in Actors |-> Unassigned]
  /\ previous = [a \in Actors |-> NoSnapshot]

GoTo(a, step) == pc' = [pc EXCEPT ![a] = step]

(* Done, or stopped by an error: what the actor held in memory is gone. *)
End(a) ==
  /\ GoTo(a, "idle")
  /\ loaded' = [loaded EXCEPT ![a] = NoPorts]
  /\ port' = [port EXCEPT ![a] = Unassigned]
  /\ previous' = [previous EXCEPT ![a] = NoSnapshot]

Start(a, s, step) ==
  /\ pc[a] = "idle"
  /\ OneAtATime => \A b \in Actors : pc[b] = "idle"
  /\ slot' = [slot EXCEPT ![a] = s]
  /\ GoTo(a, step)

-------------------------------------------------------------------------------
(* A deploy: it reads state.json at admission, and its next step here is    *)
(* the allocation of its port.                                              *)

BeginDeploy(a, s) ==
  /\ s \in accepted
  /\ Start(a, s, "load")
  /\ previous' = [previous EXCEPT ![a] = lastGood[s]]
  /\ UNCHANGED <<registry, hostVars, loaded, port>>

(* Faulty: a slot that has a port is given another. *)
LoadAlwaysAssigns(a) ==
  /\ pc[a] = "load"
  /\ loaded' = [loaded EXCEPT ![a] = registry]
  /\ port' = [port EXCEPT ![a] = registry[slot[a]]]
  /\ GoTo(a, "assign")
  /\ UNCHANGED <<registry, hostVars, slot, previous>>

(* LoadPortRegistry; a slot that has a port keeps it. *)
Load(a) ==
  /\ pc[a] = "load"
  /\ loaded' = [loaded EXCEPT ![a] = registry]
  /\ port' = [port EXCEPT ![a] = registry[slot[a]]]
  /\ GoTo(a, IF registry[slot[a]] = Unassigned THEN "assign" ELSE "up")
  /\ UNCHANGED <<registry, hostVars, slot, previous>>

(* An internal-only app publishes nothing, whatever its slot was given. *)
InternalOnly(a) ==
  /\ pc[a] = "load"
  /\ port' = [port EXCEPT ![a] = Unassigned]
  /\ GoTo(a, "up")
  /\ UNCHANGED <<registry, hostVars, slot, loaded, previous>>

Taken(r) == {r[s] : s \in Slots} \ {Unassigned}
HostPortFree(p) == bound[p] = Free
Assignable(r) == {p \in Pool \ Taken(r) : HostPortFree(p)}

(* Faulty: only the listeners are asked. *)
AssignUnbound(a) ==
  /\ pc[a] = "assign"
  /\ \E p \in {q \in Pool : HostPortFree(q)} :
       /\ \A q \in {q \in Pool : HostPortFree(q)} : p <= q
       /\ port' = [port EXCEPT ![a] = p]
       /\ loaded' = [loaded EXCEPT ![a][slot[a]] = p]
  /\ GoTo(a, "save")
  /\ UNCHANGED <<registry, hostVars, slot, previous>>

(* The lowest port that the registry read gives to nobody and that nothing  *)
(* answers on.                                                              *)
Assign(a) ==
  /\ pc[a] = "assign"
  /\ \E p \in Assignable(loaded[a]) :
       /\ \A q \in Assignable(loaded[a]) : p <= q
       /\ port' = [port EXCEPT ![a] = p]
       /\ loaded' = [loaded EXCEPT ![a][slot[a]] = p]
  /\ GoTo(a, "save")
  /\ UNCHANGED <<registry, hostVars, slot, previous>>

(* Faulty: the search ends one past the pool, and its result is used. *)
PastThePool(a) ==
  /\ pc[a] = "assign"
  /\ Assignable(loaded[a]) = {}
  /\ \E last \in Pool :
       /\ \A q \in Pool : q <= last
       /\ port' = [port EXCEPT ![a] = last + 1]
       /\ loaded' = [loaded EXCEPT ![a][slot[a]] = last + 1]
  /\ GoTo(a, "save")
  /\ UNCHANGED <<registry, hostVars, slot, previous>>

(* "port pool exhausted": the deploy fails at its ports stage. *)
Exhausted(a) ==
  /\ pc[a] = "assign"
  /\ Assignable(loaded[a]) = {}
  /\ End(a)
  /\ UNCHANGED <<registry, hostVars, slot>>

(* Faulty: the assignment stays in memory, as in a preflight. *)
SaveNothing(a) ==
  /\ pc[a] = "save"
  /\ GoTo(a, "up")
  /\ UNCHANGED <<registry, hostVars, slot, memoryVars>>

Save(a) ==
  /\ pc[a] = "save"
  /\ registry' = loaded[a]
  /\ GoTo(a, "up")
  /\ UNCHANGED <<hostVars, slot, memoryVars>>

(* compose up makes way for the slot's container, which listens on p. *)
Listen(s, p) ==
  bound' = [q \in Pool |-> IF q = p THEN s ELSE IF bound[q] = s THEN Free ELSE bound[q]]

Recreate(s, p) ==
  /\ p # Unassigned => bound[p] \in {Free, s}
  /\ published' = [published EXCEPT ![s] = p]
  /\ Listen(s, p)

(* compose up fails, "port is already allocated" or anything else, once it  *)
(* has stopped the old container: the slot is left without one, or with one *)
(* that was created and did not start.                                      *)
RecreateFails(s, p) ==
  /\ \E q \in {p, Unassigned} : published' = [published EXCEPT ![s] = q]
  /\ Listen(s, Unassigned)

(* The compose file binds the port, and up recreates the container there.   *)
Up(a) ==
  /\ pc[a] = "up"
  /\ Recreate(slot[a], port[a])
  /\ GoTo(a, "health")
  /\ UNCHANGED <<registry, accepted, lastGood, renewed, slot, memoryVars>>

UpFails(a) ==
  /\ pc[a] = "up"
  /\ RecreateFails(slot[a], port[a])
  /\ End(a)
  /\ UNCHANGED <<registry, accepted, lastGood, renewed, slot>>

(* The probe passes and the release becomes the last good one.  Without its *)
(* snapshot, where that cannot be written, a later rollback has nothing.    *)
Succeed(a) ==
  /\ pc[a] = "health"
  /\ \E release \in {port[a], NoSnapshot} : lastGood' = [lastGood EXCEPT ![slot[a]] = release]
  /\ renewed' = renewed \ {slot[a]}
  /\ End(a)
  /\ UNCHANGED <<registry, accepted, published, bound, slot>>

(* The probe fails: the run set of the last good release is put back. *)
RollBack(a) ==
  /\ pc[a] = "health"
  /\ previous[a] # NoSnapshot
  /\ GoTo(a, "rollback up")
  /\ UNCHANGED <<registry, hostVars, slot, memoryVars>>

(* Faulty: the slots share their history, and the set read is any slot's. *)
RollbackUpElsewhere(a) ==
  /\ pc[a] = "rollback up"
  /\ \E s \in Slots : lastGood[s] \in Pool /\ Recreate(slot[a], lastGood[s])
  /\ GoTo(a, "rollback health")
  /\ UNCHANGED <<registry, accepted, lastGood, renewed, slot, memoryVars>>

(* up recreates the container that release had, on the port it had; what is *)
(* probed then is still the port of the deploy that failed.                 *)
RollbackUp(a) ==
  /\ pc[a] = "rollback up"
  /\ Recreate(slot[a], previous[a])
  /\ GoTo(a, "rollback health")
  /\ UNCHANGED <<registry, accepted, lastGood, renewed, slot, memoryVars>>

RollbackUpFails(a) ==
  /\ pc[a] = "rollback up"
  /\ RecreateFails(slot[a], previous[a])
  /\ End(a)
  /\ UNCHANGED <<registry, accepted, lastGood, renewed, slot>>

(* Another stage fails (ports.json unreadable or unwritable, pull, disk, up *)
(* before it touched a container, the snapshot gone, state.json unwritable),*)
(* or the deploy answers with no_op, or from its rollback.                  *)
DeployEnds(a) ==
  /\ pc[a] \in {"load", "save", "up", "health", "rollback up", "rollback health"}
  /\ End(a)
  /\ UNCHANGED <<registry, hostVars, slot>>

-------------------------------------------------------------------------------
(* statio app add, app rm *)

Accept(s) ==
  /\ OneAtATime => \A a \in Actors : pc[a] = "idle"
  /\ accepted' = accepted \cup {s}
  /\ UNCHANGED <<registry, published, bound, lastGood, renewed, pc, slot, memoryVars>>

(* The manifest goes first; the container is left as it is, and so are the  *)
(* slot's state.json and snapshots.                                         *)
RemoveApp(a, s) ==
  /\ s \in accepted
  /\ Start(a, s, "rm load")
  /\ accepted' = accepted \ {s}
  /\ renewed' = IF lastGood[s] = NoSnapshot THEN renewed ELSE renewed \cup {s}
  /\ UNCHANGED <<registry, published, bound, lastGood, memoryVars>>

ReleaseLoad(a) ==
  /\ pc[a] = "rm load"
  /\ registry[slot[a]] # Unassigned
  /\ loaded' = [loaded EXCEPT ![a] = [registry EXCEPT ![slot[a]] = Unassigned]]
  /\ GoTo(a, "rm save")
  /\ UNCHANGED <<registry, hostVars, slot, port, previous>>

NothingToRelease(a) ==
  /\ pc[a] = "rm load"
  /\ registry[slot[a]] = Unassigned
  /\ End(a)
  /\ UNCHANGED <<registry, hostVars, slot>>

(* Faulty: the release is not written back. *)
ReleaseForgotten(a) ==
  /\ pc[a] = "rm save"
  /\ End(a)
  /\ UNCHANGED <<registry, hostVars, slot>>

ReleaseSave(a) ==
  /\ pc[a] = "rm save"
  /\ registry' = loaded[a]
  /\ End(a)
  /\ UNCHANGED <<hostVars, slot>>

-------------------------------------------------------------------------------
(* The host: docker's restart policy and the server's other programs.       *)

ContainerStops(s) ==
  /\ \E p \in Pool : bound[p] = s
  /\ bound' = [p \in Pool |-> IF bound[p] = s THEN Free ELSE bound[p]]
  /\ UNCHANGED <<registry, accepted, published, lastGood, renewed, pc, slot, memoryVars>>

ContainerRestarts(s) ==
  /\ published[s] # Unassigned
  /\ bound[published[s]] = Free
  /\ bound' = [bound EXCEPT ![published[s]] = s]
  /\ UNCHANGED <<registry, accepted, published, lastGood, renewed, pc, slot, memoryVars>>

ForeignListens(p) ==
  /\ bound[p] = Free
  /\ bound' = [bound EXCEPT ![p] = Foreign]
  /\ UNCHANGED <<registry, accepted, published, lastGood, renewed, pc, slot, memoryVars>>

ForeignStops(p) ==
  /\ bound[p] = Foreign
  /\ bound' = [bound EXCEPT ![p] = Free]
  /\ UNCHANGED <<registry, accepted, published, lastGood, renewed, pc, slot, memoryVars>>

Step(a) ==
  \/ Load(a) \/ InternalOnly(a) \/ Assign(a) \/ Exhausted(a) \/ Save(a)
  \/ Up(a) \/ UpFails(a) \/ Succeed(a)
  \/ RollBack(a) \/ RollbackUp(a) \/ RollbackUpFails(a) \/ DeployEnds(a)
  \/ ReleaseLoad(a) \/ NothingToRelease(a) \/ ReleaseSave(a)

Next ==
  \/ \E a \in Actors, s \in Slots : BeginDeploy(a, s) \/ RemoveApp(a, s)
  \/ \E a \in Actors : Step(a)
  \/ \E s \in Slots : Accept(s) \/ ContainerStops(s) \/ ContainerRestarts(s)
  \/ \E p \in Pool : ForeignListens(p) \/ ForeignStops(p)

Spec == Init /\ [][Next]_vars

-------------------------------------------------------------------------------

TypeOK ==
  /\ registry \in Registries
  /\ accepted \in SUBSET Slots
  /\ published \in Registries
  /\ bound \in [Pool -> Slots \cup {Free, Foreign}]
  /\ pc \in [Actors -> Steps]
  /\ slot \in [Actors -> Slots]
  /\ loaded \in [Actors -> Registries]
  /\ port \in [Actors -> Pool \cup {Unassigned}]
  /\ lastGood \in [Slots -> Releases]
  /\ renewed \subseteq Slots
  /\ previous \in [Actors -> Releases]

Injective(r) ==
  \A s, t \in Slots : r[s] # Unassigned /\ r[s] = r[t] => s = t

(* ports.json never gives one port to two slots, even where two writers     *)
(* overlap and one of them is lost: Conflicts() is always empty.            *)
NoConflicts == Injective(registry)

-------------------------------------------------------------------------------
(* Of actors that do not overlap. *)

(* A slot's port does not move between its first deploy and its removal:    *)
(* the proxy target stays put across redeploys.                             *)
PortIsStable ==
  [][\A s \in Slots : registry[s] # Unassigned /\ registry'[s] # registry[s]
       => registry'[s] = Unassigned /\ s \notin accepted]_vars

(* A removed app's port is back in the pool once app rm is done. *)
NoLeak ==
  (\A a \in Actors : pc[a] = "idle") =>
    \A s \in Slots : registry[s] # Unassigned => s \in accepted

(* The port a deploy probes and forwards to is the one its container was    *)
(* published on, and ports.json has it under the slot's name; an            *)
(* internal-only app has none.  A rollback puts the slot back on the port   *)
(* that ports.json has for it and that is probed again, or on none if that  *)
(* release was internal-only - unless the app was removed and added again   *)
(* since that release, which then comes back on a port given away.          *)
ProbesItsOwnPort ==
  \A a \in Actors :
    /\ pc[a] \in {"health", "rollback up", "rollback health"} =>
         port[a] \in {registry[slot[a]], Unassigned}
    /\ pc[a] = "health" => published[slot[a]] = port[a]
    /\ pc[a] = "rollback health" /\ slot[a] \notin renewed =>
         published[slot[a]] \in {registry[slot[a]], Unassigned}

(* The file as a table of the accepted apps: app rm takes an entry back in  *)
(* the step that removes the manifest, whenever it rewrites the file.       *)
Table == INSTANCE PortTable WITH
  apps <- accepted,
  portOf <- [s \in Slots |-> IF s \in accepted THEN registry[s] ELSE Unassigned]

(* ports.json is a table of ports, given once and given back on removal: an *)
(* app that is removed and added again never meets its predecessor's port.  *)
ImplementsTable == Table!Spec

-------------------------------------------------------------------------------
(* pipeline.md: two slots never publish the same host port. *)
PublishedApart ==
  \A s, t \in accepted : published[s] # Unassigned /\ published[s] = published[t] => s = t
===============================================================================
