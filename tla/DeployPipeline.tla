---------------------------- MODULE DeployPipeline ----------------------------
(****************************************************************************)
(* The deploy pipeline of one service slot: Deployer.Run and the files,     *)
(* containers and edge entries it drives (internal/deploy/pipeline.go,      *)
(* state.go, compose.go, health.go, puller.go).                             *)
(*                                                                          *)
(* net/http serves every POST /deploy on a goroutine of its own and nothing *)
(* in the agent excludes two Runs of one slot, so a process of this model   *)
(* is one in-flight request and its steps interleave with the others'.      *)
(* OneAtATime restricts the clients to one request at a time: what a        *)
(* pipeline "under a flock" would be.                                       *)
(*                                                                          *)
(* A step is one access to something another Run or a restart can see: the  *)
(* state file, a file of the run directory, the container, a snapshot       *)
(* directory, an edge provider.                                             *)
(****************************************************************************)
EXTENDS Naturals, Sequences

CONSTANTS
  Runs,             \* request goroutines
  Digests, Envs,    \* image digests; merged environments
  Payloads,         \* the signed deploy payloads clients send
  Trusted,          \* digests whose cosign signature verifies
  Sound,            \* run sets that answer a health probe
  Unprobed,         \* digests whose app_intent declares no health probe
  Providers,        \* edge providers the agent has credentials for
  RollbackEnabled,  \* manifest rollback.enabled
  OneAtATime,       \* clients never have two requests in flight
  MaxDeploys,       \* bound on the requests of a behaviour
  MaxHistory,       \* maxHistory
  None

RunSets == [digest : Digests, env : Envs]
Edges == {"proxy", "dns"}
Results == {"success", "success_degraded", "no_op", "failure_rolled_back", "failure"}
Stages == {"idle", "verify", "idempotency", "pull", "compose", "env", "up",
           "health", "snapshot", "proxy", "dns", "persist", "done"}

(* admissible stands for the checks of a payload against the server that    *)
(* have no effect: binding, repository, edge policy, protected keys, env    *)
(* merge, service count, dependency registries.                             *)
PayloadType == [seq : Nat, digest : Digests, env : Envs,
                edge : SUBSET Edges, admissible : BOOLEAN]

ASSUME ConstantsAssumption ==
  /\ Payloads \subseteq PayloadType
  /\ Trusted \subseteq Digests
  /\ Unprobed \subseteq Digests
  /\ Sound \subseteq RunSets
  /\ Providers \subseteq Edges
  /\ RollbackEnabled \in BOOLEAN
  /\ OneAtATime \in BOOLEAN
  /\ MaxDeploys \in Nat
  /\ MaxHistory \in Nat
  /\ None \notin RunSets \cup Digests \cup Envs \cup PayloadType
  /\ None \notin [set : RunSets, ref : Nat] \cup Results

VARIABLES
  state,        \* state.json: lastSeq, good (LastGood), history
  composeFile,  \* compose.yaml in the run directory, by the digest it embeds
  envFile,      \* the env files beside it
  snaps,        \* the tmpfs history directories made so far: a run set, or None once gone
  running,      \* the run set the slot's containers were created from
  edge,         \* providers that publish the slot's domain
  deploys,      \* requests received
  pc, req, st,                  \* per Run: stage, payload, state loaded
  back, ref, degraded, result,  \* rolling back?, RunRef, degraded, Result.State
  cancelled     \* Runs whose request context is done

slotVars == <<state, composeFile, envFile, snaps, running, edge>>
entryVars == <<deploys, req, st>>
noteVars == <<back, ref, degraded>>
vars == <<slotVars, entryVars, noteVars, pc, result, cancelled>>

Snapshots == [set : RunSets, ref : Nat]
States == [lastSeq : Nat, good : Snapshots \cup {None}, history : Seq(Snapshots)]
FreshState == [lastSeq |-> 0, good |-> None, history |-> << >>]
NoRef == 0

SetOf(p) == [digest |-> p.digest, env |-> p.env]

(* The run set r is putting on the slot: the payload's, or the one read     *)
(* back from the snapshot of the last good release.                         *)
Target(r) == IF back[r] THEN snaps[st[r].good.ref] ELSE SetOf(req[r])

Idle(r) == pc[r] = "idle"
InFlight(r) == pc[r] \notin {"idle", "done"}
At(r, stage) == pc[r] = stage

GoTo(r, stage) ==
  /\ pc' = [pc EXCEPT ![r] = stage]
  /\ UNCHANGED <<result, cancelled, entryVars>>

Finish(r, outcome) ==
  /\ pc' = [pc EXCEPT ![r] = "done"]
  /\ result' = [result EXCEPT ![r] = outcome]
  /\ UNCHANGED <<cancelled, entryVars>>

-------------------------------------------------------------------------------

Init ==
  /\ state = FreshState
  /\ composeFile = None
  /\ envFile = None
  /\ snaps = << >>
  /\ running = None
  /\ edge = {}
  /\ deploys = 0
  /\ pc = [r \in Runs |-> "idle"]
  /\ req = [r \in Runs |-> None]
  /\ st = [r \in Runs |-> FreshState]
  /\ back = [r \in Runs |-> FALSE]
  /\ ref = [r \in Runs |-> NoRef]
  /\ degraded = [r \in Runs |-> FALSE]
  /\ result = [r \in Runs |-> None]
  /\ cancelled = {}

MayBegin(r) ==
  /\ Idle(r)
  /\ deploys < MaxDeploys
  /\ OneAtATime => \A q \in Runs : Idle(q)

(* Run reads state.json once, here, and keeps what it read to the end. *)
Begin(r, p) ==
  /\ deploys' = deploys + 1
  /\ req' = [req EXCEPT ![r] = p]
  /\ st' = [st EXCEPT ![r] = state]
  /\ UNCHANGED <<slotVars, noteVars, cancelled>>

(* Faulty: no replay check. *)
NeverReplayed(p) == FALSE

Replayed(p) == p.seq < state.lastSeq

Admit(r, p) ==
  /\ MayBegin(r)
  /\ p.admissible
  /\ ~Replayed(p)
  /\ Begin(r, p)
  /\ pc' = [pc EXCEPT ![r] = "verify"]
  /\ UNCHANGED result

Refuse(r, p) ==
  /\ MayBegin(r)
  /\ ~p.admissible \/ Replayed(p)
  /\ Begin(r, p)
  /\ pc' = [pc EXCEPT ![r] = "done"]
  /\ result' = [result EXCEPT ![r] = "failure"]

(* Every call that takes the request's context fails once the client is gone. *)
Connected(r) == r \notin cancelled

(* A stage whose failure ends the Run and leaves everything else as it is:  *)
(* registry or signature, pull, a full tmpfs, a full disk under state.json. *)
StageFails(r) ==
  /\ pc[r] \in {"verify", "pull", "compose", "env", "persist"}
  /\ Finish(r, "failure")
  /\ UNCHANGED <<slotVars, noteVars>>

(* Faulty: a failed verification is only logged. *)
VerifyLogged(r) ==
  /\ At(r, "verify")
  /\ GoTo(r, "idempotency")
  /\ UNCHANGED <<slotVars, noteVars>>

Verify(r) ==
  /\ At(r, "verify")
  /\ Connected(r)
  /\ req[r].digest \in Trusted
  /\ GoTo(r, "idempotency")
  /\ UNCHANGED <<slotVars, noteVars>>

(* The probe r's payload asks for, sent to whatever container holds the     *)
(* slot's port.  A payload without a probe is accepted without looking; a   *)
(* probe can fail (slow start, a flake) whatever is running.                *)
ProbePasses(r) ==
  \/ req[r].digest \in Unprobed
  \/ Connected(r) /\ running \in Sound

ProbeFails(r) == req[r].digest \notin Unprobed

SameAsLastGood(r) == st[r].good # None /\ st[r].good.set = SetOf(req[r])

NoOp(r) ==
  /\ At(r, "idempotency")
  /\ SameAsLastGood(r)
  /\ ProbePasses(r)
  /\ Finish(r, "no_op")
  /\ UNCHANGED <<slotVars, noteVars>>

Proceed(r) ==
  /\ At(r, "idempotency")
  /\ ~SameAsLastGood(r) \/ ProbeFails(r)
  /\ GoTo(r, "pull")
  /\ UNCHANGED <<slotVars, noteVars>>

Pull(r) ==
  /\ At(r, "pull")
  /\ Connected(r)
  /\ GoTo(r, "compose")
  /\ UNCHANGED <<slotVars, noteVars>>

(* writeRunSet: each file is replaced atomically, the set is not. *)
WriteCompose(r) ==
  /\ At(r, "compose")
  /\ composeFile' = Target(r).digest
  /\ GoTo(r, "env")
  /\ UNCHANGED <<state, envFile, snaps, running, edge, noteVars>>

(* Faulty: a rollback restores the image and keeps the new env. *)
WriteNewEnv(r) ==
  /\ At(r, "env")
  /\ envFile' = req[r].env
  /\ GoTo(r, "up")
  /\ UNCHANGED <<state, composeFile, snaps, running, edge, noteVars>>

WriteEnv(r) ==
  /\ At(r, "env")
  /\ envFile' = Target(r).env
  /\ GoTo(r, "up")
  /\ UNCHANGED <<state, composeFile, snaps, running, edge, noteVars>>

OnDisk == [digest |-> composeFile, env |-> envFile]

(* docker compose up reads the files of the run directory, not r's memory. *)
ComposeUp(r) ==
  /\ At(r, "up")
  /\ Connected(r)
  /\ OnDisk \in RunSets
  /\ running' = OnDisk
  /\ GoTo(r, "health")
  /\ UNCHANGED <<state, composeFile, envFile, snaps, edge, noteVars>>

(* It can fail before, while or after it replaces the container; no         *)
(* rollback follows.                                                        *)
UpOutcomes == {running, None} \cup ({OnDisk} \cap RunSets)

ComposeUpFails(r) ==
  /\ At(r, "up")
  /\ running' \in UpOutcomes
  /\ Finish(r, "failure")
  /\ UNCHANGED <<state, composeFile, envFile, snaps, edge, noteVars>>

(* Faulty: the probe's verdict is ignored. *)
HealthyAnyway(r) ==
  /\ At(r, "health")
  /\ ~back[r]
  /\ GoTo(r, "snapshot")
  /\ UNCHANGED <<slotVars, noteVars>>

Healthy(r) ==
  /\ At(r, "health")
  /\ ~back[r]
  /\ ProbePasses(r)
  /\ GoTo(r, "snapshot")
  /\ UNCHANGED <<slotVars, noteVars>>

CanRollBack(r) ==
  /\ RollbackEnabled
  /\ st[r].good # None
  /\ st[r].good.ref \in DOMAIN snaps
  /\ snaps[st[r].good.ref] # None

(* Faulty: the rollback is not remembered, and its failure starts another. *)
StartRollbackAgain(r) ==
  /\ At(r, "health")
  /\ ProbeFails(r)
  /\ CanRollBack(r)
  /\ GoTo(r, "compose")
  /\ UNCHANGED <<slotVars, noteVars>>

(* rollback: read the last good set back and put it on the slot. *)
StartRollback(r) ==
  /\ At(r, "health")
  /\ ~back[r]
  /\ ProbeFails(r)
  /\ CanRollBack(r)
  /\ back' = [back EXCEPT ![r] = TRUE]
  /\ GoTo(r, "compose")
  /\ UNCHANGED <<slotVars, ref, degraded>>

NoRollback(r) ==
  /\ At(r, "health")
  /\ ~back[r]
  /\ ProbeFails(r)
  /\ ~CanRollBack(r)
  /\ Finish(r, "failure")
  /\ UNCHANGED <<slotVars, noteVars>>

RolledBack(r) ==
  /\ At(r, "health")
  /\ back[r]
  /\ ProbePasses(r)
  /\ Finish(r, "failure_rolled_back")
  /\ UNCHANGED <<slotVars, noteVars>>

RollbackUnhealthy(r) ==
  /\ At(r, "health")
  /\ back[r]
  /\ ProbeFails(r)
  /\ Finish(r, "failure")
  /\ UNCHANGED <<slotVars, noteVars>>

(* Faulty: the snapshot copies the run directory. *)
SnapshotOfDisk(r) ==
  /\ At(r, "snapshot")
  /\ OnDisk \in RunSets
  /\ snaps' = Append(snaps, OnDisk)
  /\ ref' = [ref EXCEPT ![r] = Len(snaps) + 1]
  /\ GoTo(r, "proxy")
  /\ UNCHANGED <<state, composeFile, envFile, running, edge, back, degraded>>

(* The snapshot directory is named by the time, to the nanosecond: no two   *)
(* have one name.  The model numbers them in the order they are made.  A    *)
(* failure is ignored: the release is then recorded with an empty RunRef.   *)
TakeSnapshot(r) ==
  /\ At(r, "snapshot")
  /\ snaps' = Append(snaps, SetOf(req[r]))
  /\ ref' = [ref EXCEPT ![r] = Len(snaps) + 1]
  /\ GoTo(r, "proxy")
  /\ UNCHANGED <<state, composeFile, envFile, running, edge, back, degraded>>

SkipSnapshot(r) ==
  /\ At(r, "snapshot")
  /\ GoTo(r, "proxy")
  /\ UNCHANGED <<slotVars, noteVars>>

Wanted(r, provider) == provider \in Providers \cap req[r].edge
After(provider) == IF provider = "proxy" THEN "dns" ELSE "persist"

(* An edge step: skipped without a provider, best effort with one.  A call  *)
(* that fails may have reached the provider all the same.                   *)
Publish(r, provider) ==
  /\ At(r, provider)
  /\ Wanted(r, provider)
  /\ Connected(r)
  /\ edge' = edge \cup {provider}
  /\ GoTo(r, After(provider))
  /\ UNCHANGED <<state, composeFile, envFile, snaps, running, noteVars>>

PublishFails(r, provider) ==
  /\ At(r, provider)
  /\ Wanted(r, provider)
  /\ edge' \in {edge, edge \cup {provider}}
  /\ degraded' = [degraded EXCEPT ![r] = TRUE]
  /\ GoTo(r, After(provider))
  /\ UNCHANGED <<state, composeFile, envFile, snaps, running, back, ref>>

SkipPublish(r, provider) ==
  /\ At(r, provider)
  /\ ~Wanted(r, provider)
  /\ GoTo(r, After(provider))
  /\ UNCHANGED <<slotVars, noteVars>>

(* Faulty: the history keeps the oldest releases; it keeps them all. *)
OldestOf(s, n) == IF Len(s) > n THEN SubSeq(s, 1, n) ELSE s
AllOf(s, n) == s

Newest(s, n) == IF Len(s) > n THEN SubSeq(s, Len(s) - n + 1, Len(s)) ELSE s

(* State.Advance, after the bump of LastSeq. *)
Advance(s, seq, snap) ==
  [lastSeq |-> IF seq > s.lastSeq THEN seq ELSE s.lastSeq,
   good    |-> snap,
   history |-> IF s.good = None THEN s.history
               ELSE Newest(Append(s.history, s.good), MaxHistory)]

(* Faulty: state.json is read again before it is advanced. *)
PersistReread(r) ==
  /\ At(r, "persist")
  /\ state' = Advance(state, req[r].seq, [set |-> SetOf(req[r]), ref |-> ref[r]])
  /\ Finish(r, IF degraded[r] THEN "success_degraded" ELSE "success")
  /\ UNCHANGED <<composeFile, envFile, snaps, running, edge, noteVars>>

(* The state saved is the one loaded at admission, advanced. *)
Persist(r) ==
  /\ At(r, "persist")
  /\ state' = Advance(st[r], req[r].seq, [set |-> SetOf(req[r]), ref |-> ref[r]])
  /\ Finish(r, IF degraded[r] THEN "success_degraded" ELSE "success")
  /\ UNCHANGED <<composeFile, envFile, snaps, running, edge, noteVars>>

(* The handler has answered; the goroutine ends. *)
Answer(r) ==
  /\ At(r, "done")
  /\ pc' = [pc EXCEPT ![r] = "idle"]
  /\ req' = [req EXCEPT ![r] = None]
  /\ st' = [st EXCEPT ![r] = FreshState]
  /\ back' = [back EXCEPT ![r] = FALSE]
  /\ ref' = [ref EXCEPT ![r] = NoRef]
  /\ degraded' = [degraded EXCEPT ![r] = FALSE]
  /\ result' = [result EXCEPT ![r] = None]
  /\ cancelled' = cancelled \ {r}
  /\ UNCHANGED <<slotVars, deploys>>

(* The client disconnects or its timeout ends: r.Context() is done. *)
Disconnect(r) ==
  /\ InFlight(r)
  /\ Connected(r)
  /\ cancelled' = cancelled \cup {r}
  /\ UNCHANGED <<slotVars, entryVars, noteVars, pc, result>>

(* The agent's process stops and starts again (an upgrade, a crash): its    *)
(* requests are lost, a compose up among them is cut short, and systemd     *)
(* clears its RuntimeDirectory, /run/statio.  A reboot does the same.       *)
AgentRestart ==
  /\ pc' = [r \in Runs |-> "idle"]
  /\ req' = [r \in Runs |-> None]
  /\ st' = [r \in Runs |-> FreshState]
  /\ back' = [r \in Runs |-> FALSE]
  /\ ref' = [r \in Runs |-> NoRef]
  /\ degraded' = [r \in Runs |-> FALSE]
  /\ result' = [r \in Runs |-> None]
  /\ cancelled' = {}
  /\ composeFile' = None
  /\ envFile' = None
  /\ snaps' = [n \in DOMAIN snaps |-> None]
  /\ running' \in IF \E r \in Runs : At(r, "up") THEN UpOutcomes ELSE {running}
  /\ UNCHANGED <<state, edge, deploys>>

Step(r) ==
  \/ StageFails(r) \/ Verify(r) \/ NoOp(r) \/ Proceed(r) \/ Pull(r)
  \/ WriteCompose(r) \/ WriteEnv(r) \/ ComposeUp(r) \/ ComposeUpFails(r)
  \/ Healthy(r) \/ StartRollback(r) \/ NoRollback(r)
  \/ RolledBack(r) \/ RollbackUnhealthy(r)
  \/ TakeSnapshot(r) \/ SkipSnapshot(r)
  \/ \E e \in Edges : Publish(r, e) \/ PublishFails(r, e) \/ SkipPublish(r, e)
  \/ Persist(r) \/ Answer(r)

Next ==
  \/ \E r \in Runs, p \in Payloads : Admit(r, p) \/ Refuse(r, p)
  \/ \E r \in Runs : Step(r) \/ Disconnect(r)
  \/ AgentRestart

Spec == Init /\ [][Next]_vars

(* A goroutine keeps running, and every call it makes is bounded by its     *)
(* own limit or by the request's context, after which it fails.             *)
FairSpec == Spec /\ \A r \in Runs : WF_vars(Step(r))

-------------------------------------------------------------------------------
(* Safety, whatever the interleaving. *)

TypeOK ==
  /\ state \in States
  /\ Len(state.history) <= MaxHistory
  /\ composeFile \in Digests \cup {None}
  /\ envFile \in Envs \cup {None}
  /\ snaps \in Seq(RunSets \cup {None})
  /\ running \in RunSets \cup {None}
  /\ edge \in SUBSET Edges
  /\ deploys \in 0 .. MaxDeploys
  /\ pc \in [Runs -> Stages]
  /\ req \in [Runs -> Payloads \cup {None}]
  /\ st \in [Runs -> States]
  /\ \A r \in Runs : Len(st[r].history) <= MaxHistory
  /\ back \in [Runs -> BOOLEAN]
  /\ ref \in [Runs -> Nat]
  /\ degraded \in [Runs -> BOOLEAN]
  /\ result \in [Runs -> Results \cup {None}]
  /\ cancelled \in SUBSET Runs

(* No image whose signature does not verify ever reaches the compose file,  *)
(* a container, a snapshot or the release record, whichever Runs mix their  *)
(* files or roll back: verify is the hard gate before any effect.           *)
OnlyTrusted ==
  /\ composeFile # None => composeFile \in Trusted
  /\ running # None => running.digest \in Trusted
  /\ \A n \in DOMAIN snaps : snaps[n] # None => snaps[n].digest \in Trusted
  /\ state.good # None => state.good.set.digest \in Trusted

(* The releases a state remembers, oldest first. *)
Releases(s) == IF s.good = None THEN s.history ELSE Append(s.history, s.good)
Remembered(s) == {Releases(s)[i] : i \in DOMAIN Releases(s)}

(* A snapshot directory that a remembered release names, if it still        *)
(* exists, holds that release's run set and no other Run's: what a rollback *)
(* puts back is exactly what shipped.                                       *)
SnapshotExact ==
  \A g \in Remembered(state) :
    g.ref # NoRef => g.ref \in DOMAIN snaps /\ snaps[g.ref] \in {g.set, None}

(* What a rollback puts back is, to the file, the release that its Run read *)
(* from state.json at admission, although the record may have moved on and  *)
(* other Runs make snapshots meanwhile.                                     *)
RollbackIsExact ==
  \A r \in Runs : InFlight(r) /\ back[r] => Target(r) = st[r].good.set

InOrder(releases) ==
  \A i, j \in DOMAIN releases :
    i < j /\ releases[i].ref # NoRef /\ releases[j].ref # NoRef
      => releases[i].ref < releases[j].ref

(* The history is oldest first and the last good release is the newest, in  *)
(* the order of their snapshots, although overlapping Runs overwrite each   *)
(* other's records: pruning from the front drops the oldest.                *)
OldestFirst == InOrder(Releases(state))

(* The record is never torn: last_seq is the sequence number that the last  *)
(* good release was deployed with. Overlapping Runs may put an older record *)
(* in the place of a newer one, never the release of one payload beside the *)
(* number of another: the replay check and a rollback go by one deploy.     *)
RecordIsWhole ==
  IF state.good = None THEN state.lastSeq = 0
  ELSE \E p \in Payloads : state.lastSeq = p.seq /\ state.good.set = SetOf(p)

(* The steps that a Run may still take before it answers; a Run that has    *)
(* not rolled back may go from health back to compose, once.                *)
StagesLeft ==
  [verify |-> 11, idempotency |-> 10, pull |-> 9, compose |-> 8, env |-> 7, up |-> 6,
   health |-> 5, snapshot |-> 4, proxy |-> 3, dns |-> 2, persist |-> 1, done |-> 0, idle |-> 0]

StepsLeft(r) == StagesLeft[pc[r]] + IF back[r] THEN 0 ELSE 4

(* A request moves towards its answer with every step it takes, and no      *)
(* other Run's step moves it: at most fifteen steps after its admission it  *)
(* is answered, rollback included, however many Runs overlap.               *)
RequestsAdvance ==
  [][\A r \in Runs :
       InFlight(r) /\ InFlight(r)' /\ pc'[r] # pc[r] => StepsLeft(r)' < StepsLeft(r)]_vars

-------------------------------------------------------------------------------
(* Safety of Runs that do not overlap. *)

PassesItsProbe(set) == set \in Sound \/ set.digest \in Unprobed

(* Only a run set that its own probe accepted becomes the last good one:    *)
(* a rollback target is never a version that was down.                      *)
GoodIsSound == state.good # None => PassesItsProbe(state.good.set)

(* The answer is true of the slot: after a success the slot runs the        *)
(* payload's image and env, and they are the last good release; after a     *)
(* rollback it runs the last good image with the env that shipped with it.  *)
AnswerIsTrue ==
  \A r \in Runs :
    /\ result[r] \in {"success", "success_degraded"} =>
         running = SetOf(req[r]) /\ state.good.set = running
    /\ result[r] = "failure_rolled_back" => running = state.good.set

(* No Run that can still change the slot carries a payload older than the   *)
(* last one applied: the check made at admission is never stale.            *)
NoDowngrade ==
  \A r \in Runs : InFlight(r) => req[r].seq >= state.lastSeq

(* A provider starts to publish the slot only while the slot runs a version *)
(* that passed its probe.                                                   *)
ExposureGate ==
  [][edge' # edge => running # None /\ PassesItsProbe(running)]_vars

SetOfGood(g) == IF g = None THEN None ELSE g.set

(* state.json is a ledger of releases: see ReleaseLedger.                   *)
Ledger == INSTANCE ReleaseLedger WITH
  Seqs <- {p.seq : p \in Payloads},
  Releasable <- {set \in RunSets : PassesItsProbe(set)},
  lastSeq <- state.lastSeq,
  good <- SetOfGood(state.good),
  history <- [i \in DOMAIN state.history |-> state.history[i].set]

ImplementsLedger == Ledger!Spec

(* Every admitted request is answered, or lost to a restart of the agent.   *)
EveryRequestEnds == \A r \in Runs : At(r, "verify") ~> ~InFlight(r)

-------------------------------------------------------------------------------
(* What the repository's comments and documents say, and the code does not  *)
(* keep.                                                                    *)

(* state.go: LastSeq is the highest accepted deploy_seq. *)
LastSeqNeverDrops == [][state'.lastSeq >= state.lastSeq]_vars

(* pipeline.md: a broken deploy never reaches the public. *)
BrokenIsNeverPublic ==
  edge # {} /\ running # None => PassesItsProbe(running)

(* pipeline.md: success_degraded converges on the next deploy. *)
NextDeployConverges ==
  \A r \in Runs :
    result[r] = "no_op" => req[r].edge \cap Providers \subseteq edge
===============================================================================
