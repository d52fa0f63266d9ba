# A verification of statio

statio lets a CI job deploy a container to a server it cannot log in to. CI signs
a payload and posts it over a tailnet to an agent; the agent verifies the
signature, puts the image on the service's *slot* with docker compose, probes it,
publishes it through NPMplus and Cloudflare and remembers it as the last good
release, to which a later failure rolls back. An operator accepts apps, keeps
their env and secrets, and installs, configures and upgrades the agent.

This directory holds TLA+ modules that model that program, the TLC
configurations that check them on small instances, and proofs, checked by TLAPS,
of what holds for every value of the constants. Source paths below are relative
to the repository; `pipeline.go` and the like without a directory are in
`internal/deploy/`.

Check a module with `tlc -config <run>.cfg <module>.tla` and the proofs of a
module with `tlapm <module>.tla`. `PROJECT.json` maps every definition to the
lines it models and every property to a faulty variant of the code that breaks
it (the operators whose comment begins with "Faulty").

## 1. Inventory

| Component | State it keeps | Operations | Talks to | Module |
|---|---|---|---|---|
| deploy pipeline (`pipeline.go`, `compose.go`, `health.go`, `puller.go`) | run directory `/run/statio/<slot>` (compose file, env files, history directories), the slot's containers | `Run`, `rollback` | state file, port registry, docker, registry, edge providers | `DeployPipeline` |
| release ledger (`state.go`) | `state.json`: last sequence number, last good release, five releases before it | `LoadState`, `Advance`, `Save` | pipeline | `ReleaseLedger` |
| host port registry (`ports.go`, `allocatePort`, `releaseSlotPort`) | `ports.json`: slot -> port | `Assign`, `Release`, `Save` | pipeline, `statio app rm`, the host's listeners | `PortRegistry`, `PortTable` |
| edge providers (`proxy/npmplus.go`, `dns/cloudflare.go`) | none; NPMplus and Cloudflare hold hosts and records | `ReconcileProxyHost`, `UpsertA`, `Check` | pipeline, the operator's own use of the UIs | `EdgeReconcile` |
| admission and preflight (`agent/handler.go`, the checks of `Run`, `Preflight`) | none | verify blob, load manifest, bind, policy, merge, audit, answer | client, pipeline, app directory | `Admission` |
| client (`cli/deploy.go`, `client/`) | none | preflight, then deploy; an answer to an exit code | agent | `Admission` |
| app manifests (`cli/app.go`, `manifest.go`) | `/etc/statio/services/<slot>` | `app add`, `edit` (with rename), `rm` | read by handler and pipeline | `AppDirectory` |
| env store and merge (`cli/env.go`, `env/`) | `env.base.yaml`, secret files | `env set`, `env rm`, `MergeEnv`, `ConfinedResolver` | read by pipeline | `AppDirectory`, `Admission` |
| audit log (`audit/log.go`) | `deploy-audit.jsonl` of each service, and the rotated one | `Append` | every deploy | `Admission` |
| agent process (`agent/server.go`, `notify.go`) | the process, its tailnet node | boot checks, serve, shut down | systemd | `AgentService` |
| setup and diagnosis (`cli/init.go`, `doctor.go`, `privilege.go`) | `config.yaml`, `secrets/`, the systemd unit | `init server`, `init integrations`, `doctor --fix` | systemd, NPMplus, Cloudflare | `AgentService` |
| self update (`selfupdate/`, `cli/upgrade.go`) | the installed binary | download, checksum, replace, refresh the unit, restart | systemd | `AgentService` |
| configuration (`config/`) | - | `Validate`, `ValidateSecretPerms` | agent, wizard | `AgentService` |
| compose generation (`compose/generate.go`), statio.yaml (`statiofile/`, `spec/appintent.go`), signature verification (`verify/`), file primitives (`fsutil/`) | - | pure functions; `SecureWrite` | all of the above | in part |

What is hard in this program:

* **Concurrency without a lock.** net/http serves every request on a goroutine
  of its own and `handleDeploy` calls `Run` there. `reference/pipeline.md:10`
  speaks of a `flock`; there is none in the source. Two deploys of one slot
  share its run directory, its containers and its state file; deploys of
  different slots share `ports.json`; `statio app` and `statio env` are other
  processes that write files the agent reads, some at admission and some later.
* **A long read-modify-write.** `Run` loads `state.json` at line 212, and after
  pull, compose up and probes, minutes later, saves that copy.
* **Partial failure.** Files are replaced one by one, `compose up` can fail
  halfway, the edge is best effort, the save is the last step; a command of the
  operator may be cut short between any two of its files.
* **Crash and restart.** The run directory and the snapshots a rollback needs
  are in systemd's `RuntimeDirectory`, gone when the agent stops;
  `state.json` is not. `server.go:147` does not wait for requests to drain.
* **Cancellation.** The request's context reaches docker: a client that gives up
  makes every later call of its `Run` fail, a rollback's included.
* **External stores.** NPMplus and Cloudflare offer a list and separate writes;
  an answer may be lost, and the operator edits the same hosts.
* **Paths that outlive names.** `env.base.yaml` refers to secret files by
  absolute path; apps are renamed, removed, and their names taken again.
* **Two lists of checks.** `Preflight` promises what `Run` then decides, and the
  two look at different things in a different order.
* **A process that replaces itself.** `upgrade` goes on running as the old
  release after it has installed the new one.

What makes each component correct:

* pipeline: nothing unverified has an effect; only what passed its probe is
  recorded or published; answers are true of the slot; a rollback restores
  exactly what shipped; an older payload never replaces a newer one; every
  request ends.
* ledger: releases are entered in order, one step each, and pruned from the old end.
* ports: one port per slot and one slot per port, stable until removal, back in
  the pool after it.
* edge: no second host or record for a domain, no certificate lost, human-made
  duplicates never touched, reported results true.
* admission: a green preflight is not refused by the deploy; what a deploy writes
  is the named service's; the answer CI got is in the audit log.
* env: a key the operator protects is never CI's; no app gets another's secret.
* app directory: an app at rest loads, unless a command was cut short.
* agent and commands: binary, configuration and secret files on disk are what the
  agent boots from, but for names that `init server` takes unchecked; a verdict or
  a restart that a command reports is true; the tested settings are the saved
  ones; an installed agent comes back from every crash and reboot.

## 2. Modules

| Module | What it is |
|---|---|
| `ReleaseLedger` | abstract specification of `state.json` |
| `DeployPipeline` | one slot's pipeline, any number of concurrent `Run`s; implements `ReleaseLedger` |
| `PortTable` | abstract specification of `ports.json` and the accepted apps |
| `PortRegistry` | `ports.json` and the host's listeners, any number of slots and writers; implements `PortTable` |
| `EdgeReconcile` | the two edge steps against the providers, with an operator at work |
| `AppDirectory` | the directory of accepted apps and the commands that write it, file by file |
| `Admission` | EXTENDS `AppDirectory`: CI jobs, the handler, the checks of `Run` and `Preflight`, the env merge and the audit log, while commands run |
| `AgentService` | the agent under systemd, and the commands that install, configure, diagnose and upgrade it |
| `MCDeployPipeline`, `MCPortRegistry`, `MCEdgeReconcile`, `MCAdmission`, `MCAgentService` | instances for TLC |
| `DeployPipelineProofs`, `DeployHistoryProofs`, `DeploySerialProofs` | theorems about `DeployPipeline` |
| `PortRegistryProofs`, `PortSerialProofs` | theorems about `PortRegistry` |
| `EdgeReconcileProofs`, `AdmissionProofs`, `AgentServiceProofs` | theorems about the other three |

`Admission` and `DeployPipeline` meet at one point: `Admission!Deploy` stands for
everything `Run` does after the env is merged, and `DeployPipeline`'s `Admit` and
`Refuse` for everything before. `AgentService` describes the process whose
restarts are `AgentRestart` in the one and `Kill` in the other.

### DeployPipeline

A process `r \in Runs` is one request goroutine; `pc[r]` is the stage of `Run` it
is in. A step is one access to something another `Run` or a restart can see.

| Model | Code |
|---|---|
| `state` | `state.json` |
| `composeFile`, `envFile` | the files `writeRunSet` replaces one by one, by the digest and the env they carry |
| `snaps`, `ref[r]` | the history directories in the order they were made, and `RunRef` |
| `running` | the run set the slot's containers were created from |
| `edge` | the providers that publish the slot's domain |
| `st[r]` | the `st` of `Run`, read once by `Admit` or `Refuse` |
| `back[r]` | `Run` is in `rollback` |
| `cancelled` | `r.Context()` is done |
| `Admit`, `Refuse` | lines 201-235 and the handler's checks |
| `Verify`, `NoOp`, `Proceed`, `Pull` | 237-293 |
| `WriteCompose`, `WriteEnv`, `ComposeUp`, `ComposeUpFails` | `writeRunSet`, `composeUp`; used by the deploy and by its rollback |
| `Healthy`, `StartRollback`, `NoRollback`, `RolledBack`, `RollbackUnhealthy` | 313-317 and `rollback` |
| `TakeSnapshot`, `SkipSnapshot` | `snapshotRunSet`, whose failure is ignored |
| `Publish`, `PublishFails`, `SkipPublish` | 325-346, for `proxy` and then `dns` |
| `Persist` | 348-363 with `State.Advance` |
| `Disconnect`, `AgentRestart` | the client gives up; the process (or the server) stops and starts |

A payload is its sequence number, digest, merged env, wanted edges and one
boolean, `admissible`, for the checks `Admission` models. `Sound` is
the set of run sets that can answer a probe; a probe of a sound one can still
fail. `Unprobed` are images whose intent declares no probe: `probe` accepts
those without looking (`health.go`). The probe is the one of the *new* payload
even in a rollback (line 496), and asks whichever container holds the port.

### PortRegistry

An actor is a deploy goroutine or an `app rm` process.

| Model | Code |
|---|---|
| `registry` | `ports.json` |
| `published`, `bound` | the port a slot's container was created with; who listens on a port |
| `lastGood`, `previous[a]` | what the last good release of `state.json` publishes, if there is a snapshot of it; the same as the deploy read it at admission |
| `BeginDeploy`, `InternalOnly`, `Load`, `Assign`, `Exhausted`, `Save` | `hostPortFor`, `allocatePort` |
| `Recreate`, `RecreateFails` | `composeUp`: the container is made way for, and comes up on a port or not at all |
| `Up`, `UpFails`, `Succeed` | the deploy's own recreate; its probe and what becomes the last good release |
| `RollBack`, `RollbackUp`, `RollbackUpFails` | `rollback`: the snapshot's compose file is put back, with the port of that time, brought up and probed with the port of the deploy that failed |
| `DeployEnds` | every other end of a deploy |
| `RemoveApp`, `ReleaseLoad`, `NothingToRelease`, `ReleaseSave` | `app rm`, which leaves the container, `state.json` and the snapshots alone |
| `ContainerStops`, `ContainerRestarts`, `ForeignListens`, `ForeignStops` | docker's restart policy; other programs of the server |

An app with no port of its own (`InternalOnly`) publishes nothing; a slot may
change between the two from one deploy to the next, and so may a rollback.

`PortTable` has no file, actor or listener: an app is added without a port, given
one that no other app has, and gives it back in the step that removes it.
`Table` maps `apps` to `accepted` and `portOf` to the entries of accepted slots,
so that `Save` is `Give`, `RemoveApp` is `Remove`, and the later rewriting of the
file is a stutter.

### EdgeReconcile

A process is a deploy at its edge steps: list, then write, for the proxy and then
for DNS. `target` stands for all managed fields of a host but its domains and
certificate (`equalManaged` compares them all). A create or an update may be
applied and its answer lost. The operator issues certificates and repoints hosts
between any two steps. Fields NPMplus pins itself (caching, advanced
configuration) are not compared by the code and not modelled.

Deploys of different slots reach their edge steps beside each other: nothing in
the agent keeps them apart. Under `Apart` no two of them publish one domain at
the same time, as the domains of two apps differ; under `OneAtATime` they take
turns; with neither, anything goes.

### AppDirectory

`dir[n]` is the directory of name `n`: its manifest (the name in it and what it
pins), its base env, its secret files. `step` and `op` are the command that runs:
each action is one file operation, and `Interrupt` stops a command between two.

An app is its directory, from the moment it is made until it is removed: `app` in
a directory's record is the app's identity, kept by a rename and by an `app add`
over it, and new when a name that was free is taken. An `app rm` that is
interrupted leaves a directory, with whatever secrets it had not come to, and an
`app add` of the name then goes on with it: that counts as the same app.

| Model | Code |
|---|---|
| `Add`, `Edit`, `MakeDir`, `WriteManifest` | `app add`, `app edit`: `MkdirAll`, then `SecureWrite` of the manifest |
| `Rename`, `RenameRefused`, `RenameDeclined` | the edited name differs: the directory is renamed before its manifest is written |
| `Remove`, `RemoveFile`, `RemoveDir` | `app rm`: `os.RemoveAll` |
| `Set`, `SetSecret`, `WriteSecret`, `Unset`, `Save`, `SaveFails` | `env set` and `env rm`: load, change the copy, replace the file |
| `SetBadKey` | `env set` does not check the key, and `LoadBaseEnv` then refuses the file |
| `Loads`, `BaseOf` | `LoadManifest`, `LoadBaseEnv`: a missing file is an empty base |

A base entry is where its value comes from (the file, a secret file of a
directory, nowhere), and whether it is protected or required. `env set` never
writes an entry without a value, so `--required` on it has no effect
(section 6); an entry an operator wrote in by hand is in the initial states.

### Admission

One job at a time goes through `at`: `sent`, `admitted`, `checked`, `deploying`,
`audit`, `answered`. Between any two of those steps commands of the operator
change the directory, which the agent reads at three moments: the manifest in
`Admit`, the base env in `Check`, the secret files in `Merge`.

| Model | Code |
|---|---|
| `StartJob`, `RefuseSpec`, `GoOn`, `Exit` | the Action's preflight and then deploy; `BuildSpec`; `exitForPreflight`, `exitForResult` |
| `Admit`, `Refuse`, `slot`, `pinned` | `admitSigned`, `buildDeployer`: the service's manifest, the signature against the signer it pins, the credentials |
| `Check`, `AdmitChecks`, `AdmitFailing` | the checks before the env is merged, in the order of `Run` or of `Preflight` |
| `Merge`, `BuildChecks`, `MergeFailing`, `Merged`, `Resolves` | `MergeEnv`, `ConfinedResolver`, and the checks after it |
| `Audit`, `AppendFails`, `AppendRecord`, `Rotated` | `writeAudit`, `Append` |
| `Kill` | the agent stops under the request |

`app` is the app the handler admitted, and `owner[k]` the app whose secret the
merge put under key `k`; both are history, and the code has only names. Where the
operator takes the name away from the admitted app (`app rm`, a rename) between
`Admit` and `Merge`, `handedOver` says so: `Run` then merges the base env and the
secrets of whoever has the name by then.

`Refusals` are the codes of `failCode` and `statusForError`. What a check looks
at is either modelled (manifest, pins, base env, secret files) or one of the
`Troubles`: a job has a set of them in `wrong`, and they come and go between its
preflight and its deploy. `ports_unwritable` is one that only a deploy meets: it
alone saves the port it gives a slot, and `hostPortFor` reports a failed save as
`port_exhausted`.

### AgentService

The state is what is on disk (`config`, `secret`, `binary`, `unit`), what systemd
knows (`loaded`, `enabled`, `started`), the running agent with what it was
started from, and the step of the operator's command.

| Model | Code |
|---|---|
| `Boots`, `Valid`, `SecretsSecure`, `SecretFiles` | `config.Validate`, `ValidateSecretPerms` and what `Agent.Run` needs at start |
| `Boot`, `AgentCrash`, `Reboot` | systemd: `Restart=on-failure`, the enabled units at boot |
| `WriteOAuth`, `WriteServerConfig`, `WriteServerUnit`, `StartAgent`, `StartFails` | `init server` |
| `OpenWizard` ... `SaveConfig`, `WizardRestarts`, `WizardLeavesAgent` | `init integrations`; `Variants` is `npmplusCandidates` |
| `StartUpgrade`, `Install`, `RefreshUnit`, `RefreshFails`, `ReloadAndRestart` | `upgrade`, `selfupdate.Apply` |
| `Doctor`, `CheckConfig`, `Report`, `ReportUnseen`, `Repair` | `doctor [--fix]` run as root; in `ReportUnseen` systemctl is missing or gives no state |
| `Interrupt`, `Meddle` | an error return, Ctrl-C or a power cut; a secret file lost or loosened by hand |

A restart that `systemctl` reports may fail for reasons outside the model (docker,
the tailnet), so every one can. So can `daemon-reload`, whose error `upgrade` and
`doctor --fix` drop: the restart then runs the unit loaded before. The unit is the
one file written in place; an interruption may tear it.

A configuration carries what became of the two names that `init server` pastes
into it (`names`): they are valid, or empty once parsed (`" "`, `null`), or they
garble the YAML (`": "`). `init server` writes the file with no `Validate`; the
wizard refuses to read a garbled one and to save an invalid one. "all good" from
doctor is two messages in the model: `said = "all good"` where doctor also printed
a line about an active or restarted service (or the machine is no server), and
`"files good"` where it printed none because it saw no state.

## 3. Runs

| Run | Question | Distinct states |
|---|---|---|
| `pipeline_serial` | with one request at a time: are answers true, is the record a ledger of sound releases, does exposure wait for health, does every request end? | 139,800 |
| `pipeline_overlap` | with two requests at once: what still holds? Trust, exact snapshots and rollbacks, order of the history, whole records, progress | 185,578 |
| `ports_serial` | three slots, two ports: conflicts, leaks, stability, the port a deploy and its rollback probe, refinement of `PortTable` | 2,606,928 |
| `edge_serial` | two deploys of different domains side by side, lost answers, an operator: duplicates, certificates, domains, truth of results | 732,895 |
| `admission` | two names, jobs and commands in any order, three together, one fault: secrets, protected keys, slots, preflight, audit | 2,541,115 |
| `service` | three commands on a new machine, one crash, reboot or meddled file: boot, verdicts, restarts, recovery | 415,356 |
| `public_serial`, `converge_serial`, `seq_overlap`, `ports_overlap`, `rename_secrets`, `unit_upgrade` | statements of the documentation or of comments that the code does not keep (section 6) | violated |

**Bounds.** Two goroutines suffice for every pairwise interleaving, and with one
request at a time the second never matters. `MaxDeploys = 3` allows a first
release, a second one that replaces it, and a third that fails, rolls back or
returns to the first; crashes and disconnects are not bounded. `MaxHistory = 1`
makes the third release prune the history, as the sixth does in the code with
`maxHistory = 5`. The payloads hold two releases, a change of env that never
becomes healthy, a return to the first release with a higher number, an unsigned
image and an inadmissible payload; the overlap runs use three of them. Two ports
for three slots exhaust the pool; the real pool has the same code path. In
`edge_serial` two hosts are what two domains need, and a third record leaves room
beside the two of one name that the operator may have made; a host of his may
serve both domains.
There is no bound on the number of deploys in `PortRegistry` and
`EdgeReconcile`. `ports_serial` has one actor: under `OneAtATime` a second could
start only where the first has ended and holds nothing, so one does the work of
all; `ports_overlap` has two.

In `admission`, two names and two commands are what it takes to rename an app
and give its old name to another; one key is enough, as keys do not interact.
Jobs and commands share the bound `MaxWork = 3`: three jobs and no command, two
and one, or one and two. The directory may start with two apps that have a secret
each, one of them renamed before the other took its name, so that what takes more
than two commands is there without them. A job is a preflight and a deploy; with
`MaxLog = 0` the log is rotated at the second record of a service and the first
one is dropped at the third, which three jobs reach. `Possible` has four troubles:
two that preflight and deploy both look at (`credentials`, `port_exhausted`) and two
that only the deploy meets (`replay_seq`, `ports_unwritable`); a command of a job
meets at most one (`MaxTroubles`), and the theorem `GreenCorrect` covers any set of the twenty.
Interruptions, kills and failing appends share one bound, `MaxFaults`. In
`service`, three commands are the setup of a server, its reconfiguration or
upgrade, and a diagnosis; two releases are enough for both directions of an
upgrade; NPMplus answers on loopback over TLS with its own certificate, the last
but one of the four variants the wizard tries.

`pipeline_overlap`, `ports_serial`, `edge_serial` and `admission` use symmetry (of
goroutines; of slots; of deploys, of targets and of the ids of each provider; of
names and of signers), and check no liveness.

**Deadlock** is checked in every run but `admission`, `rename_secrets`, `service`
and `unit_upgrade`, whose behaviours end when their bounded jobs, commands and
faults are used up. In `DeployPipeline` it says little, as
`AgentRestart` is always enabled; that no request is stuck is `EveryRequestEnds`.

**Fairness.** `DeployPipeline`'s `FairSpec` adds weak fairness of `Step(r)` for
each goroutine: the Go scheduler runs it, and every call it makes ends, by a
limit of its own (probes, HTTP clients) or with the request's context, after
which the stage fails. Nothing is assumed of clients, of restarts or of which
outcome a call has. `AgentService`'s `FairSpec` adds weak fairness of `Boot`: the
unit has `Restart=on-failure` and `RestartSec=2s`, so systemd tries again for as
long as the agent is down; at one try every two seconds its start limit of five
in ten seconds is not reached. `Boot` also takes docker and the tailnet to be
there in the end. Nothing is assumed of the operator.

**One at a time.** The runs `pipeline_serial`, `ports_serial`, `public_serial` and
`converge_serial`, and the theorems that name it, hold under `OneAtATime`: clients
or writers never overlap. The code does not enforce it. For the pipeline of one service
it is what a CI job with a concurrency group gives, and what `pipeline.md:10`
claims. For ports it is a stronger assumption than that: every repository that
deploys to the server, and every `app rm`, writes the one `ports.json`, and
nothing outside the code keeps those apart either. The `*_overlap` runs show what
is lost without it, and `NoConflicts` and the types are proved without it. At the edge it is not needed: `edge_serial` and the
theorems of `EdgeReconcile` ask only that no two deploys of one domain are there
together (`Apart`). In `Admission` and `AgentService` jobs and commands are each
sequential by construction; jobs and commands interleave freely with each other.

## 4. Properties

`DeployPipeline`, any interleaving:

* `OnlyTrusted`: no unverified image in the compose file, a container, a snapshot
  or the record, whichever `Run`s mix their files or roll back.
* `SnapshotExact`: a snapshot a remembered release names holds its run set or is gone.
* `RollbackIsExact`: what a rollback puts back is the release its `Run` read at
  admission, whatever other `Run`s recorded and snapshotted since.
* `OldestFirst`: releases stay in the order of their snapshots although one `Run`
  overwrites another's record.
* `RecordIsWhole`: last good release and last sequence number on record are of one
  payload; overlap can put an older record back, never a mixed one.
* `RequestsAdvance`: every step of a `Run` brings it nearer to its answer and no
  other `Run` sets it back. At most fifteen steps of its own after admission it
  has answered, a rollback included; a second rollback would break it.

`DeployPipeline`, `Run`s that do not overlap:

* `GoodIsSound`, `AnswerIsTrue`, `NoDowngrade`, `ExposureGate`, `EveryRequestEnds`.
* `ImplementsLedger`: refinement of `ReleaseLedger`, `lastSeq`, `good` and
  `history` read from `state`.

`PortRegistry`: `NoConflicts` for any interleaving (a lost update loses an entry,
it never doubles a port); `NoLeak`, `ProbesItsOwnPort`, `PortIsStable` and
`ImplementsTable`, the refinement of `PortTable`, when writers do not overlap. The
refinement says in addition that an app removed and added again starts without a
port, and that only an accepted app is given one. `app rm` whose release fails
only warns; that failure is not part of `NoLeak`. `ProbesItsOwnPort` is about both
probes of a deploy: the one after its recreate, and the one after a rollback has
put back the container of the last good release on the port it had. That is the
slot's port still, or none if the release was internal-only, unless the app was
removed and added again since (`renewed`; section 6).

`EdgeReconcile`: `CertificateKept` and `DomainStays` for any overlap;
`NoDuplicates`, `RecordIsTrue`, `HostIsTrue` when no two deploys of one domain
overlap.

The operator does not add hosts or records while a deploy runs, and a call that
timed out is applied at once or never: with either, a duplicate is possible, and
so it is when two deploys publish one domain at once. An update replaces the
whole list of a host's domains: a host that served another domain too stops
serving it. With two deploys that has one more consequence, which `HostIsTrue`
and `DomainStays` name as `HostTaken`: both find the operator's host of two
domains, the first writes it for its own domain, and the second answers `noop`, or
`updated` and takes the first one's domain off again. Where every host serves one
domain neither can happen (`SeenHostHeld`, `ServedStaysServed`).

`Admission`:

* `OnlyOwnSecrets`: a secret in the env of a deploy is of the app that the handler
  admitted, an app being its directory and not its name. After a rename the base
  env still names the old directory, and another app may have taken that name: a
  deploy never gets its secret. The exception, `handedOver`, is the job whose app
  lost its name while the job was between its manifest and its env (section 6).
* `ProtectedKept`: along a job whose directory did not change, a protected key is
  never CI's. (A job overtaken by `app rm` is another matter, section 6.)
* `SlotIsTheService`: the handler takes slot, ports and state from the manifest's
  name, which an interrupted rename leaves wrong; no deploy writes another's.
* `RestingAppsLoad`: without an interruption, every app at rest loads.
* `GreenMeansGo`: with nothing changed, a deploy after a green preflight is
  refused only for its sequence number, the state file, the image's signature,
  the intent in the image, or the registry, which preflight does not look at, or
  as `port_exhausted` where `ports.json` cannot be written.
* `AnsweredIsInTheLog`: a deploy whose result CI got is in the audit log, or more
  than `MaxLog + 1` later ones are. It speaks of behaviours in which no append
  failed or was cut short: one that does, after the rotation, leaves the history
  in the rotated file alone, to be replaced by the next rotation.

`AgentService`:

* `NextBootSucceeds`: wherever a command is cut short, the binary is a verified
  one, the configuration passes the checks of boot, and every secret file it names
  is there with mode 0600, unless it was changed by hand. Only the configuration of
  `init server` may be invalid, by the names typed there; nothing else makes one
  so. The running agent finds its secret files too. The unit, which an interruption
  may tear, is no part of it.
* `DoctorIsRight`: "all good" means configuration and secret files pass the checks
  of boot, also where doctor saw no service; where it saw one active, or restarted
  it, the agent runs or systemd is about to start it.
* `RestartTookEffect`: after an upgrade that reports a restart the agent runs the
  installed binary and the configuration on disk under the unit systemd has loaded,
  which is the one on disk unless it could not be written or `daemon-reload` failed.
* `TestedIsSaved`: the connection the wizard tested is the one it saves.
* `AgentComesBack`, under `FairSpec`: an installed agent comes back from every crash
  and reboot as long as what it checks at boot is in order.

## 5. Proofs

All theorems hold for every value of the constants that satisfies the module's
assumption (`ConstantsAssumption`, `PoolAssumption`, `EdgeAssumption`,
`DirectoryAssumption`, `AdmissionAssumption`): any number of goroutines,
payloads, providers, slots, ports, apps, keys, jobs, commands and faults, any
history bound, any set of troubles.

* `DeployPipelineProofs`. `TypeInv` strengthens `TypeOK` by what each stage holds:
  a `Run` past admission has a payload (`HasPayload`), a rollback has a target.
  `TrustInv` adds to `OnlyTrusted` that a `Run` past `verify` carries a trusted
  digest and that every state it loaded is trusted (`RunsTrusted`), which is
  what makes it inductive: a `Run` writes what it read long ago.
  `TypeCorrect` and `TrustedCorrect` follow. `RecordInv` adds to `RecordIsWhole`
  that no `Run` in flight has a payload older than the record it read:
  `RecordCorrect`. `AdvanceCorrect` counts the stages left (`StagesLeft`, and four
  more while a rollback is still possible); `StageOrder` is the arithmetic of it.
* `DeployHistoryProofs`. `HistoryInv` says of `state` *and of every copy in
  flight* that their snapshots are exact and ordered, and that a `Run`'s own
  snapshot is newer than all its copy names: `SnapshotCorrect`, `OrderCorrect`,
  and, as a rollback reads the copy, `RollbackCorrect`.
* `DeploySerialProofs`. Under the assumption `OneAtATime`, `SerialInv` says that
  at most one `Run` is busy, that its copy of the state *is* the state, what the
  files and the container hold at each of its stages, and that the record is
  sound. From it: `GoodIsSoundCorrect`, `AnswerCorrect`, `DowngradeCorrect`,
  `ExposureCorrect`, and `LedgerCorrect`, the refinement: `Init` maps to `Init`,
  `Persist` to `Release`, every other step to a stutter. `LastSeqCorrect` is the
  other half of the run `seq_overlap`: with `Run`s kept apart, `state.go`'s
  statement about `LastSeq` holds.
* `PortRegistryProofs`. `RegistryInv` says that `registry` and every loaded copy
  are injective; each writer replaces the file with such a copy.
  `TypeCorrect`, `NoConflictsCorrect`.
* `PortSerialProofs`. Under `OneAtATime`, `SerialInv` ties the copy of the actor
  at work to the file, and what it read of the last good release to that release;
  `SnapshotInv` says that a last good release publishes the port that `ports.json`
  has for its slot, unless it is of an app removed since: `NoLeakCorrect`, `ProbeCorrect`, `StableCorrect`, and
  `TableCorrect`, the refinement of `PortTable`. Its two cases with work in them
  are `Save`, where the copy saved is injective (`SavedPortIsFree`), and `Accept`,
  where nothing is left of an earlier app of the name.
* `EdgeReconcileProofs`. `TypeInv` adds to the types that what a deploy saw is
  nothing or an entry of that provider (`Looked`), which gives `TypeCorrect`,
  `CertificateCorrect` and `DomainsCorrect` for any overlap. The others assume
  `OneAtATime \/ Apart`, that no two deploys of one domain overlap, and
  `OneHostPerDomain`, that no domain starts with two hosts (NPMplus refuses a
  domain in use); the number of deploys at work is any. `EdgeInv` says that busy
  deploys are of different domains, that no domain has two hosts, and that what
  each busy deploy saw of its domain is still so but for what the operator and the
  deploys of other domains may change (`HostSeen`, `RecordSeen`): a step of one
  deploy keeps that of every other (`WaitingKeepsHost`, `WaitingKeepsRecord`).
  `RecordCorrect`, `HostCorrect` and `NoDuplicatesCorrect` follow. `HeldInv` adds
  that a host a deploy found keeps its domains until the deploy writes, for deploys
  that take turns or when every host starts with one domain (`EachItsOwn`):
  `SeenHostHeld`, and with it `ServedStaysServed`.
* `AdmissionProofs`. `DirInv`: a command holds the arguments of its file
  operations, and a manifest has another directory's name only while a rename is
  under way or after an interruption (`RestingCorrect`). `SlotInv` and `EnvInv`
  follow the job: `SlotCorrect`, `ProtectedCorrect`. `OwnerInv` says that until its
  env is merged the name of a job not handed over leads to the app admitted: a
  directory keeps its app through every file operation that does not take the
  name away (`AppStays`). From it and `EnvInv`, `SecretsCorrect`.
  `GreenInv` carries what each step of preflight found to the next and all of it,
  `Passes`, into the deploy: while nothing changes, the checks of the deploy can
  fail only on codes that are on no list of preflight's (`GreenCorrect`). The two
  lists of checks are in the order of the code, `FirstOf` picks the first that
  fails, and `AdmitCode` and `BuildCode` say all the proof needs of it.
  `LogsInv` and `AuditInv`: both logs of a service are free of repetitions
  and in order, and a record that was dropped has been overtaken by a rotated log
  of `MaxLog + 1` and a later one (`AuditCorrect`).
* `AgentServiceProofs`. `FilesInv`: the configuration on disk is valid or as `init
  server` wrote it, and it, the one the agent was started with and the one the
  wizard is about to save each find their secret files in place, which is inductive because a command writes the secret before
  the configuration that names it (`BootCorrect`). `AgentInv`, `DoctorInv` and
  `WizardInv` carry the verdict and the tested connection through the steps of a
  command, and `SaidChanges` says that a message of success stands only while
  nothing but crashes and boots happens: `DoctorCorrect`, `RestartCorrect`,
  `SavedCorrect`.

Only model-checked: the two liveness properties, `EveryRequestEnds` and
`AgentComesBack`: tlapm proves nothing of fairness or `ENABLED`. Of the first,
`AdvanceCorrect` proves the part that is safety, that a `Run` cannot go round in
circles; that it always has a step to take, and takes it, is TLC's. The violations
of section 6 are TLC's too.

## 6. Where code and documents disagree

Shown by runs:

| Run | Statement | What happens |
|---|---|---|
| `public_serial` | `pipeline.md:29-30`: a broken deploy never reaches the public | the container is recreated behind a live edge entry and probed afterwards |
| `converge_serial` | `pipeline.md:48`: degraded "converges on the next deploy" | the next deploy of the release ends as `no_op` before the edge steps |
| `seq_overlap` | `state.go:12-13`: `LastSeq` is the highest accepted | the slower of two overlapping deploys writes its old copy back |
| `ports_overlap` | `pipeline.md:26`: two slots never publish the same port | two first deploys read the same registry |
| `rename_secrets` | `app.go:632`: env keys set with `statio env` move with a rename | the base env keeps absolute paths below the old directory, which `ConfinedResolver` refuses: the next preflight and deploy fail on `secret` |
| `unit_upgrade` | `upgrade.go:85-87`: upgrade brings the new release's unit-level fixes | the old process writes the unit embedded in itself: the new agent runs under the old unit until the next upgrade or `init server` |

Met while modelling, and told here only:

* `merge.go:121-129` checks a required key against a result that already holds
  its base value, and `env set --required` always stores a value
  (`cli/env.go:38-62`): the flag never makes CI supply anything, contrary to
  `env.go:36`, `cli.md:90`, `error-codes.md:33` and `pass-secrets.md:54`. The form
  of `pass-secrets.md:48`, without a value, is refused by the command itself.
* The handler reads the manifest, and `Run` later the base env: an app removed or
  renamed between the two is deployed with an empty base, in which nothing is
  protected (`pipeline.go:227`, `env.go:52`; `handler.go:45` and `app.go:370`
  promise otherwise). If another app has been added under the name by then, the
  deploy gets the base env and the secrets of that app, although it was signed for
  the one before (`handedOver` in `Admission`).
* `app rm` leaves `state.json` and the snapshots: an app accepted again under the
  name inherits the last sequence number and the last good release. A first deploy
  that fails its probe rolls back to that release, whose compose file publishes the
  port that `app rm` gave back and that another slot may have been given; the probe
  asks the new port (`pipeline.go:485-496`).
* `hostPortFor` reports every failure to read or save `ports.json` as
  `port_exhausted`, "no free host port to allocate" (`pipeline.go:656-658`); only a
  deploy saves, so that a preflight does not meet the second kind.
* `init server` pastes hostname and issuer into `config.yaml` and writes it with no
  `Validate` (`init.go:269-283`): a hostname that YAML reads as empty or as a
  mapping leaves a configuration the agent does not boot from, which `doctor` and
  the wizard's save then refuse.
* `doctor` says all good of a server whose service state it cannot see
  (`doctor.go:129-131`, `137-138`): what it checked then is files only.
* `upgrade` drops the error of `daemon-reload` and prints "agent restarted with the
  new binary + unit" (`upgrade.go:104-110`), where the restart ran the unit loaded
  before. `doctor --fix` drops it too (`doctor.go:149`).
* `env set` with an invalid key writes a file that `LoadBaseEnv` then refuses, for
  every later command and deploy. `env set` without `--protected` drops the flag.
* An interrupted rename leaves a directory that `app edit` refuses; `app rm` or
  `app add` gets rid of it. A rename leaves the port, the state and the audit log
  of the old name behind.
* `no_op` after a deploy that failed at `persist` is answered while another
  release runs (`pipeline.md:47`), and stopping the agent clears the snapshots that
  `state.go:20-21` and `roll-back.md:42-43` keep until reboot.
* Host ports that a developer declares for other container ports are used as they
  are (`generate.go:105-113`), outside the registry.
* `init server` on a configured server drops the NPMplus and Cloudflare settings
  and does not restart a running agent; that agent keeps its old configuration but
  reads credentials anew for every deploy. `doctor --fix` and `upgrade` start an
  agent without enabling it.
* `error-codes.md` gives `expired` a 409 and has `registry_denied`, where
  `statusForError` answers 403 and the registry's refusal has no code of its own;
  the comment at `pipeline.go:399` does not mention `max_services` and the
  registry allowlist, which fail only in `Run`.

## 7. Not modelled

* **Two commands, or two jobs with commands, at once.** Two `env set` at once lose
  one of the two changes, and two appends that both find the audit log too large
  both rename it: there is no lock against either, and nothing promises otherwise.
  Overlapping deploys are in `DeployPipeline` and `PortRegistry`.
* **The services of a run set.** A run set is one value: that `compose up`, run
  without `--remove-orphans`, leaves the containers of a service which the new
  set no longer declares is outside the model. `compose/generate.go` renders a
  validated intent (networks, labels, the registry allowlist) without state; only
  its choice of ports is modelled, in `PortRegistry`.
* **Parsing and prompts.** `statio.yaml`, payloads and configuration are accepted
  or refused as a whole; the verdict is a trouble of a job or a boolean. `init
  repo`, `app list`, `app show`, `status` and `logs` write no state the agent
  reads. `doctor` is modelled as root, and its checks of tools are left out.
* **Libraries.** sigstore's cryptography, tailscale, docker and systemd are what
  their callers see of them.
* **Time.** A payload's expiry and the length of a timeout are choices of the
  environment.
* **Space.** The history directories are never pruned by the code; that the tmpfs
  then fills is the failure of a stage, and no property bounds it.
* **Durability.** `SecureWrite` is an atomic replacement. `selfupdate.Apply`
  renames without an fsync; a power cut right after it may leave an empty binary.
