----------------------------- MODULE Admission -----------------------------
(****************************************************************************)
(* How a CI job reaches the pipeline: statio preflight and statio deploy    *)
(* (internal/cli/deploy.go, internal/client), the agent's handlers          *)
(* (internal/agent/handler.go), what Preflight and Run check                *)
(* (internal/deploy/pipeline.go), the env they merge (internal/env) and the *)
(* audit log (internal/audit), while the operator's commands change the     *)
(* directory of apps between any two of the agent's reads of it.            *)
(*                                                                          *)
(* Jobs run one at a time: module DeployPipeline has overlapping deploys,   *)
(* and everything Run does once it has the env.                             *)
(****************************************************************************)
EXTENDS AppDirectory, FiniteSets, Sequences

CONSTANTS
  Payloads,  \* the signers and repositories of the jobs
  Possible,  \* the troubles that happen, of the Troubles below
  MaxTroubles, \* bound on those that happen to one command
  MaxJobs,   \* bound on the jobs of a behaviour
  MaxWork,   \* bound on its jobs and the operator's commands together
  MaxFaults, \* bound on interrupted commands, restarts of the agent and failing appends
  MaxLog     \* the audit log is rotated once it holds more records than this

(* What else may be wrong when a job is sent: with its spec, with the       *)
(* target, with the manifest's policy, or with the server.                  *)
Troubles ==
  {"credentials", "audience", "expired", "state", "replay_seq", "policy", "image",
   "multiline", "loose", "app_intent", "registry", "proxy_no_port", "port_exhausted",
   "ports_unwritable", "port_conflict", "compose_unavailable", "disk_full",
   "proxy_unconfigured", "proxy_unreachable", "dns_unconfigured"}
Refusals ==
  (Troubles \ {"credentials", "multiline", "loose", "ports_unwritable"}) \cup
  {"unknown", "misconfigured", "signature", "repository", "env_base", "protected", "secret",
   "required", "value"}
Outcomes == {"deployed", "failed"}   \* of the pipeline

ASSUME AdmissionAssumption ==
  /\ Possible \subseteq Troubles
  /\ MaxTroubles \in Nat
  /\ MaxJobs \in Nat
  /\ MaxWork \in Nat
  /\ MaxFaults \in Nat
  /\ MaxLog \in Nat
  /\ None \notin Refusals \cup Outcomes \cup {"preflight_ok"}
  /\ Names \cap {"absent", "ci"} = {}

VARIABLES
  job,       \* the CI job: its payload, and what is wrong while it runs
  phase,     \* the command of the job that runs
  at,        \* where its request is
  green,     \* the job's preflight passed
  slot,      \* the Manifest.Name the deployer writes state and ports under
  pinned,    \* the manifest the handler read
  app,       \* the app it is of (history)
  base,      \* the base env Run or Preflight read
  env,       \* where MergeEnv took each key from
  owner,     \* the app whose secret it is (history)
  answer,    \* what the agent answers
  log, old,  \* deploy-audit.jsonl of each service, and the rotated one
  jobs, kills,
  answered,  \* history: the deploys of each service whose result CI got
  unlogged,  \* history: an append to an audit log failed or was cut short
  quiet,     \* history: since the job began, its directory and what is wrong are the same
  handedOver \* history: app lost its name after the handler read it, before its env was merged

requestVars == <<slot, pinned, app, base, env, owner, answer>>
logVars == <<log, old, unlogged>>
jobVars == <<job, phase, green, jobs, answered>>
admissionVars == <<requestVars, logVars, jobVars, at, kills, quiet, handedOver>>
vars == <<directoryVars, admissionVars>>

NoJob == [service |-> None, pin |-> None, overrides |-> {}, wrong |-> {}]
NoEnv == [k \in Keys |-> "absent"]
NoOwner == [k \in Keys |-> None]

Init ==
  /\ DirectoryInit
  /\ job = NoJob
  /\ phase = "preflight"
  /\ at = "idle"
  /\ green = FALSE
  /\ slot = None
  /\ pinned = None
  /\ app = None
  /\ base = NoBase
  /\ env = NoEnv
  /\ owner = NoOwner
  /\ answer = None
  /\ log = [n \in Names |-> <<>>]
  /\ old = [n \in Names |-> <<>>]
  /\ jobs = 0
  /\ kills = 0
  /\ answered = [n \in Names |-> {}]
  /\ unlogged = FALSE
  /\ quiet = TRUE
  /\ handedOver = FALSE

-------------------------------------------------------------------------------
(* The checks.  The first one that fails names the refusal; None: all pass. *)

FirstOf(checks, failing) ==
  LET hits == {i \in DOMAIN checks : checks[i] \in failing}
  IN  IF hits = {} THEN None ELSE checks[CHOOSE i \in hits : \A j \in hits : i <= j]

(* Faulty: only the keys with a secret file are protected. *)
ProtectedSecrets(b) == {k \in Keys : b[k] # None /\ b[k].protected /\ b[k].source \in Names}

Protected(b) == {k \in Keys : b[k] # None /\ b[k].protected}
Required(b) == {k \in Keys : b[k] # None /\ b[k].required}

(* The directory of the secret file a base entry names, None without one. *)
SecretDir(e) == IF e = None \/ e.source \in {"file", "nowhere"} THEN None ELSE e.source
SecretKeys(b) == {k \in Keys : SecretDir(b[k]) # None}

(* Faulty: any secret file of the services directory is read. *)
ResolvesAnywhere(n, k, b) ==
  LET d == SecretDir(b[k])
  IN  d # None /\ dir[d] # None /\ k \in dir[d].secrets /\ "loose" \notin job.wrong

(* ConfinedResolver: only files under the service's own secrets directory. *)
Resolves(n, k, b) ==
  /\ SecretDir(b[k]) = n
  /\ dir[n] # None
  /\ k \in dir[n].secrets
  /\ "loose" \notin job.wrong

Supplies(b) == {k \in Keys : b[k] # None /\ b[k].source # "nowhere"}

(* MergeEnv: what is wrong, and where each key of the result comes from. *)
MergeFailing(n, b, overrides) ==
  (IF overrides \cap Protected(b) # {} THEN {"protected"} ELSE {}) \cup
  (IF \E k \in SecretKeys(b) : ~Resolves(n, k, b) THEN {"secret"} ELSE {}) \cup
  (IF Required(b) \subseteq Supplies(b) \cup overrides THEN {} ELSE {"required"}) \cup
  (IF "multiline" \in job.wrong /\ SecretKeys(b) # {} THEN {"value"} ELSE {})

Merged(b, overrides) ==
  [k \in Keys |-> IF k \in overrides THEN "ci"
                  ELSE IF k \in Supplies(b) THEN b[k].source
                  ELSE "absent"]

(* The app whose secret each key is, if it is one. *)
Owners(e) ==
  [k \in Keys |-> IF e[k] \in Names /\ dir[e[k]] # None THEN dir[e[k]].app ELSE None]

(* checkBinding, the replay check, and the checks of the manifest read. *)
AdmitChecks ==
  IF phase = "deploy"
  THEN <<"audience", "expired", "state", "replay_seq", "repository", "policy", "env_base", "protected">>
  ELSE <<"audience", "expired", "repository", "policy", "compose_unavailable", "disk_full",
         "env_base", "protected">>

AdmitFailing(b) ==
  job.wrong \cup
  (IF job.pin.repo # pinned.pin.repo THEN {"repository"} ELSE {}) \cup
  (IF b = Broken THEN {"env_base"}
   ELSE IF job.overrides \cap Protected(b) # {} THEN {"protected"} ELSE {})

(* Faulty: preflight does not merge the env. *)
BuildChecksWithoutEnv ==
  IF phase = "deploy"
  THEN <<"image", "protected", "secret", "required", "value",
         "app_intent", "proxy_no_port", "port_exhausted", "registry">>
  ELSE <<"proxy_no_port", "port_exhausted", "port_conflict",
         "proxy_unconfigured", "proxy_unreachable", "dns_unconfigured">>

(* The image signature, MergeEnv, then what follows it. *)
BuildChecks ==
  IF phase = "deploy"
  THEN <<"image", "protected", "secret", "required", "value",
         "app_intent", "proxy_no_port", "port_exhausted", "registry">>
  ELSE <<"protected", "secret", "required", "value",
         "proxy_no_port", "port_exhausted", "port_conflict",
         "proxy_unconfigured", "proxy_unreachable", "dns_unconfigured">>

(* Only a deploy saves the port it gives a slot, and a registry that cannot *)
(* be written is reported like one with no port left.                       *)
BuildFailing(b) ==
  job.wrong \cup MergeFailing(job.service, b, job.overrides) \cup
  (IF phase = "deploy" /\ "ports_unwritable" \in job.wrong THEN {"port_exhausted"} ELSE {})

-------------------------------------------------------------------------------
(* A job.                                                                   *)

Forget ==
  /\ slot' = None
  /\ pinned' = None
  /\ app' = None
  /\ base' = NoBase
  /\ env' = NoEnv
  /\ owner' = NoOwner
  /\ answer' = None
  /\ handedOver' = FALSE

EndJob ==
  /\ at' = "idle"
  /\ job' = NoJob
  /\ green' = FALSE
  /\ phase' = "preflight"
  /\ quiet' = TRUE
  /\ Forget

NextJob ==
  /\ jobs < MaxJobs
  /\ jobs + commands < MaxWork
  /\ jobs' = jobs + 1

(* The Action runs preflight, and deploy when it is green.  BuildSpec       *)
(* refuses an invalid spec before it is signed.                             *)
StartJob(n, p, overrides, wrong) ==
  /\ at = "idle"
  /\ NextJob
  /\ job' = [service |-> n, pin |-> p, overrides |-> overrides, wrong |-> wrong]
  /\ at' = "sent"
  /\ UNCHANGED <<directoryVars, requestVars, logVars, phase, green, answered, kills, quiet,
                handedOver>>

RefuseSpec ==
  /\ at = "idle"
  /\ NextJob
  /\ UNCHANGED <<directoryVars, requestVars, logVars, job, phase, green, answered, at, kills, quiet,
                 handedOver>>

(* Faulty: the handler writes the error and goes on. *)
RefuseAndGoOn(code) ==
  /\ answer' = code
  /\ at' = "admitted"
  /\ UNCHANGED <<slot, pinned, app>>

(* admitSigned: the handler refuses, or builds a deployer for the manifest. *)
Refuse(code) ==
  /\ answer' = code
  /\ at' = "answered"
  /\ UNCHANGED <<slot, pinned, app>>

(* VerifyBlob against the signer the manifest pins, and buildDeployer. *)
Signed == dir[job.service].manifest.pin.signer = job.pin.signer
Configured == "credentials" \notin job.wrong

Admit ==
  /\ at = "sent"
  /\ \/ /\ dir[job.service] = None
        /\ Refuse("unknown")
     \/ /\ dir[job.service] # None
        /\ ~Loads(job.service)
        /\ Refuse("misconfigured")
     \/ /\ Loads(job.service)
        /\ ~Signed
        /\ Refuse("signature")
     \/ /\ Loads(job.service)
        /\ Signed
        /\ ~Configured
        /\ Refuse("misconfigured")
     \/ /\ Loads(job.service)
        /\ Signed
        /\ Configured
        /\ pinned' = dir[job.service].manifest
        /\ app' = dir[job.service].app
        /\ slot' = dir[job.service].manifest.name
        /\ at' = "admitted"
        /\ UNCHANGED answer
  /\ UNCHANGED <<directoryVars, logVars, jobVars, base, env, owner, kills, quiet, handedOver>>

(* Faulty: only what the pipeline itself ends with is audited. *)
ResultOfPipeline(r) ==
  /\ answer' = r
  /\ at' = IF phase = "deploy" /\ r \in Outcomes THEN "audit" ELSE "answered"

(* A result of Run is audited before it is answered; a preflight's is not. *)
Result(r) ==
  /\ answer' = r
  /\ at' = IF phase = "deploy" THEN "audit" ELSE "answered"

Check ==
  /\ at = "admitted"
  /\ base' = BaseOf(job.service)
  /\ LET code == FirstOf(AdmitChecks, AdmitFailing(base'))
     IN  IF code # None THEN Result(code) ELSE at' = "checked" /\ UNCHANGED answer
  /\ UNCHANGED <<directoryVars, logVars, jobVars, slot, pinned, app, env, owner, kills, quiet,
                 handedOver>>

Merge ==
  /\ at = "checked"
  /\ LET code == FirstOf(BuildChecks, BuildFailing(base))
     IN  \/ /\ code # None
            /\ Result(code)
            /\ UNCHANGED <<env, owner>>
         \/ /\ code = None
            /\ env' = Merged(base, job.overrides)
            /\ owner' = Owners(env')
            /\ IF phase = "deploy"
               THEN at' = "deploying" /\ UNCHANGED answer
               ELSE Result("preflight_ok")
  /\ UNCHANGED <<directoryVars, logVars, jobVars, slot, pinned, app, base, kills, quiet, handedOver>>

(* The rest of Run: module DeployPipeline. *)
Deploy ==
  /\ at = "deploying"
  /\ \E r \in Outcomes : Result(r)
  /\ UNCHANGED <<directoryVars, logVars, jobVars, slot, pinned, app, base, env, owner, kills, quiet,
                 handedOver>>

(* Append: rotate, then write a line.  An append that fails is a warning.  *)
Rotated == Len(log[job.service]) > MaxLog

Rotate == /\ log' = [log EXCEPT ![job.service] = <<>>]
          /\ old' = [old EXCEPT ![job.service] = log[job.service]]

(* Faulty: a log that has grown too large is removed. *)
AppendDiscarding ==
  /\ log' = [log EXCEPT ![job.service] = Append(IF Rotated THEN <<>> ELSE @, jobs)]
  /\ UNCHANGED old

AppendRecord ==
  /\ log' = [log EXCEPT ![job.service] = Append(IF Rotated THEN <<>> ELSE @, jobs)]
  /\ old' = IF Rotated THEN [old EXCEPT ![job.service] = log[job.service]] ELSE old

Audit ==
  /\ at = "audit"
  /\ AppendRecord
  /\ at' = "answered"
  /\ UNCHANGED <<directoryVars, requestVars, jobVars, unlogged, kills, quiet, handedOver>>

AppendFails ==
  /\ at = "audit"
  /\ kills + interrupts < MaxFaults
  /\ kills' = kills + 1
  /\ unlogged' = TRUE
  /\ at' = "answered"
  /\ IF Rotated THEN Rotate ELSE UNCHANGED <<log, old>>
  /\ UNCHANGED <<directoryVars, requestVars, jobVars, quiet, handedOver>>

(* The agent restarts under the request: the job fails without an answer. *)
Kill ==
  /\ at \in {"sent", "admitted", "checked", "deploying", "audit", "answered"}
  /\ kills + interrupts < MaxFaults
  /\ kills' = kills + 1
  /\ EndJob
  /\ UNCHANGED <<directoryVars, logVars, jobs, answered>>

-------------------------------------------------------------------------------
(* The answer reaches CI: exitForPreflight and exitForResult.               *)

PreflightPassed == phase = "preflight" /\ answer = "preflight_ok"

(* The next command of the Action builds a new payload from the same        *)
(* inputs; the server may have changed.                                     *)
GoOn(wrong) ==
  /\ at = "answered"
  /\ PreflightPassed
  /\ green' = TRUE
  /\ phase' = "deploy"
  /\ job' = [job EXCEPT !.wrong = wrong]
  /\ quiet' = (quiet /\ wrong = job.wrong)
  /\ at' = "sent"
  /\ Forget
  /\ UNCHANGED <<directoryVars, logVars, jobs, answered, kills>>

Exit ==
  /\ at = "answered"
  /\ answered' = IF phase = "deploy" /\ slot # None
                 THEN [answered EXCEPT ![job.service] = @ \cup {jobs}]
                 ELSE answered
  /\ EndJob
  /\ UNCHANGED <<directoryVars, logVars, jobs, kills>>

-------------------------------------------------------------------------------
Operator ==
  /\ DirectoryNext
  /\ jobs + commands' <= MaxWork
  /\ kills + interrupts' <= MaxFaults
  /\ quiet' = (quiet /\ (at # "idle" => dir'[job.service] = dir[job.service]))
  /\ handedOver' = (handedOver \/ (at \in {"admitted", "checked"} /\ dir'[job.service] = None))
  /\ UNCHANGED <<requestVars, logVars, jobVars, at, kills>>

Troubled == {wrong \in SUBSET Possible : Cardinality(wrong) <= MaxTroubles}

Next ==
  \/ Operator
  \/ \E n \in Names, p \in Payloads, overrides \in SUBSET Keys, wrong \in Troubled :
       StartJob(n, p, overrides, wrong)
  \/ RefuseSpec
  \/ Admit \/ Check \/ Merge \/ Deploy
  \/ Audit \/ AppendFails \/ Kill
  \/ \E wrong \in Troubled : GoOn(wrong)
  \/ Exit

Spec == Init /\ [][Next]_vars

-------------------------------------------------------------------------------
(* The type of the variables, and an answer exactly when the agent has one. *)
TypeOK ==
  /\ dir \in [Names -> Services \cup {None}]
  /\ step \in {"idle", "mkdir", "manifest", "rename", "remove", "secret", "save"}
  /\ at \in {"idle", "sent", "admitted", "checked", "deploying", "audit", "answered"}
  /\ phase \in {"preflight", "deploy"}
  /\ job.service \in Names <=> at # "idle"
  /\ env \in [Keys -> {"absent", "ci", "file"} \cup Names]
  /\ answer \in {None, "preflight_ok"} \cup Refusals \cup Outcomes
  /\ answer # None <=> at \in {"audit", "answered"}

(* While no command was interrupted, every directory at rest that has a     *)
(* manifest loads: add, edit and rename leave the name in the manifest      *)
(* equal to the directory's (app.go:638, manifest.go:136).                  *)
RestingAppsLoad ==
  step = "idle" /\ interrupts = 0 =>
    \A n \in Names : dir[n] # None /\ dir[n].manifest # None => Loads(n)

(* The state, the ports and the network alias of a deploy are those of the  *)
(* service the payload names, although they come from the manifest's name   *)
(* and an interrupted rename leaves a manifest with another.                *)
SlotIsTheService == slot # None => slot = job.service

(* A secret in the env of a deploy is of the app that the handler admitted: *)
(* not of another one that has taken the name its base env still has after  *)
(* a rename, nor of one that was there before (env.go ConfinedResolver).    *)
(* Only where the operator takes the name away from the app, by app rm or a *)
(* rename, after the handler has read its manifest and before the env is    *)
(* merged is it of whichever app has the name by then.                      *)
OnlyOwnSecrets ==
  ~handedOver => \A k \in Keys : env[k] \in Names => owner[k] = app

(* A key the service protects, all along the job, is never CI's, whatever   *)
(* the operator does to the other services meanwhile.                       *)
ProtectedKept ==
  quiet /\ at # "idle" /\ BaseOf(job.service) # Broken =>
    \A k \in Keys : LET e == BaseOf(job.service)[k]
                  IN  e # None /\ e.protected => env[k] # "ci"

(* A deploy after a green preflight, with the app's directory and           *)
(* everything else as they were, is refused only for what preflight does    *)
(* not look at (pipeline.go:399), or because the port that preflight found  *)
(* for it cannot be saved.                                                  *)
GreenMeansGo ==
  phase = "deploy" /\ green /\ quiet /\ answer \in Refusals =>
    \/ answer \in {"state", "replay_seq", "image", "app_intent", "registry"}
    \/ answer = "port_exhausted" /\ "ports_unwritable" \in job.wrong

(* A deploy whose result CI got is in the audit log, or MaxLog + 2 later    *)
(* ones of the service are.                                                 *)
Kept(n) == {log[n][i] : i \in DOMAIN log[n]} \cup {old[n][i] : i \in DOMAIN old[n]}

AnsweredIsInTheLog ==
  \A n \in Names : ~unlogged =>
    \A j \in answered[n] :
      j \in Kept(n) \/ Cardinality({k \in Kept(n) : k > j}) > MaxLog + 1

=============================================================================
