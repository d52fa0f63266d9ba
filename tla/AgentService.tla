---------------------------- MODULE AgentService ----------------------------
(****************************************************************************)
(* The agent as a systemd service, and the commands an operator sets it up, *)
(* repairs and upgrades it with (internal/cli/init.go, upgrade.go,          *)
(* doctor.go, privilege.go, agent.go; internal/selfupdate;                  *)
(* internal/config).                                                        *)
(*                                                                          *)
(* A command is a sequence of steps; a step writes one file, or is one      *)
(* systemctl call.  Between two steps the command may be interrupted (an    *)
(* error return, Ctrl-C, a power cut) and the agent may crash or be started *)
(* by systemd.  The operator runs one command at a time.                    *)
(*                                                                          *)
(* A secret file is what fsutil.CheckPerm sees of it: absent, loose (not    *)
(* 0600 root), or secure.  A release is the version of the binary; the      *)
(* systemd unit is embedded in the binary, so a unit is the release it was  *)
(* rendered by.  A configuration keeps what becomes of the names typed at   *)
(* init server (hostname, issuer), which are pasted into the YAML as they   *)
(* are: valid; empty once parsed (" ", null); or garbling the file (": ").  *)
(****************************************************************************)
EXTENDS Naturals, Sequences

CONSTANTS
  Releases,     \* the releases published, in order
  Typed,        \* NPMplus URLs an operator may type
  Answers,      \* the ways of connecting that NPMplus authenticates
  MaxCommands,  \* bound on the commands of a behaviour
  MaxFaults,    \* bound on agent crashes, reboots and files changed by hand
  None

Files == {"oauth", "npmplus", "cloudflare"}
Endpoints == [loopback : BOOLEAN, tls : BOOLEAN]
Candidates == [url : Endpoints, insecure : BOOLEAN]
Modes == {"loopback", "container"}
NPMplus == [via : Candidates, mode : Modes, network : BOOLEAN]
Names == {"valid", "empty", "garbled"}
Configs == [names : Names, npm : NPMplus \cup {None}, cf : BOOLEAN, ip : {"", "valid", "bad"}]
Corrupt == 0
Torn == 0

ASSUME ConstantsAssumption ==
  /\ Releases \subseteq Nat \ {0}
  /\ Typed \subseteq Endpoints
  /\ Answers \subseteq Candidates
  /\ MaxCommands \in Nat
  /\ MaxFaults \in Nat
  /\ None \notin NPMplus \cup Configs \cup Candidates \cup Nat
  /\ None \notin [release : Nat, unit : Nat, config : Configs]

VARIABLES
  config,    \* /etc/statio/config.yaml
  secret,    \* the files of /etc/statio/secrets
  binary,    \* /usr/local/bin/statio
  unit,      \* statio-agent.service on disk
  loaded,    \* the unit systemd has loaded
  enabled,   \* started at boot
  started,   \* systemd keeps the agent running, restarting it when it fails
  agent,     \* the running agent: its release, sandbox and configuration
  step,      \* the next step of the operator's command
  cli,       \* the release of the running command
  edit,      \* init integrations: the configuration it edits
  tested,    \* init integrations: the connection the test accepted
  fetched,   \* upgrade: the bytes downloaded, or the release to install
  healthy,   \* doctor: nothing wrong so far; upgrade: unit refreshed and reloaded
  said,      \* what the last command told the operator
  meddled,   \* secret files changed by hand since a command wrote them
  commands, faults

fileVars == <<config, secret, binary, unit, meddled>>
systemdVars == <<loaded, enabled, started, agent>>
commandVars == <<cli, edit, tested, fetched, healthy>>
countVars == <<commands, faults>>
vars == <<fileVars, systemdVars, step, commandVars, said, countVars>>

(* The file init server writes. *)
Fresh(names) == [names |-> names, npm |-> None, cf |-> FALSE, ip |-> ""]
Blank == Fresh("valid")

Init ==
  /\ config = None
  /\ secret = [f \in Files |-> "absent"]
  /\ binary \in Releases
  /\ unit = None
  /\ loaded = None
  /\ enabled = FALSE
  /\ started = FALSE
  /\ agent = None
  /\ step = "idle"
  /\ cli = binary
  /\ edit = Blank
  /\ tested = None
  /\ fetched = None
  /\ healthy = TRUE
  /\ said = ""
  /\ meddled = {}
  /\ commands = 0
  /\ faults = 0

Agents == [release : Releases, unit : Releases, config : Configs]
Units == Releases \cup {Torn, None}
Steps == {"idle", "oauth", "config", "unit", "start", "npmplus", "cloudflare", "save",
          "restart", "install", "refresh", "reload", "check", "repair", "report"}
Messages == {"", "stopped", "installed", "not started", "refused", "saved", "live", "upgraded",
             "not restarted", "restarted", "restart failed", "all good", "files good",
             "needs attention"}

-------------------------------------------------------------------------------
(* What the agent checks at boot.                                           *)

Valid(c) ==
  /\ c.names = "valid"
  /\ c.npm # None => /\ c.npm.network <=> (c.npm.mode = "container")
                     /\ c.npm.via.insecure => c.npm.via.url.loopback
  /\ c.cf => c.ip # ""
  /\ c.ip # "bad"

SecretFiles(c) ==
  {"oauth"} \cup (IF c.npm = None THEN {} ELSE {"npmplus"})
            \cup (IF c.cf THEN {"cloudflare"} ELSE {})

SecretsSecure(c) == \A f \in SecretFiles(c) : secret[f] = "secure"

Boots(u, c) == /\ u \in Releases
               /\ binary \in Releases
               /\ c # None
               /\ Valid(c)
               /\ SecretsSecure(c)

Launched(u) == [release |-> binary, unit |-> u, config |-> config]

-------------------------------------------------------------------------------
(* systemd.                                                                 *)

(* Restart=on-failure, and the start of a started or enabled unit. *)
Boot ==
  /\ agent = None
  /\ started
  /\ Boots(loaded, config)
  /\ agent' = Launched(loaded)
  /\ UNCHANGED <<fileVars, loaded, enabled, started, step, commandVars, said, countVars>>

AgentCrash ==
  /\ faults < MaxFaults
  /\ faults' = faults + 1
  /\ agent # None
  /\ agent' = None
  /\ UNCHANGED <<fileVars, loaded, enabled, started, step, commandVars, said, commands>>

Reboot ==
  /\ faults < MaxFaults
  /\ faults' = faults + 1
  /\ loaded' = unit
  /\ started' = (enabled /\ unit # None)
  /\ agent' = None
  /\ step' = "idle"
  /\ said' = ""
  /\ UNCHANGED <<fileVars, enabled, commandVars, commands>>

(* systemctl restart with unit u loaded: it succeeds when the agent reports *)
(* itself ready, and may fail for reasons of its own (docker, the tailnet). *)
RestartSucceeds(u) ==
  /\ Boots(u, config)
  /\ agent' = Launched(u)
  /\ started' = TRUE

RestartFails(u) ==
  /\ agent' = None
  /\ started' = (started \/ u # None)

(* A secret file lost, or made readable by others, by hand. *)
Meddle(f) ==
  /\ step = "idle"
  /\ faults < MaxFaults
  /\ faults' = faults + 1
  /\ secret[f] = "secure"
  /\ secret' \in {[secret EXCEPT ![f] = s] : s \in {"absent", "loose"}}
  /\ meddled' = meddled \cup {f}
  /\ said' = ""
  /\ UNCHANGED <<config, binary, unit, systemdVars, step, commandVars, commands>>

-------------------------------------------------------------------------------
(* Commands.                                                                *)

Run(first) ==
  /\ step = "idle"
  /\ commands < MaxCommands
  /\ commands' = commands + 1
  /\ step' = first
  /\ cli' = binary
  /\ edit' = Blank
  /\ tested' = None
  /\ fetched' = None
  /\ healthy' = TRUE
  /\ said' = ""
  /\ UNCHANGED <<fileVars, systemdVars, faults>>

Then(next) == step' = next /\ UNCHANGED said
Ends(message) == step' = "idle" /\ said' = message

(* An error return, Ctrl-C or the end of the session between two steps.     *)
(* The unit is the one file written in place: a write cut short tears it.   *)
Interrupt ==
  /\ step # "idle"
  /\ Ends("stopped")
  /\ \/ UNCHANGED unit
     \/ step \in {"unit", "refresh"} /\ unit' = Torn
  /\ UNCHANGED <<config, secret, binary, meddled, systemdVars, commandVars, countVars>>

(* Faulty: the mode passed on creation is all that secures the file. *)
StoreInPlace(f) ==
  /\ secret' = [secret EXCEPT ![f] = IF @ = "loose" THEN "loose" ELSE "secure"]
  /\ meddled' = meddled \ {f}

(* SecureWrite replaces the file by a new one, 0600 root. *)
Store(f) ==
  /\ secret' = [secret EXCEPT ![f] = "secure"]
  /\ meddled' = meddled \ {f}

(* init server: oauth.json, config.yaml, the unit, daemon-reload and enable --now. *)
WriteOAuth ==
  /\ step = "oauth"
  /\ Store("oauth")
  /\ Then("config")
  /\ UNCHANGED <<config, binary, unit, systemdVars, commandVars, countVars>>

(* The hostname and the issuer go into the file as typed, with no Validate. *)
WriteServerConfig ==
  /\ step = "config"
  /\ config' \in {Fresh(names) : names \in Names}
  /\ Then("unit")
  /\ UNCHANGED <<secret, binary, unit, meddled, systemdVars, commandVars, countVars>>

WriteServerUnit ==
  /\ step = "unit"
  /\ unit' = cli
  /\ Then("start")
  /\ UNCHANGED <<config, secret, binary, meddled, systemdVars, commandVars, countVars>>

(* Faulty: the unit is started, not enabled. *)
StartOnly ==
  /\ step = "start"
  /\ loaded' = unit
  /\ IF agent # None THEN UNCHANGED <<agent, started>> ELSE RestartSucceeds(unit)
  /\ Ends("installed")
  /\ UNCHANGED <<enabled, fileVars, commandVars, countVars>>

(* enable --now does nothing to an agent that runs. *)
StartAgent ==
  /\ step = "start"
  /\ loaded' = unit
  /\ enabled' = TRUE
  /\ IF agent # None THEN UNCHANGED <<agent, started>> ELSE RestartSucceeds(unit)
  /\ Ends("installed")
  /\ UNCHANGED <<fileVars, commandVars, countVars>>

(* daemon-reload or enable fails, or the agent enabled does not start. *)
StartFails ==
  /\ step = "start"
  /\ \/ loaded' \in {loaded, unit} /\ UNCHANGED <<enabled, started, agent>>
     \/ /\ loaded' = unit
        /\ enabled' = TRUE
        /\ agent = None
        /\ RestartFails(unit)
  /\ Ends("not started")
  /\ UNCHANGED <<fileVars, commandVars, countVars>>

(* init integrations: it edits a copy of the configuration as it was read,  *)
(* parsed but not validated.                                                *)
OpenWizard ==
  /\ config # None
  /\ config.names # "garbled"
  /\ step = "idle"
  /\ commands < MaxCommands
  /\ commands' = commands + 1
  /\ step' = "npmplus"
  /\ edit' = config
  /\ tested' = None
  /\ said' = ""
  /\ UNCHANGED <<fileVars, systemdVars, cli, fetched, healthy, faults>>

DeclineNPMplus ==
  /\ step = "npmplus"
  /\ edit' = [edit EXCEPT !.npm = None]
  /\ Then("cloudflare")
  /\ UNCHANGED <<fileVars, systemdVars, cli, tested, fetched, healthy, countVars>>

(* npmplusCandidates: as typed, then on the other scheme; the certificate   *)
(* unchecked only over TLS and only on loopback.                            *)
Strict(url) == << [url |-> url, insecure |-> FALSE] >>
SelfSigned(url) == IF url.tls /\ url.loopback THEN << [url |-> url, insecure |-> TRUE] >>
                                              ELSE << >>
Variants(url) ==
  LET other == [url EXCEPT !.tls = ~@]
  IN  Strict(url) \o SelfSigned(url) \o Strict(other) \o SelfSigned(other)

(* Faulty: the URL as it was typed is kept, whichever variant answered. *)
TypedKept(url, winner) == [url |-> url, insecure |-> winner.insecure]

Connection(url, winner) == winner

KeepNPMplus(via) ==
  /\ \E mode \in Modes :
       edit' = [edit EXCEPT !.npm = [via |-> via, mode |-> mode,
                                     network |-> mode = "container"]]
  /\ Store("npmplus")
  /\ Then("cloudflare")
  /\ UNCHANGED <<config, binary, unit, systemdVars, cli, fetched, healthy, countVars>>

(* The first variant that authenticates is the one configured. *)
NPMplusAccepted(url) ==
  /\ step = "npmplus"
  /\ \E i \in DOMAIN Variants(url) :
       /\ Variants(url)[i] \in Answers
       /\ \A j \in 1..(i - 1) : Variants(url)[j] \notin Answers
       /\ tested' = Variants(url)[i]
       /\ KeepNPMplus(Connection(url, Variants(url)[i]))

(* The test fails (NPMplus is down, a wrong password) and is overruled. *)
NPMplusUnverified(url) ==
  /\ step = "npmplus"
  /\ UNCHANGED tested
  /\ KeepNPMplus([url |-> url, insecure |-> FALSE])

DeclineCloudflare ==
  /\ step = "cloudflare"
  /\ edit' = IF edit.cf THEN [edit EXCEPT !.cf = FALSE, !.ip = ""] ELSE edit
  /\ Then("save")
  /\ UNCHANGED <<fileVars, systemdVars, cli, tested, fetched, healthy, countVars>>

(* The token is tested; the public IP is whatever was typed. *)
KeepCloudflare(ip) ==
  /\ step = "cloudflare"
  /\ edit' = [edit EXCEPT !.cf = TRUE, !.ip = ip]
  /\ Store("cloudflare")
  /\ Then("save")
  /\ UNCHANGED <<config, binary, unit, systemdVars, cli, tested, fetched, healthy, countVars>>

(* Faulty: an invalid configuration is written, to fail at boot. *)
SaveUnchecked ==
  /\ step = "save"
  /\ config' = edit
  /\ Then("restart")
  /\ UNCHANGED <<secret, binary, unit, meddled, systemdVars, commandVars, countVars>>

SaveConfig ==
  /\ step = "save"
  /\ Valid(edit)
  /\ config' = edit
  /\ Then("restart")
  /\ UNCHANGED <<secret, binary, unit, meddled, systemdVars, commandVars, countVars>>

SaveRefused ==
  /\ step = "save"
  /\ ~Valid(edit)
  /\ Ends("refused")
  /\ UNCHANGED <<fileVars, systemdVars, commandVars, countVars>>

(* The restart is offered only when the agent runs; no daemon-reload. *)
WizardRestarts ==
  /\ step = "restart"
  /\ agent # None
  /\ \/ RestartSucceeds(loaded) /\ Ends("live")
     \/ RestartFails(loaded) /\ Ends("restart failed")
  /\ UNCHANGED <<fileVars, loaded, enabled, commandVars, countVars>>

WizardLeavesAgent ==
  /\ step = "restart"
  /\ Ends("saved")
  /\ UNCHANGED <<fileVars, systemdVars, commandVars, countVars>>

-------------------------------------------------------------------------------
(* upgrade.                                                                 *)

(* Any release can be asked for by name; without a name, only a newer one. *)
StartUpgrade(tag) ==
  /\ step = "idle"
  /\ commands < MaxCommands
  /\ commands' = commands + 1
  /\ step' = "install"
  /\ cli' = binary
  /\ fetched' \in {tag, Corrupt}
  /\ healthy' = TRUE
  /\ said' = ""
  /\ UNCHANGED <<fileVars, systemdVars, edit, tested, faults>>

IsServer == unit # None \/ config # None \/ \E f \in Files : secret[f] # "absent"

(* Faulty: the bytes downloaded are installed without their checksum. *)
InstallUnchecked ==
  /\ step = "install"
  /\ binary' = fetched
  /\ IF IsServer THEN Then("refresh") ELSE Ends("upgraded")
  /\ UNCHANGED <<config, secret, unit, meddled, systemdVars, commandVars, countVars>>

(* The checksum matches: a rename replaces the binary. *)
Install ==
  /\ step = "install"
  /\ fetched # Corrupt
  /\ binary' = fetched
  /\ IF IsServer THEN Then("refresh") ELSE Ends("upgraded")
  /\ UNCHANGED <<config, secret, unit, meddled, systemdVars, commandVars, countVars>>

(* writeAgentUnit renders the template of the process that runs: cli's. *)
RefreshUnit ==
  /\ step = "refresh"
  /\ unit' = cli
  /\ Then("reload")
  /\ UNCHANGED <<config, secret, binary, meddled, systemdVars, commandVars, countVars>>

(* The unit cannot be written, or not to its end: a warning, and the upgrade *)
(* goes on.                                                                  *)
RefreshFails ==
  /\ step = "refresh"
  /\ unit' \in {unit, Torn}
  /\ healthy' = FALSE
  /\ Then("reload")
  /\ UNCHANGED <<config, secret, binary, meddled, systemdVars, cli, edit, tested, fetched,
                 countVars>>

NoRestart ==
  /\ step = "reload"
  /\ Ends("not restarted")
  /\ UNCHANGED <<fileVars, systemdVars, commandVars, countVars>>

(* Faulty: systemctl restart without daemon-reload. *)
RestartOnly ==
  /\ step = "reload"
  /\ \/ RestartSucceeds(loaded) /\ Ends("restarted")
     \/ RestartFails(loaded) /\ Ends("restart failed")
  /\ UNCHANGED <<fileVars, loaded, enabled, commandVars, countVars>>

(* The error of daemon-reload is dropped: systemctl restart then runs the   *)
(* unit loaded before, and reports it as it would the new one.              *)
ReloadAndRestart ==
  /\ step = "reload"
  /\ \E reloads \in BOOLEAN :
       /\ loaded' = (IF reloads THEN unit ELSE loaded)
       /\ healthy' = (healthy /\ reloads)
  /\ \/ RestartSucceeds(loaded') /\ Ends("restarted")
     \/ RestartFails(loaded') /\ Ends("restart failed")
  /\ UNCHANGED <<fileVars, enabled, cli, edit, tested, fetched, countVars>>

-------------------------------------------------------------------------------
(* doctor, run as root.                                                     *)

(* --fix tightens the mode of a loose file; nothing brings a lost one back. *)
Tightened(fix, f) == IF fix /\ secret[f] = "loose" THEN "secure" ELSE secret[f]

(* Faulty: only the configuration is checked, not the files it names. *)
CheckConfigOnly(fix) ==
  /\ step = "check"
  /\ healthy' = (config # None => Valid(config))
  /\ step' = (IF fix THEN "repair" ELSE "report")
  /\ UNCHANGED <<fileVars, systemdVars, cli, edit, tested, fetched, said, countVars>>

CheckConfig(fix) ==
  /\ step = "check"
  /\ step' = (IF fix THEN "repair" ELSE "report")
  /\ IF config = None \/ ~Valid(config)
       THEN /\ healthy' = (config = None)
            /\ UNCHANGED <<secret, meddled>>
       ELSE /\ secret' = [f \in Files |-> IF f \in SecretFiles(config)
                                          THEN Tightened(fix, f) ELSE secret[f]]
            /\ meddled' = {f \in meddled : secret'[f] # "secure"}
            /\ healthy' = (\A f \in SecretFiles(config) : secret'[f] = "secure")
  /\ UNCHANGED <<config, binary, unit, systemdVars, cli, edit, tested, fetched, said, countVars>>

Verdict(ok) == IF ok THEN "all good" ELSE "needs attention"

(* An agent that runs, and a machine that is no server, need nothing. *)
Report ==
  /\ step \in {"repair", "report"}
  /\ step = "repair" => agent # None \/ ~IsServer
  /\ Ends(Verdict(healthy /\ (agent # None \/ ~IsServer)))
  /\ UNCHANGED <<fileVars, systemdVars, commandVars, countVars>>

(* Faulty: a service whose state is not seen is taken for one that runs. *)
ReportAssumed ==
  /\ step \in {"repair", "report"}
  /\ IsServer
  /\ Ends(Verdict(healthy))
  /\ UNCHANGED <<fileVars, systemdVars, commandVars, countVars>>

(* systemctl is missing or gives no state: the verdict is on the files.     *)
(* doctor then says all good, with no line that calls the service active.   *)
ReportUnseen ==
  /\ step \in {"repair", "report"}
  /\ IsServer
  /\ Ends(IF healthy THEN "files good" ELSE "needs attention")
  /\ UNCHANGED <<fileVars, systemdVars, commandVars, countVars>>

(* The error of daemon-reload is dropped here too. *)
Repair ==
  /\ step = "repair"
  /\ agent = None
  /\ IsServer
  /\ loaded' \in {loaded, unit}
  /\ \/ RestartSucceeds(loaded') /\ Ends(Verdict(healthy))
     \/ RestartFails(loaded') /\ Ends("needs attention")
  /\ UNCHANGED <<fileVars, enabled, commandVars, countVars>>

-------------------------------------------------------------------------------

InitServer == Run("oauth")
Doctor == Run("check")

Next ==
  \/ Boot \/ AgentCrash \/ Reboot \/ \E f \in Files : Meddle(f)
  \/ Interrupt
  \/ InitServer \/ WriteOAuth \/ WriteServerConfig \/ WriteServerUnit
  \/ StartAgent \/ StartFails
  \/ OpenWizard \/ DeclineNPMplus \/ DeclineCloudflare
  \/ \E url \in Typed : NPMplusAccepted(url) \/ NPMplusUnverified(url)
  \/ \E ip \in {"valid", "bad"} : KeepCloudflare(ip)
  \/ SaveConfig \/ SaveRefused \/ WizardRestarts \/ WizardLeavesAgent
  \/ \E tag \in Releases : StartUpgrade(tag)
  \/ Install \/ RefreshUnit \/ RefreshFails \/ NoRestart \/ ReloadAndRestart
  \/ Doctor \/ \E fix \in BOOLEAN : CheckConfig(fix)
  \/ Report \/ ReportUnseen \/ Repair

Spec == Init /\ [][Next]_vars

(* systemd starts an enabled agent again whenever it is down. *)
FairSpec == Spec /\ WF_vars(Boot)

-------------------------------------------------------------------------------
(* Properties.                                                              *)

(* The files, the service and the running command have their types. *)
TypeOK ==
  /\ config \in Configs \cup {None}
  /\ secret \in [Files -> {"absent", "loose", "secure"}]
  /\ binary \in Releases \cup {Corrupt}
  /\ unit \in Units
  /\ loaded \in Units
  /\ enabled \in BOOLEAN
  /\ started \in BOOLEAN
  /\ agent \in Agents \cup {None}
  /\ step \in Steps
  /\ cli \in Releases
  /\ edit \in Configs
  /\ tested \in Candidates \cup {None}
  /\ fetched \in Releases \cup {Corrupt, None}
  /\ healthy \in BOOLEAN
  /\ said \in Messages
  /\ meddled \subseteq Files
  /\ commands \in 0..MaxCommands
  /\ faults \in 0..MaxFaults

InPlace(c) == c # None => \A f \in SecretFiles(c) \ meddled : secret[f] = "secure"

(* Wherever a command is cut short, the binary it leaves is a verified one, *)
(* every secret file the configuration names is there, 0600 root, and the   *)
(* configuration passes the checks of boot, unless it is the one init       *)
(* server wrote with names it does not check: no other command makes it     *)
(* invalid, or adds to an invalid one.  The running agent, which reads its  *)
(* credentials anew for every deploy, finds its own files too, whatever has *)
(* been reconfigured since.  The unit is no part of it: written in place,   *)
(* it may be torn until it is written again.                                *)
NextBootSucceeds ==
  /\ binary \in Releases
  /\ config # None => Valid(config) \/ \E names \in Names : config = Fresh(names)
  /\ InPlace(config)
  /\ agent # None => InPlace(agent.config)

(* "all good" from doctor: what the agent checks at boot is in order; when  *)
(* doctor saw the service of a server active (or restarted it), the agent   *)
(* also runs, or systemd is about to start it.                              *)
DoctorIsRight ==
  /\ said \in {"all good", "files good"} /\ config # None =>
       Valid(config) /\ SecretsSecure(config)
  /\ said = "all good" /\ IsServer => started /\ Boots(loaded, config)

(* A restart a command reports took effect: after upgrade the agent runs    *)
(* the binary installed, with the configuration on disk, under the unit     *)
(* systemd has loaded, which is the one on disk unless it could not be      *)
(* written or daemon-reload failed; after init integrations it runs with    *)
(* the new settings ("The new settings are live").                          *)
RestartTookEffect ==
  /\ said = "restarted" => /\ healthy => loaded = unit
                           /\ agent # None => agent = Launched(loaded)
  /\ said = "live" => (agent # None => agent.config = config)

(* The connection that passed the wizard's test is the one saved: "the      *)
(* tested config and the saved config can never differ" (init.go).          *)
TestedIsSaved ==
  said \in {"saved", "live"} /\ tested # None => config.npm.via = tested

(* Once init server has installed the service, the agent comes back from    *)
(* every crash and reboot, as long as what it checks at boot is in order.   *)
AgentComesBack ==
  [](said = "installed" => []<>(agent # None \/ ~Boots(loaded, config)))

(* upgrade.go: a binary swap alone does not pick up the fixes in a          *)
(* release's systemd unit, so upgrade refreshes the unit and restarts: the  *)
(* agent it restarts on a newer release runs under that release's unit.     *)
UpgradeRefreshesUnit ==
  said = "restarted" /\ enabled /\ healthy /\ fetched > cli /\ agent # None =>
    agent.unit = agent.release

=============================================================================
