-------------------------- MODULE AgentServiceProofs --------------------------
(* What holds of AgentService for any releases, URLs, answers of NPMplus,   *)
(* and numbers of commands, crashes and files changed by hand.              *)
EXTENDS AgentService, TLAPS

-------------------------------------------------------------------------------
(* Types.                                                                   *)

FilesTyped ==
  /\ config \in Configs \cup {None}
  /\ secret \in [Files -> {"absent", "loose", "secure"}]
  /\ binary \in Releases
  /\ unit \in Units
  /\ meddled \subseteq Files

SystemdTyped ==
  /\ loaded \in Units
  /\ enabled \in BOOLEAN
  /\ started \in BOOLEAN
  /\ agent \in Agents \cup {None}

CommandTyped ==
  /\ step \in Steps
  /\ cli \in Releases
  /\ edit \in Configs
  /\ tested \in Candidates \cup {None}
  /\ fetched \in Releases \cup {Corrupt, None}
  /\ step = "install" => fetched # None
  /\ healthy \in BOOLEAN
  /\ said \in Messages
  /\ step # "idle" => said = ""
  /\ commands \in 0..MaxCommands
  /\ faults \in 0..MaxFaults

TypeInv == FilesTyped /\ SystemdTyped /\ CommandTyped

(* The actions by what they are part of. *)
Machine == Boot \/ AgentCrash \/ Reboot \/ \E f \in Files : Meddle(f)
Setup == \/ InitServer \/ WriteOAuth \/ WriteServerConfig \/ WriteServerUnit
         \/ StartAgent \/ StartFails
NPMplusStep == \/ OpenWizard \/ DeclineNPMplus
               \/ \E url \in Typed : NPMplusAccepted(url) \/ NPMplusUnverified(url)
WizardEnd == \/ DeclineCloudflare \/ \E ip \in {"valid", "bad"} : KeepCloudflare(ip)
             \/ SaveConfig \/ SaveRefused \/ WizardRestarts \/ WizardLeavesAgent
Upgrade == \/ \E tag \in Releases : StartUpgrade(tag)
           \/ Install \/ RefreshUnit \/ RefreshFails \/ NoRestart \/ ReloadAndRestart
Diagnosis == Doctor \/ (\E fix \in BOOLEAN : CheckConfig(fix)) \/ Report \/ ReportUnseen \/ Repair

LEMMA Actions ==
  Next <=> \/ Machine \/ Interrupt \/ Setup \/ NPMplusStep \/ WizardEnd \/ Upgrade \/ Diagnosis
BY DEF Next, Machine, Setup, NPMplusStep, WizardEnd, Upgrade, Diagnosis

LEMMA Values ==
  /\ Blank \in Configs
  /\ \A names \in Names : Fresh(names) \in Configs
  /\ None \notin Configs \cup NPMplus \cup Candidates \cup Agents \cup Releases
  /\ None # Corrupt
  /\ 0 \notin Releases
  /\ Releases \subseteq Nat
<1>1. \A names \in Names : Fresh(names) \in Configs
  BY DEF Fresh, Configs
<1>2. Blank \in Configs
  BY <1>1 DEF Blank, Names
<1>3. None \notin Agents
  <2>1. Agents \subseteq [release : Nat, unit : Nat, config : Configs]
    BY ConstantsAssumption DEF Agents
  <2> QED
    BY <2>1, ConstantsAssumption
<1>4. Releases \subseteq Nat /\ 0 \notin Releases
  BY ConstantsAssumption
<1>5. None \notin Nat /\ None \notin Configs \cup NPMplus \cup Candidates
  BY ConstantsAssumption
<1>6. None \notin Configs \cup NPMplus \cup Candidates \cup Agents \cup Releases
  BY <1>3, <1>4, <1>5
<1>7. None # Corrupt
  BY <1>5 DEF Corrupt
<1> QED
  BY <1>1, <1>2, <1>4, <1>6, <1>7

LEMMA LaunchedTyped ==
  ASSUME FilesTyped, NEW u, Boots(u, config)
  PROVE  /\ Launched(u) \in Agents
         /\ Launched(u) # None
         /\ Launched(u).config = config
         /\ config \in Configs /\ u \in Releases
BY Values DEF Boots, Launched, Agents, FilesTyped

LEMMA FilesStayTyped ==
  ASSUME TypeInv, Next
  PROVE  FilesTyped'
<1> USE DEF TypeInv, FilesTyped, Units
<1>1. CASE Machine
  BY <1>1 DEF Machine, Boot, AgentCrash, Reboot, Meddle, fileVars
<1>2. CASE Interrupt
  BY <1>2 DEF Interrupt
<1>3. CASE Setup
  <2>1. CASE InitServer \/ WriteOAuth \/ StartAgent \/ StartFails
    BY <2>1 DEF InitServer, Run, WriteOAuth, StartAgent, StartFails, Store, fileVars, Files
  <2>2. CASE WriteServerConfig
    BY <2>2, Values DEF WriteServerConfig
  <2>3. CASE WriteServerUnit
    BY <2>3 DEF WriteServerUnit, CommandTyped
  <2> QED
    BY <1>3, <2>1, <2>2, <2>3 DEF Setup
<1>4. CASE NPMplusStep
  <2>1. CASE OpenWizard \/ DeclineNPMplus
    BY <2>1 DEF OpenWizard, DeclineNPMplus, fileVars
  <2>2. ASSUME NEW via, KeepNPMplus(via)
        PROVE  FilesTyped'
    BY <2>2 DEF KeepNPMplus, Store, Files
  <2> QED
    BY <1>4, <2>1, <2>2 DEF NPMplusStep, NPMplusAccepted, NPMplusUnverified
<1>5. CASE WizardEnd
  <2>1. CASE SaveConfig
    BY <2>1 DEF SaveConfig, CommandTyped
  <2>2. CASE DeclineCloudflare \/ SaveRefused \/ WizardRestarts \/ WizardLeavesAgent
    BY <2>2 DEF DeclineCloudflare, SaveRefused, WizardRestarts, WizardLeavesAgent, fileVars
  <2>3. ASSUME NEW ip, KeepCloudflare(ip)
        PROVE  FilesTyped'
    BY <2>3 DEF KeepCloudflare, Store, Files
  <2> QED
    BY <1>5, <2>1, <2>2, <2>3 DEF WizardEnd
<1>6. CASE Upgrade
  BY <1>6 DEF Upgrade, StartUpgrade, Install, RefreshUnit, RefreshFails, NoRestart,
     ReloadAndRestart, fileVars, CommandTyped
<1>7. CASE Diagnosis
  BY <1>7 DEF Diagnosis, Doctor, Run, CheckConfig, Tightened, Report, ReportUnseen, Repair, fileVars
<1> QED
  BY <1>1, <1>2, <1>3, <1>4, <1>5, <1>6, <1>7, Actions

LEMMA SystemdStaysTyped ==
  ASSUME TypeInv, Next
  PROVE  SystemdTyped'
<1> USE DEF TypeInv, SystemdTyped
<1>1. CASE Machine
  BY <1>1, LaunchedTyped DEF Machine, Boot, AgentCrash, Reboot, Meddle, systemdVars, FilesTyped
<1>2. CASE Interrupt
  BY <1>2 DEF Interrupt, systemdVars
<1>3. CASE Setup
  BY <1>3, LaunchedTyped DEF Setup, InitServer, Run, WriteOAuth, WriteServerConfig,
     WriteServerUnit, StartAgent, StartFails, RestartSucceeds, RestartFails, systemdVars,
     FilesTyped
<1>4. CASE NPMplusStep
  BY <1>4 DEF NPMplusStep, OpenWizard, DeclineNPMplus, NPMplusAccepted, NPMplusUnverified,
     KeepNPMplus, systemdVars
<1>5. CASE WizardEnd
  BY <1>5, LaunchedTyped DEF WizardEnd, DeclineCloudflare, KeepCloudflare, SaveConfig,
     SaveRefused, WizardRestarts, WizardLeavesAgent, RestartSucceeds, RestartFails, systemdVars
<1>6. CASE Upgrade
  BY <1>6, LaunchedTyped DEF Upgrade, StartUpgrade, Install, RefreshUnit, RefreshFails,
     NoRestart, ReloadAndRestart, RestartSucceeds, RestartFails, systemdVars, FilesTyped
<1>7. CASE Diagnosis
  BY <1>7, LaunchedTyped DEF Diagnosis, Doctor, Run, CheckConfig, Report, ReportUnseen, Repair,
     RestartSucceeds, RestartFails, systemdVars, FilesTyped
<1> QED
  BY <1>1, <1>2, <1>3, <1>4, <1>5, <1>6, <1>7, Actions

(* What the wizard edits stays a configuration. *)
LEMMA EditStaysTyped ==
  ASSUME TypeInv, Next
  PROVE  edit' \in Configs /\ tested' \in Candidates \cup {None}
<1> USE DEF TypeInv, CommandTyped
<1>1. CASE NPMplusStep
  <2>1. CASE OpenWizard
    BY <2>1 DEF OpenWizard, FilesTyped
  <2>2. CASE DeclineNPMplus
    BY <2>2 DEF DeclineNPMplus, Configs
  <2>3. ASSUME NEW via \in Candidates, KeepNPMplus(via)
        PROVE  edit' \in Configs
    <3>1. PICK mode \in Modes :
            edit' = [edit EXCEPT !.npm = [via |-> via, mode |-> mode,
                                          network |-> mode = "container"]]
      BY <2>3 DEF KeepNPMplus
    <3> DEFINE npm == [via |-> via, mode |-> mode, network |-> mode = "container"]
    <3>2. npm \in NPMplus
      <4>1. (mode = "container") \in BOOLEAN
        OBVIOUS
      <4> QED
        BY <4>1 DEF NPMplus
    <3> HIDE DEF npm
    <3>3. edit' = [edit EXCEPT !.npm = npm]
      BY <3>1 DEF npm
    <3> QED
      BY <3>2, <3>3 DEF Configs
  <2>4. ASSUME NEW url \in Typed, NPMplusAccepted(url)
        PROVE  edit' \in Configs /\ tested' \in Candidates
    <3>1. PICK i \in DOMAIN Variants(url) :
            /\ Variants(url)[i] \in Answers
            /\ tested' = Variants(url)[i]
            /\ KeepNPMplus(Connection(url, Variants(url)[i]))
      BY <2>4 DEF NPMplusAccepted
    <3>2. Variants(url)[i] \in Candidates
      BY <3>1, ConstantsAssumption
    <3> QED
      BY <2>3, <3>1, <3>2 DEF Connection
  <2>5. ASSUME NEW url \in Typed, NPMplusUnverified(url)
        PROVE  edit' \in Configs /\ tested' = tested
    <3>1. [url |-> url, insecure |-> FALSE] \in Candidates
      BY ConstantsAssumption DEF Candidates
    <3> QED
      BY <2>3, <2>5, <3>1 DEF NPMplusUnverified
  <2> QED
    BY <1>1, <2>1, <2>2, <2>4, <2>5 DEF NPMplusStep, OpenWizard, DeclineNPMplus
<1>2. CASE WizardEnd
  BY <1>2 DEF WizardEnd, DeclineCloudflare, KeepCloudflare, SaveConfig, SaveRefused,
     WizardRestarts, WizardLeavesAgent, commandVars, Configs
<1>3. CASE Machine \/ Interrupt
  BY <1>3 DEF Machine, Boot, AgentCrash, Reboot, Meddle, Interrupt, commandVars
<1>4. CASE Setup
  BY <1>4, Values DEF Setup, InitServer, Run, WriteOAuth, WriteServerConfig, WriteServerUnit,
     StartAgent, StartFails, commandVars
<1>5. CASE Upgrade
  BY <1>5 DEF Upgrade, StartUpgrade, Install, RefreshUnit, RefreshFails, NoRestart,
     ReloadAndRestart, commandVars
<1>6. CASE Diagnosis
  BY <1>6, Values DEF Diagnosis, Doctor, Run, CheckConfig, Report, ReportUnseen, Repair, commandVars
<1> QED
  BY <1>1, <1>2, <1>3, <1>4, <1>5, <1>6, Actions

LEMMA OneMore ==
  \A m \in Nat : 0 \in 0..m /\ \A x \in 0..m : x < m => x + 1 \in 0..m
OBVIOUS

LEMMA CountsStayTyped ==
  ASSUME TypeInv, Next
  PROVE  commands' \in 0..MaxCommands /\ faults' \in 0..MaxFaults
<1>1. \/ /\ UNCHANGED faults
         /\ \/ UNCHANGED commands
            \/ commands < MaxCommands /\ commands' = commands + 1
      \/ UNCHANGED commands /\ faults < MaxFaults /\ faults' = faults + 1
  <2>1. CASE Machine \/ Interrupt
    BY <2>1 DEF Machine, Boot, AgentCrash, Reboot, Meddle, Interrupt, countVars
  <2>2. CASE Setup
    BY <2>2 DEF Setup, InitServer, Run, WriteOAuth, WriteServerConfig, WriteServerUnit,
       StartAgent, StartFails, countVars
  <2>3. CASE NPMplusStep
    BY <2>3 DEF NPMplusStep, OpenWizard, DeclineNPMplus, NPMplusAccepted, NPMplusUnverified,
       KeepNPMplus, countVars
  <2>4. CASE WizardEnd
    <3>1. ASSUME NEW ip, KeepCloudflare(ip)
          PROVE  UNCHANGED <<commands, faults>>
      BY <3>1 DEF KeepCloudflare, countVars
    <3>2. CASE \/ DeclineCloudflare \/ SaveConfig \/ SaveRefused \/ WizardRestarts
               \/ WizardLeavesAgent
      BY <3>2 DEF DeclineCloudflare, SaveConfig, SaveRefused, WizardRestarts,
         WizardLeavesAgent, countVars
    <3> QED
      BY <2>4, <3>1, <3>2 DEF WizardEnd
  <2>5. CASE Upgrade
    BY <2>5 DEF Upgrade, StartUpgrade, Install, RefreshUnit, RefreshFails, NoRestart,
       ReloadAndRestart, countVars
  <2>6. CASE Diagnosis
    BY <2>6 DEF Diagnosis, Doctor, Run, CheckConfig, Report, ReportUnseen, Repair, countVars
  <2> QED
    BY <2>1, <2>2, <2>3, <2>4, <2>5, <2>6, Actions
<1>2. /\ commands \in 0..MaxCommands /\ faults \in 0..MaxFaults
      /\ MaxCommands \in Nat /\ MaxFaults \in Nat
  BY ConstantsAssumption DEF TypeInv, CommandTyped
<1>3. \A m \in Nat : \A x \in 0..m : x < m => x + 1 \in 0..m
  BY OneMore
<1> QED
  BY <1>1, <1>2, <1>3

(* The arguments of a command, and where it is. *)
Place ==
  /\ step \in Steps
  /\ cli \in Releases
  /\ fetched \in Releases \cup {Corrupt, None}
  /\ step = "install" => fetched # None
  /\ healthy \in BOOLEAN
  /\ said \in Messages
  /\ step # "idle" => said = ""

LEMMA PlaceStaysTyped ==
  ASSUME FilesTyped, Place, Next
  PROVE  Place'
<1> USE DEF Place, Steps, Messages
<1>0. binary \in Releases
  BY DEF FilesTyped
<1>1. CASE Machine \/ Interrupt
  BY <1>1 DEF Machine, Boot, AgentCrash, Reboot, Meddle, Interrupt, Ends, commandVars
<1>2. CASE Setup
  <2>1. CASE InitServer
    BY <1>0, <2>1 DEF InitServer, Run
  <2>2. CASE ~InitServer
    BY <1>2, <2>2 DEF Setup, WriteOAuth, WriteServerConfig, WriteServerUnit, StartAgent,
       StartFails, Then, Ends, commandVars
  <2> QED
    BY <2>1, <2>2
<1>3. CASE NPMplusStep
  BY <1>3 DEF NPMplusStep, OpenWizard, DeclineNPMplus, NPMplusAccepted, NPMplusUnverified,
     KeepNPMplus, Then
<1>4. CASE WizardEnd
  BY <1>4 DEF WizardEnd, DeclineCloudflare, KeepCloudflare, SaveConfig, SaveRefused,
     WizardRestarts, WizardLeavesAgent, Then, Ends, commandVars
<1>5. CASE Upgrade
  <2>1. ASSUME NEW tag \in Releases, StartUpgrade(tag)
        PROVE  Place'
    BY <1>0, <2>1, Values DEF StartUpgrade
  <2>2. CASE Install \/ RefreshUnit \/ RefreshFails \/ NoRestart \/ ReloadAndRestart
    BY <2>2 DEF Install, RefreshUnit, RefreshFails, NoRestart, ReloadAndRestart, Then, Ends,
       commandVars
  <2> QED
    BY <1>5, <2>1, <2>2 DEF Upgrade
<1>6. CASE Diagnosis
  <2>1. CASE Doctor
    BY <1>0, <2>1 DEF Doctor, Run
  <2>2. ASSUME NEW fix \in BOOLEAN, CheckConfig(fix)
        PROVE  Place'
    BY <2>2 DEF CheckConfig
  <2>3. CASE Report \/ ReportUnseen \/ Repair
    BY <2>3 DEF Report, ReportUnseen, Repair, Verdict, Ends, commandVars
  <2> QED
    BY <1>6, <2>1, <2>2, <2>3 DEF Diagnosis
<1> QED
  BY <1>1, <1>2, <1>3, <1>4, <1>5, <1>6, Actions

LEMMA TypeStep ==
  TypeInv /\ [Next]_vars => TypeInv'
<1> SUFFICES ASSUME TypeInv, [Next]_vars
             PROVE  TypeInv'
  OBVIOUS
<1>1. CASE Next
  <2>1. Place'
    BY <1>1, PlaceStaysTyped DEF TypeInv, CommandTyped, Place
  <2>2. CommandTyped'
    BY <1>1, <2>1, EditStaysTyped, CountsStayTyped DEF Place, CommandTyped
  <2> QED
    BY <1>1, <2>2, FilesStayTyped, SystemdStaysTyped DEF TypeInv
<1>2. CASE UNCHANGED vars
  BY <1>2 DEF vars, fileVars, systemdVars, commandVars, countVars, TypeInv, FilesTyped,
     SystemdTyped, CommandTyped
<1> QED
  BY <1>1, <1>2

-------------------------------------------------------------------------------
(* What boots.                                                              *)

(* A command never loosens a secret file; a hand that does is remembered.   *)
LEMMA SecretsStay ==
  ASSUME TypeInv, Next
  PROVE  \A f \in Files \ meddled' :
           (f \notin meddled /\ secret'[f] = secret[f]) \/ secret'[f] = "secure"
<1>0. secret \in [Files -> {"absent", "loose", "secure"}]
  BY DEF TypeInv, FilesTyped
<1>1. ASSUME NEW g \in Files, Store(g)
      PROVE  \A f \in Files \ meddled' :
               (f \notin meddled /\ secret'[f] = secret[f]) \/ secret'[f] = "secure"
  BY <1>0, <1>1 DEF Store
<1>2. CASE UNCHANGED <<secret, meddled>>
  BY <1>2
<1>3. CASE Machine \/ Interrupt
  <2>1. ASSUME NEW g \in Files, Meddle(g)
        PROVE  \A f \in Files \ meddled' : f \notin meddled /\ secret'[f] = secret[f]
    BY <1>0, <2>1 DEF Meddle
  <2>2. CASE Boot \/ AgentCrash \/ Reboot \/ Interrupt
    BY <1>2, <2>2 DEF Boot, AgentCrash, Reboot, Interrupt, fileVars
  <2> QED
    BY <1>3, <2>1, <2>2 DEF Machine
<1>4. CASE Setup
  <2>1. CASE WriteOAuth
    BY <1>1, <2>1 DEF WriteOAuth, Files
  <2>2. CASE ~WriteOAuth
    BY <1>2, <1>4, <2>2 DEF Setup, InitServer, Run, WriteServerConfig, WriteServerUnit,
       StartAgent, StartFails, fileVars
  <2> QED
    BY <2>1, <2>2
<1>5. CASE NPMplusStep
  <2>1. ASSUME NEW url \in Typed, NPMplusAccepted(url) \/ NPMplusUnverified(url)
        PROVE  Store("npmplus")
    BY <2>1 DEF NPMplusAccepted, NPMplusUnverified, KeepNPMplus
  <2>2. CASE OpenWizard \/ DeclineNPMplus
    BY <1>2, <2>2 DEF OpenWizard, DeclineNPMplus, fileVars
  <2> QED
    BY <1>1, <1>5, <2>1, <2>2 DEF NPMplusStep, Files
<1>6. CASE WizardEnd
  <2>1. ASSUME NEW ip, KeepCloudflare(ip)
        PROVE  Store("cloudflare")
    BY <2>1 DEF KeepCloudflare
  <2>2. CASE \/ DeclineCloudflare \/ SaveConfig \/ SaveRefused \/ WizardRestarts
             \/ WizardLeavesAgent
    BY <1>2, <2>2 DEF DeclineCloudflare, SaveConfig, SaveRefused, WizardRestarts,
       WizardLeavesAgent, fileVars
  <2> QED
    BY <1>1, <1>6, <2>1, <2>2 DEF WizardEnd, Files
<1>7. CASE Upgrade
  BY <1>2, <1>7 DEF Upgrade, StartUpgrade, Install, RefreshUnit, RefreshFails, NoRestart,
     ReloadAndRestart, fileVars
<1>8. CASE Diagnosis
  <2>1. ASSUME NEW fix \in BOOLEAN, CheckConfig(fix)
        PROVE  \A f \in Files \ meddled' :
                 (f \notin meddled /\ secret'[f] = secret[f]) \/ secret'[f] = "secure"
    BY <1>0, <2>1 DEF CheckConfig, Tightened
  <2>2. CASE Doctor \/ Report \/ ReportUnseen \/ Repair
    BY <1>2, <2>2 DEF Doctor, Run, Report, ReportUnseen, Repair, fileVars
  <2> QED
    BY <1>8, <2>1, <2>2 DEF Diagnosis
<1> QED
  BY <1>3, <1>4, <1>5, <1>6, <1>7, <1>8, Actions

(* The secret files of a configuration in place stay there. *)
LEMMA InPlaceStays ==
  ASSUME TypeInv, Next
  PROVE  \A c : InPlace(c) => (c # None => \A f \in SecretFiles(c) \ meddled' : secret'[f] = "secure")
<1>1. \A c : SecretFiles(c) \subseteq Files
  BY DEF SecretFiles, Files
<1> QED
  BY <1>1, SecretsStay DEF InPlace

(* What changes the configuration. *)
LEMMA ConfigChanges ==
  ASSUME TypeInv, Next
  PROVE  \/ UNCHANGED config
         \/ /\ step = "config" /\ UNCHANGED <<secret, meddled>>
            /\ \E names \in Names : config' = Fresh(names)
         \/ step = "save" /\ Valid(edit) /\ config' = edit
<1>1. CASE Machine \/ Interrupt
  BY <1>1 DEF Machine, Boot, AgentCrash, Reboot, Meddle, Interrupt, fileVars
<1>2. CASE Setup
  BY <1>2 DEF Setup, InitServer, Run, WriteOAuth, WriteServerConfig, WriteServerUnit,
     StartAgent, StartFails, fileVars
<1>3. CASE NPMplusStep
  BY <1>3 DEF NPMplusStep, OpenWizard, DeclineNPMplus, NPMplusAccepted, NPMplusUnverified,
     KeepNPMplus, fileVars
<1>4. CASE WizardEnd
  <2>1. ASSUME NEW ip, KeepCloudflare(ip)
        PROVE  UNCHANGED config
    BY <2>1 DEF KeepCloudflare
  <2>2. CASE \/ DeclineCloudflare \/ SaveConfig \/ SaveRefused \/ WizardRestarts
             \/ WizardLeavesAgent
    BY <2>2 DEF DeclineCloudflare, SaveConfig, SaveRefused, WizardRestarts,
       WizardLeavesAgent, fileVars
  <2> QED
    BY <1>4, <2>1, <2>2 DEF WizardEnd
<1>5. CASE Upgrade
  BY <1>5 DEF Upgrade, StartUpgrade, Install, RefreshUnit, RefreshFails, NoRestart,
     ReloadAndRestart, fileVars
<1>6. CASE Diagnosis
  BY <1>6 DEF Diagnosis, Doctor, Run, CheckConfig, Report, ReportUnseen, Repair, fileVars
<1> QED
  BY <1>1, <1>2, <1>3, <1>4, <1>5, <1>6, Actions

(* What changes the agent: it stops, or boots under the unit u. *)
Started(u) == /\ Boots(u, config)
              /\ agent' = Launched(u)
              /\ started' = TRUE
              /\ loaded' = u
              /\ UNCHANGED config

LEMMA AgentChanges ==
  ASSUME TypeInv, Next
  PROVE  \/ agent' = None
         \/ \E u \in {unit, loaded} : Started(u)
         \/ /\ agent # None
            /\ UNCHANGED <<agent, started>>
            /\ loaded' = loaded \/ (step = "start" /\ loaded' = unit)
<1> USE DEF Started
<1>1. CASE Machine
  <2>1. CASE Boot
    BY <2>1 DEF Boot, fileVars, TypeInv, SystemdTyped
  <2>2. CASE ~Boot
    BY <1>1, <2>2 DEF Machine, AgentCrash, Reboot, Meddle, systemdVars
  <2> QED
    BY <2>1, <2>2
<1>2. CASE Interrupt
  BY <1>2 DEF Interrupt, systemdVars
<1>3. CASE Setup
  <2>1. CASE StartAgent \/ StartFails
    BY <2>1 DEF StartAgent, StartFails, RestartSucceeds, RestartFails, fileVars
  <2>2. CASE InitServer \/ WriteOAuth \/ WriteServerConfig \/ WriteServerUnit
    BY <2>2 DEF InitServer, Run, WriteOAuth, WriteServerConfig, WriteServerUnit, systemdVars
  <2> QED
    BY <1>3, <2>1, <2>2 DEF Setup
<1>4. CASE NPMplusStep
  BY <1>4 DEF NPMplusStep, OpenWizard, DeclineNPMplus, NPMplusAccepted, NPMplusUnverified,
     KeepNPMplus, systemdVars
<1>5. CASE WizardEnd
  <2>1. ASSUME NEW ip, KeepCloudflare(ip)
        PROVE  UNCHANGED systemdVars
    BY <2>1 DEF KeepCloudflare, systemdVars
  <2>2. CASE WizardRestarts
    BY <2>2 DEF WizardRestarts, RestartSucceeds, RestartFails, fileVars
  <2>3. CASE DeclineCloudflare \/ SaveConfig \/ SaveRefused \/ WizardLeavesAgent
    BY <2>3 DEF DeclineCloudflare, SaveConfig, SaveRefused, WizardLeavesAgent, systemdVars
  <2> QED
    BY <1>5, <2>1, <2>2, <2>3 DEF WizardEnd, systemdVars
<1>6. CASE Upgrade
  <2>1. CASE ReloadAndRestart
    BY <2>1 DEF ReloadAndRestart, RestartSucceeds, RestartFails, fileVars
  <2>2. CASE ~ReloadAndRestart
    BY <1>6, <2>2 DEF Upgrade, StartUpgrade, Install, RefreshUnit, RefreshFails, NoRestart,
       systemdVars
  <2> QED
    BY <2>1, <2>2
<1>7. CASE Diagnosis
  <2>1. CASE Repair
    BY <2>1 DEF Repair, RestartSucceeds, RestartFails, fileVars
  <2>2. CASE ~Repair
    BY <1>7, <2>2 DEF Diagnosis, Doctor, Run, CheckConfig, Report, ReportUnseen, systemdVars
  <2> QED
    BY <2>1, <2>2
<1> QED
  BY <1>1, <1>2, <1>3, <1>4, <1>5, <1>6, <1>7, Actions

(* What is configured, what the running agent was started with, and what    *)
(* the wizard is about to save, each find their secret files in place.      *)
FilesInv ==
  /\ config # None => Valid(config) \/ \E names \in Names : config = Fresh(names)
  /\ InPlace(config)
  /\ agent # None => InPlace(agent.config)
  /\ step = "config" => secret["oauth"] = "secure"
  /\ step \in {"npmplus", "cloudflare", "save"} => InPlace(edit)

(* An agent that runs is kept running, under a unit that was loaded whole. *)
AgentInv ==
  /\ agent # None => started /\ loaded \in Releases /\ config # None
  /\ step = "start" => unit \in Releases

LEMMA StepChanges ==
  ASSUME TypeInv, Next
  PROVE  /\ step' = "config" => \/ step = "config" /\ UNCHANGED <<secret, meddled>>
                                \/ secret' = [secret EXCEPT !["oauth"] = "secure"]
         /\ step' = "start" => \/ step = "start" /\ UNCHANGED unit
                               \/ unit' = cli
<1>0. step \in Steps /\ cli \in Releases
  BY DEF TypeInv, CommandTyped
<1>1. CASE Machine \/ Interrupt
  BY <1>1 DEF Machine, Boot, AgentCrash, Reboot, Meddle, Interrupt, Ends, fileVars
<1>2. CASE Setup
  BY <1>2 DEF Setup, InitServer, Run, WriteOAuth, Store, WriteServerConfig, WriteServerUnit,
     StartAgent, StartFails, Then, Ends
<1>3. CASE NPMplusStep
  BY <1>3 DEF NPMplusStep, OpenWizard, DeclineNPMplus, NPMplusAccepted, NPMplusUnverified,
     KeepNPMplus, Then
<1>4. CASE WizardEnd
  <2>1. ASSUME NEW ip, KeepCloudflare(ip)
        PROVE  step' = "save"
    BY <2>1 DEF KeepCloudflare, Then
  <2>2. CASE \/ DeclineCloudflare \/ SaveConfig \/ SaveRefused \/ WizardRestarts
             \/ WizardLeavesAgent
    BY <2>2 DEF DeclineCloudflare, SaveConfig, SaveRefused, WizardRestarts,
       WizardLeavesAgent, Then, Ends
  <2> QED
    BY <1>4, <2>1, <2>2 DEF WizardEnd
<1>5. CASE Upgrade
  BY <1>5 DEF Upgrade, StartUpgrade, Install, RefreshUnit, RefreshFails, NoRestart,
     ReloadAndRestart, Then, Ends
<1>6. CASE Diagnosis
  BY <1>6 DEF Diagnosis, Doctor, Run, CheckConfig, Report, ReportUnseen, Repair, Ends
<1> QED
  BY <1>1, <1>2, <1>3, <1>4, <1>5, <1>6, Actions

LEMMA EditStaysInPlace ==
  ASSUME TypeInv, FilesInv, Next, step' \in {"npmplus", "cloudflare", "save"}
  PROVE  InPlace(edit)'
<1>0. /\ edit \in Configs /\ None \notin Configs
      /\ secret \in [Files -> {"absent", "loose", "secure"}]
  BY Values DEF TypeInv, FilesTyped, CommandTyped
<1>1. CASE UNCHANGED <<edit, step>>
  BY <1>1, InPlaceStays DEF FilesInv, InPlace
<1>2. CASE OpenWizard
  <2>1. edit' = config
    BY <1>2 DEF OpenWizard
  <2> QED
    BY <2>1, InPlaceStays DEF FilesInv, InPlace
<1>3. ASSUME NEW g \in Files, step \in {"npmplus", "cloudflare"},
             SecretFiles(edit') \subseteq SecretFiles(edit) \cup {g},
             Store(g) \/ g \in SecretFiles(edit)
      PROVE  InPlace(edit)'
  <2>1. \A f \in SecretFiles(edit) \ meddled' : secret'[f] = "secure"
    BY <1>0, <1>3, InPlaceStays DEF FilesInv
  <2>2. g \notin SecretFiles(edit) => secret'[g] = "secure"
    BY <1>0, <1>3 DEF Store
  <2> QED
    BY <1>3, <2>1, <2>2 DEF InPlace
<1>4. CASE DeclineNPMplus
  <2>1. edit' = [edit EXCEPT !.npm = None] /\ step = "npmplus"
    BY <1>4 DEF DeclineNPMplus
  <2>2. SecretFiles(edit') \subseteq SecretFiles(edit)
    BY <1>0, <2>1 DEF SecretFiles, Configs
  <2> QED
    BY <1>3, <2>1, <2>2 DEF SecretFiles, Files
<1>5. ASSUME NEW via, KeepNPMplus(via), step = "npmplus"
      PROVE  InPlace(edit)'
  <2>1. PICK npm : edit' = [edit EXCEPT !.npm = npm]
    BY <1>5 DEF KeepNPMplus
  <2>2. SecretFiles(edit') \subseteq SecretFiles(edit) \cup {"npmplus"}
    BY <1>0, <2>1 DEF SecretFiles, Configs
  <2>3. Store("npmplus")
    BY <1>5 DEF KeepNPMplus
  <2> QED
    BY <1>3, <1>5, <2>2, <2>3 DEF Files
<1>6. CASE DeclineCloudflare
  <2>1. (edit' = [edit EXCEPT !.cf = FALSE, !.ip = ""] \/ edit' = edit) /\ step = "cloudflare"
    BY <1>6 DEF DeclineCloudflare
  <2>2. SecretFiles(edit') \subseteq SecretFiles(edit)
    BY <1>0, <2>1 DEF SecretFiles, Configs
  <2> QED
    BY <1>3, <2>1, <2>2 DEF SecretFiles, Files
<1>7. ASSUME NEW ip, KeepCloudflare(ip)
      PROVE  InPlace(edit)'
  <2>1. edit' = [edit EXCEPT !.cf = TRUE, !.ip = ip] /\ step = "cloudflare" /\ Store("cloudflare")
    BY <1>7 DEF KeepCloudflare
  <2>2. SecretFiles(edit') \subseteq SecretFiles(edit) \cup {"cloudflare"}
    BY <1>0, <2>1 DEF SecretFiles, Configs
  <2> QED
    BY <1>3, <2>1, <2>2 DEF Files
<1>8. CASE Machine \/ Interrupt
  BY <1>1, <1>8 DEF Machine, Boot, AgentCrash, Reboot, Meddle, Interrupt, Ends, commandVars
<1>9. CASE Setup
  BY <1>9 DEF Setup, InitServer, Run, WriteOAuth, WriteServerConfig, WriteServerUnit,
     StartAgent, StartFails, Then, Ends
<1>10. CASE NPMplusStep
  BY <1>2, <1>4, <1>5, <1>10 DEF NPMplusStep, NPMplusAccepted, NPMplusUnverified
<1>11. CASE WizardEnd
  <2>1. CASE SaveConfig \/ SaveRefused \/ WizardRestarts \/ WizardLeavesAgent
    BY <2>1 DEF SaveConfig, SaveRefused, WizardRestarts, WizardLeavesAgent, Then, Ends
  <2> QED
    BY <1>6, <1>7, <1>11, <2>1 DEF WizardEnd
<1>12. CASE Upgrade
  BY <1>12 DEF Upgrade, StartUpgrade, Install, RefreshUnit, RefreshFails, NoRestart,
     ReloadAndRestart, Then, Ends
<1>13. CASE Diagnosis
  BY <1>13 DEF Diagnosis, Doctor, Run, CheckConfig, Report, ReportUnseen, Repair, Ends
<1> QED
  BY <1>8, <1>9, <1>10, <1>11, <1>12, <1>13, Actions

LEMMA FilesStep ==
  ASSUME TypeInv, FilesInv, AgentInv, Next
  PROVE  FilesInv' /\ AgentInv'
<1>0. /\ secret \in [Files -> {"absent", "loose", "secure"}] /\ secret' \in [Files -> {"absent", "loose", "secure"}]
      /\ cli \in Releases /\ edit \in Configs /\ Blank \in Configs /\ None \notin Configs
      /\ FilesTyped /\ "oauth" \in Files
  BY FilesStayTyped, Values DEF TypeInv, FilesTyped, CommandTyped, Files
<1>1. /\ config' # None => Valid(config') \/ \E names \in Names : config' = Fresh(names)
      /\ InPlace(config)'
      /\ config # None => config' # None
  <2>1. CASE UNCHANGED config
    BY <2>1, InPlaceStays DEF FilesInv, InPlace
  <2>2. CASE /\ step = "config" /\ UNCHANGED <<secret, meddled>>
             /\ \E names \in Names : config' = Fresh(names)
    <3>1. \A names : SecretFiles(Fresh(names)) = {"oauth"}
      BY DEF Fresh, SecretFiles
    <3>2. secret'["oauth"] = "secure"
      BY <2>2 DEF FilesInv
    <3> QED
      BY <1>0, <2>2, <3>1, <3>2, Values DEF InPlace
  <2>3. CASE step = "save" /\ Valid(edit) /\ config' = edit
    <3>1. InPlace(edit)
      BY <2>3 DEF FilesInv
    <3> QED
      BY <1>0, <2>3, <3>1, InPlaceStays DEF InPlace
  <2> QED
    BY <2>1, <2>2, <2>3, ConfigChanges
<1>2. /\ agent' # None => InPlace(agent.config)'
      /\ agent' # None => started' /\ loaded' \in Releases /\ config' # None
  <2>1. ASSUME NEW u, Started(u)
        PROVE  /\ InPlace(agent.config)'
               /\ started' /\ loaded' \in Releases /\ config' # None
    <3>1. agent'.config = config' /\ loaded' \in Releases /\ started' /\ config' # None
      BY <1>0, <2>1, LaunchedTyped DEF Started
    <3>2. InPlace(agent.config)'
      BY <1>1, <3>1 DEF InPlace
    <3> QED
      BY <3>1, <3>2
  <2>2. CASE /\ agent # None
             /\ UNCHANGED <<agent, started>>
             /\ loaded' = loaded \/ (step = "start" /\ loaded' = unit)
    BY <1>1, <2>2, InPlaceStays DEF FilesInv, AgentInv, InPlace
  <2> QED
    BY <2>1, <2>2, AgentChanges
<1>3. step' = "config" => secret'["oauth"] = "secure"
  BY <1>0, StepChanges DEF FilesInv
<1>4. step' = "start" => unit' \in Releases
  BY <1>0, StepChanges DEF AgentInv
<1> QED
  BY <1>1, <1>2, <1>3, <1>4, EditStaysInPlace DEF FilesInv, AgentInv

-------------------------------------------------------------------------------
(* What is said.                                                            *)

(* A message of success is one a command ends with, and is the operator's   *)
(* until he does something else: meanwhile only the agent crashes or boots. *)
Ending == WizardRestarts \/ WizardLeavesAgent \/ ReloadAndRestart \/ Report \/ ReportUnseen \/ Repair

LEMMA SaidChanges ==
  ASSUME TypeInv, Next
  PROVE  \/ said' \notin {"saved", "live", "restarted", "all good", "files good"}
         \/ Ending
         \/ /\ Boot \/ AgentCrash
            /\ UNCHANGED <<fileVars, loaded, enabled, started, step, commandVars, said>>
<1>0. step # "idle" => said = ""
  BY DEF TypeInv, CommandTyped
<1>1. CASE Machine \/ Interrupt
  BY <1>1 DEF Machine, Boot, AgentCrash, Reboot, Meddle, Interrupt, Ends
<1>2. CASE Setup
  BY <1>0, <1>2 DEF Setup, InitServer, Run, WriteOAuth, WriteServerConfig, WriteServerUnit,
     StartAgent, StartFails, Then, Ends
<1>3. CASE NPMplusStep
  BY <1>0, <1>3 DEF NPMplusStep, OpenWizard, DeclineNPMplus, NPMplusAccepted,
     NPMplusUnverified, KeepNPMplus, Then
<1>4. CASE WizardEnd
  <2>1. ASSUME NEW ip, KeepCloudflare(ip)
        PROVE  said' = ""
    BY <1>0, <2>1 DEF KeepCloudflare, Then
  <2>2. CASE DeclineCloudflare \/ SaveConfig \/ SaveRefused
    BY <1>0, <2>2 DEF DeclineCloudflare, SaveConfig, SaveRefused, Then, Ends
  <2> QED
    BY <1>4, <2>1, <2>2 DEF WizardEnd, Ending
<1>5. CASE Upgrade
  BY <1>0, <1>5 DEF Upgrade, StartUpgrade, Install, RefreshUnit, RefreshFails, NoRestart,
     Then, Ends, Ending
<1>6. CASE Diagnosis
  <2>1. ASSUME NEW fix \in BOOLEAN, CheckConfig(fix)
        PROVE  said' = ""
    BY <1>0, <2>1 DEF CheckConfig
  <2> QED
    BY <1>6, <2>1 DEF Diagnosis, Doctor, Run, Ending
<1> QED
  BY <1>1, <1>2, <1>3, <1>4, <1>5, <1>6, Actions

LEMMA RestartStep ==
  ASSUME TypeInv, RestartTookEffect, Next
  PROVE  RestartTookEffect'
<1>1. CASE said' \notin {"saved", "live", "restarted", "all good", "files good"}
  BY <1>1 DEF RestartTookEffect
<1>2. CASE WizardRestarts
  <2>1. CASE said' = "live"
    <3>1. /\ UNCHANGED config
          /\ agent' = Launched(loaded)
      BY <1>2, <2>1 DEF WizardRestarts, RestartSucceeds, Ends, fileVars
    <3> QED
      BY <2>1, <3>1 DEF Launched, RestartTookEffect
  <2>2. CASE said' # "live"
    BY <1>1, <1>2, <2>2 DEF WizardRestarts, Ends
  <2> QED
    BY <2>1, <2>2
<1>3. CASE ReloadAndRestart
  BY <1>3 DEF ReloadAndRestart, RestartSucceeds, Ends, Launched, fileVars, RestartTookEffect
<1>4. CASE WizardLeavesAgent \/ Report \/ ReportUnseen \/ Repair
  BY <1>4 DEF WizardLeavesAgent, Report, ReportUnseen, Repair, Verdict, Ends, RestartTookEffect
<1>5. CASE /\ Boot
           /\ UNCHANGED <<fileVars, loaded, enabled, started, step, commandVars, said>>
  BY <1>5 DEF Boot, Launched, fileVars, commandVars, RestartTookEffect
<1>6. CASE /\ AgentCrash
           /\ UNCHANGED <<fileVars, loaded, enabled, started, step, commandVars, said>>
  BY <1>6 DEF AgentCrash, fileVars, commandVars, RestartTookEffect
<1> QED
  BY <1>1, <1>2, <1>3, <1>4, <1>5, <1>6, SaidChanges DEF Ending

(* doctor carries its verdict on the files to the restart of the agent. *)
DoctorInv ==
  step \in {"repair", "report"} /\ healthy /\ config # None => Valid(config) /\ SecretsSecure(config)

LEMMA DoctorKeeps ==
  ASSUME TypeInv, DoctorInv, Next
  PROVE  DoctorInv'
<1>0. step \in Steps
  BY DEF TypeInv, CommandTyped
<1>1. CASE UNCHANGED <<step, healthy, config, secret>>
  BY <1>1 DEF DoctorInv, SecretsSecure
<1>2. ASSUME NEW fix \in BOOLEAN, CheckConfig(fix)
      PROVE  DoctorInv'
  <2>1. CASE config = None \/ ~Valid(config)
    BY <1>2, <2>1 DEF CheckConfig, DoctorInv
  <2>2. CASE config # None /\ Valid(config)
    <3>1. /\ healthy' = (\A f \in SecretFiles(config) : secret'[f] = "secure")
          /\ config' = config
      BY <1>2, <2>2 DEF CheckConfig
    <3> QED
      BY <2>2, <3>1 DEF DoctorInv, SecretsSecure
  <2> QED
    BY <2>1, <2>2
<1>3. step' \in {"repair", "report"} =>
        \/ \E fix \in BOOLEAN : CheckConfig(fix)
        \/ UNCHANGED <<step, healthy, config, secret>>
  <2>1. CASE Machine \/ Interrupt
    BY <2>1 DEF Machine, Boot, AgentCrash, Reboot, Meddle, Interrupt, Ends, fileVars, commandVars
  <2>2. CASE Setup
    BY <2>2 DEF Setup, InitServer, Run, WriteOAuth, WriteServerConfig, WriteServerUnit,
       StartAgent, StartFails, Then, Ends
  <2>3. CASE NPMplusStep
    BY <2>3 DEF NPMplusStep, OpenWizard, DeclineNPMplus, NPMplusAccepted, NPMplusUnverified,
       KeepNPMplus, Then
  <2>4. CASE WizardEnd
    <3>1. ASSUME NEW ip, KeepCloudflare(ip)
          PROVE  step' = "save"
      BY <3>1 DEF KeepCloudflare, Then
    <3>2. CASE \/ DeclineCloudflare \/ SaveConfig \/ SaveRefused \/ WizardRestarts
               \/ WizardLeavesAgent
      BY <3>2 DEF DeclineCloudflare, SaveConfig, SaveRefused, WizardRestarts,
         WizardLeavesAgent, Then, Ends
    <3> QED
      BY <2>4, <3>1, <3>2 DEF WizardEnd
  <2>5. CASE Upgrade
    BY <2>5 DEF Upgrade, StartUpgrade, Install, RefreshUnit, RefreshFails, NoRestart,
       ReloadAndRestart, Then, Ends
  <2>6. CASE Diagnosis
    BY <2>6 DEF Diagnosis, Doctor, Run, Report, ReportUnseen, Repair, Ends
  <2> QED
    BY <2>1, <2>2, <2>3, <2>4, <2>5, <2>6, Actions
<1> QED
  BY <1>1, <1>2, <1>3 DEF DoctorInv

LEMMA DoctorStep ==
  ASSUME TypeInv, AgentInv, DoctorInv, DoctorIsRight, Next
  PROVE  DoctorIsRight'
<1>1. CASE said' \notin {"all good", "files good"}
  BY <1>1 DEF DoctorIsRight
<1>2. CASE Report \/ ReportUnseen
  <2>1. /\ UNCHANGED <<config, secret, binary, unit, loaded, started, agent>>
        /\ step \in {"repair", "report"}
        /\ \/ said' = Verdict(healthy /\ (agent # None \/ ~IsServer))
           \/ said' = IF healthy THEN "files good" ELSE "needs attention"
    BY <1>2 DEF Report, ReportUnseen, Ends, fileVars, systemdVars
  <2>2. CASE healthy
    <3>1. config # None => Valid(config) /\ SecretsSecure(config)
      BY <2>1, <2>2 DEF DoctorInv
    <3>2. agent # None => started /\ Boots(loaded, config)
      BY <3>1 DEF AgentInv, TypeInv, FilesTyped, Boots
    <3>3. said' = "all good" => agent # None \/ ~IsServer
      BY <2>1 DEF Verdict
    <3> QED
      BY <2>1, <3>1, <3>2, <3>3 DEF DoctorIsRight, IsServer, Boots, SecretsSecure
  <2>3. CASE ~healthy
    BY <1>1, <2>1, <2>3 DEF Verdict
  <2> QED
    BY <2>2, <2>3
<1>3. CASE Repair
  <2>1. CASE RestartSucceeds(loaded')
    <3>1. /\ started' = TRUE
          /\ UNCHANGED <<config, secret, binary>>
      BY <1>3, <2>1 DEF Repair, RestartSucceeds, fileVars
    <3>2. Boots(loaded', config)
      BY <2>1 DEF RestartSucceeds
    <3> QED
      BY <3>1, <3>2 DEF Boots, SecretsSecure, DoctorIsRight
  <2>2. CASE ~RestartSucceeds(loaded')
    BY <1>1, <1>3, <2>2 DEF Repair, Ends
  <2> QED
    BY <2>1, <2>2
<1>4. CASE WizardRestarts \/ WizardLeavesAgent \/ ReloadAndRestart
  BY <1>1, <1>4 DEF WizardRestarts, WizardLeavesAgent, ReloadAndRestart, Ends
<1>5. CASE UNCHANGED <<fileVars, loaded, enabled, started, step, commandVars, said>>
  BY <1>5 DEF fileVars, DoctorIsRight, IsServer, Boots, SecretsSecure
<1> QED
  BY <1>1, <1>2, <1>3, <1>4, <1>5, SaidChanges DEF Ending

(* The connection that answered is carried from the test to the file. *)
WizardInv ==
  /\ step = "npmplus" => tested = None
  /\ step \in {"cloudflare", "save"} /\ tested # None => edit.npm.via = tested
  /\ step = "restart" /\ tested # None => config.npm.via = tested

LEMMA WizardKeeps ==
  ASSUME TypeInv, WizardInv, Next
  PROVE  WizardInv'
<1>0. edit \in Configs
  BY DEF TypeInv, CommandTyped
<1>1. CASE Machine \/ Interrupt
  BY <1>1 DEF Machine, Boot, AgentCrash, Reboot, Meddle, Interrupt, Ends, fileVars, commandVars,
     WizardInv
<1>2. CASE Setup
  BY <1>2 DEF Setup, InitServer, Run, WriteOAuth, WriteServerConfig, WriteServerUnit,
     StartAgent, StartFails, Then, Ends, WizardInv
<1>3. CASE NPMplusStep
  <2>1. ASSUME NEW via, KeepNPMplus(via), tested' \in {None, via}
        PROVE  WizardInv'
    <3>1. PICK mode \in Modes :
            edit' = [edit EXCEPT !.npm = [via |-> via, mode |-> mode,
                                          network |-> mode = "container"]]
      BY <2>1 DEF KeepNPMplus
    <3>2. edit'.npm.via = via
      BY <1>0, <3>1 DEF Configs
    <3>3. step' = "cloudflare"
      BY <2>1 DEF KeepNPMplus, Then
    <3> QED
      BY <2>1, <3>2, <3>3 DEF WizardInv
  <2>2. ASSUME NEW url \in Typed, NPMplusAccepted(url)
        PROVE  WizardInv'
    BY <2>1, <2>2 DEF NPMplusAccepted, Connection
  <2>3. ASSUME NEW url \in Typed, NPMplusUnverified(url)
        PROVE  WizardInv'
    BY <2>1, <2>3 DEF NPMplusUnverified, WizardInv
  <2>4. CASE OpenWizard
    BY <2>4 DEF OpenWizard, WizardInv
  <2>5. CASE DeclineNPMplus
    BY <2>5 DEF DeclineNPMplus, Then, WizardInv
  <2> QED
    BY <1>3, <2>2, <2>3, <2>4, <2>5 DEF NPMplusStep
<1>4. CASE WizardEnd
  <2>1. ASSUME NEW ip, KeepCloudflare(ip)
        PROVE  WizardInv'
    BY <1>0, <2>1 DEF KeepCloudflare, Then, WizardInv, Configs
  <2>2. CASE DeclineCloudflare
    BY <1>0, <2>2 DEF DeclineCloudflare, Then, WizardInv, Configs
  <2>3. CASE SaveConfig
    BY <2>3 DEF SaveConfig, Then, WizardInv, commandVars
  <2>4. CASE SaveRefused \/ WizardRestarts \/ WizardLeavesAgent
    BY <2>4 DEF SaveRefused, WizardRestarts, WizardLeavesAgent, Ends, WizardInv
  <2> QED
    BY <1>4, <2>1, <2>2, <2>3, <2>4 DEF WizardEnd
<1>5. CASE Upgrade
  BY <1>5 DEF Upgrade, StartUpgrade, Install, RefreshUnit, RefreshFails, NoRestart,
     ReloadAndRestart, Then, Ends, WizardInv
<1>6. CASE Diagnosis
  BY <1>6 DEF Diagnosis, Doctor, Run, CheckConfig, Report, ReportUnseen, Repair, Ends, WizardInv
<1> QED
  BY <1>1, <1>2, <1>3, <1>4, <1>5, <1>6, Actions

LEMMA SavedStep ==
  ASSUME TypeInv, WizardInv, TestedIsSaved, Next
  PROVE  TestedIsSaved'
<1>1. CASE said' \notin {"saved", "live"}
  BY <1>1 DEF TestedIsSaved
<1>2. CASE WizardRestarts \/ WizardLeavesAgent
  BY <1>2 DEF WizardRestarts, WizardLeavesAgent, fileVars, commandVars, WizardInv, TestedIsSaved
<1>3. CASE ReloadAndRestart \/ Report \/ ReportUnseen \/ Repair
  BY <1>3 DEF ReloadAndRestart, Report, ReportUnseen, Repair, Verdict, Ends, TestedIsSaved
<1>4. CASE UNCHANGED <<fileVars, loaded, enabled, started, step, commandVars, said>>
  BY <1>4 DEF fileVars, commandVars, TestedIsSaved
<1> QED
  BY <1>1, <1>2, <1>3, <1>4, SaidChanges DEF Ending

-------------------------------------------------------------------------------
(* The invariants of the runs.                                              *)

ServiceInv ==
  /\ TypeInv /\ FilesInv /\ AgentInv
  /\ RestartTookEffect
  /\ DoctorInv /\ DoctorIsRight
  /\ WizardInv /\ TestedIsSaved

LEMMA ServiceStart ==
  Init => ServiceInv
<1> SUFFICES ASSUME Init
             PROVE  ServiceInv
  OBVIOUS
<1>1. /\ config = None /\ agent = None /\ unit = None /\ loaded = None /\ tested = None
      /\ step = "idle" /\ said = "" /\ edit = Blank /\ fetched = None
      /\ cli \in Releases /\ binary \in Releases
      /\ commands = 0 /\ faults = 0 /\ meddled = {}
      /\ enabled = FALSE /\ started = FALSE /\ healthy = TRUE
      /\ secret \in [Files -> {"absent", "loose", "secure"}]
  BY DEF Init
<1>2. FilesTyped /\ SystemdTyped
  BY <1>1 DEF FilesTyped, SystemdTyped, Units
<1>3. commands \in 0..MaxCommands /\ faults \in 0..MaxFaults
  BY <1>1, ConstantsAssumption, OneMore
<1>4. CommandTyped
  BY <1>1, <1>3, Values DEF CommandTyped, Steps, Messages
<1>5. FilesInv /\ AgentInv /\ DoctorInv /\ WizardInv
  BY <1>1 DEF FilesInv, AgentInv, DoctorInv, WizardInv, InPlace
<1>6. RestartTookEffect /\ DoctorIsRight /\ TestedIsSaved
  BY <1>1 DEF RestartTookEffect, DoctorIsRight, TestedIsSaved
<1> QED
  BY <1>2, <1>4, <1>5, <1>6 DEF ServiceInv, TypeInv

LEMMA ServiceStep ==
  ServiceInv /\ [Next]_vars => ServiceInv'
<1> SUFFICES ASSUME ServiceInv, [Next]_vars
             PROVE  ServiceInv'
  OBVIOUS
<1>1. CASE Next
  BY <1>1, TypeStep, FilesStep, RestartStep, DoctorKeeps, DoctorStep, WizardKeeps, SavedStep
     DEF ServiceInv
<1>2. CASE UNCHANGED vars
  <2>1. /\ UNCHANGED <<config, secret, binary, unit, meddled, loaded, enabled, started, agent>>
        /\ UNCHANGED <<step, said, edit, tested, fetched, healthy>>
    BY <1>2 DEF vars, fileVars, systemdVars, commandVars
  <2>2. TypeInv'
    BY TypeStep DEF ServiceInv
  <2>3. FilesInv' /\ AgentInv'
    BY <2>1 DEF ServiceInv, FilesInv, AgentInv, InPlace
  <2>4. RestartTookEffect'
    BY <2>1 DEF ServiceInv, RestartTookEffect, Launched
  <2>5. DoctorInv' /\ DoctorIsRight'
    BY <2>1 DEF ServiceInv, DoctorInv, DoctorIsRight, IsServer, Boots, SecretsSecure
  <2>6. WizardInv' /\ TestedIsSaved'
    BY <2>1 DEF ServiceInv, WizardInv, TestedIsSaved
  <2> QED
    BY <2>2, <2>3, <2>4, <2>5, <2>6 DEF ServiceInv
<1> QED
  BY <1>1, <1>2

(* The files, the service and the running command keep their types          *)
(* (internal/cli, internal/config).                                         *)
THEOREM TypeCorrect == Spec => []TypeOK
<1>1. ServiceInv => TypeOK
  BY DEF ServiceInv, TypeInv, FilesTyped, SystemdTyped, CommandTyped, TypeOK
<1> QED
  BY <1>1, ServiceStart, ServiceStep, PTL DEF Spec

(* Wherever init server, init integrations, upgrade or doctor is cut short, *)
(* the binary is a verified one, the secret files are in place, and only    *)
(* the names init server does not check can keep the configuration from     *)
(* passing the checks of boot (init.go:269, init.go:672, config.go).        *)
THEOREM BootCorrect == Spec => []NextBootSucceeds
<1>1. ServiceInv => NextBootSucceeds
  BY DEF ServiceInv, TypeInv, FilesTyped, FilesInv, NextBootSucceeds
<1> QED
  BY <1>1, ServiceStart, ServiceStep, PTL DEF Spec

(* doctor says "all good" only of files the agent boots from and, when it   *)
(* saw the service of a server active, only when systemd keeps it running   *)
(* (doctor.go:48, doctor.go:129-156).                                       *)
THEOREM DoctorCorrect == Spec => []DoctorIsRight
<1>1. ServiceInv => DoctorIsRight
  BY DEF ServiceInv
<1> QED
  BY <1>1, ServiceStart, ServiceStep, PTL DEF Spec

(* A restart that a command reports has taken effect: binary, configuration *)
(* and the unit systemd has loaded, the new one unless writing or reloading *)
(* it failed (upgrade.go:94-110, init.go:350).                              *)
THEOREM RestartCorrect == Spec => []RestartTookEffect
<1>1. ServiceInv => RestartTookEffect
  BY DEF ServiceInv
<1> QED
  BY <1>1, ServiceStart, ServiceStep, PTL DEF Spec

(* The connection the wizard tested is the one it saves (init.go:543).      *)
THEOREM SavedCorrect == Spec => []TestedIsSaved
<1>1. ServiceInv => TestedIsSaved
  BY DEF ServiceInv
<1> QED
  BY <1>1, ServiceStart, ServiceStep, PTL DEF Spec

===============================================================================
