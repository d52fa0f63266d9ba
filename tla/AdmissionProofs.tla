--------------------------- MODULE AdmissionProofs ---------------------------
(* What holds of Admission for any number of apps, keys, payloads, troubles,*)
(* commands, interruptions and jobs.                                        *)
EXTENDS Admission, FiniteSetTheorems, TLAPS

-------------------------------------------------------------------------------
(* The lists of checks.                                                     *)

Elements(checks) == {checks[i] : i \in DOMAIN checks}

(* A nonempty set of positions has a first one. *)
LEMMA Least ==
  ASSUME NEW S \in SUBSET (1..10), S # {}
  PROVE  \E i \in S : \A j \in S : i <= j
<1> DEFINE HasLeast(k) == (\E i \in S : i <= k) => \E i \in S : \A j \in S : i <= j
<1>1. HasLeast(1)
  OBVIOUS
<1>2. ASSUME NEW k \in 1..9, HasLeast(k)
      PROVE  HasLeast(k + 1)
  BY <1>2
<1>3. HasLeast(10)
  <2> HIDE DEF HasLeast
  <2>1. HasLeast(1 + 1) /\ HasLeast(2 + 1) /\ HasLeast(3 + 1)
    <3>1. HasLeast(2)
      BY <1>1, <1>2
    <3>2. HasLeast(3)
      BY <3>1, <1>2
    <3> QED
      BY <3>1, <3>2, <1>2
  <2>2. HasLeast(4 + 1) /\ HasLeast(5 + 1) /\ HasLeast(6 + 1)
    <3>1. HasLeast(5)
      BY <2>1, <1>2
    <3>2. HasLeast(6)
      BY <3>1, <1>2
    <3> QED
      BY <3>1, <3>2, <1>2
  <2>3. HasLeast(8)
    BY <2>2, <1>2
  <2>4. HasLeast(9)
    BY <2>3, <1>2
  <2> QED
    BY <2>4, <1>2
<1>4. \E i \in S : i <= 10
  <2>1. PICK i : i \in S
    OBVIOUS
  <2>2. i <= 10
    BY <2>1
  <2> QED
    BY <2>1, <2>2
<1> QED
  BY <1>3, <1>4

(* FirstOf is None when no check fails, and else one that does. *)
LEMMA FirstOfChecks ==
  ASSUME NEW checks, DOMAIN checks \subseteq 1..10, NEW failing, None \notin Elements(checks)
  PROVE  /\ FirstOf(checks, failing) = None => Elements(checks) \cap failing = {}
         /\ FirstOf(checks, failing) # None =>
              FirstOf(checks, failing) \in Elements(checks) \cap failing
<1> DEFINE hits == {i \in DOMAIN checks : checks[i] \in failing}
           first == CHOOSE i \in hits : \A j \in hits : i <= j
<1>1. CASE hits = {}
  <2>1. FirstOf(checks, failing) = None
    BY <1>1 DEF FirstOf
  <2> QED
    BY <1>1, <2>1 DEF Elements
<1>2. CASE hits # {}
  <2>1. first \in hits
    <3>1. \E i \in hits : \A j \in hits : i <= j
      <4> HIDE DEF hits
      <4>1. hits \in SUBSET (1..10)
        BY DEF hits
      <4> QED
        BY <1>2, <4>1, Least
    <3> QED
      BY <3>1
  <2>2. FirstOf(checks, failing) = checks[first]
    BY <1>2 DEF FirstOf
  <2> HIDE DEF first
  <2> QED
    BY <2>1, <2>2 DEF Elements
<1> QED
  BY <1>1, <1>2

AdmitDeploy ==
  {"audience", "expired", "state", "replay_seq", "repository", "policy", "env_base", "protected"}
AdmitPreflight ==
  {"audience", "expired", "repository", "policy", "compose_unavailable", "disk_full",
   "env_base", "protected"}
MergeCodes == {"protected", "secret", "required", "value"}
BuildDeploy ==
  MergeCodes \cup {"image", "app_intent", "proxy_no_port", "port_exhausted", "registry"}
BuildPreflight ==
  MergeCodes \cup {"proxy_no_port", "port_exhausted", "port_conflict", "proxy_unconfigured",
                   "proxy_unreachable", "dns_unconfigured"}

LEMMA AdmitLists ==
  /\ DOMAIN AdmitChecks \subseteq 1..10
  /\ Elements(AdmitChecks) = IF phase = "deploy" THEN AdmitDeploy ELSE AdmitPreflight
<1>1. DOMAIN AdmitChecks = 1..8
  BY DEF AdmitChecks
<1>2. CASE phase = "deploy"
  <2>1. /\ AdmitChecks[1] = "audience" /\ AdmitChecks[2] = "expired"
        /\ AdmitChecks[3] = "state" /\ AdmitChecks[4] = "replay_seq"
        /\ AdmitChecks[5] = "repository" /\ AdmitChecks[6] = "policy"
        /\ AdmitChecks[7] = "env_base" /\ AdmitChecks[8] = "protected"
    BY <1>2 DEF AdmitChecks
  <2> QED
    BY <1>1, <1>2, <2>1 DEF Elements, AdmitDeploy
<1>3. CASE phase # "deploy"
  <2>1. /\ AdmitChecks[1] = "audience" /\ AdmitChecks[2] = "expired"
        /\ AdmitChecks[3] = "repository" /\ AdmitChecks[4] = "policy"
        /\ AdmitChecks[5] = "compose_unavailable" /\ AdmitChecks[6] = "disk_full"
        /\ AdmitChecks[7] = "env_base" /\ AdmitChecks[8] = "protected"
    BY <1>3 DEF AdmitChecks
  <2> QED
    BY <1>1, <1>3, <2>1 DEF Elements, AdmitPreflight
<1> QED
  BY <1>1, <1>2, <1>3

LEMMA BuildLists ==
  /\ DOMAIN BuildChecks \subseteq 1..10
  /\ Elements(BuildChecks) = IF phase = "deploy" THEN BuildDeploy ELSE BuildPreflight
<1>1. CASE phase = "deploy"
  <2>1. /\ DOMAIN BuildChecks = 1..9
        /\ BuildChecks[1] = "image" /\ BuildChecks[2] = "protected" /\ BuildChecks[3] = "secret"
        /\ BuildChecks[4] = "required" /\ BuildChecks[5] = "value" /\ BuildChecks[6] = "app_intent"
        /\ BuildChecks[7] = "proxy_no_port" /\ BuildChecks[8] = "port_exhausted"
        /\ BuildChecks[9] = "registry"
    BY <1>1 DEF BuildChecks
  <2> QED
    BY <1>1, <2>1 DEF Elements, BuildDeploy, MergeCodes
<1>2. CASE phase # "deploy"
  <2>1. /\ DOMAIN BuildChecks = 1..10
        /\ BuildChecks[1] = "protected" /\ BuildChecks[2] = "secret" /\ BuildChecks[3] = "required"
        /\ BuildChecks[4] = "value" /\ BuildChecks[5] = "proxy_no_port"
        /\ BuildChecks[6] = "port_exhausted" /\ BuildChecks[7] = "port_conflict"
        /\ BuildChecks[8] = "proxy_unconfigured" /\ BuildChecks[9] = "proxy_unreachable"
        /\ BuildChecks[10] = "dns_unconfigured"
    BY <1>2 DEF BuildChecks
  <2> QED
    BY <1>2, <2>1 DEF Elements, BuildPreflight, MergeCodes
<1> QED
  BY <1>1, <1>2

LEMMA CodesAreRefusals ==
  AdmitDeploy \cup AdmitPreflight \cup BuildDeploy \cup BuildPreflight \subseteq Refusals
BY DEF AdmitDeploy, AdmitPreflight, BuildDeploy, BuildPreflight, MergeCodes, Refusals, Troubles

(* The two uses of FirstOf. *)
LEMMA AdmitCode ==
  ASSUME NEW failing
  PROVE  LET code == FirstOf(AdmitChecks, failing)
             list == IF phase = "deploy" THEN AdmitDeploy ELSE AdmitPreflight
         IN  /\ code = None => list \cap failing = {}
             /\ code # None => code \in list \cap failing
<1>1. None \notin Elements(AdmitChecks)
  BY AdmitLists, CodesAreRefusals, AdmissionAssumption
<1> QED
  BY <1>1, AdmitLists, FirstOfChecks

LEMMA BuildCode ==
  ASSUME NEW failing
  PROVE  LET code == FirstOf(BuildChecks, failing)
             list == IF phase = "deploy" THEN BuildDeploy ELSE BuildPreflight
         IN  /\ code = None => list \cap failing = {}
             /\ code # None => code \in list \cap failing
<1>1. None \notin Elements(BuildChecks)
  BY BuildLists, CodesAreRefusals, AdmissionAssumption
<1> QED
  BY <1>1, BuildLists, FirstOfChecks

-------------------------------------------------------------------------------
(* The directory of apps.                                                   *)

Ops == [name : Names \cup {None}, to : Names \cup {None}, pin : Pins \cup {None},
        key : Keys \cup {None}, copy : Bases \cup {Broken}]

Misnamed(n) == dir[n] # None /\ dir[n].manifest # None /\ dir[n].manifest.name # n

(* A command holds the arguments its file operations use, and a manifest    *)
(* has the name of another directory only while an edit that renamed its    *)
(* app is under way, or once a command was interrupted.                     *)
DirTyped ==
  /\ dir \in [Names -> Services \cup {None}]
  /\ step \in {"idle", "mkdir", "manifest", "rename", "remove", "secret", "save"}
  /\ op \in Ops
  /\ commands \in Nat
  /\ interrupts \in Nat

OpFits ==
  /\ step # "idle" => op.name \in Names
  /\ step = "rename" => op.to \in Names
  /\ step \in {"rename", "mkdir", "manifest"} => op.pin \in Pins
  /\ step = "secret" => op.key \in Keys
  /\ step = "remove" => dir[op.name] # None

NamesFit ==
  interrupts = 0 =>
    \A n \in Names : Misnamed(n) => step \in {"mkdir", "manifest"} /\ op.name = n

DirInv == DirTyped /\ OpFits /\ NamesFit

LEMMA NewFiles ==
  /\ NoBase \in Bases
  /\ \A a \in Apps : Bare(a) \in Services
  /\ NoOp \in Ops
  /\ None \notin Services
  /\ \A n \in Names, p \in Pins : Accepted(n, p) \in Services
  /\ \A n \in Names : Secret(n) \in Entries
  /\ Supplied \in Entries
<1>1. NoBase \in Bases
  BY DEF NoBase, Bases
<1>2. \A a \in Apps : Bare(a) \in Services
  BY <1>1 DEF Bare, Services
<1>3. NoOp \in Ops
  BY <1>1 DEF NoOp, Ops
<1>4. None \notin Services
  BY DirectoryAssumption DEF Apps
<1>5. ASSUME NEW n \in Names, NEW p \in Pins
      PROVE  Accepted(n, p) \in Services
  BY <1>1 DEF Accepted, Bare, Services, Manifests, Apps
<1>6. \A n \in Names : Secret(n) \in Entries
  BY DEF Secret, Entries
<1>7. Supplied \in Entries
  BY DEF Supplied, Entries
<1> QED
  BY <1>1, <1>2, <1>3, <1>4, <1>5, <1>6, <1>7

LEMMA SecretLoads ==
  ASSUME NEW n \in Names, NEW p \in Pins, NEW k \in Keys, NEW d \in Names
  PROVE  WithSecret(n, p, k, d) \in Services /\ WithSecret(n, p, k, d).manifest.name = n
<1> DEFINE a == Accepted(n, p)
<1>1. /\ a \in Services
      /\ a.manifest.name = n
      /\ a.base \in Bases
  BY NewFiles DEF Accepted, Bare, Services
<1>2. [a.base EXCEPT ![k] = Secret(d)] \in Bases
  BY <1>1, NewFiles DEF Bases
<1>3. WithSecret(n, p, k, d) = [a EXCEPT !.base[k] = Secret(d), !.secrets = {k}]
  BY DEF WithSecret
<1> HIDE DEF a
<1> QED
  BY <1>1, <1>2, <1>3 DEF Services

LEMMA FirstAppsLoad ==
  ASSUME NEW n \in Names, NEW s \in FirstApps(n)
  PROVE  s \in Services /\ s.manifest.name = n
<1>1. PICK p \in Pins :
        \/ s = Accepted(n, p)
        \/ \E k \in Keys : s = [Accepted(n, p) EXCEPT !.base[k] = Supplied]
        \/ \E k \in Keys : s = WithSecret(n, p, k, n)
  BY DEF FirstApps
<1> DEFINE a == Accepted(n, p)
<1>2. /\ a \in Services
      /\ a.manifest.name = n
      /\ a.base \in Bases
  BY NewFiles DEF Accepted, Bare, Services
<1>3. ASSUME NEW k \in Keys, s = [a EXCEPT !.base[k] = Supplied]
      PROVE  s \in Services /\ s.manifest.name = n
  <2>1. [a.base EXCEPT ![k] = Supplied] \in Bases
    BY <1>2, NewFiles DEF Bases
  <2> HIDE DEF a
  <2> QED
    BY <1>2, <1>3, <2>1 DEF Services
<1> QED
  BY <1>1, <1>2, <1>3, SecretLoads

LEMMA DirStart ==
  DirectoryInit => DirInv
<1> SUFFICES ASSUME DirectoryInit
             PROVE  DirInv
  OBVIOUS
<1>1. step = "idle" /\ op \in Ops /\ commands \in Nat /\ interrupts \in Nat
  BY NewFiles DEF DirectoryInit
<1>2. /\ dir \in [Names -> Services \cup {None}]
      /\ \A n \in Names : ~Misnamed(n)
  <2>1. CASE dir = Empty
    BY <2>1 DEF Empty, Misnamed
  <2>2. ASSUME NEW n \in Names, NEW s \in FirstApps(n), dir = [Empty EXCEPT ![n] = s]
        PROVE  /\ dir \in [Names -> Services \cup {None}]
               /\ \A m \in Names : ~Misnamed(m)
    <3>1. s \in Services /\ s.manifest.name = n
      BY FirstAppsLoad
    <3> QED
      BY <2>2, <3>1 DEF Empty, Misnamed
  <2>3. ASSUME NEW n \in Names, NEW p \in Pins, NEW q \in Pins, NEW k \in Keys,
               NEW m \in Names \ {n}, NEW d \in Names,
               dir = [Empty EXCEPT ![n] = WithSecret(n, p, k, n), ![m] = WithSecret(m, q, k, d)]
        PROVE  /\ dir \in [Names -> Services \cup {None}]
               /\ \A a \in Names : ~Misnamed(a)
    <3>1. /\ WithSecret(n, p, k, n) \in Services /\ WithSecret(n, p, k, n).manifest.name = n
          /\ WithSecret(m, q, k, d) \in Services /\ WithSecret(m, q, k, d).manifest.name = m
      BY SecretLoads
    <3> QED
      BY <2>3, <3>1 DEF Empty, Misnamed
  <2> QED
    BY <2>1, <2>2, <2>3 DEF DirectoryInit
<1> QED
  BY <1>1, <1>2 DEF DirInv, DirTyped, OpFits, NamesFit

(* A command that starts has its arguments, and changes no directory. *)
LEMMA DirCommand ==
  ASSUME DirInv, NEW first, NEW o, Start(first, o),
         first \in {"mkdir", "rename", "remove", "secret", "save"}, o \in Ops, o.name \in Names,
         first = "rename" => o.to \in Names,
         first \in {"rename", "mkdir"} => o.pin \in Pins,
         first = "secret" => o.key \in Keys,
         first = "remove" => dir[o.name] # None
  PROVE  DirInv'
<1>1. /\ step = "idle" /\ step' = first /\ op' = o
      /\ commands' = commands + 1
      /\ UNCHANGED <<dir, interrupts>>
  BY DEF Start
<1>2. DirTyped'
  BY <1>1 DEF DirInv, DirTyped
<1>3. OpFits'
  BY <1>1 DEF OpFits
<1>4. NamesFit'
  BY <1>1 DEF DirInv, NamesFit, Misnamed
<1> QED
  BY <1>2, <1>3, <1>4 DEF DirInv

LEMMA CommandKeepsDirInv ==
  ASSUME DirInv, Command
  PROVE  DirInv'
<1>0. /\ NoBase \in Bases /\ NoOp \in Ops
      /\ dir \in [Names -> Services \cup {None}]
      /\ \A n \in Names : BaseOf(n) # Broken => BaseOf(n) \in Bases
  BY NewFiles DEF DirInv, DirTyped, BaseOf, Services
<1>1. PICK n \in Names :
        \/ \E p \in Pins : Add(n, p)
        \/ \E to \in Names, p \in Pins : Edit(n, to, p)
        \/ Remove(n)
        \/ \E k \in Keys, protected \in BOOLEAN : Set(n, k, protected)
        \/ \E k \in Keys : SetSecret(n, k)
        \/ SetBadKey(n)
        \/ \E k \in Keys : Unset(n, k)
  BY DEF Command
<1>2. ASSUME NEW p \in Pins, Add(n, p)
      PROVE  DirInv'
  <2> DEFINE o == [NoOp EXCEPT !.name = n, !.pin = p]
  <2>1. o \in Ops /\ o.name \in Names /\ o.pin \in Pins
    BY <1>0 DEF NoOp, Ops
  <2>2. Start("mkdir", o)
    BY <1>2 DEF Add
  <2> HIDE DEF o
  <2> QED
    BY <2>1, <2>2, DirCommand
<1>3. ASSUME NEW to \in Names, NEW p \in Pins, Edit(n, to, p)
      PROVE  DirInv'
  <2> DEFINE o == [NoOp EXCEPT !.name = n, !.to = to, !.pin = p]
  <2>1. o \in Ops /\ o.name \in Names /\ o.to \in Names /\ o.pin \in Pins
    BY <1>0 DEF NoOp, Ops
  <2>2. Start("mkdir", o) \/ Start("rename", o)
    BY <1>3 DEF Edit
  <2> HIDE DEF o
  <2> QED
    BY <2>1, <2>2, DirCommand
<1>4. ASSUME Remove(n)
      PROVE  DirInv'
  <2> DEFINE o == [NoOp EXCEPT !.name = n]
  <2>1. o \in Ops /\ o.name \in Names /\ dir[o.name] # None
    BY <1>0, <1>4 DEF NoOp, Ops, Remove
  <2>2. Start("remove", o)
    BY <1>4 DEF Remove
  <2> HIDE DEF o
  <2> QED
    BY <2>1, <2>2, DirCommand
<1>5. ASSUME NEW k \in Keys, NEW protected \in BOOLEAN, Set(n, k, protected)
      PROVE  DirInv'
  <2> DEFINE e == [source |-> "file", protected |-> protected, required |-> FALSE]
             b == [BaseOf(n) EXCEPT ![k] = e]
             o == [NoOp EXCEPT !.name = n, !.copy = b]
  <2>1. b \in Bases
    <3>1. BaseOf(n) \in Bases
      BY <1>0, <1>5 DEF Set
    <3>2. e \in Entries
      BY DEF Entries
    <3> QED
      BY <3>1, <3>2 DEF Bases
  <2>2. Start("save", o)
    BY <1>5 DEF Set
  <2>3. o \in Ops /\ o.name \in Names
    <3> HIDE DEF b
    <3> QED
      BY <1>0, <2>1 DEF NoOp, Ops
  <2> HIDE DEF o
  <2> QED
    BY <2>2, <2>3, DirCommand
<1>6. ASSUME NEW k \in Keys, SetSecret(n, k)
      PROVE  DirInv'
  <2> DEFINE b == [BaseOf(n) EXCEPT ![k] = Secret(n)]
             o == [NoOp EXCEPT !.name = n, !.key = k, !.copy = b]
  <2>1. b \in Bases
    <3>1. BaseOf(n) \in Bases
      BY <1>0, <1>6 DEF SetSecret
    <3> QED
      BY <3>1, NewFiles DEF Bases
  <2>2. Start("secret", o)
    BY <1>6 DEF SetSecret
  <2>3. o \in Ops /\ o.name \in Names /\ o.key \in Keys
    <3> HIDE DEF b
    <3> QED
      BY <1>0, <2>1 DEF NoOp, Ops
  <2> HIDE DEF o
  <2> QED
    BY <2>2, <2>3, DirCommand
<1>7. ASSUME SetBadKey(n)
      PROVE  DirInv'
  <2> DEFINE o == [NoOp EXCEPT !.name = n, !.copy = Broken]
  <2>1. o \in Ops /\ o.name \in Names
    BY <1>0 DEF NoOp, Ops
  <2>2. Start("save", o)
    BY <1>7 DEF SetBadKey
  <2> HIDE DEF o
  <2> QED
    BY <2>1, <2>2, DirCommand
<1>8. ASSUME NEW k \in Keys, Unset(n, k)
      PROVE  DirInv'
  <2> DEFINE b == [BaseOf(n) EXCEPT ![k] = None]
             o == [NoOp EXCEPT !.name = n, !.copy = b]
  <2>1. b \in Bases
    BY <1>0, <1>8 DEF Unset, Bases
  <2>2. Start("save", o)
    BY <1>8 DEF Unset
  <2>3. o \in Ops /\ o.name \in Names
    <3> HIDE DEF b
    <3> QED
      BY <1>0, <2>1 DEF NoOp, Ops
  <2> HIDE DEF o
  <2> QED
    BY <2>2, <2>3, DirCommand
<1> QED
  BY <1>1, <1>2, <1>3, <1>4, <1>5, <1>6, <1>7, <1>8

(* A file operation: op and interrupts stay, or the command ends. *)
LEMMA ThenKeepsOp ==
  ASSUME DirInv, NEW next \in {"idle", "mkdir", "manifest", "remove", "save"}, Then(next),
         step # "idle",
         dir' \in [Names -> Services \cup {None}],
         next \in {"mkdir", "manifest"} => step \in {"rename", "mkdir"},
         next = "remove" => dir'[op.name] # None
  PROVE  /\ DirTyped' /\ OpFits'
         /\ step' = next /\ interrupts' = interrupts
         /\ next # "idle" => op' = op
<1>1. /\ step' = next /\ interrupts' = interrupts /\ commands' = commands
      /\ op' = IF next = "idle" THEN NoOp ELSE op
  BY DEF Then
<1>2. DirTyped'
  BY <1>1, NewFiles DEF DirInv, DirTyped
<1>3. OpFits'
  BY <1>1 DEF DirInv, OpFits
<1> QED
  BY <1>1, <1>2, <1>3

LEMMA PutTyped ==
  ASSUME DirInv, NEW n \in Names, NEW s \in Services \cup {None}, Put(n, s)
  PROVE  /\ dir' \in [Names -> Services \cup {None}]
         /\ dir'[n] = s
         /\ \A m \in Names \ {n} : dir'[m] = dir[m]
BY DEF Put, DirInv, DirTyped

LEMMA FileOperationKeepsDirInv ==
  ASSUME DirInv, FileOperation
  PROVE  DirInv'
<1>0. /\ dir \in [Names -> Services \cup {None}]
      /\ op \in Ops /\ commands \in Apps
      /\ step # "idle" => op.name \in Names
  BY DEF DirInv, DirTyped, OpFits, Apps
<1>1. ASSUME Rename
      PROVE  DirInv'
  <2>0. /\ op.name \in Names /\ op.to \in Names /\ op.pin \in Pins
        /\ step = "rename" /\ step' = "mkdir"
        /\ dir[op.to] = None
        /\ dir' = [dir EXCEPT ![op.to] = dir[op.name], ![op.name] = None]
        /\ op' = [op EXCEPT !.name = op.to]
        /\ interrupts' = interrupts /\ commands' = commands
    BY <1>0, <1>1 DEF Rename, DirInv, OpFits
  <2>1. op' \in Ops /\ op'.name = op.to /\ op'.pin = op.pin
    BY <1>0, <2>0 DEF Ops
  <2>2. /\ dir' \in [Names -> Services \cup {None}]
        /\ \A m \in Names \ {op.to} : dir'[m] = dir[m] \/ dir'[m] = None
    BY <1>0, <2>0
  <2>3. DirTyped'
    BY <2>0, <2>1, <2>2 DEF DirInv, DirTyped
  <2>4. OpFits'
    BY <2>0, <2>1 DEF OpFits
  <2>5. NamesFit'
    BY <2>0, <2>1, <2>2 DEF NamesFit, DirInv, Misnamed
  <2> QED
    BY <2>3, <2>4, <2>5 DEF DirInv
<1>2. ASSUME RenameRefused
      PROVE  DirInv'
  <2>1. DirTyped' /\ OpFits' /\ interrupts' = interrupts /\ dir' = dir /\ step = "rename"
    BY <1>0, <1>2, ThenKeepsOp DEF RenameRefused
  <2> QED
    BY <2>1 DEF DirInv, NamesFit, Misnamed
<1>3. ASSUME RenameDeclined
      PROVE  DirInv'
  <2>1. DirTyped' /\ OpFits' /\ interrupts' = interrupts /\ dir' = dir /\ step = "rename"
    BY <1>0, <1>3, ThenKeepsOp DEF RenameDeclined
  <2> QED
    BY <2>1 DEF DirInv, NamesFit, Misnamed
<1>4. ASSUME MakeDir
      PROVE  DirInv'
  <2>0. step = "mkdir" /\ op.name \in Names
    BY <1>0, <1>4 DEF MakeDir
  <2>1. /\ dir' \in [Names -> Services \cup {None}]
        /\ \A m \in Names : dir'[m] = dir[m] \/ dir'[m] = Bare(commands)
    <3>1. CASE dir[op.name] = None
      <4>1. Put(op.name, Bare(commands)) /\ Bare(commands) \in Services
        BY <1>0, <1>4, <3>1, NewFiles DEF MakeDir
      <4> QED
        BY <4>1, <2>0, PutTyped
    <3>2. CASE dir[op.name] # None
      BY <1>0, <1>4, <3>2 DEF MakeDir
    <3> QED
      BY <3>1, <3>2
  <2>2. DirTyped' /\ OpFits' /\ step' = "manifest" /\ interrupts' = interrupts /\ op' = op
    BY <1>4, <2>0, <2>1, ThenKeepsOp DEF MakeDir
  <2>3. Bare(commands).manifest = None
    BY DEF Bare
  <2>4. NamesFit'
    BY <2>0, <2>1, <2>2, <2>3 DEF DirInv, NamesFit, Misnamed
  <2> QED
    BY <2>2, <2>4 DEF DirInv
<1>5. ASSUME WriteManifest
      PROVE  DirInv'
  <2> DEFINE man == [name |-> op.name, pin |-> op.pin]
             s == [dir[op.name] EXCEPT !.manifest = man]
  <2>0. step = "manifest" /\ op.name \in Names /\ op.pin \in Pins /\ dir[op.name] \in Services
    BY <1>0, <1>5 DEF WriteManifest, DirInv, OpFits
  <2>1. s \in Services /\ s.manifest.name = op.name
    <3>1. man \in Manifests /\ man.name = op.name
      BY <2>0 DEF Manifests
    <3> HIDE DEF man
    <3> QED
      BY <2>0, <3>1 DEF Services
  <2>2. /\ dir' \in [Names -> Services \cup {None}]
        /\ dir'[op.name] = s
        /\ \A m \in Names \ {op.name} : dir'[m] = dir[m]
    <3>1. Put(op.name, s)
      BY <1>5 DEF WriteManifest
    <3> HIDE DEF s
    <3> QED
      BY <2>0, <2>1, <3>1, PutTyped
  <2>3. DirTyped' /\ OpFits' /\ step' = "idle" /\ interrupts' = interrupts
    BY <1>5, <2>0, <2>2, ThenKeepsOp DEF WriteManifest
  <2>4. NamesFit'
    <3> HIDE DEF s
    <3> QED
      BY <2>0, <2>1, <2>2, <2>3 DEF DirInv, NamesFit, Misnamed
  <2> QED
    BY <2>3, <2>4 DEF DirInv
<1>6. ASSUME RemoveFile
      PROVE  DirInv'
  <2>0. step = "remove" /\ op.name \in Names /\ dir[op.name] \in Services
    BY <1>0, <1>6 DEF RemoveFile, DirInv, OpFits
  <2> DEFINE d == dir[op.name]
  <2>1. PICK s \in {[d EXCEPT !.manifest = None], [d EXCEPT !.base = NoBase],
                    [d EXCEPT !.secrets = {}]} : Put(op.name, s)
    BY <1>6 DEF RemoveFile
  <2>2. s \in Services /\ (s.manifest = None \/ s.manifest = d.manifest)
    <3>1. d \in Services
      BY <2>0
    <3> HIDE DEF d
    <3> QED
      BY <2>1, <3>1, NewFiles DEF Services
  <2>3. /\ dir' \in [Names -> Services \cup {None}]
        /\ dir'[op.name] = s
        /\ \A m \in Names \ {op.name} : dir'[m] = dir[m]
    BY <2>0, <2>1, <2>2, PutTyped
  <2>4. dir'[op.name] # None
    BY <2>2, <2>3, NewFiles
  <2>5. DirTyped' /\ OpFits' /\ step' = "remove" /\ interrupts' = interrupts
    BY <1>6, <2>0, <2>3, <2>4, ThenKeepsOp DEF RemoveFile
  <2>6. NamesFit'
    BY <2>0, <2>2, <2>3, <2>5, NewFiles DEF DirInv, NamesFit, Misnamed
  <2> QED
    BY <2>5, <2>6 DEF DirInv
<1>7. ASSUME RemoveDir
      PROVE  DirInv'
  <2>1. step = "remove" /\ op.name \in Names /\ Put(op.name, None)
    BY <1>0, <1>7 DEF RemoveDir
  <2>2. /\ dir' \in [Names -> Services \cup {None}]
        /\ dir'[op.name] = None
        /\ \A m \in Names \ {op.name} : dir'[m] = dir[m]
    BY <2>1, PutTyped
  <2>3. DirTyped' /\ OpFits' /\ interrupts' = interrupts
    BY <1>7, <2>1, <2>2, ThenKeepsOp DEF RemoveDir
  <2> QED
    BY <2>1, <2>2, <2>3 DEF DirInv, NamesFit, Misnamed
<1>8. ASSUME WriteSecret
      PROVE  DirInv'
  <2> DEFINE d == IF dir[op.name] = None THEN Bare(commands) ELSE dir[op.name]
             s == [d EXCEPT !.secrets = @ \cup {op.key}]
  <2>0. step = "secret" /\ op.name \in Names /\ op.key \in Keys
    BY <1>0, <1>8 DEF WriteSecret, DirInv, OpFits
  <2>1. d \in Services /\ (d.manifest = None \/ d = dir[op.name])
    BY <1>0, <2>0, NewFiles DEF Bare
  <2>2. s \in Services /\ s.manifest = d.manifest
    <3> HIDE DEF d
    <3> QED
      BY <2>0, <2>1 DEF Services
  <2>3. Put(op.name, s)
    BY <1>8 DEF WriteSecret
  <2>4. /\ dir' \in [Names -> Services \cup {None}]
        /\ dir'[op.name] = s
        /\ \A m \in Names \ {op.name} : dir'[m] = dir[m]
    <3> HIDE DEF s
    <3> QED
      BY <2>0, <2>2, <2>3, PutTyped
  <2>5. DirTyped' /\ OpFits' /\ step' = "save" /\ interrupts' = interrupts
    BY <1>8, <2>0, <2>4, ThenKeepsOp DEF WriteSecret
  <2>6. NamesFit'
    <3> HIDE DEF s, d
    <3> QED
      BY <2>0, <2>1, <2>2, <2>4, <2>5, NewFiles DEF DirInv, NamesFit, Misnamed
  <2> QED
    BY <2>5, <2>6 DEF DirInv
<1>9. ASSUME Save
      PROVE  DirInv'
  <2> DEFINE s == [dir[op.name] EXCEPT !.base = op.copy]
  <2>0. step = "save" /\ op.name \in Names /\ dir[op.name] \in Services /\ Put(op.name, s)
    BY <1>0, <1>9 DEF Save
  <2>1. s \in Services /\ s.manifest = dir[op.name].manifest
    BY <1>0, <2>0 DEF Services, Ops
  <2>2. /\ dir' \in [Names -> Services \cup {None}]
        /\ dir'[op.name] = s
        /\ \A m \in Names \ {op.name} : dir'[m] = dir[m]
    <3> HIDE DEF s
    <3> QED
      BY <2>0, <2>1, PutTyped
  <2>3. DirTyped' /\ OpFits' /\ interrupts' = interrupts
    BY <1>9, <2>0, <2>2, ThenKeepsOp DEF Save
  <2>4. NamesFit'
    <3> HIDE DEF s
    <3> QED
      BY <2>0, <2>1, <2>2, <2>3, NewFiles DEF DirInv, NamesFit, Misnamed
  <2> QED
    BY <2>3, <2>4 DEF DirInv
<1>10. ASSUME SaveFails
       PROVE  DirInv'
  <2>1. DirTyped' /\ OpFits' /\ interrupts' = interrupts /\ dir' = dir /\ step = "save"
    BY <1>0, <1>10, ThenKeepsOp DEF SaveFails
  <2> QED
    BY <2>1 DEF DirInv, NamesFit, Misnamed
<1> QED
  BY <1>1, <1>2, <1>3, <1>4, <1>5, <1>6, <1>7, <1>8, <1>9, <1>10 DEF FileOperation

LEMMA DirectoryKeepsDirInv ==
  ASSUME DirInv, DirectoryNext
  PROVE  DirInv'
<1>1. CASE Command
  BY <1>1, CommandKeepsDirInv
<1>2. CASE FileOperation
  BY <1>2, FileOperationKeepsDirInv
<1>3. CASE Interrupt
  <2>1. /\ step' = "idle" /\ op' = NoOp /\ dir' = dir /\ commands' = commands
        /\ interrupts \in Nat /\ interrupts' = interrupts + 1
    BY <1>3 DEF Interrupt, DirInv, DirTyped
  <2>2. DirTyped' /\ OpFits'
    BY <2>1, NewFiles DEF DirInv, DirTyped, OpFits
  <2>3. NamesFit'
    BY <2>1 DEF NamesFit
  <2> QED
    BY <2>2, <2>3 DEF DirInv
<1> QED
  BY <1>1, <1>2, <1>3 DEF DirectoryNext

(* A directory that a step leaves in its place is the same app's. *)
LEMMA AppStays ==
  ASSUME DirInv, DirectoryNext, NEW n \in Names, dir[n] # None, dir'[n] # None
  PROVE  dir'[n].app = dir[n].app
<1>0. /\ dir \in [Names -> Services \cup {None}]
      /\ step # "idle" => op.name \in Names
      /\ step = "rename" => op.to \in Names
      /\ dir[n] \in Services
  BY DEF DirInv, DirTyped, OpFits
<1>1. CASE UNCHANGED dir
  BY <1>1
<1>2. CASE Rename
  <2>1. n # op.to /\ n # op.name
    BY <1>0, <1>2 DEF Rename
  <2> QED
    BY <1>0, <1>2, <2>1 DEF Rename
<1>3. ASSUME NEW s, step # "idle", Put(op.name, s), s # None,
             dir[op.name] # None => s.app = dir[op.name].app
      PROVE  dir'[n].app = dir[n].app
  BY <1>0, <1>3 DEF Put
<1>4. CASE MakeDir
  <2>1. CASE dir[op.name] = None
    BY <1>0, <1>4, <2>1 DEF MakeDir, Put
  <2>2. CASE dir[op.name] # None
    BY <1>1, <1>4, <2>2 DEF MakeDir
  <2> QED
    BY <2>1, <2>2
<1>5. CASE WriteManifest \/ Save \/ RemoveFile \/ WriteSecret
  <2> DEFINE d == dir[op.name]
  <2>1. step # "idle" /\ (d = None \/ d \in Services)
    BY <1>0, <1>5 DEF WriteManifest, Save, RemoveFile, WriteSecret
  <2>2. CASE d = None
    BY <1>0, <1>5, <2>1, <2>2 DEF WriteManifest, Save, RemoveFile, WriteSecret, Put
  <2>3. CASE d # None
    <3>1. PICK s : Put(op.name, s) /\
                   \/ \E v : s = [d EXCEPT !.manifest = v]
                   \/ \E v : s = [d EXCEPT !.base = v]
                   \/ \E v : s = [d EXCEPT !.secrets = v]
      <4>1. CASE WriteManifest
        BY <4>1 DEF WriteManifest
      <4>2. CASE Save
        BY <4>2 DEF Save
      <4>3. CASE RemoveFile
        BY <4>3 DEF RemoveFile
      <4>4. CASE WriteSecret
        <5>1. Put(op.name, [d EXCEPT !.secrets = d.secrets \cup {op.key}])
          BY <2>1, <2>3, <4>4 DEF WriteSecret, Services
        <5> QED
          BY <5>1
      <4> QED
        BY <1>5, <4>1, <4>2, <4>3, <4>4
    <3>2. s.app = d.app
      <4>1. d \in Services
        BY <2>1, <2>3
      <4> HIDE DEF d
      <4> QED
        BY <3>1, <4>1 DEF Services
    <3> QED
      BY <1>0, <2>1, <3>1, <3>2 DEF Put
  <2> QED
    BY <2>2, <2>3
<1>6. CASE RemoveDir
  BY <1>0, <1>6 DEF RemoveDir, Put
<1>7. \/ UNCHANGED dir
      \/ Rename \/ MakeDir \/ WriteManifest \/ Save \/ RemoveFile \/ WriteSecret \/ RemoveDir
  <2>1. CASE Command
    BY <2>1 DEF Command, Add, Edit, Remove, Set, SetSecret, SetBadKey, Unset, Start
  <2>2. CASE FileOperation
    BY <2>2 DEF FileOperation, RenameRefused, RenameDeclined, SaveFails
  <2>3. CASE Interrupt
    BY <2>3 DEF Interrupt
  <2> QED
    BY <2>1, <2>2, <2>3 DEF DirectoryNext
<1> QED
  BY <1>1, <1>2, <1>4, <1>5, <1>6, <1>7

-------------------------------------------------------------------------------
(* A job.                                                                   *)

Jobs == [service : Names, pin : Payloads, overrides : SUBSET Keys, wrong : SUBSET Troubles]

JobTyped ==
  /\ at \in {"idle", "sent", "admitted", "checked", "deploying", "audit", "answered"}
  /\ phase \in {"preflight", "deploy"}
  /\ at = "idle" => job = NoJob /\ phase = "preflight"
  /\ at # "idle" => job \in Jobs
  /\ base \in Bases \cup {Broken}
  /\ env \in [Keys -> {"absent", "ci", "file"} \cup Names]
  /\ answer \in {None, "preflight_ok"} \cup Refusals \cup Outcomes
  /\ answer # None <=> at \in {"audit", "answered"}

(* The slot is set from a manifest that loads under the service's name. *)
SlotInv ==
  /\ at \in {"idle", "sent"} => slot = None
  /\ slot # None => slot = job.service

(* A key of the merged env is CI's only if CI gave it, and a secret of the  *)
(* service itself; the base it was merged with was read in this job, admits *)
(* CI's keys, and is still the service's while its directory is as it was.  *)
EnvInv ==
  /\ at \in {"idle", "sent", "admitted", "checked"} => env = NoEnv
  /\ \A k \in Keys : /\ env[k] = "ci" => k \in job.overrides
                     /\ env[k] \in Names => env[k] = job.service
  /\ at = "checked" \/ env # NoEnv =>
       /\ base \in Bases
       /\ job.overrides \cap Protected(base) = {}
       /\ quiet => base = BaseOf(job.service)

(* Until the env is merged, the directory the handler read is in its place  *)
(* or its loss was noticed; a secret in the env is of its app.              *)
OwnerInv ==
  ~handedOver =>
    /\ at \in {"admitted", "checked"} =>
         dir[job.service] # None /\ dir[job.service].app = app
    /\ \A k \in Keys : env[k] \in Names => owner[k] = app

(* What preflight has established once it answers "preflight_ok". *)
Passes ==
  LET n == job.service
      b == BaseOf(n)
  IN  /\ Loads(n) /\ Signed /\ Configured
      /\ job.pin.repo = dir[n].manifest.pin.repo
      /\ b \in Bases
      /\ job.overrides \cap Protected(b) = {}
      /\ MergeFailing(n, b, job.overrides) = {}
      /\ job.wrong \cap (AdmitPreflight \cup BuildPreflight) = {}

(* While nothing changes, what each step of preflight found still holds in  *)
(* the next, and all of it in the deploy.                                   *)
GreenInv ==
  quiet =>
    /\ at \in {"admitted", "checked"} =>
         Loads(job.service) /\ Signed /\ Configured /\ pinned = dir[job.service].manifest
    /\ at = "checked" /\ phase = "preflight" =>
         job.wrong \cap AdmitPreflight = {} /\ job.pin.repo = pinned.pin.repo
    /\ answer = "preflight_ok" \/ phase = "deploy" => Passes
    /\ phase = "deploy" /\ answer \in Refusals =>
         \/ answer \in {"state", "replay_seq", "image", "app_intent", "registry"}
         \/ answer = "port_exhausted" /\ "ports_unwritable" \in job.wrong

JobInv == JobTyped /\ SlotInv /\ EnvInv /\ OwnerInv /\ GreenInv

AdmissionInv == DirInv /\ JobInv

(* The strings that answers and sources are told apart by. *)
LEMMA Answers ==
  /\ None \notin Refusals \cup Outcomes \cup {"preflight_ok"}
  /\ None \notin Names
  /\ "preflight_ok" \notin Refusals \cup Outcomes
  /\ Outcomes \cap Refusals = {}
  /\ {"unknown", "misconfigured", "signature"} \subseteq Refusals
  /\ Names \cap {"file", "nowhere", "absent", "ci"} = {}
  /\ NoEnv \in [Keys -> {"absent", "ci", "file"} \cup Names]
  /\ \A k \in Keys : NoEnv[k] = "absent"
  /\ "repository" \notin Troubles
BY AdmissionAssumption, DirectoryAssumption DEF Refusals, Troubles, Outcomes, NoEnv, Apps

LEMMA AdmissionStart ==
  Init => AdmissionInv
<1> SUFFICES ASSUME Init
             PROVE  AdmissionInv
  OBVIOUS
<1>1. DirInv
  BY DirStart DEF Init
<1>2. JobTyped /\ SlotInv /\ EnvInv /\ OwnerInv
  BY Answers, NewFiles DEF Init, JobTyped, SlotInv, EnvInv, OwnerInv
<1>3. GreenInv
  BY Answers DEF Init, GreenInv
<1> QED
  BY <1>1, <1>2, <1>3 DEF AdmissionInv, JobInv

(* Where the directory and the job stay, so does what is said of them. *)
LEMMA SameDirectory ==
  ASSUME UNCHANGED <<dir, job>>
  PROVE  /\ \A n : BaseOf(n)' = BaseOf(n)
         /\ \A n : Loads(n)' = Loads(n)
         /\ Signed' = Signed /\ Configured' = Configured
         /\ Passes' = Passes
BY DEF BaseOf, Loads, Signed, Configured, Passes, MergeFailing, Resolves

(* The job ends, and the next one finds nothing of it. *)
LEMMA EndJobKeepsJobInv ==
  ASSUME JobInv, EndJob
  PROVE  JobInv'
<1>1. JobTyped' /\ SlotInv' /\ EnvInv' /\ OwnerInv'
  BY Answers, NewFiles DEF EndJob, Forget, JobTyped, SlotInv, EnvInv, OwnerInv
<1>2. GreenInv'
  BY Answers DEF EndJob, Forget, GreenInv
<1> QED
  BY <1>1, <1>2 DEF JobInv

LEMMA StartJobKeepsJobInv ==
  ASSUME JobInv, NEW n \in Names, NEW p \in Payloads, NEW overrides \in SUBSET Keys,
         NEW wrong \in Troubled, StartJob(n, p, overrides, wrong)
  PROVE  JobInv'
<1>1. /\ job' = [service |-> n, pin |-> p, overrides |-> overrides, wrong |-> wrong]
      /\ at = "idle" /\ at' = "sent"
      /\ UNCHANGED <<slot, pinned, base, env, answer, phase, quiet>>
  BY DEF StartJob, requestVars
<1>2. job' \in Jobs
  BY <1>1, AdmissionAssumption DEF Jobs, Troubled
<1>3. env = NoEnv /\ slot = None /\ answer = None /\ phase = "preflight"
  BY <1>1 DEF JobInv, JobTyped, SlotInv, EnvInv
<1>4. JobTyped' /\ SlotInv' /\ EnvInv' /\ OwnerInv'
  BY <1>1, <1>2, <1>3, Answers DEF JobInv, JobTyped, SlotInv, EnvInv, OwnerInv
<1>5. GreenInv'
  BY <1>1, <1>3, Answers DEF GreenInv
<1> QED
  BY <1>4, <1>5 DEF JobInv

LEMMA GoOnKeepsJobInv ==
  ASSUME JobInv, NEW wrong \in Troubled, GoOn(wrong)
  PROVE  JobInv'
<1>1. /\ job' = [job EXCEPT !.wrong = wrong]
      /\ at = "answered" /\ at' = "sent" /\ phase' = "deploy"
      /\ answer = "preflight_ok"
      /\ quiet' = (quiet /\ wrong = job.wrong)
      /\ Forget /\ UNCHANGED dir
  BY DEF GoOn, PreflightPassed, directoryVars
<1>2. job \in Jobs
  BY <1>1 DEF JobInv, JobTyped
<1>3. job' \in Jobs
  BY <1>1, <1>2, AdmissionAssumption DEF Jobs, Troubled
<1>4. JobTyped' /\ SlotInv' /\ EnvInv' /\ OwnerInv'
  BY <1>1, <1>3, Answers, NewFiles DEF JobTyped, SlotInv, EnvInv, OwnerInv, Forget
<1>5. ASSUME quiet'
      PROVE  Passes'
  <2>1. quiet /\ wrong = job.wrong
    BY <1>1, <1>5
  <2>2. job' = job
    BY <1>1, <1>2, <2>1 DEF Jobs
  <2>3. Passes
    BY <1>1, <2>1 DEF JobInv, GreenInv
  <2> QED
    BY <1>1, <2>2, <2>3, SameDirectory
<1>6. GreenInv'
  BY <1>1, <1>5, Answers DEF GreenInv, Forget
<1> QED
  BY <1>4, <1>6 DEF JobInv

LEMMA OperatorKeepsJobInv ==
  ASSUME AdmissionInv, Operator
  PROVE  JobInv'
<1>1. /\ UNCHANGED <<slot, pinned, app, base, env, owner, answer, job, phase, at>>
      /\ quiet' = (quiet /\ (at # "idle" => dir'[job.service] = dir[job.service]))
      /\ handedOver' = (handedOver \/ (at \in {"admitted", "checked"} /\ dir'[job.service] = None))
      /\ DirectoryNext
  BY DEF Operator, requestVars, jobVars
<1>2. JobTyped' /\ SlotInv'
  BY <1>1 DEF AdmissionInv, JobInv, JobTyped, SlotInv
<1>3. ASSUME quiet', at # "idle"
      PROVE  /\ quiet
             /\ BaseOf(job.service)' = BaseOf(job.service)
             /\ Loads(job.service)' = Loads(job.service)
             /\ Signed' = Signed /\ Configured' = Configured
             /\ dir'[job.service] = dir[job.service]
             /\ Passes' = Passes
  <2>1. quiet /\ dir'[job.service] = dir[job.service] /\ job' = job
    BY <1>1, <1>3
  <2>2. /\ BaseOf(job.service)' = BaseOf(job.service)
        /\ Loads(job.service)' = Loads(job.service)
        /\ Signed' = Signed /\ Configured' = Configured
    BY <2>1 DEF BaseOf, Loads, Signed, Configured
  <2>3. \A k, b : Resolves(job.service, k, b)' = Resolves(job.service, k, b)
    BY <2>1 DEF Resolves
  <2>4. Passes' = Passes
    BY <2>1, <2>2, <2>3 DEF Passes, MergeFailing
  <2> QED
    BY <2>1, <2>2, <2>4
<1>4. EnvInv'
  BY <1>1, <1>3 DEF AdmissionInv, JobInv, JobTyped, EnvInv, Protected
<1>5. GreenInv'
  <2>1. at = "idle" => phase = "preflight" /\ answer = None
    BY DEF AdmissionInv, JobInv, JobTyped
  <2> QED
    BY <1>1, <1>3, <2>1, Answers DEF AdmissionInv, JobInv, GreenInv
<1>6. OwnerInv'
  <2>1. ASSUME at \in {"admitted", "checked"}, ~handedOver'
        PROVE  dir'[job.service] # None /\ dir'[job.service].app = app
    <3>1. job.service \in Names /\ dir'[job.service] # None
      BY <1>1, <2>1 DEF AdmissionInv, JobInv, JobTyped, Jobs
    <3>2. dir[job.service] # None /\ dir[job.service].app = app
      BY <1>1, <2>1 DEF AdmissionInv, JobInv, OwnerInv
    <3> QED
      BY <1>1, <3>1, <3>2, AppStays DEF AdmissionInv
  <2> QED
    BY <1>1, <2>1 DEF AdmissionInv, JobInv, OwnerInv
<1> QED
  BY <1>2, <1>4, <1>5, <1>6 DEF JobInv

LEMMA AdmitKeepsJobInv ==
  ASSUME JobInv, Admit
  PROVE  JobInv'
<1> DEFINE n == job.service
<1>1. /\ at = "sent"
      /\ UNCHANGED <<dir, job, phase, base, env, owner, quiet, handedOver>>
      /\ slot = None /\ answer = None /\ env = NoEnv /\ job \in Jobs
  BY DEF Admit, directoryVars, jobVars, JobInv, JobTyped, SlotInv, EnvInv
<1>2. \/ /\ \E code \in {"unknown", "misconfigured", "signature"} : Refuse(code)
         /\ ~(Loads(n) /\ Signed /\ Configured)
      \/ /\ Loads(n) /\ Signed /\ Configured
         /\ pinned' = dir[n].manifest
         /\ app' = dir[n].app
         /\ slot' = dir[n].manifest.name
         /\ at' = "admitted"
         /\ UNCHANGED answer
  BY DEF Admit, Loads
<1>3. /\ Loads(n)' = Loads(n) /\ Signed' = Signed /\ Configured' = Configured
      /\ Passes' = Passes
  BY <1>1, SameDirectory
<1>4. quiet /\ phase = "deploy" => Loads(n) /\ Signed /\ Configured
  BY DEF JobInv, GreenInv, Passes
<1>5. CASE \E code \in {"unknown", "misconfigured", "signature"} : Refuse(code)
           /\ ~(Loads(n) /\ Signed /\ Configured)
  <2>1. PICK code \in {"unknown", "misconfigured", "signature"} : Refuse(code)
    BY <1>5
  <2>2. /\ answer' = code /\ at' = "answered" /\ slot' = None
        /\ answer' \in Refusals /\ answer' # "preflight_ok"
    BY <1>1, <2>1, Answers DEF Refuse
  <2>3. JobTyped' /\ SlotInv' /\ EnvInv' /\ OwnerInv'
    BY <1>1, <2>2, Answers DEF JobInv, JobTyped, SlotInv, EnvInv, OwnerInv
  <2>4. ~(quiet /\ phase = "deploy")
    BY <1>4, <1>5
  <2>5. GreenInv'
    BY <1>1, <2>2, <2>4 DEF GreenInv
  <2> QED
    BY <2>3, <2>5 DEF JobInv
<1>6. CASE /\ Loads(n) /\ Signed /\ Configured
           /\ pinned' = dir[n].manifest
           /\ app' = dir[n].app
           /\ slot' = dir[n].manifest.name
           /\ at' = "admitted"
           /\ UNCHANGED answer
  <2>1. slot' = job.service
    BY <1>6 DEF Loads
  <2>2. JobTyped' /\ SlotInv' /\ EnvInv' /\ OwnerInv'
    BY <1>1, <1>6, <2>1, Answers DEF JobInv, JobTyped, SlotInv, EnvInv, OwnerInv, Loads
  <2>3. GreenInv'
    BY <1>1, <1>3, <1>6, Answers DEF JobInv, GreenInv
  <2> QED
    BY <2>2, <2>3 DEF JobInv
<1> QED
  BY <1>2, <1>5, <1>6

LEMMA CheckKeepsJobInv ==
  ASSUME DirInv, JobInv, Check
  PROVE  JobInv'
<1> DEFINE n == job.service
           failing == AdmitFailing(BaseOf(n))
           code == FirstOf(AdmitChecks, failing)
           list == IF phase = "deploy" THEN AdmitDeploy ELSE AdmitPreflight
<1>1. /\ at = "admitted"
      /\ base' = BaseOf(n)
      /\ UNCHANGED <<dir, job, phase, slot, pinned, app, env, owner, quiet, handedOver>>
      /\ job \in Jobs /\ n \in Names /\ env = NoEnv /\ answer = None
  BY DEF Check, directoryVars, jobVars, JobInv, JobTyped, EnvInv, Jobs
<1>2. BaseOf(n) \in Bases \cup {Broken}
  BY <1>1, NewFiles DEF DirInv, DirTyped, BaseOf, Services
<1>3. /\ code = None => list \cap failing = {}
      /\ code # None => code \in list \cap failing
  <2> HIDE DEF failing
  <2> QED
    BY AdmitCode
<1>4. /\ BaseOf(n)' = BaseOf(n) /\ Loads(n)' = Loads(n)
      /\ Signed' = Signed /\ Configured' = Configured
      /\ Passes' = Passes
  BY <1>1, SameDirectory
<1>5. IF code # None THEN Result(code) ELSE at' = "checked" /\ UNCHANGED answer
  BY <1>1 DEF Check
<1>6. "env_base" \in list /\ "protected" \in list /\ "repository" \in list
      /\ (phase # "deploy" => list = AdmitPreflight)
  BY DEF AdmitDeploy, AdmitPreflight
<1>7. CASE code # None
  <2> HIDE DEF failing, code, list
  <2>1. /\ answer' = code /\ at' \in {"audit", "answered"}
        /\ code \in Refusals /\ code # "preflight_ok" /\ code # None
    <3>1. code \in Refusals
      BY <1>3, <1>7, CodesAreRefusals DEF list
    <3> QED
      BY <1>5, <1>7, <3>1, Answers DEF Result
  <2>2. JobTyped' /\ SlotInv' /\ EnvInv' /\ OwnerInv'
    BY <1>1, <1>2, <2>1, Answers DEF JobInv, JobTyped, SlotInv, EnvInv, OwnerInv
  <2>3. quiet /\ phase = "deploy" => code \in {"state", "replay_seq"}
    <3> SUFFICES ASSUME quiet, phase = "deploy"
                 PROVE  code \in {"state", "replay_seq"}
      OBVIOUS
    <3>1. Passes /\ pinned = dir[n].manifest
      BY <1>1 DEF JobInv, GreenInv
    <3>2. failing = job.wrong
      BY <3>1, DirectoryAssumption DEF failing, AdmitFailing, Passes
    <3>3. job.wrong \cap AdmitPreflight = {}
      BY <3>1 DEF Passes
    <3>4. code \in AdmitDeploy \cap job.wrong
      BY <1>3, <1>7, <3>2 DEF list
    <3>5. AdmitDeploy \ AdmitPreflight \subseteq {"state", "replay_seq"}
      BY DEF AdmitDeploy, AdmitPreflight
    <3> QED
      BY <3>3, <3>4, <3>5
  <2>4. GreenInv'
    BY <1>1, <1>4, <2>1, <2>3 DEF JobInv, GreenInv
  <2> QED
    BY <2>2, <2>4 DEF JobInv
<1>8. CASE code = None
  <2>1. /\ BaseOf(n) # Broken
        /\ job.overrides \cap Protected(BaseOf(n)) = {}
        /\ job.pin.repo = pinned.pin.repo
        /\ job.wrong \cap list = {}
    <3>1. "env_base" \notin failing /\ "protected" \notin failing /\ "repository" \notin failing
      <4> HIDE DEF failing, code, list
      <4> QED
        BY <1>3, <1>6, <1>8
    <3>2. job.wrong \cap list = {}
      BY <1>3, <1>8 DEF AdmitFailing
    <3>3. BaseOf(n) # Broken
      BY <3>1 DEF AdmitFailing
    <3> QED
      BY <3>1, <3>2, <3>3 DEF AdmitFailing
  <2> HIDE DEF failing, code, list
  <2>2. at' = "checked" /\ answer' = None
    BY <1>1, <1>5, <1>8
  <2>3. JobTyped' /\ SlotInv' /\ OwnerInv'
    BY <1>1, <1>2, <2>2, Answers DEF JobInv, JobTyped, SlotInv, EnvInv, OwnerInv
  <2>4. EnvInv'
    BY <1>1, <1>2, <1>4, <2>1, <2>2 DEF JobInv, EnvInv, Protected
  <2>5. GreenInv'
    BY <1>1, <1>4, <1>6, <2>1, <2>2, Answers DEF JobInv, GreenInv
  <2> QED
    BY <2>3, <2>4, <2>5 DEF JobInv
<1> QED
  BY <1>7, <1>8

LEMMA MergeKeepsJobInv ==
  ASSUME JobInv, Merge
  PROVE  JobInv'
<1> DEFINE n == job.service
           failing == BuildFailing(base)
           code == FirstOf(BuildChecks, failing)
           list == IF phase = "deploy" THEN BuildDeploy ELSE BuildPreflight
<1>1. /\ at = "checked"
      /\ UNCHANGED <<dir, job, phase, slot, pinned, app, base, quiet, handedOver>>
      /\ job \in Jobs /\ n \in Names /\ env = NoEnv /\ answer = None
      /\ base \in Bases /\ job.overrides \cap Protected(base) = {}
      /\ quiet => base = BaseOf(n)
  BY DEF Merge, directoryVars, jobVars, JobInv, JobTyped, EnvInv, Jobs
<1>2. /\ code = None => list \cap failing = {}
      /\ code # None => code \in list \cap failing
  <2> HIDE DEF failing
  <2> QED
    BY BuildCode
<1>3. /\ BaseOf(n)' = BaseOf(n) /\ Loads(n)' = Loads(n)
      /\ Signed' = Signed /\ Configured' = Configured
      /\ Passes' = Passes
  BY <1>1, SameDirectory
<1>4. \/ code # None /\ Result(code) /\ UNCHANGED <<env, owner>>
      \/ /\ code = None
         /\ env' = Merged(base, job.overrides) /\ owner' = Owners(env')
         /\ IF phase = "deploy"
            THEN at' = "deploying" /\ UNCHANGED answer
            ELSE Result("preflight_ok")
  BY <1>1 DEF Merge
<1>5. MergeFailing(n, base, job.overrides) \subseteq MergeCodes
      /\ MergeCodes \subseteq BuildDeploy \cap BuildPreflight
  BY DEF MergeFailing, MergeCodes, BuildDeploy, BuildPreflight
<1>6. CASE code # None /\ Result(code) /\ UNCHANGED <<env, owner>>
  <2> HIDE DEF failing, code, list
  <2>1. /\ answer' = code /\ at' \in {"audit", "answered"}
        /\ code \in Refusals /\ code # "preflight_ok" /\ code # None
    <3>1. code \in Refusals
      BY <1>2, <1>6, CodesAreRefusals DEF list
    <3> QED
      BY <1>6, <3>1, Answers DEF Result
  <2>2. JobTyped' /\ SlotInv' /\ EnvInv' /\ OwnerInv'
    BY <1>1, <1>6, <2>1, Answers DEF JobInv, JobTyped, SlotInv, EnvInv, OwnerInv
  <2>3. quiet /\ phase = "deploy" =>
          \/ code \in {"image", "app_intent", "registry"}
          \/ code = "port_exhausted" /\ "ports_unwritable" \in job.wrong
    <3> SUFFICES ASSUME quiet, phase = "deploy", code # "port_exhausted" \/ "ports_unwritable" \notin job.wrong
                 PROVE  code \in {"image", "app_intent", "registry"}
      OBVIOUS
    <3>1. Passes
      BY DEF JobInv, GreenInv
    <3>2. code \in failing => code \in job.wrong
      BY <1>1, <3>1 DEF failing, BuildFailing, Passes
    <3>3. job.wrong \cap BuildPreflight = {}
      BY <3>1 DEF Passes
    <3>4. code \in BuildDeploy \cap job.wrong
      BY <1>2, <1>6, <3>2 DEF list
    <3>5. BuildDeploy \ BuildPreflight \subseteq {"image", "app_intent", "registry"}
      BY DEF BuildDeploy, BuildPreflight
    <3> QED
      BY <3>3, <3>4, <3>5
  <2>4. GreenInv'
    BY <1>1, <1>3, <2>1, <2>3 DEF JobInv, GreenInv
  <2> QED
    BY <2>2, <2>4 DEF JobInv
<1>7. CASE /\ code = None
           /\ env' = Merged(base, job.overrides) /\ owner' = Owners(env')
           /\ IF phase = "deploy"
              THEN at' = "deploying" /\ UNCHANGED answer
              ELSE Result("preflight_ok")
  <2>1. list \cap failing = {}
    <3> HIDE DEF failing, code, list
    <3> QED
      BY <1>2, <1>7
  <2>2. MergeFailing(n, base, job.overrides) = {} /\ job.wrong \cap list = {}
    <3> HIDE DEF list, code
    <3> QED
      BY <1>5, <2>1 DEF BuildFailing, list
  <2> HIDE DEF failing, code, list
  <2>3. /\ at' \in {"deploying", "answered"}
        /\ answer' = None <=> at' = "deploying"
        /\ answer' \in {None, "preflight_ok"}
        /\ phase # "deploy" <=> answer' = "preflight_ok"
    BY <1>1, <1>7, Answers DEF Result, JobInv, JobTyped
  <2>4. \A k \in SecretKeys(base) : SecretDir(base[k]) = n
    BY <2>2 DEF MergeFailing, Resolves
  <2>5. ASSUME NEW k \in Keys
        PROVE  /\ env'[k] \in {"absent", "ci", "file"} \cup Names
               /\ env'[k] = "ci" => k \in job.overrides
               /\ env'[k] \in Names => env'[k] = n
    <3>0. env'[k] = IF k \in job.overrides THEN "ci"
                    ELSE IF k \in Supplies(base) THEN base[k].source ELSE "absent"
      BY <1>7 DEF Merged
    <3>1. CASE k \in job.overrides
      BY <3>0, <3>1, Answers
    <3>2. CASE k \notin job.overrides /\ k \in Supplies(base)
      <4>1. base[k] # None /\ base[k].source \in {"file"} \cup Names
        BY <1>1, <3>2 DEF Supplies, Bases, Entries
      <4>2. base[k].source \in Names => k \in SecretKeys(base) /\ SecretDir(base[k]) = base[k].source
        BY <4>1, Answers DEF SecretKeys, SecretDir
      <4> QED
        BY <2>4, <3>0, <3>2, <4>1, <4>2, Answers
    <3>3. CASE k \notin job.overrides /\ k \notin Supplies(base)
      BY <3>0, <3>3, Answers
    <3> QED
      BY <3>1, <3>2, <3>3
  <2>6. env' \in [Keys -> {"absent", "ci", "file"} \cup Names]
    <3>1. env' = [k \in Keys |-> env'[k]]
      BY <1>7 DEF Merged
    <3> QED
      BY <2>5, <3>1
  <2>7. JobTyped' /\ SlotInv'
    BY <1>1, <2>3, <2>6, Answers DEF JobInv, JobTyped, SlotInv
  <2>8. EnvInv'
    BY <1>1, <1>3, <2>3, <2>5 DEF EnvInv, Protected
  <2>9. phase # "deploy" /\ quiet => Passes
    <3> SUFFICES ASSUME phase # "deploy", quiet
                 PROVE  Passes
      OBVIOUS
    <3>1. /\ Loads(n) /\ Signed /\ Configured /\ pinned = dir[n].manifest
          /\ job.wrong \cap AdmitPreflight = {} /\ job.pin.repo = pinned.pin.repo
      BY <1>1 DEF JobInv, JobTyped, GreenInv
    <3>2. job.wrong \cap BuildPreflight = {}
      BY <2>2 DEF list
    <3> QED
      BY <1>1, <2>2, <3>1, <3>2 DEF Passes
  <2>10. GreenInv'
    BY <1>1, <1>3, <2>3, <2>9, Answers DEF JobInv, GreenInv
  <2>11. OwnerInv'
    <3>1. ~handedOver => dir[n] # None /\ dir[n].app = app
      BY <1>1 DEF JobInv, OwnerInv
    <3>2. \A k \in Keys : env'[k] \in Names /\ dir[n] # None => owner'[k] = dir[n].app
      BY <1>7, <2>5 DEF Owners
    <3> QED
      BY <1>1, <2>3, <3>1, <3>2 DEF OwnerInv
  <2> QED
    BY <2>7, <2>8, <2>10, <2>11 DEF JobInv
<1> QED
  BY <1>4, <1>6, <1>7

(* The steps that leave the directory, and what the job has found, alone. *)
LEMMA OtherStepsKeepJobInv ==
  ASSUME JobInv, Deploy \/ Audit \/ AppendFails \/ RefuseSpec
  PROVE  JobInv'
<1>1. UNCHANGED <<dir, job, phase, slot, pinned, app, base, env, owner, quiet, handedOver>>
  BY DEF Deploy, Audit, AppendFails, RefuseSpec, directoryVars, jobVars, requestVars
<1>2. \/ /\ at = "deploying" /\ at' \in {"audit", "answered"}
         /\ answer' \in Outcomes
      \/ /\ at = "audit" /\ at' = "answered"
         /\ UNCHANGED answer
      \/ UNCHANGED <<at, answer>>
  BY DEF Deploy, Audit, AppendFails, RefuseSpec, Result, requestVars
<1>3. /\ \A n : BaseOf(n)' = BaseOf(n)
      /\ Passes' = Passes
  BY <1>1, SameDirectory
<1>4. JobTyped' /\ SlotInv'
  BY <1>1, <1>2, Answers DEF JobInv, JobTyped, SlotInv
<1>5. EnvInv' /\ OwnerInv'
  BY <1>1, <1>2, <1>3 DEF JobInv, JobTyped, EnvInv, OwnerInv, Protected
<1>6. GreenInv'
  <2>1. /\ Signed' = Signed /\ Configured' = Configured
        /\ Loads(job.service)' = Loads(job.service)
    BY <1>1 DEF Signed, Configured, Loads
  <2> QED
    BY <1>1, <1>2, <1>3, <2>1, Answers DEF JobInv, JobTyped, GreenInv
<1> QED
  BY <1>4, <1>5, <1>6 DEF JobInv

LEMMA AdmissionStep ==
  AdmissionInv /\ [Next]_vars => AdmissionInv'
<1> SUFFICES ASSUME AdmissionInv, [Next]_vars
             PROVE  AdmissionInv'
  OBVIOUS
<1>0. DirInv /\ JobInv
  BY DEF AdmissionInv
<1>1. CASE Operator
  BY <1>0, <1>1, DirectoryKeepsDirInv, OperatorKeepsJobInv DEF Operator, AdmissionInv
<1>2. CASE UNCHANGED directoryVars /\ JobInv'
  <2>1. DirInv'
    BY <1>0, <1>2 DEF directoryVars, DirInv, DirTyped, OpFits, NamesFit, Misnamed
  <2> QED
    BY <1>2, <2>1 DEF AdmissionInv
<1>3. ASSUME NEW n \in Names, NEW p \in Payloads, NEW overrides \in SUBSET Keys,
             NEW wrong \in Troubled, StartJob(n, p, overrides, wrong)
      PROVE  UNCHANGED directoryVars /\ JobInv'
  BY <1>0, <1>3, StartJobKeepsJobInv DEF StartJob
<1>4. CASE Deploy \/ Audit \/ AppendFails \/ RefuseSpec
  <2>1. UNCHANGED directoryVars
    BY <1>4 DEF Deploy, Audit, AppendFails, RefuseSpec
  <2> QED
    BY <1>0, <1>2, <1>4, <2>1, OtherStepsKeepJobInv
<1>5. CASE Admit
  BY <1>0, <1>2, <1>5, AdmitKeepsJobInv DEF Admit
<1>6. CASE Check
  BY <1>0, <1>2, <1>6, CheckKeepsJobInv DEF Check
<1>7. CASE Merge
  BY <1>0, <1>2, <1>7, MergeKeepsJobInv DEF Merge
<1>8. CASE Kill \/ Exit
  BY <1>0, <1>2, <1>8, EndJobKeepsJobInv DEF Kill, Exit
<1>9. ASSUME NEW wrong \in Troubled, GoOn(wrong)
      PROVE  UNCHANGED directoryVars /\ JobInv'
  BY <1>0, <1>9, GoOnKeepsJobInv DEF GoOn
<1>10. CASE UNCHANGED vars
  <2>1. /\ UNCHANGED directoryVars
        /\ UNCHANGED <<dir, job, phase, slot, pinned, app, base, env, owner, quiet, handedOver,
                       at, answer>>
    BY <1>10 DEF vars, admissionVars, requestVars, jobVars, directoryVars
  <2>2. /\ \A n : BaseOf(n)' = BaseOf(n)
        /\ \A n : Loads(n)' = Loads(n)
        /\ Signed' = Signed /\ Configured' = Configured
        /\ Passes' = Passes
    BY <2>1, SameDirectory
  <2>3. JobInv'
    BY <1>0, <2>1, <2>2 DEF JobInv, JobTyped, SlotInv, EnvInv, OwnerInv, GreenInv, Protected
  <2> QED
    BY <1>2, <2>1, <2>3
<1> QED
  BY <1>1, <1>2, <1>3, <1>4, <1>5, <1>6, <1>7, <1>8, <1>9, <1>10 DEF Next

-------------------------------------------------------------------------------
(* The invariants of the runs.                                              *)

(* Every variable has its type, and an answer is there exactly when the     *)
(* agent has one (handler.go, pipeline.go).                                 *)
THEOREM TypeCorrect == Spec => []TypeOK
<1>1. AdmissionInv => TypeOK
  BY Answers DEF AdmissionInv, DirInv, DirTyped, JobInv, JobTyped, TypeOK, NoJob, Jobs
<1> QED
  BY <1>1, AdmissionStart, AdmissionStep, PTL DEF Spec

(* While no command was interrupted, an app at rest loads, whatever was     *)
(* added, edited, renamed and removed (app.go:638).                         *)
THEOREM RestingCorrect == Spec => []RestingAppsLoad
<1>1. AdmissionInv => RestingAppsLoad
  BY DEF AdmissionInv, DirInv, NamesFit, Misnamed, RestingAppsLoad, Loads
<1> QED
  BY <1>1, AdmissionStart, AdmissionStep, PTL DEF Spec

(* What a deploy writes is the named service's, although the name comes     *)
(* from a manifest that a rename may be moving (handler.go, pipeline.go).   *)
THEOREM SlotCorrect == Spec => []SlotIsTheService
<1>1. AdmissionInv => SlotIsTheService
  BY DEF AdmissionInv, JobInv, SlotInv, SlotIsTheService
<1> QED
  BY <1>1, AdmissionStart, AdmissionStep, PTL DEF Spec

(* A secret in the env of a deploy is of the app whose manifest the handler *)
(* read, unless app rm or a rename took its name away between that and the  *)
(* merge (handler.go:49, pipeline.go:244, env.go ConfinedResolver).         *)
THEOREM SecretsCorrect == Spec => []OnlyOwnSecrets
<1>1. AdmissionInv => OnlyOwnSecrets
  BY DEF AdmissionInv, JobInv, OwnerInv, OnlyOwnSecrets
<1> QED
  BY <1>1, AdmissionStart, AdmissionStep, PTL DEF Spec

(* CI never gives a value to a key the operator protects (merge.go).        *)
THEOREM ProtectedCorrect == Spec => []ProtectedKept
<1>1. AdmissionInv => ProtectedKept
  <2> SUFFICES ASSUME AdmissionInv, quiet, at # "idle", BaseOf(job.service) # Broken,
                      NEW k \in Keys, BaseOf(job.service)[k] # None,
                      BaseOf(job.service)[k].protected, env[k] = "ci"
               PROVE  FALSE
    BY DEF ProtectedKept
  <2>1. env # NoEnv
    BY Answers
  <2>2. /\ k \in job.overrides
        /\ job.overrides \cap Protected(base) = {}
        /\ base = BaseOf(job.service)
    BY <2>1 DEF AdmissionInv, JobInv, EnvInv
  <2> QED
    BY <2>2 DEF Protected
<1> QED
  BY <1>1, AdmissionStart, AdmissionStep, PTL DEF Spec

(* What preflight said of a deploy holds: whichever set of troubles it has, *)
(* a deploy after a green preflight is refused only for what preflight does *)
(* not look at (pipeline.go:399), or because ports.json cannot be written.  *)
THEOREM GreenCorrect == Spec => []GreenMeansGo
<1>1. AdmissionInv => GreenMeansGo
  BY DEF AdmissionInv, JobInv, GreenInv, GreenMeansGo
<1> QED
  BY <1>1, AdmissionStart, AdmissionStep, PTL DEF Spec


-------------------------------------------------------------------------------
(* The audit log.                                                           *)

Records(s) == {s[i] : i \in DOMAIN s}

(* A log holds no record twice. *)
Logs == {s \in Seq(Nat) : IsFiniteSet(Records(s)) /\ Cardinality(Records(s)) = Len(s)}

Both(new, rotated) == Records(new) \cup Records(rotated)

(* The records of the rotated log are older. *)
Ordered(new, rotated) == \A k \in Records(rotated), j \in Records(new) : k < j

(* Two rotations later: the rotated log is full and all records are newer. *)
Overtaken(new, rotated, j) ==
  /\ Len(new) >= 1
  /\ Len(rotated) >= MaxLog + 1
  /\ \A k \in Both(new, rotated) : k > j

(* What happens to the job's result: it is still to be appended, or was. *)
Unwritten == at # "idle" /\ ~(at = "answered" /\ phase = "deploy")

LogsInv ==
  /\ jobs \in Nat
  /\ at = "audit" => phase = "deploy"
  /\ log \in [Names -> Logs]
  /\ old \in [Names -> Logs]
  /\ answered \in [Names -> SUBSET Nat]
  /\ \A n \in Names :
       /\ Ordered(log[n], old[n])
       /\ \A k \in Both(log[n], old[n]) : k <= jobs
       /\ Unwritten => \A k \in Both(log[n], old[n]) : k < jobs

AuditInv ==
  ~unlogged =>
    /\ \A n \in Names : \A j \in answered[n] :
         j \in Both(log[n], old[n]) \/ Overtaken(log[n], old[n], j)
    /\ at = "answered" /\ phase = "deploy" /\ slot # None =>
         jobs \in Records(log[job.service])

LEMMA LogFacts ==
  /\ <<>> \in Logs /\ Records(<<>>) = {} /\ Len(<<>>) = 0
  /\ \A s \in Logs : /\ s \in Seq(Nat) /\ Records(s) \subseteq Nat /\ Len(s) \in Nat
                     /\ IsFiniteSet(Records(s)) /\ Cardinality(Records(s)) = Len(s)
                     /\ Len(s) >= 1 => Records(s) # {}
<1>1. Records(<<>>) = {}
  BY DEF Records
<1>2. <<>> \in Logs
  BY <1>1, FS_EmptySet DEF Logs
<1>3. \A s \in Seq(Nat) : Records(s) \subseteq Nat
  BY DEF Records
<1>4. \A s \in Seq(Nat) : Len(s) >= 1 => s[1] \in Records(s)
  BY DEF Records
<1> QED
  BY <1>1, <1>2, <1>3, <1>4 DEF Logs

LEMMA AppendedLog ==
  ASSUME NEW s \in Logs, NEW j \in Nat, j \notin Records(s)
  PROVE  /\ Append(s, j) \in Logs
         /\ Records(Append(s, j)) = Records(s) \cup {j}
         /\ Len(Append(s, j)) = Len(s) + 1
<1> DEFINE t == Append(s, j)
<1>1. s \in Seq(Nat) /\ IsFiniteSet(Records(s)) /\ Cardinality(Records(s)) = Len(s)
  BY LogFacts
<1>2. /\ t \in Seq(Nat) /\ Len(t) = Len(s) + 1
      /\ DOMAIN s = 1 .. Len(s) /\ DOMAIN t = 1 .. Len(s) + 1
      /\ Len(s) \in Nat
      /\ \A i \in 1 .. Len(s) : t[i] = s[i]
      /\ t[Len(s) + 1] = j
  BY <1>1
<1> HIDE DEF t
<1>3. Records(t) = Records(s) \cup {j}
  <2>1. Records(t) \subseteq Records(s) \cup {j}
    BY <1>2 DEF Records
  <2>2. Records(s) \subseteq Records(t)
    <3> SUFFICES ASSUME NEW i \in DOMAIN s
                 PROVE  s[i] \in Records(t)
      BY DEF Records
    <3>1. i \in DOMAIN t /\ t[i] = s[i]
      BY <1>2
    <3> QED
      BY <3>1 DEF Records
  <2>3. j \in Records(t)
    BY <1>2 DEF Records
  <2> QED
    BY <2>1, <2>2, <2>3
<1>4. /\ IsFiniteSet(Records(s) \cup {j})
      /\ Cardinality(Records(s) \cup {j}) = Cardinality(Records(s)) + 1
  BY <1>1, FS_AddElement
<1>5. t \in Logs
  BY <1>1, <1>2, <1>3, <1>4 DEF Logs
<1> QED
  BY <1>2, <1>3, <1>5 DEF t

(* Append, after rotating a log that is too large. *)
LEMMA RecordAppended ==
  ASSUME NEW new \in Logs, NEW rotated \in Logs, NEW k \in Nat,
         Ordered(new, rotated), \A i \in Both(new, rotated) : i < k,
         NEW newer, NEW older,
         \/ newer = Append(new, k) /\ older = rotated
         \/ Len(new) > MaxLog /\ newer = Append(<<>>, k) /\ older = new
  PROVE  /\ newer \in Logs /\ older \in Logs
         /\ Ordered(newer, older)
         /\ \A i \in Both(newer, older) : i <= k
         /\ k \in Records(newer)
         /\ \A j \in Nat : j \in Both(new, rotated) \/ Overtaken(new, rotated, j) =>
              j \in Both(newer, older) \/ Overtaken(newer, older, j)
<1>0. /\ Records(new) \subseteq Nat /\ Records(rotated) \subseteq Nat
      /\ k \notin Records(new) /\ MaxLog \in Nat /\ Len(new) \in Nat /\ Len(rotated) \in Nat
  BY LogFacts, AdmissionAssumption DEF Both
<1>1. CASE newer = Append(new, k) /\ older = rotated
  <2>1. /\ newer \in Logs
        /\ Records(newer) = Records(new) \cup {k}
        /\ Len(newer) = Len(new) + 1
    BY <1>0, <1>1, AppendedLog
  <2>2. Ordered(newer, older)
    BY <1>0, <1>1, <2>1 DEF Ordered, Both
  <2>3. \A i \in Both(newer, older) : i <= k
    BY <1>0, <1>1, <2>1 DEF Both
  <2>4. ASSUME NEW j \in Nat, Overtaken(new, rotated, j)
        PROVE  Overtaken(newer, older, j)
    <3>1. k > j
      <4>1. PICK i \in Records(new) : TRUE
        BY <2>4, LogFacts DEF Overtaken
      <4>2. i > j /\ i < k /\ i \in Nat
        BY <1>0, <2>4, <4>1 DEF Overtaken, Both
      <4> QED
        BY <4>2
    <3> QED
      BY <1>0, <1>1, <2>1, <2>4, <3>1 DEF Overtaken, Both
  <2>5. Both(new, rotated) \subseteq Both(newer, older)
    BY <1>1, <2>1 DEF Both
  <2> QED
    BY <1>1, <2>1, <2>2, <2>3, <2>4, <2>5
<1>2. CASE Len(new) > MaxLog /\ newer = Append(<<>>, k) /\ older = new
  <2>1. /\ newer \in Logs
        /\ Records(newer) = {k}
        /\ Len(newer) = 1
    <3>1. /\ Append(<<>>, k) \in Logs
          /\ Records(Append(<<>>, k)) = Records(<<>>) \cup {k}
          /\ Len(Append(<<>>, k)) = Len(<<>>) + 1
      <4>1. <<>> \in Logs /\ k \notin Records(<<>>)
        BY LogFacts
      <4> QED
        BY <4>1, AppendedLog
    <3>2. Records(<<>>) \cup {k} = {k} /\ Len(<<>>) + 1 = 1
      BY LogFacts
    <3>3. newer = Append(<<>>, k)
      BY <1>2
    <3> QED
      BY <3>1, <3>2, <3>3
  <2>2. Ordered(newer, older)
    BY <1>2, <2>1 DEF Ordered, Both
  <2>3. \A i \in Both(newer, older) : i <= k
    BY <1>0, <1>2, <2>1 DEF Both
  <2>4. ASSUME NEW j \in Nat, \A i \in Records(new) : i > j
        PROVE  Overtaken(newer, older, j)
    <3>1. k > j
      <4>1. PICK i \in Records(new) : TRUE
        <5>1. Len(new) >= 1
          BY <1>0, <1>2
        <5> QED
          BY <5>1, LogFacts
      <4>2. i > j /\ i < k /\ i \in Nat
        BY <1>0, <2>4, <4>1 DEF Both
      <4> QED
        BY <4>2
    <3> QED
      BY <1>0, <1>2, <2>1, <2>4, <3>1 DEF Overtaken, Both
  <2>5. ASSUME NEW j \in Records(rotated)
        PROVE  \A i \in Records(new) : i > j
    BY <1>0 DEF Ordered
  <2>6. ASSUME NEW j \in Nat, j \in Both(new, rotated) \/ Overtaken(new, rotated, j)
        PROVE  j \in Both(newer, older) \/ Overtaken(newer, older, j)
    <3>1. \/ j \in Records(new)
          \/ \A i \in Records(new) : i > j
      BY <2>5, <2>6 DEF Overtaken, Both
    <3> QED
      BY <1>2, <2>4, <3>1 DEF Both
  <2> QED
    BY <1>2, <2>1, <2>2, <2>3, <2>6
<1> QED
  BY <1>1, <1>2

LEMMA AuditStart ==
  Init => LogsInv /\ AuditInv
<1> SUFFICES ASSUME Init
             PROVE  LogsInv /\ AuditInv
  OBVIOUS
<1>1. \A n \in Names : Both(log[n], old[n]) = {} /\ Records(old[n]) = {}
  BY LogFacts DEF Init, Both
<1>2. /\ jobs = 0 /\ at = "idle" /\ answered = [n \in Names |-> {}]
      /\ log = [n \in Names |-> <<>>] /\ old = [n \in Names |-> <<>>]
  BY DEF Init
<1>3. LogsInv
  BY <1>1, <1>2, LogFacts DEF LogsInv, Unwritten, Ordered
<1>4. AuditInv
  BY <1>2 DEF AuditInv
<1> QED
  BY <1>3, <1>4

(* The result of a deploy is appended, in a log rotated first if need be. *)
LEMMA AuditKeeps ==
  ASSUME JobInv, LogsInv, AuditInv, Audit
  PROVE  LogsInv' /\ AuditInv'
<1>1. PICK n \in Names : n = job.service
  BY DEF Audit, JobInv, JobTyped, Jobs
<1>2. /\ at = "audit" /\ at' = "answered" /\ phase = "deploy" /\ Unwritten /\ ~Unwritten'
      /\ UNCHANGED <<job, phase, slot, jobs, answered, unlogged>>
      /\ jobs \in Nat /\ jobs' \in Nat /\ answered' \in [Names -> SUBSET Nat]
  BY DEF Audit, jobVars, requestVars, LogsInv, Unwritten
<1>3. /\ log[n] \in Logs /\ old[n] \in Logs /\ Ordered(log[n], old[n])
      /\ \A k \in Both(log[n], old[n]) : k < jobs
  BY <1>2 DEF LogsInv
<1>4. /\ log' = [log EXCEPT ![n] = Append(IF Rotated THEN <<>> ELSE @, jobs)]
      /\ old' = IF Rotated THEN [old EXCEPT ![n] = log[n]] ELSE old
      /\ Rotated => Len(log[n]) > MaxLog
  BY <1>1 DEF Audit, AppendRecord, Rotated
<1>5. \/ log'[n] = Append(log[n], jobs) /\ old'[n] = old[n]
      \/ /\ Len(log[n]) > MaxLog
         /\ log'[n] = Append(<<>>, jobs) /\ old'[n] = log[n]
  BY <1>4 DEF LogsInv
<1>6. /\ log'[n] \in Logs /\ old'[n] \in Logs
      /\ Ordered(log'[n], old'[n])
      /\ \A i \in Both(log'[n], old'[n]) : i <= jobs
      /\ jobs \in Records(log'[n])
      /\ \A j \in Nat : j \in Both(log[n], old[n]) \/ Overtaken(log[n], old[n], j) =>
           j \in Both(log'[n], old'[n]) \/ Overtaken(log'[n], old'[n], j)
  BY <1>2, <1>3, <1>5, RecordAppended
<1>7. /\ \A m \in Names \ {n} : log'[m] = log[m] /\ old'[m] = old[m]
      /\ log' \in [Names -> Logs] /\ old' \in [Names -> Logs]
  BY <1>4, <1>6 DEF LogsInv
<1>8. LogsInv'
  <2>1. ASSUME NEW m \in Names
        PROVE  /\ Ordered(log'[m], old'[m])
               /\ \A k \in Both(log'[m], old'[m]) : k <= jobs'
    BY <1>2, <1>6, <1>7 DEF LogsInv
  <2>2. \A m \in Names : /\ Ordered(log[m], old[m])'
                         /\ \A k \in Both(log[m], old[m])' : k <= jobs'
    BY <2>1 DEF Ordered, Both, Records
  <2> QED
    BY <1>2, <1>7, <2>2 DEF LogsInv
<1>9. AuditInv'
  <2>1. ASSUME ~unlogged, NEW m \in Names, NEW j \in answered[m]
        PROVE  j \in Both(log'[m], old'[m]) \/ Overtaken(log'[m], old'[m], j)
    <3>1. j \in Both(log[m], old[m]) \/ Overtaken(log[m], old[m], j)
      BY <2>1 DEF AuditInv
    <3>2. j \in Nat
      BY <2>1 DEF LogsInv
    <3> QED
      BY <1>6, <1>7, <3>1, <3>2
  <2>2. jobs \in Records(log'[job.service])
    BY <1>1, <1>6
  <2> QED
    BY <1>2, <2>1, <2>2 DEF AuditInv
<1> QED
  BY <1>8, <1>9

(* The logs and what CI was told stay; a job takes the next number, or goes *)
(* on without becoming one whose result is about to be told.                *)
LEMMA LogsStay ==
  ASSUME LogsInv, AuditInv,
         UNCHANGED <<log, old, unlogged, answered>>,
         jobs' \in {jobs, jobs + 1},
         at' = "audit" => phase' = "deploy",
         Unwritten' => Unwritten \/ jobs' = jobs + 1,
         at' = "answered" /\ phase' = "deploy" /\ slot' # None =>
           UNCHANGED <<at, phase, slot, job, jobs>>
  PROVE  LogsInv' /\ AuditInv'
<1>1. jobs \in Nat /\ jobs' \in Nat /\ jobs <= jobs'
  BY DEF LogsInv
<1>2. ASSUME NEW n \in Names
      PROVE  /\ Ordered(log'[n], old'[n])
             /\ \A k \in Both(log'[n], old'[n]) : k <= jobs'
             /\ Unwritten' => \A k \in Both(log'[n], old'[n]) : k < jobs'
  <2>1. /\ Ordered(log[n], old[n])
        /\ \A k \in Both(log[n], old[n]) : k \in Nat /\ k <= jobs
        /\ Unwritten => \A k \in Both(log[n], old[n]) : k < jobs
    BY LogFacts DEF LogsInv, Both
  <2> QED
    BY <1>1, <2>1
<1>3. LogsInv'
  <2>1. \A n \in Names : /\ Ordered(log[n], old[n])'
                         /\ \A k \in Both(log[n], old[n])' : k <= jobs'
                         /\ Unwritten' => \A k \in Both(log[n], old[n])' : k < jobs'
    BY <1>2 DEF Ordered, Both, Records
  <2> QED
    BY <1>1, <2>1 DEF LogsInv
<1>4. AuditInv'
  BY DEF AuditInv, Both, Overtaken, Records
<1> QED
  BY <1>3, <1>4

LEMMA AppendFailsKeeps ==
  ASSUME JobInv, LogsInv, AppendFails
  PROVE  LogsInv' /\ AuditInv'
<1>1. PICK n \in Names : n = job.service
  BY DEF AppendFails, JobInv, JobTyped, Jobs
<1>2. /\ at' = "answered" /\ phase = "deploy" /\ ~Unwritten' /\ unlogged'
      /\ UNCHANGED <<phase, jobs, answered>>
      /\ jobs' \in Nat /\ answered' \in [Names -> SUBSET Nat]
  BY DEF AppendFails, jobVars, LogsInv, Unwritten
<1>3. \/ UNCHANGED <<log, old>>
      \/ /\ log' = [log EXCEPT ![n] = <<>>]
         /\ old' = [old EXCEPT ![n] = log[n]]
  BY <1>1 DEF AppendFails, Rotate
<1>4. log' \in [Names -> Logs] /\ old' \in [Names -> Logs]
  BY <1>3, LogFacts DEF LogsInv
<1>5. ASSUME NEW m \in Names
      PROVE  /\ Ordered(log'[m], old'[m])
             /\ \A k \in Both(log'[m], old'[m]) : k <= jobs'
  <2>1. /\ Ordered(log[m], old[m])
        /\ \A k \in Both(log[m], old[m]) : k <= jobs
    BY DEF LogsInv
  <2>2. \/ log'[m] = log[m] /\ old'[m] = old[m]
        \/ log'[m] = <<>> /\ old'[m] = log[m]
    BY <1>3 DEF LogsInv
  <2> QED
    BY <1>2, <2>1, <2>2, LogFacts DEF Ordered, Both
<1>6. \A m \in Names : /\ Ordered(log[m], old[m])'
                       /\ \A k \in Both(log[m], old[m])' : k <= jobs'
  BY <1>5 DEF Ordered, Both, Records
<1> QED
  BY <1>2, <1>4, <1>6 DEF LogsInv, AuditInv

(* CI gets a result that is in the log. *)
LEMMA ExitKeeps ==
  ASSUME JobInv, LogsInv, AuditInv, Exit
  PROVE  LogsInv' /\ AuditInv'
<1>1. /\ at = "answered" /\ at' = "idle"
      /\ UNCHANGED <<log, old, unlogged, jobs>>
      /\ job.service \in Names /\ jobs \in Nat
  BY DEF Exit, EndJob, logVars, JobInv, JobTyped, Jobs, LogsInv
<1>2. PICK n \in Names : n = job.service
  BY <1>1
<1>3. \/ answered' = answered
      \/ /\ phase = "deploy" /\ slot # None
         /\ answered' = [answered EXCEPT ![n] = @ \cup {jobs}]
  BY <1>2 DEF Exit
<1>4. /\ answered' \in [Names -> SUBSET Nat]
      /\ \A m \in Names : \A j \in answered'[m] :
           \/ j \in answered[m]
           \/ j = jobs /\ m = n /\ phase = "deploy" /\ slot # None
  BY <1>1, <1>3 DEF LogsInv
<1>5. LogsInv'
  <2>1. ~Unwritten'
    BY <1>1 DEF Unwritten
  <2> QED
    BY <1>1, <1>4, <2>1 DEF LogsInv, Ordered, Both, Records
<1>6. AuditInv'
  <2>1. ASSUME ~unlogged, NEW m \in Names, NEW j \in answered'[m]
        PROVE  j \in Both(log[m], old[m]) \/ Overtaken(log[m], old[m], j)
    <3>1. CASE j \in answered[m]
      BY <2>1, <3>1 DEF AuditInv
    <3>2. CASE j = jobs /\ m = n /\ phase = "deploy" /\ slot # None
      BY <1>1, <1>2, <2>1, <3>2 DEF AuditInv, Both
    <3> QED
      BY <1>4, <2>1, <3>1, <3>2
  <2> QED
    BY <1>1, <2>1 DEF AuditInv, Both, Overtaken, Records
<1> QED
  BY <1>5, <1>6

LEMMA StepKeepsAuditInv ==
  ASSUME JobInv, LogsInv, AuditInv, [Next]_vars
  PROVE  LogsInv' /\ AuditInv'
<1>0. jobs \in Nat /\ (at = "audit" => phase = "deploy")
  BY DEF LogsInv
<1>1. CASE Operator \/ UNCHANGED vars
  <2>1. UNCHANGED <<log, old, unlogged, answered, jobs, at, phase, slot, job>>
    BY <1>1 DEF Operator, vars, admissionVars, requestVars, logVars, jobVars
  <2>2. Unwritten' <=> Unwritten
    BY <2>1 DEF Unwritten
  <2> QED
    BY <1>0, <2>1, <2>2, LogsStay
<1>2. ASSUME NEW n \in Names, NEW p \in Payloads, NEW overrides \in SUBSET Keys,
             NEW wrong \in Troubled, StartJob(n, p, overrides, wrong)
      PROVE  LogsInv' /\ AuditInv'
  <2>1. /\ UNCHANGED <<log, old, unlogged, answered>>
        /\ jobs' = jobs + 1 /\ at' = "sent"
    BY <1>2 DEF StartJob, NextJob, logVars
  <2> QED
    BY <2>1, LogsStay
<1>3. CASE RefuseSpec
  <2>1. /\ UNCHANGED <<log, old, unlogged, answered, at, phase>>
        /\ jobs' = jobs + 1 /\ at = "idle"
    BY <1>3 DEF RefuseSpec, NextJob, logVars
  <2> QED
    BY <2>1, LogsStay
<1>4. CASE Admit
  <2>1. /\ UNCHANGED <<log, old, unlogged, answered, jobs, phase, job>>
        /\ at = "sent" /\ Unwritten
        /\ \/ at' = "answered" /\ slot' = slot
           \/ at' = "admitted"
        /\ slot = None
    BY <1>4 DEF Admit, Refuse, logVars, jobVars, Unwritten, JobInv, SlotInv
  <2> QED
    BY <2>1, LogsStay
<1>5. CASE Check \/ Merge \/ Deploy
  <2>1. /\ UNCHANGED <<log, old, unlogged, answered, jobs, phase, job, slot>>
        /\ at \in {"admitted", "checked", "deploying"} /\ Unwritten
    BY <1>5 DEF Check, Merge, Deploy, logVars, jobVars, Unwritten
  <2>2. \/ at' \in {"checked", "deploying"}
        \/ at' = IF phase = "deploy" THEN "audit" ELSE "answered"
    BY <1>5 DEF Check, Merge, Deploy, Result
  <2> QED
    BY <2>1, <2>2, LogsStay
<1>6. CASE Kill
  <2>1. /\ UNCHANGED <<log, old, unlogged, answered, jobs>>
        /\ at' = "idle" /\ ~Unwritten'
    BY <1>6 DEF Kill, EndJob, logVars, Unwritten
  <2> QED
    BY <2>1, LogsStay
<1>7. ASSUME NEW wrong \in Troubled, GoOn(wrong)
      PROVE  LogsInv' /\ AuditInv'
  <2>1. /\ UNCHANGED <<log, old, unlogged, answered, jobs>>
        /\ at' = "sent" /\ Unwritten
    BY <1>7 DEF GoOn, PreflightPassed, logVars, Unwritten
  <2> QED
    BY <2>1, LogsStay
<1> QED
  BY <1>1, <1>2, <1>3, <1>4, <1>5, <1>6, <1>7, AuditKeeps, AppendFailsKeeps, ExitKeeps DEF Next

(* Of a job overtaken by two rotations, MaxLog + 2 later ones are kept. *)
LEMMA LaterRecords ==
  ASSUME NEW new \in Logs, NEW rotated \in Logs, Ordered(new, rotated),
         NEW j, Overtaken(new, rotated, j)
  PROVE  Cardinality({k \in Both(new, rotated) : k > j}) > MaxLog + 1
<1> DEFINE a == Records(new)
           b == Records(rotated)
<1>1. {k \in Both(new, rotated) : k > j} = a \cup b
  BY DEF Overtaken, Both
<1>2. /\ IsFiniteSet(a) /\ IsFiniteSet(b)
      /\ Cardinality(a) = Len(new) /\ Cardinality(b) = Len(rotated)
      /\ Len(new) \in Nat /\ Len(rotated) \in Nat
      /\ a \subseteq Nat
  BY LogFacts
<1>3. a \cap b = {}
  BY <1>2 DEF Ordered
<1>4. Cardinality(a) >= 1 /\ Cardinality(b) >= MaxLog + 1 /\ MaxLog \in Nat
  BY <1>2, AdmissionAssumption DEF Overtaken
<1> HIDE DEF a, b
<1>5. Cardinality(a \cup b) = Cardinality(a) + Cardinality(b) - Cardinality(a \cap b)
  BY <1>2, FS_Union
<1>6. Cardinality(a \cap b) = 0
  BY <1>3, FS_EmptySet
<1>7. Cardinality(a) \in Nat /\ Cardinality(b) \in Nat
  BY <1>2
<1>8. Cardinality(a \cup b) > MaxLog + 1
  BY <1>4, <1>5, <1>6, <1>7
<1> QED
  BY <1>1, <1>8

(* Every deploy whose result CI got is in the audit log, or was dropped by  *)
(* two rotations, with MaxLog + 2 later deploys in the two files            *)
(* (audit/log.go:46).                                                       *)
THEOREM AuditCorrect == Spec => []AnsweredIsInTheLog
<1> DEFINE Inv == AdmissionInv /\ LogsInv /\ AuditInv
<1>1. Init => Inv
  BY AdmissionStart, AuditStart
<1>2. Inv /\ [Next]_vars => Inv'
  BY AdmissionStep, StepKeepsAuditInv DEF AdmissionInv
<1>3. Inv => AnsweredIsInTheLog
  <2> SUFFICES ASSUME Inv, ~unlogged, NEW n \in Names, NEW j \in answered[n],
                      Overtaken(log[n], old[n], j)
               PROVE  Cardinality({k \in Both(log[n], old[n]) : k > j}) > MaxLog + 1
    BY DEF AnsweredIsInTheLog, AuditInv, Kept, Both, Records
  <2>1. log[n] \in Logs /\ old[n] \in Logs /\ Ordered(log[n], old[n])
    BY DEF LogsInv
  <2> QED
    BY <2>1, LaterRecords
<1> QED
  BY <1>1, <1>2, <1>3, PTL DEF Spec

===============================================================================
