---------------------------- MODULE AppDirectory ----------------------------
(****************************************************************************)
(* The directory of accepted apps, /etc/statio/services, and the commands   *)
(* that write it: statio app add, edit and rm (internal/cli/app.go) and     *)
(* statio env set and rm (internal/cli/env.go, internal/env/env.go).        *)
(*                                                                          *)
(* Each app has a directory with manifest.yaml, env.base.yaml and secrets.  *)
(* A command is a sequence of file operations, and may be interrupted       *)
(* between two of them.  The operator runs one command at a time; the agent *)
(* reads the directory at any moment (module Admission).                    *)
(****************************************************************************)
EXTENDS Naturals

CONSTANTS
  Names,          \* app names, which are directory names
  Pins,           \* what a manifest pins: a signer and an image repository
  Keys,           \* env keys
  MaxCommands,    \* bound on the commands of a behaviour
  MaxInterrupts,  \* bound on the interrupted ones
  Broken,         \* an env.base.yaml that does not load
  None

(* An app is its directory, from when it is made until it is removed, under *)
(* whatever name.  It is known by its first name if it was there before the *)
(* commands of a behaviour, and by the number of the one that made it.      *)
Apps == Names \cup Nat

(* source: where the value is: in the file, in the secret file of a         *)
(* directory (secretRef is an absolute path), or nowhere: only CI gives one.*)
Entries == [source : {"file", "nowhere"} \cup Names, protected : BOOLEAN, required : BOOLEAN]
Manifests == [name : Names, pin : Pins]
Bases == [Keys -> Entries \cup {None}]
Services == [app : Apps, manifest : Manifests \cup {None}, base : Bases \cup {Broken},
             secrets : SUBSET Keys]

ASSUME DirectoryAssumption ==
  /\ MaxCommands \in Nat
  /\ MaxInterrupts \in Nat
  /\ None \notin Services \cup Manifests \cup Entries \cup Apps
  /\ Broken \notin Bases
  /\ Broken # None
  /\ Names \cap {"file", "nowhere"} = {}

VARIABLES
  dir,            \* the directory of each name, None where there is none
  step,           \* the next file operation of the command that runs
  op,             \* its arguments, and the base env it holds in memory
  commands, interrupts

directoryVars == <<dir, step, op, commands, interrupts>>

NoBase == [k \in Keys |-> None]
Bare(a) == [app |-> a, manifest |-> None, base |-> NoBase, secrets |-> {}]
Accepted(n, p) == [Bare(n) EXCEPT !.manifest = [name |-> n, pin |-> p]]
NoOp == [name |-> None, to |-> None, pin |-> None, key |-> None, copy |-> NoBase]

Supplied == [source |-> "nowhere", protected |-> FALSE, required |-> TRUE]
Secret(n) == [source |-> n, protected |-> TRUE, required |-> FALSE]

(* Faulty: the name in the manifest is not looked at. *)
LoadsAnyName(n) == dir[n] # None /\ dir[n].manifest # None

(* LoadManifest: the file is there, and its name is the directory's. *)
Loads(n) == /\ dir[n] # None
            /\ dir[n].manifest # None
            /\ dir[n].manifest.name = n

(* LoadBaseEnv: no directory, or no file in it, is an empty base. *)
BaseOf(n) == IF dir[n] = None THEN NoBase ELSE dir[n].base

-------------------------------------------------------------------------------
Start(first, o) ==
  /\ step = "idle"
  /\ commands < MaxCommands
  /\ commands' = commands + 1
  /\ step' = first
  /\ op' = o
  /\ UNCHANGED <<dir, interrupts>>

(* A file operation of the command, and the one that follows it. *)
Then(next) ==
  /\ step' = next
  /\ op' = IF next = "idle" THEN NoOp ELSE op
  /\ UNCHANGED <<commands, interrupts>>

Put(n, s) == dir' = [dir EXCEPT ![n] = s]

Interrupt ==
  /\ step # "idle"
  /\ interrupts < MaxInterrupts
  /\ interrupts' = interrupts + 1
  /\ step' = "idle"
  /\ op' = NoOp
  /\ UNCHANGED <<dir, commands>>

-------------------------------------------------------------------------------
(* app add and app edit.                                                    *)

(* An app that is accepted already is overwritten. *)
Add(n, p) == Start("mkdir", [NoOp EXCEPT !.name = n, !.pin = p])

Edit(n, to, p) ==
  /\ Loads(n)
  /\ Start(IF to = n THEN "mkdir" ELSE "rename", [NoOp EXCEPT !.name = n, !.to = to, !.pin = p])

RenameRefused ==
  /\ step = "rename"
  /\ dir[op.to] # None
  /\ Then("idle")
  /\ UNCHANGED dir

RenameDeclined ==
  /\ step = "rename"
  /\ dir[op.to] = None
  /\ Then("mkdir")
  /\ UNCHANGED dir

(* Faulty: the manifest is written under the old name. *)
RenameOnly ==
  /\ step = "rename"
  /\ dir[op.to] = None
  /\ dir' = [dir EXCEPT ![op.to] = dir[op.name], ![op.name] = None]
  /\ Then("mkdir")

Rename ==
  /\ step = "rename"
  /\ dir[op.to] = None
  /\ dir' = [dir EXCEPT ![op.to] = dir[op.name], ![op.name] = None]
  /\ op' = [op EXCEPT !.name = op.to]
  /\ step' = "mkdir"
  /\ UNCHANGED <<commands, interrupts>>

MakeDir ==
  /\ step = "mkdir"
  /\ IF dir[op.name] = None THEN Put(op.name, Bare(commands)) ELSE UNCHANGED dir
  /\ Then("manifest")

WriteManifest ==
  /\ step = "manifest"
  /\ dir[op.name] # None
  /\ Put(op.name, [dir[op.name] EXCEPT !.manifest = [name |-> op.name, pin |-> op.pin]])
  /\ Then("idle")

-------------------------------------------------------------------------------
(* app rm: os.RemoveAll takes the files one by one, in no given order.      *)

Remove(n) ==
  /\ dir[n] # None
  /\ dir[n].manifest # None
  /\ Start("remove", [NoOp EXCEPT !.name = n])

RemoveFile ==
  /\ step = "remove"
  /\ \E s \in {[dir[op.name] EXCEPT !.manifest = None],
               [dir[op.name] EXCEPT !.base = NoBase],
               [dir[op.name] EXCEPT !.secrets = {}]} \ {dir[op.name]} : Put(op.name, s)
  /\ Then("remove")

RemoveDir ==
  /\ step = "remove"
  /\ dir[op.name] = Bare(dir[op.name].app)
  /\ Put(op.name, None)
  /\ Then("idle")

-------------------------------------------------------------------------------
(* env set and env rm load the base, change the copy, and replace the file. *)
(* --required is left out: env set always stores a value or a secret file,  *)
(* and MergeEnv asks nothing more of an entry that has one.                 *)

Set(n, k, protected) ==
  /\ BaseOf(n) # Broken
  /\ Start("save", [NoOp EXCEPT !.name = n, !.copy =
       [BaseOf(n) EXCEPT ![k] = [source |-> "file", protected |-> protected, required |-> FALSE]]])

(* The key is not checked: one that LoadBaseEnv refuses breaks the file. *)
SetBadKey(n) ==
  /\ BaseOf(n) # Broken
  /\ Start("save", [NoOp EXCEPT !.name = n, !.copy = Broken])

SetSecret(n, k) ==
  /\ BaseOf(n) # Broken
  /\ Start("secret", [NoOp EXCEPT !.name = n, !.key = k, !.copy = [BaseOf(n) EXCEPT ![k] = Secret(n)]])

(* MkdirAll makes the directory of an app that was never accepted. *)
WriteSecret ==
  /\ step = "secret"
  /\ LET s == IF dir[op.name] = None THEN Bare(commands) ELSE dir[op.name]
     IN  Put(op.name, [s EXCEPT !.secrets = @ \cup {op.key}])
  /\ Then("save")

(* The secret file stays. *)
Unset(n, k) ==
  /\ BaseOf(n) # Broken
  /\ BaseOf(n)[k] # None
  /\ Start("save", [NoOp EXCEPT !.name = n, !.copy = [BaseOf(n) EXCEPT ![k] = None]])

Save ==
  /\ step = "save"
  /\ dir[op.name] # None
  /\ Put(op.name, [dir[op.name] EXCEPT !.base = op.copy])
  /\ Then("idle")

SaveFails ==
  /\ step = "save"
  /\ dir[op.name] = None
  /\ Then("idle")
  /\ UNCHANGED dir

-------------------------------------------------------------------------------
Command ==
  \E n \in Names :
    \/ \E p \in Pins : Add(n, p)
    \/ \E to \in Names, p \in Pins : Edit(n, to, p)
    \/ Remove(n)
    \/ \E k \in Keys, protected \in BOOLEAN : Set(n, k, protected)
    \/ \E k \in Keys : SetSecret(n, k)
    \/ SetBadKey(n)
    \/ \E k \in Keys : Unset(n, k)

FileOperation ==
  \/ Rename \/ RenameRefused \/ RenameDeclined \/ MakeDir \/ WriteManifest
  \/ RemoveFile \/ RemoveDir
  \/ WriteSecret \/ Save \/ SaveFails

DirectoryNext == Command \/ FileOperation \/ Interrupt

(* An app with a secret, whose base env names it in the directory of d. *)
WithSecret(n, p, k, d) == [Accepted(n, p) EXCEPT !.base[k] = Secret(d), !.secrets = {k}]

(* One app is accepted: with no base env, with a secret, or with a key an   *)
(* operator wrote in by hand for CI to supply.                              *)
FirstApps(n) == UNION
  { {Accepted(n, p)} \cup
    {[Accepted(n, p) EXCEPT !.base[k] = Supplied] : k \in Keys} \cup
    {WithSecret(n, p, k, n) : k \in Keys} : p \in Pins }

Empty == [n \in Names |-> None]

(* Nothing is accepted yet, or one app is, or two with a secret each: the   *)
(* second perhaps renamed before the first was added, so that its base env  *)
(* names what is now the first's directory.                                 *)
DirectoryInit ==
  /\ \/ dir = Empty
     \/ \E n \in Names : \E s \in FirstApps(n) : dir = [Empty EXCEPT ![n] = s]
     \/ \E n \in Names, p \in Pins, q \in Pins, k \in Keys : \E m \in Names \ {n}, d \in Names :
          dir = [Empty EXCEPT ![n] = WithSecret(n, p, k, n), ![m] = WithSecret(m, q, k, d)]
  /\ step = "idle"
  /\ op = NoOp
  /\ commands = 0
  /\ interrupts = 0
=============================================================================
