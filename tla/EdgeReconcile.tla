----------------------------- MODULE EdgeReconcile -----------------------------
(****************************************************************************)
(* The edge steps of a deploy against what the two providers hold: the      *)
(* proxy hosts of NPMplus (internal/proxy/npmplus.go, ReconcileProxyHost)   *)
(* and the A records of Cloudflare (internal/dns/cloudflare.go, UpsertA).   *)
(*                                                                          *)
(* Both providers offer a list and separate writes, so every upsert looks   *)
(* and then acts on what it saw; between the two the server's operator uses *)
(* the provider's own UI, as step 5 of add-a-domain.md asks for.            *)
(* The providers are external: they are modelled by the calls made to them. *)
(****************************************************************************)
EXTENDS Naturals, FiniteSets

CONSTANTS
  Deploys,      \* goroutines whose deploys reach their edge steps
  Domains,
  Targets,      \* every managed field of a proxy host but its domains
  Addresses,    \* content, ttl and proxied of an A record
  HostIds, RecordIds,
  InitialHosts, InitialRecords,  \* what the operator made before statio came
  OneAtATime,   \* no two deploys at their edge steps together
  Apart,        \* no two deploys of one domain there together
  Absent, NoCert, Cert, Unknown

Host == [domains : SUBSET Domains, target : Targets, cert : {NoCert, Cert}]
Record == [name : Domains, content : Addresses]
Wants == [domain : Domains, target : Targets, address : Addresses]
Outcomes == {"created", "updated", "noop", "failed"}

ASSUME EdgeAssumption ==
  /\ InitialHosts \subseteq [HostIds -> Host \cup {Absent}]
  /\ InitialRecords \subseteq [RecordIds -> Record \cup {Absent}]
  /\ Absent \notin Host \cup Record
  /\ Absent \notin HostIds \cup RecordIds
  /\ Unknown \notin Outcomes \cup Wants
  /\ OneAtATime \in BOOLEAN /\ Apart \in BOOLEAN
  /\ IsFiniteSet(HostIds) /\ IsFiniteSet(RecordIds)

VARIABLES
  hosts, records,  \* what the providers hold
  pc,
  want,            \* the domain, target and address a deploy wants
  found, copy,     \* the id that the last list returned, and that entry
  proxyResult, dnsResult

vars == <<hosts, records, pc, want, found, copy, proxyResult, dnsResult>>
results == <<proxyResult, dnsResult>>

Init ==
  /\ hosts \in InitialHosts
  /\ records \in InitialRecords
  /\ pc = [d \in Deploys |-> "idle"]
  /\ want = [d \in Deploys |-> Unknown]
  /\ found = [d \in Deploys |-> Absent]
  /\ copy = [d \in Deploys |-> Absent]
  /\ proxyResult = [d \in Deploys |-> Unknown]
  /\ dnsResult = [d \in Deploys |-> Unknown]

GoTo(d, step) == pc' = [pc EXCEPT ![d] = step]
Keep(d, id, entry) ==
  /\ found' = [found EXCEPT ![d] = id]
  /\ copy' = [copy EXCEPT ![d] = entry]
Idle(d) == pc[d] = "idle"

Serving(name) == {id \in HostIds : hosts[id] # Absent /\ name \in hosts[id].domains}
Named(name) == {id \in RecordIds : records[id] # Absent /\ records[id].name = name}

Start(d, w) ==
  /\ Idle(d)
  /\ OneAtATime => \A e \in Deploys : Idle(e)
  /\ Apart => \A e \in Deploys : ~Idle(e) => want[e].domain # w.domain
  /\ want' = [want EXCEPT ![d] = w]
  /\ GoTo(d, "proxy list")
  /\ UNCHANGED <<hosts, records, found, copy, results>>

Finish(d) ==
  /\ pc[d] = "done"
  /\ GoTo(d, "idle")
  /\ want' = [want EXCEPT ![d] = Unknown]
  /\ proxyResult' = [proxyResult EXCEPT ![d] = Unknown]
  /\ dnsResult' = [dnsResult EXCEPT ![d] = Unknown]
  /\ UNCHANGED <<hosts, records, found, copy>>

-------------------------------------------------------------------------------
(* ReconcileProxyHost *)

ProxyDone(d, outcome) ==
  /\ proxyResult' = [proxyResult EXCEPT ![d] = outcome]
  /\ GoTo(d, "dns list")
  /\ UNCHANGED <<records, want, dnsResult>>

(* Faulty: a host with other domains beside ours is not ours. *)
ListExactHosts(d) ==
  /\ pc[d] = "proxy list"
  /\ LET ours == {id \in Serving(want[d].domain) : hosts[id].domains = {want[d].domain}}
     IN  \/ ours = {} /\ Keep(d, Absent, Absent)
         \/ \E id \in ours : Keep(d, id, hosts[id])
  /\ GoTo(d, "proxy write")
  /\ UNCHANGED <<hosts, records, want, results>>

(* Faulty: a host of another domain passes for ours. *)
ListAnyHost(d) ==
  /\ pc[d] = "proxy list"
  /\ \E id \in HostIds : hosts[id] # Absent /\ Keep(d, id, hosts[id])
  /\ GoTo(d, "proxy write")
  /\ UNCHANGED <<hosts, records, want, results>>

(* findByDomain: the first host listed that serves the domain. *)
ListHosts(d) ==
  /\ pc[d] = "proxy list"
  /\ \/ Serving(want[d].domain) = {} /\ Keep(d, Absent, Absent)
     \/ \E id \in Serving(want[d].domain) : Keep(d, id, hosts[id])
  /\ GoTo(d, "proxy write")
  /\ UNCHANGED <<hosts, records, want, results>>

(* Faulty: the certificate is left out of the object that is put. *)
DesiredWithoutCert(d) ==
  [domains |-> {want[d].domain}, target |-> want[d].target, cert |-> NoCert]

(* Faulty: a new host is sent with no certificate field at all. *)
DesiredNullCert(d) ==
  [domains |-> {want[d].domain},
   target  |-> want[d].target,
   cert    |-> IF found[d] = Absent THEN Absent ELSE copy[d].cert]

(* desired: the managed fields as wanted, and the certificate that was seen.*)
Desired(d) ==
  [domains |-> {want[d].domain},
   target  |-> want[d].target,
   cert    |-> IF found[d] = Absent THEN NoCert ELSE copy[d].cert]

(* Faulty: only the domains are compared. *)
ComparesDomains(d) ==
  copy[d].domains = {want[d].domain}

EqualManaged(d) ==
  /\ copy[d].domains = {want[d].domain}
  /\ copy[d].target = want[d].target

(* A write is applied; its answer may be lost on the way back. *)
CreateHost(d) ==
  /\ pc[d] = "proxy write"
  /\ found[d] = Absent
  /\ \E id \in HostIds :
       /\ hosts[id] = Absent
       /\ hosts' = [hosts EXCEPT ![id] = Desired(d)]
  /\ \E outcome \in {"created", "failed"} : ProxyDone(d, outcome)
  /\ Keep(d, Absent, Absent)

UpdateHost(d) ==
  /\ pc[d] = "proxy write"
  /\ found[d] # Absent
  /\ ~EqualManaged(d)
  /\ hosts' = [hosts EXCEPT ![found[d]] = Desired(d)]
  /\ \E outcome \in {"updated", "failed"} : ProxyDone(d, outcome)
  /\ Keep(d, Absent, Absent)

HostIsRight(d) ==
  /\ pc[d] = "proxy write"
  /\ found[d] # Absent
  /\ EqualManaged(d)
  /\ ProxyDone(d, "noop")
  /\ Keep(d, Absent, Absent)
  /\ UNCHANGED hosts

(* Authentication, the list or the write fails and changes nothing. *)
ProxyFails(d) ==
  /\ pc[d] \in {"proxy list", "proxy write"}
  /\ ProxyDone(d, "failed")
  /\ Keep(d, Absent, Absent)
  /\ UNCHANGED hosts

-------------------------------------------------------------------------------
(* UpsertA *)

DnsDone(d, outcome) ==
  /\ dnsResult' = [dnsResult EXCEPT ![d] = outcome]
  /\ GoTo(d, "done")
  /\ Keep(d, Absent, Absent)
  /\ UNCHANGED <<hosts, want, proxyResult>>

(* Faulty: one of the duplicates is taken. *)
ListAnyRecord(d) ==
  /\ pc[d] = "dns list"
  /\ \/ Named(want[d].domain) = {} /\ Keep(d, Absent, Absent)
     \/ \E id \in Named(want[d].domain) : Keep(d, id, records[id])
  /\ GoTo(d, "dns write")
  /\ UNCHANGED <<hosts, records, want, results>>

ListRecords(d) ==
  /\ pc[d] = "dns list"
  /\ \/ Named(want[d].domain) = {} /\ Keep(d, Absent, Absent)
     \/ \E id \in RecordIds : Named(want[d].domain) = {id} /\ Keep(d, id, records[id])
  /\ GoTo(d, "dns write")
  /\ UNCHANGED <<hosts, records, want, results>>

(* Two records or more: never guess among human-made duplicates. *)
Ambiguous(d) ==
  /\ pc[d] = "dns list"
  /\ Cardinality(Named(want[d].domain)) > 1
  /\ DnsDone(d, "failed")
  /\ UNCHANGED records

CreateRecord(d) ==
  /\ pc[d] = "dns write"
  /\ found[d] = Absent
  /\ \E id \in RecordIds :
       /\ records[id] = Absent
       /\ records' = [records EXCEPT ![id] =
                        [name |-> want[d].domain, content |-> want[d].address]]
  /\ \E outcome \in {"created", "failed"} : DnsDone(d, outcome)

EditRecord(d) ==
  /\ pc[d] = "dns write"
  /\ found[d] # Absent
  /\ copy[d].content # want[d].address
  /\ records' = [records EXCEPT ![found[d]] = [@ EXCEPT !.content = want[d].address]]
  /\ \E outcome \in {"updated", "failed"} : DnsDone(d, outcome)

RecordIsRight(d) ==
  /\ pc[d] = "dns write"
  /\ found[d] # Absent
  /\ copy[d].content = want[d].address
  /\ DnsDone(d, "noop")
  /\ UNCHANGED records

DnsFails(d) ==
  /\ pc[d] \in {"dns list", "dns write"}
  /\ DnsDone(d, "failed")
  /\ UNCHANGED records

-------------------------------------------------------------------------------
(* The operator, in the UI of NPMplus. *)

IssueCertificate(id) ==
  /\ hosts[id] # Absent
  /\ hosts[id].cert = NoCert
  /\ hosts' = [hosts EXCEPT ![id].cert = Cert]
  /\ UNCHANGED <<records, pc, want, found, copy, results>>

Repoint(id, target) ==
  /\ hosts[id] # Absent
  /\ hosts[id].target # target
  /\ hosts' = [hosts EXCEPT ![id].target = target]
  /\ UNCHANGED <<records, pc, want, found, copy, results>>

Step(d) ==
  \/ ListHosts(d)
  \/ CreateHost(d) \/ UpdateHost(d) \/ HostIsRight(d) \/ ProxyFails(d)
  \/ ListRecords(d) \/ Ambiguous(d)
  \/ CreateRecord(d) \/ EditRecord(d) \/ RecordIsRight(d) \/ DnsFails(d)
  \/ Finish(d)

Next ==
  \/ \E d \in Deploys, w \in Wants : Start(d, w)
  \/ \E d \in Deploys : Step(d)
  \/ \E id \in HostIds :
       IssueCertificate(id) \/ \E target \in Targets : Repoint(id, target)

Spec == Init /\ [][Next]_vars

-------------------------------------------------------------------------------

TypeOK ==
  /\ hosts \in [HostIds -> Host \cup {Absent}]
  /\ records \in [RecordIds -> Record \cup {Absent}]
  /\ pc \in [Deploys -> {"idle", "proxy list", "proxy write", "dns list", "dns write", "done"}]
  /\ want \in [Deploys -> Wants \cup {Unknown}]
  /\ found \in [Deploys -> HostIds \cup RecordIds \cup {Absent}]
  /\ copy \in [Deploys -> Host \cup Record \cup {Absent}]
  /\ proxyResult \in [Deploys -> Outcomes \cup {Unknown}]
  /\ dnsResult \in [Deploys -> Outcomes \cup {Unknown}]

(* A certificate issued in the UI is lost only to a deploy that looked at   *)
(* the host before it was issued: an update keeps the one it saw.           *)
CertificateKept ==
  [][\A id \in HostIds :
       hosts[id] # Absent /\ hosts[id].cert = Cert /\ hosts'[id].cert # Cert
         => \E d \in Deploys :
              pc[d] = "proxy write" /\ found[d] = id /\ copy[d].cert = NoCert]_vars

(* Deploys of one domain apart, no domain ever gets a second proxy host or a *)
(* second A record from statio, although answers get lost and it tries      *)
(* again, other domains are deployed beside it, and whatever other domains  *)
(* a host of the operator serves.                                           *)
NoDuplicates ==
  [][\A name \in Domains :
       /\ Cardinality(Serving(name)') > Cardinality(Serving(name)) => Serving(name) = {}
       /\ Cardinality(Named(name)') > Cardinality(Named(name)) => Named(name) = {}]_vars

(* A deploy that reports its record in place left the name with exactly     *)
(* that record; one that cannot tell among duplicates touches none.         *)
RecordIsTrue ==
  [][\A d \in Deploys :
       /\ dnsResult'[d] \in {"created", "updated", "noop"} /\ dnsResult[d] = Unknown
            => \E id \in RecordIds :
                 /\ Named(want[d].domain)' = {id}
                 /\ records'[id].content = want[d].address
       /\ \A id \in RecordIds :
            records'[id] # records[id] /\ records[id] # Absent
              => Named(records[id].name) = {id}]_vars

(* The host that a deploy saw was given to another domain since: it had     *)
(* served both, and the deploy of the other one wrote it for that one.      *)
HostTaken(d) == hosts[found[d]].domains # copy[d].domains

(* A domain that is served loses its host only to a deploy of another       *)
(* domain that found both on the host when it looked, or one that found its *)
(* own there and has lost the host since.                                   *)
DomainStays ==
  [][\A name \in Domains :
       Serving(name) # {} /\ Serving(name)' = {}
         => \E d \in Deploys :
              /\ pc[d] = "proxy write" /\ found[d] \in Serving(name)
              /\ want[d].domain \in copy[d].domains
              /\ name \in copy[d].domains \/ HostTaken(d)]_vars

(* A deploy that reports its proxy host in place left one host for the      *)
(* domain, which serves nothing else; it forwards to the deploy's target    *)
(* unless the operator repointed it after the deploy looked. Only a deploy  *)
(* that writes nothing can be wrong, about a host that was taken since.     *)
HostIsTrue ==
  [][\A d \in Deploys :
       proxyResult'[d] \in {"created", "updated", "noop"} /\ proxyResult[d] = Unknown
         => \/ proxyResult'[d] = "noop" /\ HostTaken(d)
            \/ \E id \in HostIds :
                 /\ Serving(want[d].domain)' = {id}
                 /\ hosts'[id].domains = {want[d].domain}
                 /\ \/ hosts'[id].target = want[d].target
                    \/ proxyResult'[d] = "noop" /\ hosts[id].target # copy[d].target]_vars
================================================================================
