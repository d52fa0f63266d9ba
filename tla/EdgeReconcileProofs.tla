------------------------- MODULE EdgeReconcileProofs -------------------------
(* What holds of EdgeReconcile: types, certificates and served domains      *)
(* however deploys overlap; one host and one record for a domain when the   *)
(* deploys of that domain do not.                                           *)
EXTENDS EdgeReconcile, FiniteSetTheorems, TLAPS

(* What a deploy saw is nothing, or an entry of the provider it writes to. *)
SawNothing(d) == found[d] = Absent /\ copy[d] = Absent
SawHost(d) == /\ found[d] \in HostIds
              /\ copy[d] \in Host
              /\ hosts[found[d]] \in Host
              /\ want[d].domain \in copy[d].domains
SawRecord(d) == /\ found[d] \in RecordIds
                /\ copy[d] \in Record
                /\ records[found[d]] \in Record

Looked(d) ==
  /\ pc[d] # "idle" => want[d] \in Wants
  /\ pc[d] = "proxy write" => SawNothing(d) \/ SawHost(d)
  /\ pc[d] = "dns write" => SawNothing(d) \/ SawRecord(d)

TypeInv ==
  /\ TypeOK
  /\ \A d \in Deploys : Looked(d)

LEMMA DesiredType ==
  ASSUME TypeInv, NEW d \in Deploys, pc[d] = "proxy write"
  PROVE  Desired(d) \in Host
<1>1. want[d] \in Wants /\ (SawNothing(d) \/ SawHost(d))
  BY DEF TypeInv, Looked
<1>2. CASE found[d] = Absent
  BY <1>1, <1>2 DEF Desired, Host, Wants
<1>3. CASE found[d] # Absent
  <2>1. copy[d] \in Host
    BY <1>1, <1>3 DEF SawNothing, SawHost
  <2> QED
    BY <1>1, <1>3, <2>1 DEF Desired, Host, Wants
<1> QED
  BY <1>2, <1>3

LEMMA TypeInvariant == Spec => []TypeInv
<1>1. Init => TypeInv
  BY EdgeAssumption DEF Init, TypeInv, TypeOK, Looked, Outcomes
<1>2. TypeInv /\ [Next]_vars => TypeInv'
  <2> SUFFICES ASSUME TypeInv, [Next]_vars
               PROVE  TypeInv'
    OBVIOUS
  <2>a. TypeOK /\ \A d \in Deploys : Looked(d)
    BY DEF TypeInv
  <2> USE DEF TypeOK, GoTo, Keep, results
  <2>1. ASSUME NEW d \in Deploys, NEW w \in Wants, Start(d, w)
        PROVE  TypeInv'
    BY <2>1, <2>a DEF Start, TypeInv, Looked, SawNothing, SawHost, SawRecord
  <2>2. ASSUME NEW d \in Deploys, Finish(d)
        PROVE  TypeInv'
    BY <2>2, <2>a DEF Finish, TypeInv, Looked, SawNothing, SawHost, SawRecord
  <2>3. ASSUME NEW d \in Deploys, ListHosts(d)
        PROVE  TypeInv'
    <3>1. \/ found' = [found EXCEPT ![d] = Absent] /\ copy' = [copy EXCEPT ![d] = Absent]
          \/ \E id \in HostIds : /\ hosts[id] \in Host /\ want[d].domain \in hosts[id].domains
                                 /\ found' = [found EXCEPT ![d] = id]
                                 /\ copy' = [copy EXCEPT ![d] = hosts[id]]
      BY <2>3, <2>a DEF ListHosts, Serving
    <3>2. pc[d] = "proxy list" /\ pc' = [pc EXCEPT ![d] = "proxy write"]
          /\ UNCHANGED <<hosts, records, want, results>>
      BY <2>3 DEF ListHosts
    <3>3. TypeOK'
      <4>1. /\ found' \in [Deploys -> HostIds \cup RecordIds \cup {Absent}]
            /\ copy' \in [Deploys -> Host \cup Record \cup {Absent}]
        BY <2>a, <3>1
      <4>2. pc' \in [Deploys -> {"idle", "proxy list", "proxy write", "dns list",
                                  "dns write", "done"}]
        BY <2>a, <3>2
      <4> QED
        BY <2>a, <3>2, <4>1, <4>2
    <3>4. Looked(d)'
      BY <2>a, <3>1, <3>2 DEF Looked, SawNothing, SawHost
    <3>5. \A e \in Deploys \ {d} : Looked(e)'
      BY <2>a, <3>1, <3>2 DEF Looked, SawNothing, SawHost, SawRecord
    <3> QED
      BY <3>3, <3>4, <3>5 DEF TypeInv
  <2>4. ASSUME NEW d \in Deploys, CreateHost(d)
        PROVE  TypeInv'
    <3>1. Desired(d) \in Host
      BY <2>4, DesiredType DEF CreateHost
    <3>2. /\ hosts' \in [HostIds -> Host \cup {Absent}]
          /\ \A id \in HostIds : hosts[id] \in Host => hosts'[id] \in Host
      BY <2>4, <2>a, <3>1 DEF CreateHost
    <3>3. /\ pc[d] = "proxy write" /\ pc' = [pc EXCEPT ![d] = "dns list"]
          /\ \E o \in Outcomes : proxyResult' = [proxyResult EXCEPT ![d] = o]
          /\ found' = [found EXCEPT ![d] = Absent] /\ copy' = [copy EXCEPT ![d] = Absent]
          /\ UNCHANGED <<records, want, dnsResult>>
      BY <2>4 DEF CreateHost, ProxyDone, Outcomes
    <3>4. TypeOK'
      BY <2>a, <3>2, <3>3
    <3>5. \A e \in Deploys : Looked(e)'
      BY <2>a, <3>2, <3>3 DEF Looked, SawNothing, SawHost, SawRecord
    <3> QED
      BY <3>4, <3>5 DEF TypeInv
  <2>5. ASSUME NEW d \in Deploys, UpdateHost(d)
        PROVE  TypeInv'
    <3>1. Desired(d) \in Host
      BY <2>5, DesiredType DEF UpdateHost
    <3>2. /\ hosts' \in [HostIds -> Host \cup {Absent}]
          /\ \A id \in HostIds : hosts[id] \in Host => hosts'[id] \in Host
      BY <2>5, <2>a, <3>1 DEF UpdateHost
    <3>3. /\ pc[d] = "proxy write" /\ pc' = [pc EXCEPT ![d] = "dns list"]
          /\ \E o \in Outcomes : proxyResult' = [proxyResult EXCEPT ![d] = o]
          /\ found' = [found EXCEPT ![d] = Absent] /\ copy' = [copy EXCEPT ![d] = Absent]
          /\ UNCHANGED <<records, want, dnsResult>>
      BY <2>5 DEF UpdateHost, ProxyDone, Outcomes
    <3>4. TypeOK'
      BY <2>a, <3>2, <3>3
    <3>5. \A e \in Deploys : Looked(e)'
      BY <2>a, <3>2, <3>3 DEF Looked, SawNothing, SawHost, SawRecord
    <3> QED
      BY <3>4, <3>5 DEF TypeInv
  <2>6. ASSUME NEW d \in Deploys, HostIsRight(d) \/ ProxyFails(d)
        PROVE  TypeInv'
    BY <2>6, <2>a DEF HostIsRight, ProxyFails, ProxyDone, Outcomes, TypeInv, Looked, SawNothing, SawHost, SawRecord
  <2>7. ASSUME NEW d \in Deploys, ListRecords(d)
        PROVE  TypeInv'
    <3>1. \/ found' = [found EXCEPT ![d] = Absent] /\ copy' = [copy EXCEPT ![d] = Absent]
          \/ \E id \in RecordIds : /\ records[id] \in Record
                                   /\ found' = [found EXCEPT ![d] = id]
                                   /\ copy' = [copy EXCEPT ![d] = records[id]]
      <4>1. CASE Named(want[d].domain) = {} /\ Keep(d, Absent, Absent)
        BY <4>1
      <4>2. ASSUME NEW id \in RecordIds, Named(want[d].domain) = {id}, Keep(d, id, records[id])
            PROVE  records[id] \in Record
        <5>1. id \in Named(want[d].domain)
          BY <4>2
        <5> QED
          BY <2>a, <5>1 DEF Named
      <4> QED
        BY <2>7, <4>1, <4>2 DEF ListRecords
    <3>2. pc[d] = "dns list" /\ pc' = [pc EXCEPT ![d] = "dns write"]
          /\ UNCHANGED <<hosts, records, want, results>>
      BY <2>7 DEF ListRecords
    <3>3. TypeOK'
      <4>1. /\ found' \in [Deploys -> HostIds \cup RecordIds \cup {Absent}]
            /\ copy' \in [Deploys -> Host \cup Record \cup {Absent}]
        BY <2>a, <3>1
      <4>2. pc' \in [Deploys -> {"idle", "proxy list", "proxy write", "dns list",
                                  "dns write", "done"}]
        BY <2>a, <3>2
      <4> QED
        BY <2>a, <3>2, <4>1, <4>2
    <3>4. Looked(d)'
      BY <2>a, <3>1, <3>2 DEF Looked, SawNothing, SawRecord
    <3>5. \A e \in Deploys \ {d} : Looked(e)'
      BY <2>a, <3>1, <3>2 DEF Looked, SawNothing, SawHost, SawRecord
    <3> QED
      BY <3>3, <3>4, <3>5 DEF TypeInv
  <2>8. ASSUME NEW d \in Deploys, CreateRecord(d)
        PROVE  TypeInv'
    <3>1. want[d] \in Wants
      BY <2>8, <2>a DEF CreateRecord, Looked
    <3>2. [name |-> want[d].domain, content |-> want[d].address] \in Record
      BY <3>1 DEF Wants, Record
    <3>3. /\ records' \in [RecordIds -> Record \cup {Absent}]
          /\ \A id \in RecordIds : records[id] \in Record => records'[id] \in Record
      BY <2>8, <2>a, <3>2 DEF CreateRecord
    <3>4. /\ pc[d] = "dns write" /\ pc' = [pc EXCEPT ![d] = "done"]
          /\ \E o \in Outcomes : dnsResult' = [dnsResult EXCEPT ![d] = o]
          /\ found' = [found EXCEPT ![d] = Absent] /\ copy' = [copy EXCEPT ![d] = Absent]
          /\ UNCHANGED <<hosts, want, proxyResult>>
      BY <2>8 DEF CreateRecord, DnsDone, Outcomes
    <3>5. TypeOK'
      BY <2>a, <3>3, <3>4
    <3>6. \A e \in Deploys : Looked(e)'
      BY <2>a, <3>3, <3>4 DEF Looked, SawNothing, SawHost, SawRecord
    <3> QED
      BY <3>5, <3>6 DEF TypeInv
  <2>9. ASSUME NEW d \in Deploys, EditRecord(d)
        PROVE  TypeInv'
    <3>1. want[d] \in Wants
      BY <2>9, <2>a DEF EditRecord, Looked
    <3>2. found[d] \in RecordIds /\ records[found[d]] \in Record
      BY <2>9, <2>a DEF EditRecord, Looked, SawNothing, SawRecord
    <3>3. [records[found[d]] EXCEPT !.content = want[d].address] \in Record
      BY <3>1, <3>2 DEF Wants, Record
    <3>4. /\ records' \in [RecordIds -> Record \cup {Absent}]
          /\ \A id \in RecordIds : records[id] \in Record => records'[id] \in Record
      BY <2>9, <2>a, <3>2, <3>3 DEF EditRecord
    <3>5. /\ pc[d] = "dns write" /\ pc' = [pc EXCEPT ![d] = "done"]
          /\ \E o \in Outcomes : dnsResult' = [dnsResult EXCEPT ![d] = o]
          /\ found' = [found EXCEPT ![d] = Absent] /\ copy' = [copy EXCEPT ![d] = Absent]
          /\ UNCHANGED <<hosts, want, proxyResult>>
      BY <2>9 DEF EditRecord, DnsDone, Outcomes
    <3>6. TypeOK'
      BY <2>a, <3>4, <3>5
    <3>7. \A e \in Deploys : Looked(e)'
      BY <2>a, <3>4, <3>5 DEF Looked, SawNothing, SawHost, SawRecord
    <3> QED
      BY <3>6, <3>7 DEF TypeInv
  <2>10. ASSUME NEW d \in Deploys, Ambiguous(d) \/ RecordIsRight(d) \/ DnsFails(d)
         PROVE  TypeInv'
    <3>1. /\ pc[d] \in {"dns list", "dns write"} /\ pc' = [pc EXCEPT ![d] = "done"]
          /\ \E o \in Outcomes : dnsResult' = [dnsResult EXCEPT ![d] = o]
          /\ found' = [found EXCEPT ![d] = Absent] /\ copy' = [copy EXCEPT ![d] = Absent]
          /\ UNCHANGED <<hosts, records, want, proxyResult>>
      BY <2>10 DEF Ambiguous, RecordIsRight, DnsFails, DnsDone, Outcomes
    <3>2. TypeOK'
      BY <2>a, <3>1
    <3>3. \A e \in Deploys : Looked(e)'
      BY <2>a, <3>1 DEF Looked, SawNothing, SawHost, SawRecord
    <3> QED
      BY <3>2, <3>3 DEF TypeInv
  <2>11. ASSUME NEW id \in HostIds, IssueCertificate(id) \/ \E target \in Targets : Repoint(id, target)
         PROVE  TypeInv'
    <3>1. hosts[id] \in Host
      BY <2>11, <2>a DEF IssueCertificate, Repoint
    <3>2. /\ [hosts[id] EXCEPT !.cert = Cert] \in Host
          /\ \A target \in Targets : [hosts[id] EXCEPT !.target = target] \in Host
      BY <3>1 DEF Host
    <3>3. /\ hosts' \in [HostIds -> Host \cup {Absent}]
          /\ \A i \in HostIds : hosts[i] \in Host => hosts'[i] \in Host
      BY <2>11, <2>a, <3>2 DEF IssueCertificate, Repoint
    <3>4. UNCHANGED <<records, pc, want, found, copy, results>>
      BY <2>11 DEF IssueCertificate, Repoint
    <3>5. \A e \in Deploys : Looked(e)'
      BY <2>a, <3>3, <3>4 DEF Looked, SawNothing, SawHost, SawRecord
    <3> QED
      BY <2>a, <3>3, <3>4, <3>5 DEF TypeInv
  <2>12. CASE UNCHANGED vars
    BY <2>12, <2>a DEF vars, TypeInv, Looked, SawNothing, SawHost, SawRecord
  <2> QED
    BY <2>1, <2>2, <2>3, <2>4, <2>5, <2>6, <2>7, <2>8, <2>9, <2>10, <2>11, <2>12 DEF Next, Step
<1> QED
  BY <1>1, <1>2, PTL DEF Spec

(* Types are kept, however deploys overlap and whatever the operator does. *)
THEOREM TypeCorrect == Spec => []TypeOK
BY TypeInvariant, PTL DEF TypeInv

(* A certificate is lost only to a deploy that looked before it was issued, *)
(* however deploys overlap (desired keeps the certificate it saw).          *)
THEOREM CertificateCorrect == Spec => CertificateKept
<1> DEFINE Kept ==
  \A id \in HostIds :
    hosts[id] # Absent /\ hosts[id].cert = Cert /\ hosts'[id].cert # Cert
      => \E d \in Deploys :
           pc[d] = "proxy write" /\ found[d] = id /\ copy[d].cert = NoCert
<1>1. TypeInv /\ [Next]_vars => [Kept]_vars
  <2> SUFFICES ASSUME TypeInv, Next
               PROVE  Kept
    BY DEF vars
  <2> SUFFICES ASSUME NEW id \in HostIds,
                      hosts[id] # Absent, hosts[id].cert = Cert, hosts'[id].cert # Cert
               PROVE  \E d \in Deploys :
                        pc[d] = "proxy write" /\ found[d] = id /\ copy[d].cert = NoCert
    OBVIOUS
  <2>a. hosts \in [HostIds -> Host \cup {Absent}]
    BY DEF TypeInv, TypeOK
  <2>1. ASSUME NEW d \in Deploys, UpdateHost(d)
        PROVE  pc[d] = "proxy write" /\ found[d] = id /\ copy[d].cert = NoCert
    <3>1. pc[d] = "proxy write" /\ SawHost(d)
      BY <2>1 DEF UpdateHost, TypeInv, Looked, SawNothing
    <3>2. hosts' = [hosts EXCEPT ![found[d]] = Desired(d)]
      BY <2>1 DEF UpdateHost
    <3>3. found[d] = id
      <4>1. id # found[d] => hosts'[id] = hosts[id]
        BY <2>a, <3>2
      <4> QED
        BY <4>1
    <3>4. Desired(d).cert = copy[d].cert
      BY <2>1 DEF Desired, UpdateHost
    <3>5. copy[d].cert \in {NoCert, Cert}
      BY <3>1 DEF SawHost, Host
    <3> QED
      BY <2>a, <3>1, <3>2, <3>3, <3>4, <3>5
  <2>2. ASSUME NEW d \in Deploys, CreateHost(d)
        PROVE  FALSE
    BY <2>2, <2>a DEF CreateHost
  <2>3. ASSUME NEW i \in HostIds, IssueCertificate(i) \/ \E target \in Targets : Repoint(i, target)
        PROVE  FALSE
    <3>1. hosts[id] \in Host /\ hosts[i] \in Host
      BY <2>3, <2>a DEF IssueCertificate, Repoint
    <3> QED
      BY <2>3, <2>a, <3>1 DEF IssueCertificate, Repoint, Host
  <2>4. hosts' # hosts
    OBVIOUS
  <2>5. CASE \E d \in Deploys, w \in Wants : Start(d, w)
    BY <2>4, <2>5 DEF Start
  <2>6. CASE \E d \in Deploys : Step(d)
    BY <2>1, <2>2, <2>4, <2>6 DEF Step, ListHosts, HostIsRight, ProxyFails, ListRecords, Ambiguous,
       CreateRecord, EditRecord, RecordIsRight, DnsFails, DnsDone, Finish
  <2> QED
    BY <2>3, <2>5, <2>6 DEF Next
<1> QED
  BY <1>1, TypeInvariant, PTL DEF Spec, CertificateKept

(* The operator leaves the domains of every host alone. *)
LEMMA OperatorKeepsDomains ==
  ASSUME hosts \in [HostIds -> Host \cup {Absent}], NEW id \in HostIds,
         IssueCertificate(id) \/ \E target \in Targets : Repoint(id, target)
  PROVE  /\ UNCHANGED <<records, pc, want, found, copy, results>>
         /\ \A i \in HostIds : /\ (hosts'[i] = Absent) <=> (hosts[i] = Absent)
                               /\ hosts'[i].domains = hosts[i].domains
<1>1. hosts[id] \in Host /\ UNCHANGED <<records, pc, want, found, copy, results>>
  BY DEF IssueCertificate, Repoint
<1>2. PICK new \in Host : new.domains = hosts[id].domains /\ hosts' = [hosts EXCEPT ![id] = new]
  <2>1. CASE IssueCertificate(id)
    <3>1. [hosts[id] EXCEPT !.cert = Cert] \in Host
          /\ [hosts[id] EXCEPT !.cert = Cert].domains = hosts[id].domains
      BY <1>1 DEF Host
    <3> QED
      BY <2>1, <3>1 DEF IssueCertificate
  <2>2. ASSUME NEW target \in Targets, Repoint(id, target)
        PROVE  \E new \in Host : new.domains = hosts[id].domains /\ hosts' = [hosts EXCEPT ![id] = new]
    <3>1. [hosts[id] EXCEPT !.target = target] \in Host
          /\ [hosts[id] EXCEPT !.target = target].domains = hosts[id].domains
      BY <1>1 DEF Host
    <3> QED
      BY <2>2, <3>1 DEF Repoint
  <2> QED
    BY <2>1, <2>2
<1>3. ASSUME NEW i \in HostIds
      PROVE  ((hosts'[i] = Absent) <=> (hosts[i] = Absent)) /\ hosts'[i].domains = hosts[i].domains
  <2>1. CASE i = id
    BY <1>1, <1>2, <2>1, EdgeAssumption
  <2>2. CASE i # id
    BY <1>2, <2>2
  <2> QED
    BY <2>1, <2>2
<1> QED
  BY <1>1, <1>3

(* A served domain loses its host only to a deploy of another domain that   *)
(* found both on it or lost it since, however deploys overlap (findByDomain *)
(* returns a host that lists the domain).                                   *)
THEOREM DomainsCorrect == Spec => DomainStays
<1> DEFINE Taken(name) ==
  \E d \in Deploys :
    /\ pc[d] = "proxy write" /\ found[d] \in Serving(name)
    /\ want[d].domain \in copy[d].domains
    /\ name \in copy[d].domains \/ HostTaken(d)
<1>1. TypeInv /\ [Next]_vars =>
        [\A name \in Domains : Serving(name) # {} /\ Serving(name)' = {} => Taken(name)]_vars
  <2> SUFFICES ASSUME TypeInv, Next, NEW name \in Domains, Serving(name) # {}, Serving(name)' = {}
               PROVE  Taken(name)
    BY DEF vars
  <2>t. hosts \in [HostIds -> Host \cup {Absent}] /\ \A d \in Deploys : Looked(d)
    BY DEF TypeInv, TypeOK
  <2>1. PICK id \in HostIds : hosts[id] # Absent /\ name \in hosts[id].domains
    BY DEF Serving
  <2>2. hosts'[id] = Absent \/ name \notin hosts'[id].domains
    BY DEF Serving
  <2>3. ASSUME NEW d \in Deploys, UpdateHost(d)
        PROVE  Taken(name)
    <3>1. pc[d] = "proxy write" /\ SawHost(d)
      BY <2>3, <2>t DEF UpdateHost, Looked, SawNothing
    <3>2. found[d] = id
      BY <2>1, <2>2, <2>3, <2>t, <3>1 DEF UpdateHost, SawHost
    <3>3. found[d] \in Serving(name) /\ want[d].domain \in copy[d].domains
      BY <2>1, <3>1, <3>2 DEF Serving, SawHost
    <3>4. name \in copy[d].domains \/ HostTaken(d)
      BY <2>1, <3>2 DEF HostTaken
    <3> QED
      BY <3>1, <3>3, <3>4
  <2>4. ASSUME NEW d \in Deploys, CreateHost(d)
        PROVE  FALSE
    BY <2>1, <2>2, <2>4, <2>t DEF CreateHost
  <2>5. ASSUME NEW i \in HostIds, IssueCertificate(i) \/ \E target \in Targets : Repoint(i, target)
        PROVE  FALSE
    BY <2>1, <2>2, <2>5, <2>t, OperatorKeepsDomains
  <2>6. CASE UNCHANGED hosts
    BY <2>1, <2>2, <2>6
  <2> QED
    BY <2>3, <2>4, <2>5, <2>6 DEF Next, Step, Start, ListHosts, HostIsRight, ProxyFails, ListRecords,
       Ambiguous, CreateRecord, EditRecord, RecordIsRight, DnsFails, DnsDone, Finish
<1> QED
  BY <1>1, TypeInvariant, PTL DEF Spec, DomainStays

-------------------------------------------------------------------------------
(* Deploys of one domain one after the other, on hosts no two of which      *)
(* serve one domain: NPMplus refuses a domain that is in use.               *)
Unique(h) ==
  \A i, j \in HostIds :
    h[i] # Absent /\ h[j] # Absent /\ h[i].domains \cap h[j].domains # {} => i = j

OneHostPerDomain == \A h \in InitialHosts : Unique(h)

(* No host but the one that a deploy saw serves its domain; it may have     *)
(* been given to another domain since.                                      *)
HostSeen(d) ==
  pc[d] = "proxy write" => Serving(want[d].domain) \subseteq {found[d]}

(* What a deploy saw of its record is still so. *)
RecordSeen(d) ==
  pc[d] = "dns write" =>
    \/ SawNothing(d) /\ Named(want[d].domain) = {}
    \/ SawRecord(d) /\ Named(want[d].domain) = {found[d]} /\ copy[d] = records[found[d]]

DomainsApart ==
  \A d, e \in Deploys : ~Idle(d) /\ ~Idle(e) /\ want[d].domain = want[e].domain => d = e

EdgeInv ==
  /\ DomainsApart
  /\ Unique(hosts)
  /\ \A d \in Deploys : HostSeen(d) /\ RecordSeen(d)

LEMMA DesiredServes ==
  ASSUME NEW d \in Deploys
  PROVE  Desired(d).domains = {want[d].domain}
BY DEF Desired

(* A host that replaces what is there and serves the deploy's domain alone. *)
LEMMA WriteKeepsUnique ==
  ASSUME NEW h \in [HostIds -> Host \cup {Absent}], Unique(h),
         NEW id \in HostIds, NEW new, NEW name, new.domains = {name},
         \A i \in HostIds \ {id} : h[i] # Absent => name \notin h[i].domains
  PROVE  Unique([h EXCEPT ![id] = new])
BY DEF Unique

(* A write puts the deploy's domain on one host, and no other serves it. *)
LEMMA HostWritten ==
  ASSUME TypeInv, EdgeInv, NEW d \in Deploys, CreateHost(d) \/ UpdateHost(d)
  PROVE  \E id \in HostIds :
           /\ hosts' = [hosts EXCEPT ![id] = Desired(d)]
           /\ \A i \in HostIds \ {id} : hosts[i] # Absent => want[d].domain \notin hosts[i].domains
<1>1. pc[d] = "proxy write" /\ Looked(d) /\ HostSeen(d)
  BY DEF CreateHost, UpdateHost, TypeInv, EdgeInv
<1>2. \A i \in HostIds : i # found[d] /\ hosts[i] # Absent => want[d].domain \notin hosts[i].domains
  BY <1>1 DEF HostSeen, Serving
<1>3. CASE CreateHost(d)
  BY <1>2, <1>3, EdgeAssumption DEF CreateHost
<1>4. CASE UpdateHost(d)
  <2>1. found[d] \in HostIds
    BY <1>1, <1>4 DEF UpdateHost, Looked, SawNothing, SawHost
  <2> QED
    BY <1>2, <1>4, <2>1 DEF UpdateHost
<1> QED
  BY <1>3, <1>4

(* What a deploy saw stays so while it waits, when its own state is left    *)
(* alone and its domain gets no other host and keeps its records.           *)
LEMMA WaitingKeepsHost ==
  ASSUME NEW e \in Deploys, HostSeen(e),
         pc'[e] = pc[e], want'[e] = want[e], found'[e] = found[e],
         pc[e] = "proxy write" =>
           \A id \in HostIds :
             hosts'[id] # Absent /\ want[e].domain \in hosts'[id].domains
               => hosts[id] # Absent /\ want[e].domain \in hosts[id].domains
  PROVE  HostSeen(e)'
BY DEF HostSeen, Serving

LEMMA WaitingKeepsRecord ==
  ASSUME NEW e \in Deploys, RecordSeen(e),
         pc'[e] = pc[e], want'[e] = want[e], found'[e] = found[e], copy'[e] = copy[e],
         pc[e] = "dns write" =>
           \A id \in RecordIds :
             \/ records'[id] = records[id]
             \/ /\ records[id] = Absent \/ records[id].name # want[e].domain
                /\ records'[id] = Absent \/ records'[id].name # want[e].domain
  PROVE  RecordSeen(e)'
<1> SUFFICES ASSUME pc[e] = "dns write"
             PROVE  RecordSeen(e)'
  BY DEF RecordSeen
<1>1. Named(want[e].domain)' = Named(want[e].domain)
  BY DEF Named
<1>2. CASE SawNothing(e) /\ Named(want[e].domain) = {}
  BY <1>1, <1>2 DEF RecordSeen, SawNothing
<1>3. CASE SawRecord(e) /\ Named(want[e].domain) = {found[e]} /\ copy[e] = records[found[e]]
  <2>1. found[e] \in RecordIds /\ records[found[e]] # Absent /\ records[found[e]].name = want[e].domain
    BY <1>3 DEF Named
  <2>2. records'[found[e]] = records[found[e]]
    BY <2>1
  <2> QED
    BY <1>1, <1>3, <2>2 DEF RecordSeen, SawRecord
<1> QED
  BY <1>2, <1>3 DEF RecordSeen

(* A step of one deploy: the others wait. *)
LEMMA OneMoves ==
  ASSUME TypeOK, EdgeInv, NEW d \in Deploys, ~Idle(d), NEW step,
         pc' = [pc EXCEPT ![d] = step],
         step = "idle" \/ want'[d] = want[d],
         \A e \in Deploys \ {d} : want'[e] = want[e],
         \A e \in Deploys \ {d} : HostSeen(e)' /\ RecordSeen(e)',
         HostSeen(d)', RecordSeen(d)', Unique(hosts)'
  PROVE  EdgeInv'
<1>1. \A e \in Deploys : ~Idle(e)' => ~Idle(e) /\ want'[e] = want[e]
  BY DEF TypeOK, Idle
<1>2. DomainsApart'
  BY <1>1 DEF EdgeInv, DomainsApart
<1> QED
  BY <1>2 DEF EdgeInv

(* A step that changes neither provider leaves the others what they saw. *)
LEMMA QuietStep ==
  ASSUME TypeOK, EdgeInv, NEW d \in Deploys, NEW step, pc' = [pc EXCEPT ![d] = step],
         UNCHANGED <<hosts, records>>,
         \A e \in Deploys \ {d} : want'[e] = want[e] /\ found'[e] = found[e] /\ copy'[e] = copy[e]
  PROVE  Unique(hosts)' /\ \A e \in Deploys \ {d} : HostSeen(e)' /\ RecordSeen(e)'
<1>1. Unique(hosts)'
  BY DEF EdgeInv, Unique
<1>2. ASSUME NEW e \in Deploys \ {d}
      PROVE  HostSeen(e)' /\ RecordSeen(e)'
  <2>1. HostSeen(e) /\ RecordSeen(e) /\ pc'[e] = pc[e]
    BY DEF EdgeInv, TypeOK
  <2> QED
    BY <2>1, WaitingKeepsHost, WaitingKeepsRecord
<1> QED
  BY <1>1, <1>2

LEMMA EdgeInvariant ==
  ASSUME OneAtATime \/ Apart, OneHostPerDomain
  PROVE  Spec => []EdgeInv
<1>1. Init => EdgeInv
  BY DEF Init, EdgeInv, DomainsApart, Idle, HostSeen, RecordSeen, OneHostPerDomain
<1>2. TypeInv /\ EdgeInv /\ [Next]_vars => EdgeInv'
  <2> SUFFICES ASSUME TypeInv, EdgeInv, [Next]_vars
               PROVE  EdgeInv'
    OBVIOUS
  <2>a. TypeOK /\ Unique(hosts) /\ \A d \in Deploys : Looked(d) /\ HostSeen(d) /\ RecordSeen(d)
    BY DEF TypeInv, EdgeInv
  <2>t. /\ hosts \in [HostIds -> Host \cup {Absent}] /\ records \in [RecordIds -> Record \cup {Absent}]
        /\ found \in [Deploys -> HostIds \cup RecordIds \cup {Absent}]
        /\ copy \in [Deploys -> Host \cup Record \cup {Absent}]
        /\ DOMAIN pc = Deploys /\ DOMAIN want = Deploys
    BY <2>a DEF TypeOK
  <2>o. ASSUME NEW d \in Deploys, NEW e \in Deploys \ {d}, ~Idle(d), ~Idle(e)
        PROVE  want[d].domain # want[e].domain
    BY <2>o DEF EdgeInv, DomainsApart
  <2>1. ASSUME NEW d \in Deploys, NEW w \in Wants, Start(d, w)
        PROVE  EdgeInv'
    <3>1. /\ pc' = [pc EXCEPT ![d] = "proxy list"]
          /\ want' = [want EXCEPT ![d] = w]
          /\ UNCHANGED <<hosts, records, found, copy>>
          /\ \A e \in Deploys : ~Idle(e) => want[e].domain # w.domain
      BY <2>1 DEF Start, GoTo
    <3>2. Unique(hosts)' /\ \A e \in Deploys \ {d} : HostSeen(e)' /\ RecordSeen(e)'
      BY <2>a, <2>t, <3>1, QuietStep
    <3>3. HostSeen(d)' /\ RecordSeen(d)'
      BY <2>t, <3>1 DEF HostSeen, RecordSeen
    <3>4. DomainsApart'
      <4>1. \A e \in Deploys \ {d} : (Idle(e)' <=> Idle(e)) /\ want'[e] = want[e]
        BY <2>t, <3>1 DEF Idle
      <4>2. want'[d] = w
        BY <2>t, <3>1
      <4> QED
        BY <3>1, <4>1, <4>2 DEF EdgeInv, DomainsApart
    <3> QED
      BY <3>2, <3>3, <3>4 DEF EdgeInv
  <2>2. ASSUME NEW d \in Deploys, NEW step \in {"idle", "dns list", "done"},
               pc[d] # "idle", pc' = [pc EXCEPT ![d] = step],
               UNCHANGED <<hosts, records>>,
               step = "idle" \/ want'[d] = want[d],
               \A e \in Deploys \ {d} : want'[e] = want[e] /\ found'[e] = found[e] /\ copy'[e] = copy[e]
        PROVE  EdgeInv'
    <3>1. HostSeen(d)' /\ RecordSeen(d)'
      BY <2>2, <2>t DEF HostSeen, RecordSeen
    <3> QED
      BY <2>2, <2>a, <3>1, QuietStep, OneMoves DEF Idle
  <2>3. ASSUME NEW d \in Deploys, Finish(d)
        PROVE  EdgeInv'
    BY <2>3, <2>2, <2>t DEF Finish, GoTo
  <2>4. ASSUME NEW d \in Deploys, HostIsRight(d) \/ ProxyFails(d)
        PROVE  EdgeInv'
    BY <2>4, <2>2, <2>t DEF HostIsRight, ProxyFails, ProxyDone, GoTo, Keep
  <2>5. ASSUME NEW d \in Deploys, Ambiguous(d) \/ RecordIsRight(d) \/ DnsFails(d)
        PROVE  EdgeInv'
    BY <2>5, <2>2, <2>t DEF Ambiguous, RecordIsRight, DnsFails, DnsDone, GoTo, Keep
  <2>6. ASSUME NEW d \in Deploys, ListHosts(d)
        PROVE  EdgeInv'
    <3>1. /\ pc[d] = "proxy list" /\ pc' = [pc EXCEPT ![d] = "proxy write"]
          /\ UNCHANGED <<hosts, records, want>>
      BY <2>6 DEF ListHosts, GoTo
    <3>2. \A e \in Deploys \ {d} : found'[e] = found[e] /\ copy'[e] = copy[e]
      BY <2>6, <2>t DEF ListHosts, Keep
    <3>3. HostSeen(d)'
      <4>1. CASE Serving(want[d].domain) = {}
        BY <3>1, <4>1 DEF HostSeen, Serving
      <4>2. ASSUME NEW id \in Serving(want[d].domain), Keep(d, id, hosts[id])
            PROVE  HostSeen(d)'
        <5>1. id \in HostIds /\ hosts[id] # Absent /\ want[d].domain \in hosts[id].domains
          BY DEF Serving
        <5>2. found'[d] = id
          BY <2>t, <4>2 DEF Keep
        <5>3. \A i \in HostIds : hosts[i] # Absent /\ want[d].domain \in hosts[i].domains => i = id
          BY <2>a, <5>1 DEF Unique
        <5> QED
          BY <3>1, <5>2, <5>3 DEF HostSeen, Serving
      <4> QED
        BY <2>6, <4>1, <4>2 DEF ListHosts
    <3>4. RecordSeen(d)'
      BY <2>t, <3>1 DEF RecordSeen
    <3> QED
      BY <2>a, <3>1, <3>2, <3>3, <3>4, QuietStep, OneMoves DEF Idle
  <2>7. ASSUME NEW d \in Deploys, ListRecords(d)
        PROVE  EdgeInv'
    <3>1. /\ pc[d] = "dns list" /\ pc' = [pc EXCEPT ![d] = "dns write"]
          /\ UNCHANGED <<hosts, records, want>>
      BY <2>7 DEF ListRecords, GoTo
    <3>2. \A e \in Deploys \ {d} : found'[e] = found[e] /\ copy'[e] = copy[e]
      BY <2>7, <2>t DEF ListRecords, Keep
    <3>3. RecordSeen(d)'
      <4>1. CASE Named(want[d].domain) = {} /\ Keep(d, Absent, Absent)
        BY <2>t, <3>1, <4>1 DEF RecordSeen, SawNothing, Keep, Named
      <4>2. ASSUME NEW id \in RecordIds, Named(want[d].domain) = {id}, Keep(d, id, records[id])
            PROVE  RecordSeen(d)'
        <5>1. id \in Named(want[d].domain)
          BY <4>2
        <5>2. records[id] \in Record
          BY <2>t, <5>1 DEF Named
        <5>3. found'[d] = id /\ copy'[d] = records[id]
          BY <2>t, <4>2 DEF Keep
        <5>4. Named(want[d].domain)' = {id}
          BY <3>1, <4>2 DEF Named
        <5> QED
          BY <3>1, <5>2, <5>3, <5>4 DEF RecordSeen, SawRecord
      <4> QED
        BY <2>7, <4>1, <4>2 DEF ListRecords
    <3>4. HostSeen(d)'
      BY <2>t, <3>1 DEF HostSeen
    <3> QED
      BY <2>a, <3>1, <3>2, <3>3, <3>4, QuietStep, OneMoves DEF Idle
  <2>8. ASSUME NEW d \in Deploys, CreateHost(d) \/ UpdateHost(d)
        PROVE  EdgeInv'
    <3>1. /\ pc[d] = "proxy write" /\ pc' = [pc EXCEPT ![d] = "dns list"]
          /\ UNCHANGED <<records, want>>
      BY <2>8 DEF CreateHost, UpdateHost, ProxyDone, GoTo
    <3>2. \A e \in Deploys \ {d} : found'[e] = found[e] /\ copy'[e] = copy[e]
      BY <2>8, <2>t DEF CreateHost, UpdateHost, Keep
    <3>3. PICK id \in HostIds :
            /\ hosts' = [hosts EXCEPT ![id] = Desired(d)]
            /\ \A i \in HostIds \ {id} : hosts[i] # Absent => want[d].domain \notin hosts[i].domains
      BY <2>8, HostWritten
    <3>4. Unique(hosts)'
      <4>1. Unique([hosts EXCEPT ![id] = Desired(d)])
        BY <2>a, <2>t, <3>3, DesiredServes, WriteKeepsUnique
      <4> QED
        BY <3>3, <4>1 DEF Unique
    <3>5. HostSeen(d)' /\ RecordSeen(d)'
      BY <2>t, <3>1 DEF HostSeen, RecordSeen
    <3>6. ASSUME NEW e \in Deploys \ {d}
          PROVE  HostSeen(e)' /\ RecordSeen(e)'
      <4>1. pc'[e] = pc[e] /\ want'[e] = want[e] /\ found'[e] = found[e] /\ copy'[e] = copy[e]
        BY <2>t, <3>1, <3>2
      <4>2. ASSUME pc[e] = "proxy write", NEW i \in HostIds,
                   hosts'[i] # Absent, want[e].domain \in hosts'[i].domains
            PROVE  hosts'[i] = hosts[i]
        <5>1. want[e].domain # want[d].domain
          BY <2>o, <3>1, <4>2 DEF Idle
        <5>2. i # id
          BY <2>t, <3>3, <4>2, <5>1, DesiredServes
        <5> QED
          BY <2>t, <3>3, <5>2
      <4>3. HostSeen(e)'
        BY <2>a, <4>1, <4>2, WaitingKeepsHost
      <4>4. RecordSeen(e)'
        BY <2>a, <3>1, <4>1, WaitingKeepsRecord
      <4> QED
        BY <4>3, <4>4
    <3> QED
      BY <2>a, <3>1, <3>4, <3>5, <3>6, OneMoves DEF Idle
  <2>9. ASSUME NEW d \in Deploys, CreateRecord(d) \/ EditRecord(d)
        PROVE  EdgeInv'
    <3>1. /\ pc[d] = "dns write" /\ pc' = [pc EXCEPT ![d] = "done"]
          /\ UNCHANGED <<hosts, want>>
      BY <2>9 DEF CreateRecord, EditRecord, DnsDone, GoTo
    <3>2. \A e \in Deploys \ {d} : found'[e] = found[e] /\ copy'[e] = copy[e]
      BY <2>9, <2>t DEF CreateRecord, EditRecord, DnsDone, Keep
    <3>3. PICK id \in RecordIds :
            /\ records[id] = Absent \/ records[id].name = want[d].domain
            /\ records'[id].name = want[d].domain
            /\ \A i \in RecordIds \ {id} : records'[i] = records[i]
      <4>1. CASE CreateRecord(d)
        <5>1. PICK id \in RecordIds :
                /\ records[id] = Absent
                /\ records' = [records EXCEPT ![id] =
                                 [name |-> want[d].domain, content |-> want[d].address]]
          BY <4>1 DEF CreateRecord
        <5> QED
          BY <2>t, <5>1
      <4>2. CASE EditRecord(d)
        <5>1. /\ found[d] \in RecordIds /\ records[found[d]] \in Record
              /\ found[d] \in Named(want[d].domain)
          BY <2>a, <3>1, <4>2 DEF EditRecord, RecordSeen, SawNothing, SawRecord
        <5>2. records' = [records EXCEPT ![found[d]] = [@ EXCEPT !.content = want[d].address]]
          BY <4>2 DEF EditRecord
        <5>3. [records[found[d]] EXCEPT !.content = want[d].address].name = records[found[d]].name
          BY <5>1 DEF Record
        <5> QED
          BY <2>t, <5>1, <5>2, <5>3 DEF Named
      <4> QED
        BY <2>9, <4>1, <4>2
    <3>4. Unique(hosts)'
      BY <2>a, <3>1 DEF Unique
    <3>5. HostSeen(d)' /\ RecordSeen(d)'
      BY <2>t, <3>1 DEF HostSeen, RecordSeen
    <3>6. ASSUME NEW e \in Deploys \ {d}
          PROVE  HostSeen(e)' /\ RecordSeen(e)'
      <4>1. pc'[e] = pc[e] /\ want'[e] = want[e] /\ found'[e] = found[e] /\ copy'[e] = copy[e]
        BY <2>t, <3>1, <3>2
      <4>2. HostSeen(e)'
        BY <2>a, <3>1, <4>1, WaitingKeepsHost
      <4>3. pc[e] = "dns write" => want[e].domain # want[d].domain
        BY <2>o, <3>1 DEF Idle
      <4>4. RecordSeen(e)'
        BY <2>a, <3>3, <4>1, <4>3, WaitingKeepsRecord
      <4> QED
        BY <4>2, <4>4
    <3> QED
      BY <2>a, <3>1, <3>4, <3>5, <3>6, OneMoves DEF Idle
  <2>10. ASSUME NEW id \in HostIds, IssueCertificate(id) \/ \E target \in Targets : Repoint(id, target)
         PROVE  EdgeInv'
    <3>1. /\ UNCHANGED <<records, pc, want, found, copy>>
          /\ \A i \in HostIds : /\ hosts'[i] # Absent => hosts[i] # Absent
                                /\ hosts'[i].domains = hosts[i].domains
      BY <2>10, <2>t, OperatorKeepsDomains
    <3>2. Unique(hosts)'
      BY <2>a, <3>1 DEF Unique
    <3>3. \A e \in Deploys : HostSeen(e)' /\ RecordSeen(e)'
      BY <2>a, <3>1, WaitingKeepsHost, WaitingKeepsRecord
    <3> QED
      BY <3>1, <3>2, <3>3 DEF EdgeInv, DomainsApart, Idle
  <2>11. CASE UNCHANGED vars
    BY <2>11 DEF vars, EdgeInv, DomainsApart, Idle, Unique, HostSeen, RecordSeen, SawNothing, SawRecord,
       Serving, Named
  <2> QED
    BY <2>1, <2>3, <2>4, <2>5, <2>6, <2>7, <2>8, <2>9, <2>10, <2>11 DEF Next, Step
<1> QED
  BY <1>1, <1>2, TypeInvariant, PTL DEF Spec

(* A deploy that reports its record in place left exactly that record, and  *)
(* duplicates are never touched, when no two deploys of one domain overlap. *)
THEOREM RecordCorrect ==
  ASSUME OneAtATime \/ Apart, OneHostPerDomain
  PROVE  Spec => RecordIsTrue
<1> DEFINE True(d) ==
  /\ dnsResult'[d] \in {"created", "updated", "noop"} /\ dnsResult[d] = Unknown
       => \E id \in RecordIds :
            /\ Named(want[d].domain)' = {id}
            /\ records'[id].content = want[d].address
  /\ \A id \in RecordIds :
       records'[id] # records[id] /\ records[id] # Absent
         => Named(records[id].name) = {id}
<1>1. TypeInv /\ EdgeInv /\ [Next]_vars => [\A d \in Deploys : True(d)]_vars
  <2> SUFFICES ASSUME TypeInv, EdgeInv, Next, NEW d \in Deploys
               PROVE  True(d)
    BY DEF vars
  <2>t. /\ records \in [RecordIds -> Record \cup {Absent}] /\ DOMAIN dnsResult = Deploys
        /\ \A e \in Deploys : Looked(e) /\ RecordSeen(e)
    BY DEF TypeInv, TypeOK, EdgeInv
  <2>u. Unknown \notin {"created", "updated", "noop", "failed"}
    BY EdgeAssumption DEF Outcomes
  <2>1. ASSUME UNCHANGED records,
               dnsResult'[d] = dnsResult[d] \/ dnsResult'[d] \in {"failed", Unknown}
        PROVE  True(d)
    BY <2>1, <2>u
  <2>2. ASSUME NEW e \in Deploys, CreateRecord(e)
        PROVE  True(d)
    <3>1. PICK id \in RecordIds, o \in {"created", "failed"} :
            /\ records[id] = Absent
            /\ records' = [records EXCEPT ![id] = [name |-> want[e].domain, content |-> want[e].address]]
            /\ dnsResult' = [dnsResult EXCEPT ![e] = o]
            /\ want' = want
      BY <2>2 DEF CreateRecord, DnsDone
    <3>2. Named(want[e].domain) = {} /\ want[e] \in Wants
      BY <2>2, <2>t, EdgeAssumption DEF CreateRecord, RecordSeen, SawRecord, Looked
    <3>3. Named(want[e].domain)' = {id}
      <4>1. \A i \in RecordIds \ {id} : records'[i] # Absent => records'[i].name # want'[e].domain
        BY <2>t, <3>1, <3>2 DEF Named
      <4>2. records'[id].name = want'[e].domain /\ records'[id] \in Record
        BY <2>t, <3>1, <3>2 DEF Wants, Record
      <4> QED
        BY <3>1, <4>1, <4>2, EdgeAssumption DEF Named
    <3>4. records'[id].content = want[e].address
      BY <2>t, <3>1
    <3>5. dnsResult'[d] \in {"created", "updated", "noop"} /\ dnsResult[d] = Unknown => d = e
      BY <2>t, <2>u, <3>1
    <3>6. \A i \in RecordIds : records'[i] # records[i] => records[i] = Absent
      BY <2>t, <3>1
    <3> QED
      BY <3>3, <3>4, <3>5, <3>6
  <2>3. ASSUME NEW e \in Deploys, EditRecord(e)
        PROVE  True(d)
    <3>1. PICK o \in {"updated", "failed"} :
            /\ records' = [records EXCEPT ![found[e]] = [@ EXCEPT !.content = want[e].address]]
            /\ dnsResult' = [dnsResult EXCEPT ![e] = o]
            /\ want' = want
      BY <2>3 DEF EditRecord, DnsDone
    <3>2. /\ Named(want[e].domain) = {found[e]} /\ found[e] \in RecordIds
          /\ records[found[e]] \in Record
      BY <2>3, <2>t, EdgeAssumption DEF EditRecord, RecordSeen, SawNothing, SawRecord
    <3>3. /\ records'[found[e]] \in [name : {records[found[e]].name}, content : {want[e].address}]
          /\ \A i \in RecordIds \ {found[e]} : records'[i] = records[i]
      BY <2>t, <3>1, <3>2 DEF Record
    <3>4. records[found[e]].name = want[e].domain
      BY <3>2 DEF Named
    <3>5. \A i \in RecordIds \ {found[e]} : records[i] = Absent \/ records[i].name # want[e].domain
      BY <3>2 DEF Named
    <3>6. records'[found[e]] # Absent
      <4>1. want[e] \in Wants
        BY <2>3, <2>t DEF EditRecord, Looked
      <4>2. records'[found[e]] \in Record
        BY <3>2, <3>3, <4>1 DEF Record, Wants
      <4> QED
        BY <4>2, EdgeAssumption
    <3>7. Named(want[e].domain)' = {found[e]}
      BY <3>1, <3>2, <3>3, <3>4, <3>5, <3>6 DEF Named
    <3>8. dnsResult'[d] \in {"created", "updated", "noop"} /\ dnsResult[d] = Unknown => d = e
      BY <2>t, <2>u, <3>1
    <3> QED
      BY <3>2, <3>3, <3>4, <3>7, <3>8
  <2>4. ASSUME NEW e \in Deploys, RecordIsRight(e)
        PROVE  True(d)
    <3>1. /\ records' = records /\ want' = want
          /\ dnsResult' = [dnsResult EXCEPT ![e] = "noop"]
          /\ copy[e].content = want[e].address
      BY <2>4 DEF RecordIsRight, DnsDone
    <3>2. /\ Named(want[e].domain) = {found[e]} /\ found[e] \in RecordIds
          /\ copy[e] = records[found[e]]
      BY <2>4, <2>t, EdgeAssumption DEF RecordIsRight, RecordSeen, SawNothing, SawRecord
    <3>3. Named(want[e].domain)' = {found[e]}
      BY <3>1, <3>2 DEF Named
    <3>4. dnsResult'[d] \in {"created", "updated", "noop"} /\ dnsResult[d] = Unknown => d = e
      BY <2>t, <2>u, <3>1
    <3> QED
      BY <3>1, <3>2, <3>3, <3>4
  <2>5. ASSUME NEW e \in Deploys, Ambiguous(e) \/ DnsFails(e) \/ Finish(e)
        PROVE  True(d)
    BY <2>1, <2>5, <2>t DEF Ambiguous, DnsFails, DnsDone, Finish
  <2>6. ASSUME NEW e \in Deploys,
               \/ \E w \in Wants : Start(e, w)
               \/ ListHosts(e) \/ CreateHost(e) \/ UpdateHost(e) \/ HostIsRight(e)
               \/ ProxyFails(e) \/ ListRecords(e)
        PROVE  True(d)
    BY <2>1, <2>6 DEF Start, ListHosts, CreateHost, UpdateHost, HostIsRight, ProxyFails, ProxyDone,
       ListRecords, results
  <2>7. ASSUME NEW id \in HostIds, IssueCertificate(id) \/ \E target \in Targets : Repoint(id, target)
        PROVE  True(d)
    BY <2>1, <2>7 DEF IssueCertificate, Repoint, results
  <2> QED
    BY <2>2, <2>3, <2>4, <2>5, <2>6, <2>7 DEF Next, Step
<1> QED
  BY <1>1, TypeInvariant, EdgeInvariant, PTL DEF Spec, RecordIsTrue

(* A deploy that reports its proxy host in place left one host for its      *)
(* domain, as it wants it, when no two deploys of one domain overlap, but   *)
(* for a deploy that wrote nothing and had its host taken.                  *)
THEOREM HostCorrect ==
  ASSUME OneAtATime \/ Apart, OneHostPerDomain
  PROVE  Spec => HostIsTrue
<1> DEFINE True(d) ==
  proxyResult'[d] \in {"created", "updated", "noop"} /\ proxyResult[d] = Unknown
    => \/ proxyResult'[d] = "noop" /\ HostTaken(d)
       \/ \E id \in HostIds :
            /\ Serving(want[d].domain)' = {id}
            /\ hosts'[id].domains = {want[d].domain}
            /\ \/ hosts'[id].target = want[d].target
               \/ proxyResult'[d] = "noop" /\ hosts[id].target # copy[d].target
<1>1. TypeInv /\ EdgeInv /\ [Next]_vars => [\A d \in Deploys : True(d)]_vars
  <2> SUFFICES ASSUME TypeInv, EdgeInv, Next, NEW d \in Deploys
               PROVE  True(d)
    BY DEF vars
  <2>t. /\ hosts \in [HostIds -> Host \cup {Absent}] /\ DOMAIN proxyResult = Deploys
        /\ Unique(hosts) /\ \A e \in Deploys : Looked(e) /\ HostSeen(e)
    BY DEF TypeInv, TypeOK, EdgeInv
  <2>u. Unknown \notin {"created", "updated", "noop", "failed"}
    BY EdgeAssumption DEF Outcomes
  <2>1. ASSUME proxyResult'[d] = proxyResult[d] \/ proxyResult'[d] \in {"failed", Unknown}
        PROVE  True(d)
    BY <2>1, <2>u
  <2>2. ASSUME NEW e \in Deploys, CreateHost(e) \/ UpdateHost(e)
        PROVE  True(d)
    <3>1. Desired(e) \in Host /\ pc[e] = "proxy write"
      BY <2>2, DesiredType DEF CreateHost, UpdateHost
    <3>2. PICK id \in HostIds, o \in Outcomes :
            /\ hosts' = [hosts EXCEPT ![id] = Desired(e)]
            /\ \A i \in HostIds \ {id} : hosts[i] # Absent => want[e].domain \notin hosts[i].domains
            /\ proxyResult' = [proxyResult EXCEPT ![e] = o]
            /\ want' = want
      <4>1. PICK id \in HostIds :
              /\ hosts' = [hosts EXCEPT ![id] = Desired(e)]
              /\ \A i \in HostIds \ {id} : hosts[i] # Absent => want[e].domain \notin hosts[i].domains
        BY <2>2, HostWritten
      <4>2. (\E o \in Outcomes : proxyResult' = [proxyResult EXCEPT ![e] = o]) /\ want' = want
        BY <2>2 DEF CreateHost, UpdateHost, ProxyDone, Outcomes
      <4> QED
        BY <4>1, <4>2
    <3>3. /\ hosts'[id] = Desired(e) /\ hosts'[id] # Absent
          /\ \A i \in HostIds \ {id} : hosts'[i] = hosts[i]
      BY <2>t, <3>1, <3>2, EdgeAssumption
    <3>4. Serving(want[e].domain)' = {id}
      BY <3>2, <3>3, DesiredServes DEF Serving
    <3>5. hosts'[id].domains = {want[e].domain} /\ hosts'[id].target = want[e].target
      BY <3>3 DEF Desired
    <3>6. proxyResult'[d] \in {"created", "updated", "noop"} /\ proxyResult[d] = Unknown => d = e
      BY <2>t, <2>u, <3>2
    <3> QED
      BY <3>4, <3>5, <3>6
  <2>3. ASSUME NEW e \in Deploys, HostIsRight(e)
        PROVE  True(d)
    <3>1. /\ hosts' = hosts /\ want' = want
          /\ proxyResult' = [proxyResult EXCEPT ![e] = "noop"]
          /\ copy[e].domains = {want[e].domain} /\ copy[e].target = want[e].target
      BY <2>3 DEF HostIsRight, ProxyDone, EqualManaged
    <3>2. /\ found[e] \in HostIds /\ hosts[found[e]] \in Host
          /\ Serving(want[e].domain) \subseteq {found[e]}
      BY <2>3, <2>t DEF HostIsRight, HostSeen, Looked, SawNothing, SawHost
    <3>3. CASE HostTaken(e)
      <4>1. proxyResult'[d] \in {"created", "updated", "noop"} /\ proxyResult[d] = Unknown =>
              d = e /\ proxyResult'[d] = "noop"
        BY <2>t, <2>u, <3>1
      <4> QED
        BY <3>3, <4>1
    <3> SUFFICES ASSUME ~HostTaken(e)
                 PROVE  True(d)
      BY <3>3
    <3>5. hosts[found[e]].domains = {want[e].domain}
      BY <3>1 DEF HostTaken
    <3>6. Serving(want[e].domain)' = {found[e]}
      BY <3>1, <3>2, <3>5, EdgeAssumption DEF Serving
    <3>4. proxyResult'[d] \in {"created", "updated", "noop"} /\ proxyResult[d] = Unknown =>
            d = e /\ proxyResult'[d] = "noop"
      BY <2>t, <2>u, <3>1
    <3> QED
      BY <3>1, <3>2, <3>4, <3>5, <3>6
  <2>4. ASSUME NEW e \in Deploys, ProxyFails(e) \/ Finish(e)
        PROVE  True(d)
    BY <2>1, <2>4, <2>t DEF ProxyFails, ProxyDone, Finish
  <2>5. ASSUME NEW e \in Deploys,
               \/ \E w \in Wants : Start(e, w)
               \/ ListHosts(e) \/ ListRecords(e) \/ Ambiguous(e) \/ CreateRecord(e)
               \/ EditRecord(e) \/ RecordIsRight(e) \/ DnsFails(e)
        PROVE  True(d)
    BY <2>1, <2>5 DEF Start, ListHosts, ListRecords, Ambiguous, CreateRecord, EditRecord,
       RecordIsRight, DnsFails, DnsDone, results
  <2>6. ASSUME NEW id \in HostIds, IssueCertificate(id) \/ \E target \in Targets : Repoint(id, target)
        PROVE  True(d)
    BY <2>1, <2>6 DEF IssueCertificate, Repoint, results
  <2> QED
    BY <2>2, <2>3, <2>4, <2>5, <2>6 DEF Next, Step
<1> QED
  BY <1>1, TypeInvariant, EdgeInvariant, PTL DEF Spec, HostIsTrue

(* A set of entries that does not grow does not grow in number. *)
LEMMA NoGrowth ==
  ASSUME NEW Ids, IsFiniteSet(Ids), NEW S \in SUBSET Ids, NEW T \in SUBSET S
  PROVE  ~(Cardinality(T) > Cardinality(S))
<1>1. IsFiniteSet(S)
  BY FS_Subset
<1>2. IsFiniteSet(T) /\ Cardinality(T) <= Cardinality(S)
  BY <1>1, FS_Subset
<1>3. Cardinality(T) \in Nat /\ Cardinality(S) \in Nat
  BY <1>1, <1>2, FS_CardinalityType
<1> QED
  BY <1>2, <1>3

(* No deploy adds a host or a record for a domain that has one, when no two *)
(* of one domain overlap, although answers are lost and it is tried again.  *)
THEOREM NoDuplicatesCorrect ==
  ASSUME OneAtATime \/ Apart, OneHostPerDomain
  PROVE  Spec => NoDuplicates
<1> DEFINE
  HostsKept(name) == Cardinality(Serving(name)') > Cardinality(Serving(name)) => Serving(name) = {}
  RecordsKept(name) == Cardinality(Named(name)') > Cardinality(Named(name)) => Named(name) = {}
  Kept ==
    \A name \in Domains :
      /\ Cardinality(Serving(name)') > Cardinality(Serving(name)) => Serving(name) = {}
      /\ Cardinality(Named(name)') > Cardinality(Named(name)) => Named(name) = {}
<1>1. TypeInv /\ EdgeInv /\ [Next]_vars => [Kept]_vars
  <2> SUFFICES ASSUME TypeInv, EdgeInv, Next, NEW name \in Domains
               PROVE  HostsKept(name) /\ RecordsKept(name)
    BY DEF vars
  <2>t. /\ hosts \in [HostIds -> Host \cup {Absent}] /\ records \in [RecordIds -> Record \cup {Absent}]
        /\ \A e \in Deploys : Looked(e) /\ HostSeen(e) /\ RecordSeen(e)
    BY DEF TypeInv, TypeOK, EdgeInv
  <2>h. ASSUME Serving(name)' \subseteq Serving(name)
        PROVE  HostsKept(name)
    <3>1. Serving(name) \in SUBSET HostIds
      BY DEF Serving
    <3> QED
      BY <2>h, <3>1, NoGrowth, EdgeAssumption
  <2>r. ASSUME Named(name)' \subseteq Named(name)
        PROVE  RecordsKept(name)
    <3>1. Named(name) \in SUBSET RecordIds
      BY DEF Named
    <3> QED
      BY <2>r, <3>1, NoGrowth, EdgeAssumption
  <2>1. HostsKept(name)
    <3>1. CASE hosts' = hosts
      BY <2>h, <3>1 DEF Serving
    <3>2. ASSUME NEW d \in Deploys, CreateHost(d) \/ UpdateHost(d)
          PROVE  HostsKept(name)
      <4>1. PICK id \in HostIds :
              /\ hosts' = [hosts EXCEPT ![id] = Desired(d)]
              /\ \A i \in HostIds \ {id} : hosts[i] # Absent => want[d].domain \notin hosts[i].domains
        BY <3>2, HostWritten
      <4>2. /\ hosts'[id].domains = {want[d].domain}
            /\ \A i \in HostIds \ {id} : hosts'[i] = hosts[i]
        BY <2>t, <4>1, DesiredServes
      <4>3. CASE name # want[d].domain
        <5>1. Serving(name)' \subseteq Serving(name)
          BY <4>2, <4>3 DEF Serving
        <5> QED
          BY <2>h, <5>1
      <4>4. CASE name = want[d].domain /\ Serving(name) # {}
        <5>1. Serving(name) = {id}
          BY <4>1, <4>4 DEF Serving
        <5>2. Serving(name)' \subseteq {id}
          BY <4>1, <4>2, <4>4 DEF Serving
        <5> QED
          BY <2>h, <5>1, <5>2
      <4> QED
        BY <4>3, <4>4
    <3>3. ASSUME NEW id \in HostIds, IssueCertificate(id) \/ \E target \in Targets : Repoint(id, target)
          PROVE  HostsKept(name)
      <4>1. Serving(name)' \subseteq Serving(name)
        BY <2>t, <3>3, OperatorKeepsDomains DEF Serving
      <4> QED
        BY <2>h, <4>1
    <3>4. \/ hosts' = hosts \/ \E d \in Deploys : CreateHost(d) \/ UpdateHost(d)
          \/ \E id \in HostIds : IssueCertificate(id) \/ \E target \in Targets : Repoint(id, target)
      BY DEF Next, Step, Start, ListHosts, HostIsRight, ProxyFails, ListRecords, Ambiguous,
         CreateRecord, EditRecord, RecordIsRight, DnsFails, DnsDone, Finish
    <3> QED
      BY <3>1, <3>2, <3>3, <3>4
  <2>2. RecordsKept(name)
    <3>1. CASE records' = records
      BY <2>r, <3>1 DEF Named
    <3>2. ASSUME NEW d \in Deploys, CreateRecord(d)
          PROVE  RecordsKept(name)
      <4>1. Named(want[d].domain) = {}
        BY <2>t, <3>2, EdgeAssumption DEF CreateRecord, RecordSeen, SawRecord
      <4>2. CASE name = want[d].domain
        BY <4>1, <4>2
      <4>3. CASE name # want[d].domain
        <5>1. Named(name)' \subseteq Named(name)
          <6>1. PICK id \in RecordIds :
                  records' = [records EXCEPT ![id] = [name |-> want[d].domain, content |-> want[d].address]]
            BY <3>2 DEF CreateRecord
          <6>2. records'[id].name # name /\ \A i \in RecordIds \ {id} : records'[i] = records[i]
            BY <2>t, <4>3, <6>1
          <6> QED
            BY <6>2 DEF Named
        <5> QED
          BY <2>r, <5>1
      <4> QED
        BY <4>2, <4>3
    <3>3. ASSUME NEW d \in Deploys, EditRecord(d)
          PROVE  RecordsKept(name)
      <4>1. found[d] \in RecordIds /\ records[found[d]] \in Record
        BY <2>t, <3>3 DEF EditRecord, RecordSeen, SawNothing, SawRecord
      <4>2. records' = [records EXCEPT ![found[d]] = [@ EXCEPT !.content = want[d].address]]
        BY <3>3 DEF EditRecord
      <4>3. [records[found[d]] EXCEPT !.content = want[d].address].name = records[found[d]].name
        BY <4>1 DEF Record
      <4>4. Named(name)' \subseteq Named(name)
        BY <2>t, <4>1, <4>2, <4>3, EdgeAssumption DEF Named
      <4> QED
        BY <2>r, <4>4
    <3>4. records' = records \/ \E d \in Deploys : CreateRecord(d) \/ EditRecord(d)
      BY DEF Next, Step, Start, ListHosts, CreateHost, UpdateHost, HostIsRight, ProxyFails, ProxyDone,
         ListRecords, Ambiguous, RecordIsRight, DnsFails, Finish, IssueCertificate, Repoint
    <3> QED
      BY <3>1, <3>2, <3>3, <3>4
  <2> QED
    BY <2>1, <2>2
<1> QED
  BY <1>1, TypeInvariant, EdgeInvariant, PTL DEF Spec, NoDuplicates

-------------------------------------------------------------------------------
(* When the host that a deploy saw is still its own as it writes.           *)

SingleDomains(h) == \A id \in HostIds : h[id] # Absent => \E name : h[id].domains = {name}

EachItsOwn == \A h \in InitialHosts : SingleDomains(h)

HostHeld(d) == pc[d] = "proxy write" /\ found[d] # Absent => ~HostTaken(d)

HeldInv ==
  /\ OneAtATime => \A d, e \in Deploys : ~Idle(d) /\ ~Idle(e) => d = e
  /\ EachItsOwn => SingleDomains(hosts)
  /\ \A d \in Deploys : HostHeld(d)

LEMMA HeldInvariant ==
  ASSUME OneAtATime \/ (Apart /\ EachItsOwn), OneHostPerDomain
  PROVE  Spec => []HeldInv
<1>1. Init => HeldInv
  BY DEF Init, HeldInv, EachItsOwn, Idle, HostHeld
<1>2. TypeInv /\ EdgeInv /\ HeldInv /\ [Next]_vars => HeldInv'
  <2> SUFFICES ASSUME TypeInv, EdgeInv, HeldInv, [Next]_vars
               PROVE  HeldInv'
    OBVIOUS
  <2>t. /\ hosts \in [HostIds -> Host \cup {Absent}] /\ DOMAIN pc = Deploys
        /\ DOMAIN found = Deploys /\ DOMAIN copy = Deploys
        /\ \A d \in Deploys : Looked(d) /\ HostHeld(d)
    BY DEF TypeInv, TypeOK, HeldInv
  <2>a. ASSUME NEW d \in Deploys, NEW step, pc' = [pc EXCEPT ![d] = step],
               ~Idle(d) \/ (OneAtATime => \A e \in Deploys : Idle(e))
        PROVE  OneAtATime => \A e, f \in Deploys : ~Idle(e)' /\ ~Idle(f)' => e = f
    BY <2>a, <2>t DEF HeldInv, Idle
  <2>1. ASSUME NEW d \in Deploys, UNCHANGED hosts, pc'[d] # "proxy write",
               \A e \in Deploys \ {d} : pc'[e] = pc[e] /\ found'[e] = found[e] /\ copy'[e] = copy[e]
        PROVE  /\ (EachItsOwn => SingleDomains(hosts)')
               /\ \A e \in Deploys : HostHeld(e)'
    BY <2>1 DEF HeldInv, SingleDomains, HostHeld, HostTaken
  <2>2. ASSUME NEW d \in Deploys, NEW w \in Wants, Start(d, w)
        PROVE  HeldInv'
    <3>1. /\ pc' = [pc EXCEPT ![d] = "proxy list"] /\ UNCHANGED <<hosts, found, copy>>
          /\ OneAtATime => \A e \in Deploys : Idle(e)
      BY <2>2 DEF Start, GoTo
    <3> QED
      BY <2>1, <2>a, <2>t, <3>1 DEF HeldInv
  <2>3. ASSUME NEW d \in Deploys, NEW step \in {"idle", "dns list", "dns write", "done"},
               ~Idle(d), pc' = [pc EXCEPT ![d] = step], UNCHANGED hosts,
               \A e \in Deploys \ {d} : found'[e] = found[e] /\ copy'[e] = copy[e]
        PROVE  HeldInv'
    BY <2>1, <2>a, <2>t, <2>3 DEF HeldInv
  <2>4. ASSUME NEW d \in Deploys, Finish(d) \/ HostIsRight(d) \/ ProxyFails(d)
        PROVE  HeldInv'
    BY <2>3, <2>4, <2>t DEF Finish, HostIsRight, ProxyFails, ProxyDone, GoTo, Keep, Idle
  <2>5. ASSUME NEW d \in Deploys, ListRecords(d)
        PROVE  HeldInv'
    BY <2>3, <2>5, <2>t DEF ListRecords, GoTo, Keep, Idle
  <2>6. ASSUME NEW d \in Deploys,
               Ambiguous(d) \/ CreateRecord(d) \/ EditRecord(d) \/ RecordIsRight(d) \/ DnsFails(d)
        PROVE  HeldInv'
    BY <2>3, <2>6, <2>t DEF Ambiguous, CreateRecord, EditRecord, RecordIsRight, DnsFails, DnsDone,
       GoTo, Keep, Idle
  <2>7. ASSUME NEW d \in Deploys, ListHosts(d)
        PROVE  HeldInv'
    <3>1. /\ pc[d] = "proxy list" /\ pc' = [pc EXCEPT ![d] = "proxy write"] /\ UNCHANGED hosts
          /\ \A e \in Deploys \ {d} : found'[e] = found[e] /\ copy'[e] = copy[e]
          /\ found'[d] = Absent \/ copy'[d] = hosts[found'[d]]
      BY <2>7, <2>t DEF ListHosts, GoTo, Keep
    <3>2. HostHeld(d)'
      BY <3>1 DEF HostHeld, HostTaken
    <3>3. \A e \in Deploys \ {d} : HostHeld(e)'
      BY <2>t, <3>1 DEF HostHeld, HostTaken
    <3>4. (EachItsOwn => SingleDomains(hosts)')
      BY <3>1 DEF HeldInv, SingleDomains
    <3> QED
      BY <2>a, <3>1, <3>2, <3>3, <3>4 DEF HeldInv, Idle
  <2>8. ASSUME NEW d \in Deploys, CreateHost(d) \/ UpdateHost(d)
        PROVE  HeldInv'
    <3>1. /\ pc[d] = "proxy write" /\ pc' = [pc EXCEPT ![d] = "dns list"]
          /\ \A e \in Deploys \ {d} : found'[e] = found[e] /\ copy'[e] = copy[e]
      BY <2>8, <2>t DEF CreateHost, UpdateHost, ProxyDone, GoTo, Keep
    <3>2. PICK id \in HostIds : /\ hosts' = [hosts EXCEPT ![id] = Desired(d)]
                                /\ hosts[id] = Absent \/ (found[d] = id /\ SawHost(d))
      BY <2>8, <2>t DEF CreateHost, UpdateHost, Looked, SawNothing, SawHost
    <3>3. (EachItsOwn => SingleDomains(hosts)')
      BY <2>t, <3>2, DesiredServes DEF HeldInv, SingleDomains
    <3>4. HostHeld(d)'
      BY <2>t, <3>1 DEF HostHeld
    <3>5. ASSUME NEW e \in Deploys \ {d}
          PROVE  HostHeld(e)'
      <4> SUFFICES ASSUME pc[e] = "proxy write", found[e] # Absent
                   PROVE  hosts'[found[e]] = hosts[found[e]]
        BY <2>t, <3>1 DEF HostHeld, HostTaken
      <4>1. SawHost(e) /\ copy[e].domains = hosts[found[e]].domains
        BY <2>t DEF Looked, SawNothing, HostHeld, HostTaken
      <4>2. ~OneAtATime /\ want[d].domain # want[e].domain
        BY <3>1 DEF HeldInv, EdgeInv, DomainsApart, Idle
      <4>3. found[e] # id
        <5>1. SUFFICES ASSUME found[e] = id
                       PROVE  FALSE
          OBVIOUS
        <5>2. hosts[id] \in Host /\ hosts[id] # Absent
          BY <4>1, <5>1, EdgeAssumption DEF SawHost
        <5>3. found[d] = id /\ SawHost(d)
          BY <3>2, <5>2
        <5>4. copy[d].domains = hosts[id].domains
          BY <2>t, <3>1, <5>3, EdgeAssumption DEF HostHeld, HostTaken
        <5>5. want[d].domain \in hosts[id].domains /\ want[e].domain \in hosts[id].domains
          BY <4>1, <5>1, <5>3, <5>4 DEF SawHost
        <5>6. PICK name : hosts[id].domains = {name}
          BY <4>2, <5>2 DEF HeldInv, SingleDomains
        <5> QED
          BY <4>2, <5>5, <5>6
      <4> QED
        BY <2>t, <3>2, <4>1, <4>3 DEF SawHost
    <3> QED
      BY <2>a, <3>1, <3>3, <3>4, <3>5 DEF HeldInv, Idle
  <2>9. ASSUME NEW id \in HostIds, IssueCertificate(id) \/ \E target \in Targets : Repoint(id, target)
        PROVE  HeldInv'
    <3>1. /\ UNCHANGED <<pc, found, copy>>
          /\ \A i \in HostIds : /\ (hosts'[i] = Absent) <=> (hosts[i] = Absent)
                                /\ hosts'[i].domains = hosts[i].domains
      BY <2>9, <2>t, OperatorKeepsDomains
    <3>2. \A e \in Deploys : pc[e] = "proxy write" /\ found[e] # Absent => found[e] \in HostIds
      BY <2>t DEF Looked, SawNothing, SawHost
    <3> QED
      BY <3>1, <3>2 DEF HeldInv, SingleDomains, HostHeld, HostTaken, Idle
  <2>10. CASE UNCHANGED vars
    BY <2>10 DEF vars, HeldInv, SingleDomains, HostHeld, HostTaken, Idle
  <2> QED
    BY <2>2, <2>4, <2>5, <2>6, <2>7, <2>8, <2>9, <2>10 DEF Next, Step
<1>3. OneAtATime \/ Apart
  OBVIOUS
<1> QED
  BY <1>1, <1>2, <1>3, TypeInvariant, EdgeInvariant, PTL DEF Spec

(* The host that a deploy saw is not taken from it, so that every report of *)
(* HostIsTrue is true without exception, when deploys do not overlap, or    *)
(* when those of one domain do not and no host serves two.                  *)
THEOREM SeenHostHeld ==
  ASSUME OneAtATime \/ (Apart /\ EachItsOwn), OneHostPerDomain
  PROVE  Spec => [](\A d \in Deploys : pc[d] = "proxy write" /\ found[d] # Absent => ~HostTaken(d))
<1>1. HeldInv => \A d \in Deploys : pc[d] = "proxy write" /\ found[d] # Absent => ~HostTaken(d)
  BY DEF HeldInv, HostHeld
<1> QED
  BY <1>1, HeldInvariant, PTL

(* A domain that is served is served ever after, however the deploys of     *)
(* different domains overlap, when no host serves two.                      *)
THEOREM ServedStaysServed ==
  ASSUME OneAtATime \/ Apart, OneHostPerDomain, EachItsOwn
  PROVE  Spec => [][\A name \in Domains : Serving(name) # {} => Serving(name)' # {}]_vars
<1>1. TypeInv /\ HeldInv /\ [Next]_vars =>
        [\A name \in Domains : Serving(name) # {} => Serving(name)' # {}]_vars
  <2> SUFFICES ASSUME TypeInv, HeldInv, Next, NEW name \in Domains, Serving(name) # {}
               PROVE  Serving(name)' # {}
    BY DEF vars
  <2>t. /\ hosts \in [HostIds -> Host \cup {Absent}] /\ SingleDomains(hosts)
        /\ \A d \in Deploys : Looked(d) /\ HostHeld(d)
    BY DEF TypeInv, TypeOK, HeldInv
  <2>1. PICK id \in HostIds : hosts[id] # Absent /\ name \in hosts[id].domains
    BY DEF Serving
  <2>2. SUFFICES hosts'[id] # Absent /\ name \in hosts'[id].domains
    BY DEF Serving
  <2>3. ASSUME NEW d \in Deploys, UpdateHost(d)
        PROVE  hosts'[id] # Absent /\ name \in hosts'[id].domains
    <3>1. hosts' = [hosts EXCEPT ![found[d]] = Desired(d)] /\ pc[d] = "proxy write" /\ found[d] # Absent
      BY <2>3 DEF UpdateHost
    <3>2. SawHost(d) /\ copy[d].domains = hosts[found[d]].domains
      BY <2>t, <3>1 DEF Looked, SawNothing, HostHeld, HostTaken
    <3>3. CASE found[d] = id
      <4>1. hosts[id].domains = {want[d].domain}
        BY <2>1, <2>t, <3>2, <3>3 DEF SingleDomains, SawHost
      <4>2. hosts'[id] = Desired(d) /\ Desired(d) \in Host
        BY <2>t, <3>1, <3>3, DesiredType
      <4> QED
        BY <2>1, <4>1, <4>2, DesiredServes, EdgeAssumption
    <3>4. CASE found[d] # id
      BY <2>1, <2>t, <3>1, <3>4
    <3> QED
      BY <3>3, <3>4
  <2>4. ASSUME NEW d \in Deploys, CreateHost(d)
        PROVE  hosts'[id] # Absent /\ name \in hosts'[id].domains
    BY <2>1, <2>4, <2>t DEF CreateHost
  <2>5. ASSUME NEW i \in HostIds, IssueCertificate(i) \/ \E target \in Targets : Repoint(i, target)
        PROVE  hosts'[id] # Absent /\ name \in hosts'[id].domains
    BY <2>1, <2>5, <2>t, OperatorKeepsDomains
  <2>6. CASE UNCHANGED hosts
    BY <2>1, <2>6
  <2> QED
    BY <2>3, <2>4, <2>5, <2>6 DEF Next, Step, Start, ListHosts, HostIsRight, ProxyFails, ListRecords,
       Ambiguous, CreateRecord, EditRecord, RecordIsRight, DnsFails, DnsDone, Finish
<1>2. OneAtATime \/ (Apart /\ EachItsOwn)
  OBVIOUS
<1> QED
  BY <1>1, <1>2, TypeInvariant, HeldInvariant, PTL DEF Spec
===============================================================================
