\* Deploys of different domains beside each other, without end, an operator at any time.
CONSTANTS
  n1 = n1  n2 = n2  t1 = t1  t2 = t2
  d1 = d1  d2 = d2  h1 = h1  h2 = h2  e1 = e1  e2 = e2  e3 = e3
  Absent = Absent  NoCert = NoCert  Cert = Cert  Unknown = Unknown
  Deploys = {d1, d2}
  Domains = {n1, n2}
  Targets = {t1, t2}
  Addresses = {t1, t2}
  HostIds = {h1, h2}
  RecordIds = {e1, e2, e3}
  InitialHosts <- MCHosts
  InitialRecords <- MCRecords
  OneAtATime = FALSE
  Apart = TRUE
SYMMETRY Symmetry
SPECIFICATION Spec
INVARIANTS
  TypeOK
PROPERTIES
  CertificateKept
  NoDuplicates
  RecordIsTrue
  DomainStays
  HostIsTrue
