-------------------------- MODULE DeployHistoryProofs --------------------------
(* What state.json remembers, and the snapshots it names, whichever way the *)
(* Runs of DeployPipeline interleave.                                       *)
EXTENDS DeployPipelineProofs

(* Newest returns a suffix. *)
LEMMA NewestIsSuffix ==
  ASSUME NEW S, NEW s \in Seq(S), NEW n \in Nat
  PROVE  \E k \in Nat :
           /\ k + Len(Newest(s, n)) = Len(s)
           /\ \A i \in 1 .. Len(Newest(s, n)) : Newest(s, n)[i] = s[i + k]
<1>0. Len(s) \in Nat
  BY LenProperties
<1>1. CASE Len(s) > n
  <2> DEFINE k == Len(s) - n
  <2>1. k \in Nat /\ Newest(s, n) = SubSeq(s, k + 1, Len(s))
    BY <1>0, <1>1 DEF Newest
  <2>2. \A i \in k + 1 .. Len(s) : s[i] \in S
    BY <1>0, <2>1, ElementOfSeq
  <2>3. /\ Len(Newest(s, n)) = IF k + 1 <= Len(s) THEN Len(s) - (k + 1) + 1 ELSE 0
        /\ \A i \in 1 .. Len(s) - (k + 1) + 1 : Newest(s, n)[i] = s[(k + 1) + i - 1]
    BY <1>0, <2>1, <2>2, SubSeqProperties
  <2>4. Len(Newest(s, n)) = n /\ Len(s) - (k + 1) + 1 = n
    BY <1>0, <1>1, <2>3
  <2>5. \A i \in 1 .. n : Newest(s, n)[i] = s[i + k]
    BY <1>0, <2>1, <2>3, <2>4
  <2>6. k + Len(Newest(s, n)) = Len(s)
    BY <1>0, <2>4
  <2> HIDE DEF k
  <2> QED
    BY <2>1, <2>4, <2>5, <2>6
<1>2. CASE ~(Len(s) > n)
  <2>1. Newest(s, n) = s
    BY <1>2 DEF Newest
  <2> WITNESS 0 \in Nat
  <2> QED
    BY <1>0, <2>1
<1> QED
  BY <1>1, <1>2

LEMMA NewestLength ==
  ASSUME NEW S, NEW s \in Seq(S), NEW n \in Nat, Len(s) > n
  PROVE  Len(Newest(s, n)) = n
<1>1. Len(s) \in Nat
  BY LenProperties
<1>2. \A i \in Len(s) - n + 1 .. Len(s) : s[i] \in S
  BY <1>1, ElementOfSeq
<1>3. Len(SubSeq(s, Len(s) - n + 1, Len(s))) =
        IF Len(s) - n + 1 <= Len(s) THEN Len(s) - (Len(s) - n + 1) + 1 ELSE 0
  BY <1>1, <1>2, SubSeqProperties
<1> QED
  BY <1>1, <1>3 DEF Newest

LEMMA ReleasesType ==
  ASSUME NEW s \in States
  PROVE  /\ Releases(s) \in Seq(Snapshots)
         /\ Remembered(s) \in SUBSET Snapshots
<1>1. /\ s.history \in Seq(Snapshots)
      /\ s.good # None => s.good \in Snapshots
  BY DEF States
<1>2. Releases(s) \in Seq(Snapshots)
  BY <1>1, AppendProperties DEF Releases
<1>3. DOMAIN Releases(s) = 1 .. Len(Releases(s))
  BY <1>2, LenProperties
<1> QED
  BY <1>2, <1>3, ElementOfSeq DEF Remembered

(* Advancing a state drops some of its oldest releases and appends one. *)
LEMMA AdvanceReleases ==
  ASSUME NEW s \in States, NEW seq \in Nat, NEW snap \in Snapshots
  PROVE  \E k \in Nat :
           /\ Len(Releases(Advance(s, seq, snap))) + k = Len(Releases(s)) + 1
           /\ \A i \in 1 .. Len(Releases(s)) - k :
                Releases(Advance(s, seq, snap))[i] = Releases(s)[i + k]
           /\ Releases(Advance(s, seq, snap))[Len(Releases(s)) - k + 1] = snap
           /\ k <= Len(Releases(s))
<1> DEFINE h == IF s.good = None THEN Releases(s) ELSE Newest(Releases(s), MaxHistory)
           new == Releases(Advance(s, seq, snap))
<1>1. Releases(s) \in Seq(Snapshots) /\ Len(Releases(s)) \in Nat
  BY ReleasesType, LenProperties
<1>2. snap # None
  BY ConstantsAssumption DEF Snapshots
<1>3. new = Append(h, snap)
  BY <1>2 DEF Releases, Advance
<1>4. h \in Seq(Snapshots)
  BY <1>1, NewestType, ConstantsAssumption
<1>5. PICK k \in Nat : /\ k + Len(h) = Len(Releases(s))
                       /\ \A i \in 1 .. Len(h) : h[i] = Releases(s)[i + k]
  <2>1. CASE s.good = None
    <3> WITNESS 0 \in Nat
    <3> QED
      BY <1>1, <2>1
  <2>2. CASE s.good # None
    <3>1. h = Newest(Releases(s), MaxHistory) /\ MaxHistory \in Nat
      BY <2>2, ConstantsAssumption
    <3> HIDE DEF h
    <3> QED
      BY <1>1, <3>1, NewestIsSuffix
  <2> QED
    BY <2>1, <2>2
<1>6. /\ Len(h) \in Nat
      /\ Len(new) = Len(h) + 1
      /\ \A i \in 1 .. Len(h) : new[i] = h[i]
      /\ new[Len(h) + 1] = snap
  BY <1>3, <1>4, AppendProperties, LenProperties
<1> HIDE DEF h, new
<1>7. Len(h) = Len(Releases(s)) - k
  BY <1>1, <1>5, <1>6
<1>8. /\ Len(new) + k = Len(Releases(s)) + 1
      /\ \A i \in 1 .. Len(Releases(s)) - k : new[i] = Releases(s)[i + k]
      /\ new[Len(Releases(s)) - k + 1] = snap
      /\ k <= Len(Releases(s))
  BY <1>1, <1>5, <1>6, <1>7
<1> QED
  BY <1>8 DEF new

LEMMA AdvanceRemembers ==
  ASSUME NEW s \in States, Len(s.history) <= MaxHistory,
         NEW seq \in Nat, NEW snap \in Snapshots
  PROVE  Remembered(Advance(s, seq, snap)) \subseteq Remembered(s) \cup {snap}
<1> DEFINE old == Releases(s)
           new == Releases(Advance(s, seq, snap))
<1>1. /\ old \in Seq(Snapshots) /\ DOMAIN old = 1 .. Len(old) /\ Len(old) \in Nat
      /\ new \in Seq(Snapshots) /\ DOMAIN new = 1 .. Len(new) /\ Len(new) \in Nat
  BY AdvanceType, ReleasesType, LenProperties
<1>2. PICK k \in Nat :
        /\ Len(new) + k = Len(old) + 1
        /\ \A i \in 1 .. Len(old) - k : new[i] = old[i + k]
        /\ new[Len(old) - k + 1] = snap
        /\ k <= Len(old)
  BY AdvanceReleases
<1> HIDE DEF old, new
<1>3. ASSUME NEW i \in 1 .. Len(new)
      PROVE  new[i] = snap \/ \E j \in 1 .. Len(old) : new[i] = old[j]
  <2>1. CASE i = Len(new)
    BY <1>1, <1>2, <2>1
  <2>2. CASE i # Len(new)
    <3>0. Len(new) = Len(old) - k + 1 /\ i \in Nat /\ 1 <= i /\ i <= Len(new)
      BY <1>1, <1>2
    <3>1. i \in 1 .. Len(old) - k /\ i + k \in 1 .. Len(old)
      BY <1>1, <2>2, <3>0
    <3> QED
      BY <1>2, <3>1
  <2> QED
    BY <2>1, <2>2
<1> QED
  BY <1>1, <1>3 DEF Remembered, old, new

LEMMA AdvanceKeepsOrder ==
  ASSUME NEW s \in States, Len(s.history) <= MaxHistory,
         NEW seq \in Nat, NEW snap \in Snapshots,
         InOrder(Releases(s)),
         \A g \in Remembered(s) : g.ref < snap.ref \/ snap.ref = NoRef
  PROVE  InOrder(Releases(Advance(s, seq, snap)))
<1> DEFINE old == Releases(s)
           new == Releases(Advance(s, seq, snap))
<1>1. /\ old \in Seq(Snapshots) /\ DOMAIN old = 1 .. Len(old) /\ Len(old) \in Nat
      /\ new \in Seq(Snapshots) /\ DOMAIN new = 1 .. Len(new) /\ Len(new) \in Nat
  BY AdvanceType, ReleasesType, LenProperties
<1>2. PICK k \in Nat :
        /\ Len(new) + k = Len(old) + 1
        /\ \A i \in 1 .. Len(old) - k : new[i] = old[i + k]
        /\ new[Len(old) - k + 1] = snap
        /\ k <= Len(old)
  BY AdvanceReleases
<1>3. \A i \in 1 .. Len(old) : old[i].ref < snap.ref \/ snap.ref = NoRef
  BY <1>1 DEF Remembered
<1>4. \A i, j \in 1 .. Len(old) :
        i < j /\ old[i].ref # NoRef /\ old[j].ref # NoRef => old[i].ref < old[j].ref
  BY <1>1 DEF InOrder
<1> HIDE DEF old, new
<1>5. ASSUME NEW i \in 1 .. Len(new), NEW j \in 1 .. Len(new), i < j,
             new[i].ref # NoRef, new[j].ref # NoRef
      PROVE  new[i].ref < new[j].ref
  <2>1. i \in 1 .. Len(old) - k /\ i + k \in 1 .. Len(old) /\ new[i] = old[i + k]
    BY <1>1, <1>2, <1>5
  <2>2. CASE j = Len(new)
    <3>1. new[j] = snap
      BY <1>1, <1>2, <2>2
    <3> QED
      BY <1>3, <1>5, <2>1, <3>1
  <2>3. CASE j # Len(new)
    <3>1. j \in 1 .. Len(old) - k /\ j + k \in 1 .. Len(old) /\ new[j] = old[j + k]
      BY <1>1, <1>2, <2>3
    <3>2. i + k < j + k
      BY <1>1, <1>2, <1>5
    <3> QED
      BY <1>4, <1>5, <2>1, <3>1, <3>2
  <2> QED
    BY <2>2, <2>3
<1> QED
  BY <1>1, <1>5 DEF InOrder, new

-------------------------------------------------------------------------------
Exact(s) ==
  \A g \in Remembered(s) :
    g.ref # NoRef => g.ref \in DOMAIN snaps /\ snaps[g.ref] \in {g.set, None}

(* Every Run read a record like the one on disk, and all its releases were  *)
(* snapshotted before the Run took its own snapshot.                        *)
HistoryInv ==
  /\ Exact(state) /\ InOrder(Releases(state))
  /\ \A r \in Runs :
       /\ Exact(st[r]) /\ InOrder(Releases(st[r]))
       /\ pc[r] = "idle" => ref[r] = NoRef
       /\ InFlight(r) /\ ref[r] # NoRef =>
            /\ ref[r] \in DOMAIN snaps
            /\ snaps[ref[r]] \in {SetOf(req[r]), None}
            /\ \A g \in Remembered(st[r]) : g.ref < ref[r]

LEMMA FreshReleases == Releases(FreshState) = << >> /\ Remembered(FreshState) = {}
BY DEF Releases, Remembered, FreshState

LEMMA HistoryInit == Init => HistoryInv
BY FreshReleases DEF Init, HistoryInv, Exact, InOrder, InFlight

(* A step of r that touches none of what HistoryInv speaks of, but r's stage. *)
LEMMA HistoryQuiet ==
  ASSUME TypeInv, HistoryInv, NEW r \in Runs, InFlight(r),
         UNCHANGED <<state, snaps, req, st, ref>>,
         NEW stage \in Stages \ {"idle"}, pc' = [pc EXCEPT ![r] = stage]
  PROVE  HistoryInv'
<1>1. pc \in [Runs -> Stages]
  BY DEF TypeInv, TypeOK
<1>2. \A q \in Runs : (InFlight(q)' => InFlight(q)) /\ (pc'[q] # "idle" <=> pc[q] # "idle")
  BY <1>1 DEF InFlight
<1> QED
  BY <1>2 DEF HistoryInv, Exact

LEMMA HistoryAdmission ==
  ASSUME TypeInv, HistoryInv, NEW r \in Runs, NEW p \in Payloads,
         Admit(r, p) \/ Refuse(r, p)
  PROVE  HistoryInv'
<1>1. /\ req' = [req EXCEPT ![r] = p]
      /\ st' = [st EXCEPT ![r] = state]
      /\ UNCHANGED <<state, snaps, ref>>
      /\ pc[r] = "idle"
  BY DEF Admit, Refuse, MayBegin, Begin, Idle, slotVars, noteVars
<1>2. PICK stage \in {"verify", "done"} : pc' = [pc EXCEPT ![r] = stage]
  BY DEF Admit, Refuse
<1>3. pc \in [Runs -> Stages] /\ st \in [Runs -> States] /\ req \in [Runs -> Payloads \cup {None}]
  BY DEF TypeInv, TypeOK
<1>4. st'[r] = state /\ pc'[r] = stage /\ ref'[r] = NoRef
  BY <1>1, <1>2, <1>3 DEF HistoryInv
<1>5. \A q \in Runs \ {r} : pc'[q] = pc[q] /\ req'[q] = req[q] /\ st'[q] = st[q]
  BY <1>1, <1>2, <1>3
<1> QED
  BY <1>1, <1>4, <1>5 DEF HistoryInv, Exact, InFlight

LEMMA HistorySnapshot ==
  ASSUME TypeInv, HistoryInv, NEW r \in Runs, TakeSnapshot(r)
  PROVE  HistoryInv'
<1>1. /\ pc[r] = "snapshot"
      /\ pc' = [pc EXCEPT ![r] = "proxy"]
      /\ snaps' = Append(snaps, SetOf(req[r]))
      /\ ref' = [ref EXCEPT ![r] = Len(snaps) + 1]
      /\ UNCHANGED <<state, req, st>>
  BY DEF TakeSnapshot, At, GoTo, entryVars
<1>2. /\ pc \in [Runs -> Stages] /\ st \in [Runs -> States] /\ state \in States
      /\ ref \in [Runs -> Nat]
      /\ snaps \in Seq(RunSets \cup {None})
      /\ SetOf(req[r]) \in RunSets \cup {None}
  BY <1>1, PayloadsTyped DEF TypeInv, TypeOK, HasPayload
<1>3. /\ Len(snaps) \in Nat
      /\ DOMAIN snaps = 1 .. Len(snaps) /\ DOMAIN snaps' = 1 .. Len(snaps) + 1
      /\ \A n \in DOMAIN snaps : snaps'[n] = snaps[n]
      /\ snaps'[Len(snaps) + 1] = SetOf(req[r])
  BY <1>1, <1>2, GrowsKeeping
<1>4. \A q \in Runs : (InFlight(q)' <=> InFlight(q)) /\ (pc'[q] = "idle" <=> pc[q] = "idle")
  BY <1>1, <1>2 DEF InFlight
<1>5. \A s \in States : Exact(s) => \A g \in Remembered(s) :
        /\ g.ref # NoRef => g.ref \in DOMAIN snaps' /\ snaps'[g.ref] \in {g.set, None}
        /\ g.ref < Len(snaps) + 1
  <2> SUFFICES ASSUME NEW s \in States, Exact(s), NEW g \in Remembered(s)
               PROVE  /\ g.ref # NoRef => g.ref \in DOMAIN snaps' /\ snaps'[g.ref] \in {g.set, None}
                      /\ g.ref < Len(snaps) + 1
    OBVIOUS
  <2>1. g.ref # NoRef => g.ref \in DOMAIN snaps /\ snaps[g.ref] \in {g.set, None}
    BY DEF Exact
  <2> QED
    BY <1>3, <2>1 DEF NoRef
<1>6. Exact(state)' /\ \A q \in Runs : Exact(st[q])'
  BY <1>1, <1>2, <1>5 DEF HistoryInv, Exact
<1>7. ASSUME NEW q \in Runs, InFlight(q), ref'[q] # NoRef
      PROVE  /\ ref'[q] \in DOMAIN snaps'
             /\ snaps'[ref'[q]] \in {SetOf(req[q]), None}
             /\ \A g \in Remembered(st[q]) : g.ref < ref'[q]
  <2>1. CASE q = r
    <3>1. ref'[q] = Len(snaps) + 1 /\ st[q] \in States /\ Exact(st[q])
      BY <1>1, <1>2, <2>1 DEF HistoryInv
    <3> QED
      BY <1>3, <1>5, <2>1, <3>1
  <2>2. CASE q # r
    <3>1. ref[q] # NoRef /\ ref'[q] = ref[q]
      BY <1>1, <1>2, <1>7, <2>2
    <3> QED
      BY <1>3, <1>7, <3>1 DEF HistoryInv
  <2> QED
    BY <2>1, <2>2
<1>8. \A q \in Runs : pc'[q] = "idle" => ref'[q] = NoRef
  BY <1>1, <1>2, <1>4 DEF HistoryInv
<1> QED
  BY <1>1, <1>4, <1>6, <1>7, <1>8 DEF HistoryInv

LEMMA HistoryPersist ==
  ASSUME TypeInv, HistoryInv, NEW r \in Runs, Persist(r)
  PROVE  HistoryInv'
<1> DEFINE snap == [set |-> SetOf(req[r]), ref |-> ref[r]]
<1>1. /\ pc[r] = "persist"
      /\ pc' = [pc EXCEPT ![r] = "done"]
      /\ state' = Advance(st[r], req[r].seq, snap)
      /\ UNCHANGED <<snaps, req, st, ref>>
  BY DEF Persist, At, Finish, entryVars, noteVars
<1>2. /\ pc \in [Runs -> Stages] /\ st[r] \in States /\ Len(st[r].history) <= MaxHistory
      /\ req[r] \in Payloads /\ ref[r] \in Nat
  BY <1>1 DEF TypeInv, TypeOK, HasPayload
<1>3. snap \in Snapshots /\ req[r].seq \in Nat /\ InFlight(r)
  BY <1>1, <1>2, PayloadsTyped DEF Snapshots, InFlight
<1>4. Remembered(state') \subseteq Remembered(st[r]) \cup {snap}
  BY <1>1, <1>2, <1>3, AdvanceRemembers
<1>5. ref[r] # NoRef =>
        /\ ref[r] \in DOMAIN snaps /\ snaps[ref[r]] \in {SetOf(req[r]), None}
        /\ \A g \in Remembered(st[r]) : g.ref < ref[r]
  BY <1>3 DEF HistoryInv
<1>6. Exact(state)'
  BY <1>1, <1>4, <1>5 DEF HistoryInv, Exact
<1>7. InOrder(Releases(state'))
  <2>1. \A g \in Remembered(st[r]) : g.ref < snap.ref \/ snap.ref = NoRef
    BY <1>5
  <2> QED
    BY <1>1, <1>2, <1>3, <2>1, AdvanceKeepsOrder DEF HistoryInv
<1>8. \A q \in Runs : (InFlight(q)' => InFlight(q)) /\ (pc'[q] = "idle" <=> pc[q] = "idle")
  BY <1>1, <1>2 DEF InFlight
<1> QED
  BY <1>1, <1>6, <1>7, <1>8 DEF HistoryInv, Exact

LEMMA HistoryAnswer ==
  ASSUME TypeInv, HistoryInv, NEW r \in Runs, Answer(r)
  PROVE  HistoryInv'
<1>1. /\ pc[r] = "done"
      /\ pc' = [pc EXCEPT ![r] = "idle"]
      /\ req' = [req EXCEPT ![r] = None]
      /\ st' = [st EXCEPT ![r] = FreshState]
      /\ ref' = [ref EXCEPT ![r] = NoRef]
      /\ UNCHANGED <<state, snaps>>
  BY DEF Answer, At, slotVars
<1>2. /\ pc \in [Runs -> Stages] /\ st \in [Runs -> States] /\ req \in [Runs -> Payloads \cup {None}]
      /\ ref \in [Runs -> Nat]
  BY DEF TypeInv, TypeOK
<1>3. /\ pc'[r] = "idle" /\ ref'[r] = NoRef /\ st'[r] = FreshState
      /\ \A q \in Runs \ {r} : /\ pc'[q] = pc[q] /\ req'[q] = req[q]
                            /\ st'[q] = st[q] /\ ref'[q] = ref[q]
  BY <1>1, <1>2
<1>4. Exact(FreshState)' /\ InOrder(Releases(FreshState))
  BY FreshReleases DEF Exact, InOrder
<1> QED
  BY <1>1, <1>3, <1>4 DEF HistoryInv, Exact, InFlight

LEMMA HistoryRestart ==
  ASSUME TypeInv, HistoryInv, AgentRestart
  PROVE  HistoryInv'
<1>1. /\ pc' = [r \in Runs |-> "idle"]
      /\ st' = [r \in Runs |-> FreshState]
      /\ ref' = [r \in Runs |-> NoRef]
      /\ snaps' = [n \in DOMAIN snaps |-> None]
      /\ UNCHANGED state
  BY DEF AgentRestart
<1>2. Exact(state)'
  BY <1>1 DEF HistoryInv, Exact
<1>3. Exact(FreshState)' /\ InOrder(Releases(FreshState))
  BY FreshReleases DEF Exact, InOrder
<1> QED
  BY <1>1, <1>2, <1>3 DEF HistoryInv, Exact, InFlight

LEMMA HistoryInvariant == Spec => []HistoryInv
<1>1. TypeInv /\ HistoryInv /\ [Next]_vars => HistoryInv'
  <2> SUFFICES ASSUME TypeInv, HistoryInv, [Next]_vars
               PROVE  HistoryInv'
    OBVIOUS
  <2> USE DEF slotVars, noteVars, entryVars, At, GoTo, Finish
  <2>1. ASSUME NEW r \in Runs,
               StageFails(r) \/ NoOp(r) \/ NoRollback(r) \/ RolledBack(r)
                 \/ RollbackUnhealthy(r) \/ ComposeUpFails(r)
        PROVE  HistoryInv'
    <3>1. /\ pc' = [pc EXCEPT ![r] = "done"]
          /\ InFlight(r)
          /\ UNCHANGED <<state, snaps, req, st, ref>>
      BY <2>1 DEF StageFails, NoOp, NoRollback, RolledBack, RollbackUnhealthy,
                  ComposeUpFails, InFlight
    <3> QED
      BY <3>1, HistoryQuiet DEF Stages
  <2>2. ASSUME NEW r \in Runs,
               Verify(r) \/ Proceed(r) \/ Pull(r) \/ WriteCompose(r) \/ WriteEnv(r)
                 \/ ComposeUp(r) \/ Healthy(r) \/ StartRollback(r) \/ SkipSnapshot(r)
        PROVE  HistoryInv'
    <3>1. PICK stage \in {"idempotency", "pull", "compose", "env", "up", "health",
                          "snapshot", "proxy"} :
            /\ pc' = [pc EXCEPT ![r] = stage]
            /\ InFlight(r)
            /\ UNCHANGED <<state, snaps, req, st, ref>>
      BY <2>2 DEF Verify, Proceed, Pull, WriteCompose, WriteEnv, ComposeUp, Healthy,
                  StartRollback, SkipSnapshot, InFlight
    <3> QED
      BY <3>1, HistoryQuiet DEF Stages
  <2>3. ASSUME NEW r \in Runs, NEW e \in Edges,
               Publish(r, e) \/ PublishFails(r, e) \/ SkipPublish(r, e)
        PROVE  HistoryInv'
    <3>1. PICK stage \in {"dns", "persist"} :
            /\ pc' = [pc EXCEPT ![r] = stage]
            /\ InFlight(r)
            /\ UNCHANGED <<state, snaps, req, st, ref>>
      BY <2>3 DEF Publish, PublishFails, SkipPublish, After, Edges, InFlight
    <3> QED
      BY <3>1, HistoryQuiet DEF Stages
  <2>4. ASSUME NEW r \in Runs, Disconnect(r)
        PROVE  HistoryInv'
    BY <2>4 DEF Disconnect, HistoryInv, Exact, InFlight
  <2>5. CASE UNCHANGED vars
    BY <2>5 DEF vars, HistoryInv, Exact, InFlight
  <2> QED
    BY <2>1, <2>2, <2>3, <2>4, <2>5, HistoryAdmission, HistorySnapshot, HistoryPersist,
       HistoryAnswer, HistoryRestart DEF Next, Step
<1> QED
  BY <1>1, HistoryInit, TypeInvariant, PTL DEF Spec

-------------------------------------------------------------------------------
(* A remembered release's snapshot directory holds that release's run set,  *)
(* or is gone, for any number of overlapping Runs, crashes and failures.    *)
THEOREM SnapshotCorrect == Spec => []SnapshotExact
<1>1. HistoryInv => SnapshotExact
  BY DEF HistoryInv, Exact, SnapshotExact
<1> QED
  BY <1>1, HistoryInvariant, PTL

(* Releases stay in the order of their snapshots, however Runs overwrite    *)
(* each other's records.                                                    *)
THEOREM OrderCorrect == Spec => []OldestFirst
<1>1. HistoryInv => OldestFirst
  BY DEF HistoryInv, OldestFirst
<1> QED
  BY <1>1, HistoryInvariant, PTL

-------------------------------------------------------------------------------
(* The last good release is among the remembered ones. *)
LEMMA GoodIsRemembered ==
  ASSUME NEW s \in States, s.good # None
  PROVE  s.good \in Remembered(s)
<1>1. Len(s.history) \in Nat /\ s.history \in Seq(Snapshots) /\ s.good \in Snapshots
  BY LenProperties DEF States
<1>2. Releases(s) = Append(s.history, s.good)
  BY DEF Releases
<1>3. /\ Len(s.history) + 1 \in DOMAIN Releases(s)
      /\ Releases(s)[Len(s.history) + 1] = s.good
  BY <1>1, <1>2, AppendProperties, LenProperties
<1> QED
  BY <1>3 DEF Remembered

(* A Run that rolls back puts back the release it read, as it shipped. *)
LEMMA TargetIsWhatShipped ==
  ASSUME TypeInv, HistoryInv, NEW r \in Runs, InFlight(r), back[r]
  PROVE  Target(r) = st[r].good.set
<1>1. /\ st[r].good # None
      /\ st[r].good.ref \in DOMAIN snaps
      /\ snaps[st[r].good.ref] # None
  BY DEF TypeInv, HasPayload
<1>2. st[r].good \in Remembered(st[r])
  BY <1>1, GoodIsRemembered DEF TypeInv, TypeOK
<1>3. st[r].good.ref # NoRef
  <2>1. DOMAIN snaps = 1 .. Len(snaps)
    BY LenProperties DEF TypeInv, TypeOK
  <2> QED
    BY <1>1, <2>1 DEF NoRef
<1>4. snaps[st[r].good.ref] = st[r].good.set
  BY <1>1, <1>2, <1>3 DEF HistoryInv, Exact
<1> QED
  BY <1>4 DEF Target

(* However Runs overlap, a rollback restores exactly the release that its   *)
(* Run found on record: no snapshot of another Run takes its place.         *)
THEOREM RollbackCorrect == Spec => []RollbackIsExact
<1>1. TypeInv /\ HistoryInv => RollbackIsExact
  BY TargetIsWhatShipped DEF RollbackIsExact
<1> QED
  BY <1>1, TypeInvariant, HistoryInvariant, PTL
===============================================================================
