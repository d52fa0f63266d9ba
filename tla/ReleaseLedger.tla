---------------------------- MODULE ReleaseLedger ----------------------------
(****************************************************************************)
(* What state.json promises about one service slot, with no pipeline in it: *)
(* a ledger of releases.  A release of a sound run set whose sequence       *)
(* number is not below the last one is entered in one step; the release it  *)
(* replaces goes to the end of a bounded history.  Nothing is ever undone.  *)
(*                                                                          *)
(* DeployPipeline implements this ledger when its Runs do not overlap.      *)
(****************************************************************************)
EXTENDS Naturals, Sequences

CONSTANTS
  Seqs,        \* sequence numbers of deploys
  RunSets,     \* everything a deploy can put on the slot
  Releasable,  \* the run sets whose own health probe accepts them
  MaxHistory,  \* replaced releases remembered
  None         \* no release yet

VARIABLES lastSeq, good, history

ledger == <<lastSeq, good, history>>

(* The newest n elements of s. *)
Newest(s, n) == IF Len(s) > n THEN SubSeq(s, Len(s) - n + 1, Len(s)) ELSE s

Init ==
  /\ lastSeq = 0
  /\ good = None
  /\ history = << >>

Release(seq, set) ==
  /\ seq >= lastSeq
  /\ set \in Releasable
  /\ lastSeq' = seq
  /\ good' = set
  /\ history' = IF good = None THEN history
                ELSE Newest(Append(history, good), MaxHistory)

Next == \E seq \in Seqs, set \in RunSets : Release(seq, set)

Spec == Init /\ [][Next]_ledger
==============================================================================
