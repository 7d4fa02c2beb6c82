--------------------------- MODULE MCTaskGateway ---------------------------
EXTENDS TaskGateway, TLC

CONSTANTS f1, f2, f3, k1, work, done, block

\* Epoch 1: work, then done.  Epoch 2: the snapshot block.
MCEventIn == f1 :> work @@ f2 :> done @@ f3 :> block
MCEpoch == work :> 1 @@ done :> 1 @@ block :> 2
MCSeqNo == work :> 1 @@ done :> 2 @@ block :> 1
MCStatus == work :> "WORKING" @@ done :> "DONE" @@ block :> "BLOCKED"

\* Bound: the third event only where nobody cancels and the daemon lives.
Within == f3 \in arrived => cancel[k1].at = "ready" /\ crashes = 0

MCSpec == Init /\ [][Next /\ Within']_vars /\ Fairness

\* Two events of one epoch, one file each.
PairEventIn == f1 :> work @@ f2 :> done
=============================================================================
