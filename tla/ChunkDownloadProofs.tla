------------------------ MODULE ChunkDownloadProofs ------------------------
(***************************************************************************)
(* Machine-checked proofs about ChunkDownload, for any number of chunks,   *)
(* passes and kills.                                                       *)
(***************************************************************************)
EXTENDS ChunkDownload, TLAPS

(* As the manifest describes it, as far as it does. *)
Verified(content) == content \in Sized /\ (sha => content = "good")

(* The properties need to know where the process is: it works on a file    *)
(* whose final name is free, renames only what it verified, cleans up only *)
(* behind a published file, and fetches only chunks that are not complete. *)
PlaceInv ==
    /\ pc \in {"plan", "fetch", "recheck", "assemble", "verify", "rename"} => final \notin Sized
    /\ pc = "rename" => Verified(assembling)
    /\ pc = "cleanup" => Verified(final)
    /\ pc # "off" => result = "none"
    /\ result = "ok" => Verified(final)

FetchInv ==
    /\ pc # "fetch" => todo = {}
    /\ \A i \in todo : chunk[i] \notin Sized

IInv == TypeOK /\ PlaceInv /\ FetchInv

LEMMA InitIInv == Init => IInv
  BY DownloadAssumption DEF Init, IInv, TypeOK, PlaceInv, FetchInv, Contents, Sized, Places

LEMMA NextTypeOK == IInv /\ [Next]_vars => TypeOK'
<1> SUFFICES ASSUME IInv, [Next]_vars
             PROVE  TypeOK'
  OBVIOUS
<1> USE DownloadAssumption DEF IInv, TypeOK, FetchInv, Contents, Sized, Places, hubVars, fileVars, runVars
<1>1. CASE HubMoves \/ Run
  BY <1>1 DEF HubMoves, Run
<1>2. CASE CheckFinal
  BY <1>2 DEF CheckFinal, Finish
<1>3. CASE Plan
  BY <1>3 DEF Plan, Missing
<1>4. CASE PassDone \/ Recheck
  BY <1>4 DEF PassDone, Recheck, Finish
<1>5. CASE Assemble
  BY <1>5 DEF Assemble
<1>6. CASE Verify \/ Rename \/ CleanupDone
  BY <1>6 DEF Verify, Rename, CleanupDone, Finish
<1>7. ASSUME NEW i \in Chunks, FetchStep(i)
      PROVE  TypeOK'
  BY <1>7 DEF FetchStep, BeginWrite, EndWrite, BreakWrite, GiveUp
<1>8. ASSUME NEW i \in Chunks, RemoveChunk(i)
      PROVE  TypeOK'
  BY <1>8 DEF RemoveChunk
<1>9. CASE Kill
  BY <1>9 DEF Kill
<1>10. CASE UNCHANGED vars
  BY <1>10 DEF vars
<1>11. QED
  BY <1>1, <1>2, <1>3, <1>4, <1>5, <1>6, <1>7, <1>8, <1>9, <1>10 DEF Next, FileStep

LEMMA NextPlaceInv == IInv /\ [Next]_vars => PlaceInv'
<1> SUFFICES ASSUME IInv, [Next]_vars
             PROVE  PlaceInv'
  OBVIOUS
<1> USE DEF IInv, TypeOK, FetchInv, PlaceInv, Verified, Sized, Places, hubVars, fileVars, runVars
<1>1. CASE HubMoves \/ Run
  BY <1>1 DEF HubMoves, Run
<1>2. CASE CheckFinal
  BY <1>2 DEF CheckFinal, Finish
<1>3. CASE Plan
  BY <1>3 DEF Plan
<1>4. CASE PassDone \/ Recheck \/ Assemble
  BY <1>4 DEF PassDone, Recheck, Assemble, Finish
<1>5. CASE Verify \/ Rename \/ CleanupDone
  BY <1>5 DEF Verify, Rename, CleanupDone, Finish
<1>6. ASSUME NEW i \in Chunks, FetchStep(i)
      PROVE  PlaceInv'
  BY <1>6 DEF FetchStep, BeginWrite, EndWrite, BreakWrite, GiveUp
<1>7. ASSUME NEW i \in Chunks, RemoveChunk(i)
      PROVE  PlaceInv'
  BY <1>7 DEF RemoveChunk
<1>8. CASE Kill
  BY <1>8 DEF Kill
<1>9. CASE UNCHANGED vars
  BY <1>9 DEF vars
<1>10. QED
  BY <1>1, <1>2, <1>3, <1>4, <1>5, <1>6, <1>7, <1>8, <1>9 DEF Next, FileStep

LEMMA NextFetchInv == IInv /\ [Next]_vars => FetchInv'
<1> SUFFICES ASSUME IInv, [Next]_vars
             PROVE  FetchInv'
  OBVIOUS
<1> USE DEF IInv, TypeOK, FetchInv, Sized, hubVars, fileVars, runVars
<1>1. CASE HubMoves \/ Run
  BY <1>1 DEF HubMoves, Run
<1>2. CASE CheckFinal
  BY <1>2 DEF CheckFinal, Finish
<1>3. CASE Plan
  BY <1>3 DEF Plan, Missing
<1>4. CASE PassDone \/ Recheck \/ Assemble
  BY <1>4 DEF PassDone, Recheck, Assemble, Finish
<1>5. CASE Verify \/ Rename \/ CleanupDone
  BY <1>5 DEF Verify, Rename, CleanupDone, Finish
<1>6. ASSUME NEW i \in Chunks, FetchStep(i)
      PROVE  FetchInv'
  BY <1>6 DEF FetchStep, BeginWrite, EndWrite, BreakWrite, GiveUp
<1>7. ASSUME NEW i \in Chunks, RemoveChunk(i)
      PROVE  FetchInv'
  BY <1>7 DEF RemoveChunk
<1>8. CASE Kill
  BY <1>8 DEF Kill
<1>9. CASE UNCHANGED vars
  BY <1>9 DEF vars
<1>10. QED
  BY <1>1, <1>2, <1>3, <1>4, <1>5, <1>6, <1>7, <1>8, <1>9 DEF Next, FileStep

LEMMA Inductive == Spec => []IInv
<1>1. IInv /\ [Next]_vars => IInv'
  BY NextTypeOK, NextPlaceInv, NextFetchInv DEF IInv
<1>2. QED
  BY InitIInv, <1>1, PTL DEF Spec

----------------------------------------------------------------------------
(* Types of every variable, and that open chunk files belong to the        *)
(* downloads of the running pass.                                          *)
THEOREM DownloadTypeCorrect == Spec => []TypeOK
  BY Inductive, PTL DEF IInv

(* Exit status 0 is only given with the file in place and verified.        *)
THEOREM OkIsVerified == Spec => []OkMeansVerified
<1>1. IInv => OkMeansVerified
  BY DEF IInv, PlaceInv, Verified, OkMeansVerified
<1>2. QED
  BY Inductive, <1>1, PTL

(* The file's own name only ever gets content that passed its checks.      *)
THEOREM OnlyVerifiedIsNamed == Spec => NamedIsVerified
<1> DEFINE A == final' # final => final' = "absent" \/ final' = "good" \/ (~sha /\ final' = "bad")
<1>1. IInv /\ [Next]_vars => [A]_vars
  <2> SUFFICES ASSUME IInv, Next, final' # final
               PROVE  A
    OBVIOUS
  <2>1. CheckFinal \/ Rename
    BY DEF Next, FileStep, FetchStep, HubMoves, Run, Plan, BeginWrite, EndWrite, BreakWrite, GiveUp, PassDone,
           Recheck, Assemble, Verify, RemoveChunk, CleanupDone, Kill, fileVars
  <2>2. QED
    BY <2>1 DEF CheckFinal, Rename, IInv, PlaceInv, Verified, Sized
<1>2. QED
  BY Inductive, <1>1, PTL DEF Spec, NamedIsVerified

(* No later run takes away a file that is as the manifest describes it.    *)
THEOREM VerifiedStays == Spec => VerifiedIsKept
<1> DEFINE A == final = "good" => final' = "good"
<1>1. IInv /\ [Next]_vars => [A]_vars
  <2> SUFFICES ASSUME IInv, Next, final' # final
               PROVE  A
    OBVIOUS
  <2>1. CheckFinal \/ Rename
    BY DEF Next, FileStep, FetchStep, HubMoves, Run, Plan, BeginWrite, EndWrite, BreakWrite, GiveUp, PassDone,
           Recheck, Assemble, Verify, RemoveChunk, CleanupDone, Kill, fileVars
  <2>2. QED
    BY <2>1 DEF CheckFinal, Rename, IInv, PlaceInv, Verified, Sized
<1>2. QED
  BY Inductive, <1>1, PTL DEF Spec, VerifiedIsKept

(* No complete chunk is fetched again or lost before the file is in place. *)
THEOREM BankedStays == Spec => BankedIsKept
<1> DEFINE A == \A i \in Chunks : chunk[i] \in Sized /\ chunk'[i] # chunk[i] =>
                    final \in Sized /\ (sha => final = "good")
<1>1. IInv /\ [Next]_vars => [A]_vars
  <2> SUFFICES ASSUME IInv, Next, NEW i \in Chunks, chunk[i] \in Sized, chunk'[i] # chunk[i]
               PROVE  Verified(final)
    BY DEF Verified
  <2> USE DEF IInv, TypeOK, FetchInv
  <2>1. ASSUME NEW j \in Chunks, FetchStep(j)
        PROVE  FALSE
    BY <2>1 DEF FetchStep, BeginWrite, EndWrite, BreakWrite, GiveUp, fileVars
  <2>2. ASSUME NEW j \in Chunks, RemoveChunk(j)
        PROVE  Verified(final)
    BY <2>2 DEF RemoveChunk, PlaceInv
  <2>3. ~(HubMoves \/ Run \/ FileStep)
    BY DEF FileStep, HubMoves, Run, CheckFinal, Plan, PassDone, Recheck, Assemble, Verify, Rename, CleanupDone, fileVars
  <2>4. ~Kill
    BY DEF Kill
  <2>5. QED
    BY <2>1, <2>2, <2>3, <2>4 DEF Next
<1>2. QED
  BY Inductive, <1>1, PTL DEF Spec, BankedIsKept

(***************************************************************************)
(* One wrong chunk of the right size, and why RerunRecovers fails: the     *)
(* digest is compared for the assembled file only, and a mismatch keeps    *)
(* every chunk, so the next run assembles the same file again.             *)
(***************************************************************************)
Trapped ==
    /\ sha /\ final # "good" /\ result # "ok"
    /\ \A i \in Chunks : chunk[i] \in Sized
    /\ \E i \in Chunks : chunk[i] = "bad"
    /\ pc \notin {"rename", "cleanup"}
    /\ pc = "verify" => assembling # "good"

LEMMA TrapHolds == IInv /\ Trapped /\ [Next]_vars => Trapped'
<1> SUFFICES ASSUME IInv, Trapped, [Next]_vars
             PROVE  Trapped'
  OBVIOUS
<1> USE DEF IInv, TypeOK, FetchInv, Trapped, Sized, hubVars, fileVars, runVars
<1>1. todo = {} /\ writing = {}
  OBVIOUS
<1>2. CASE HubMoves \/ Run
  BY <1>2 DEF HubMoves, Run
<1>3. CASE CheckFinal
  BY <1>3 DEF CheckFinal, Finish
<1>4. CASE Plan \/ PassDone
  BY <1>4 DEF Plan, PassDone
<1>5. CASE Recheck
  BY <1>5 DEF Recheck, Finish
<1>6. CASE Assemble
  BY <1>6 DEF Assemble
<1>7. CASE Verify
  BY <1>7 DEF Verify, Finish
<1>8. CASE Rename \/ CleanupDone
  BY <1>8 DEF Rename, CleanupDone
<1>9. ASSUME NEW i \in Chunks, FetchStep(i) \/ RemoveChunk(i)
      PROVE  FALSE
  BY <1>1, <1>9 DEF FetchStep, BeginWrite, EndWrite, BreakWrite, GiveUp, RemoveChunk
<1>10. CASE Kill
  BY <1>1, <1>10 DEF Kill
<1>11. CASE UNCHANGED vars
  BY <1>11 DEF vars
<1>12. QED
  BY <1>2, <1>3, <1>4, <1>5, <1>6, <1>7, <1>8, <1>9, <1>10, <1>11 DEF Next, FileStep

(* Once the chunks are all of the right size and one of them is wrong, no  *)
(* run ever ends well again, whatever the hub serves from then on and      *)
(* however often the download is run (chunkdl.py 116-151).                 *)
THEOREM WrongChunkIsForever == Spec => [](Trapped => [](result # "ok"))
<1>1. Trapped => result # "ok"
  BY DEF Trapped
<1>2. QED
  BY Inductive, TrapHolds, <1>1, PTL DEF Spec

(***************************************************************************)
(* The other way to end badly leaves work for the next run.                *)
(***************************************************************************)
Unspoilt ==
    /\ \A i \in Chunks : chunk[i] # "bad"
    /\ pc = "verify" /\ (\A i \in Chunks : chunk[i] \in Sized) => assembling = "good"

LEMMA NextUnspoilt == IInv /\ Unspoilt /\ served = "good" /\ [Next]_vars => Unspoilt'
<1> SUFFICES ASSUME IInv, Unspoilt, served = "good", [Next]_vars
             PROVE  Unspoilt'
  OBVIOUS
<1> USE DEF IInv, TypeOK, FetchInv, Unspoilt, Sized, hubVars, fileVars, runVars
<1>1. CASE HubMoves \/ Run
  BY <1>1 DEF HubMoves, Run
<1>2. CASE CheckFinal \/ Plan \/ PassDone \/ Recheck
  BY <1>2 DEF CheckFinal, Plan, PassDone, Recheck, Finish
<1>3. CASE Assemble
  BY <1>3 DEF Assemble
<1>4. CASE Verify \/ Rename \/ CleanupDone
  BY <1>4 DEF Verify, Rename, CleanupDone, Finish
<1>5. ASSUME NEW i \in Chunks, FetchStep(i)
      PROVE  Unspoilt'
  <2>1. pc = "fetch" /\ pc' = "fetch"
    BY <1>5 DEF FetchStep, BeginWrite, EndWrite, BreakWrite, GiveUp
  <2>2. \A j \in Chunks : chunk'[j] # "bad"
    BY <1>5 DEF FetchStep, BeginWrite, EndWrite, BreakWrite, GiveUp
  <2>3. QED
    BY <2>1, <2>2
<1>6. ASSUME NEW i \in Chunks, RemoveChunk(i)
      PROVE  Unspoilt'
  BY <1>6 DEF RemoveChunk
<1>7. CASE Kill
  BY <1>7 DEF Kill
<1>8. CASE UNCHANGED vars
  BY <1>8 DEF vars
<1>9. QED
  BY <1>1, <1>2, <1>3, <1>4, <1>5, <1>6, <1>7, <1>8 DEF Next, FileStep

(* A run fails for a chunk it could not fetch, and then Plan has that      *)
(* chunk to fetch in the next one.                                         *)
FailureLeavesWork ==
    [][pc # "off" /\ result' = "failed" => \E i \in Chunks : chunk'[i] \notin Sized]_vars

(* While the hub serves what the manifest describes and no complete chunk  *)
(* was wrong to begin with, no kill, torn write or short range ever makes  *)
(* the digest fail: the premise of ResumesToDone rules the trap out, and   *)
(* every failed run has left a chunk to fetch (116-151).                   *)
THEOREM GoodHubLeavesWork ==
    Spec /\ (\A i \in Chunks : chunk[i] # "bad") /\ [](served = "good") => FailureLeavesWork
<1> DEFINE A == pc # "off" /\ result' = "failed" => \E i \in Chunks : chunk'[i] \notin Sized
<1>1. Init /\ (\A i \in Chunks : chunk[i] # "bad") => Unspoilt
  BY DEF Init, Unspoilt
<1>2. IInv /\ Unspoilt /\ [Next]_vars => [A]_vars
  <2> SUFFICES ASSUME IInv, Unspoilt, Next, pc # "off", result' = "failed"
               PROVE  \E i \in Chunks : chunk'[i] \notin Sized
    OBVIOUS
  <2> USE DEF hubVars, fileVars, runVars
  <2>1. result = "none"
    BY DEF IInv, PlaceInv
  <2>2. Recheck \/ Verify
    <3>1. ~(HubMoves \/ Run \/ CheckFinal \/ Plan \/ PassDone)
      BY <2>1 DEF HubMoves, Run, CheckFinal, Plan, PassDone, Finish
    <3>2. ~(Assemble \/ Rename \/ CleanupDone \/ Kill)
      BY <2>1 DEF Assemble, Rename, CleanupDone, Kill, Finish
    <3>3. ~\E i \in Chunks : FetchStep(i) \/ RemoveChunk(i)
      BY <2>1 DEF FetchStep, BeginWrite, EndWrite, BreakWrite, GiveUp, RemoveChunk
    <3>4. QED
      BY <3>1, <3>2, <3>3 DEF Next, FileStep
  <2>3. CASE Recheck
    BY <2>1, <2>3 DEF Recheck, Finish, Sized
  <2>4. CASE Verify
    BY <2>1, <2>4 DEF Verify, Finish, Unspoilt, Sized
  <2>5. QED
    BY <2>2, <2>3, <2>4
<1>3. QED
  BY Inductive, NextUnspoilt, <1>1, <1>2, PTL DEF Spec, FailureLeavesWork

=============================================================================
