--------------------------- MODULE ChunkDownload ---------------------------
(***************************************************************************)
(* chunkdl.py downloading one manifest entry into a model directory, run   *)
(* again after every failure or kill (models/minimax-m3.1-flash; the copy  *)
(* in models/dsv41-exl3-3.5bpw-tf is identical).  Nothing survives a kill  *)
(* but the files, and the process may be killed between any two of its     *)
(* file operations.                                                        *)
(*                                                                         *)
(* A file's content is told apart as the checks of the code tell it:       *)
(* absent, empty, short (the wrong size), good or bad (the right size,     *)
(* with or without the content the manifest describes).                    *)
(***************************************************************************)
EXTENDS Naturals

CONSTANTS
    Chunks,            \* the ranges of the file
    MaxRounds,         \* rounds: collection passes
    MaxKills           \* bound: kills of the process

ASSUME DownloadAssumption ==
    /\ Chunks # {}
    /\ MaxRounds \in Nat \ {0}
    /\ MaxKills \in Nat

VARIABLES
    sha,               \* the manifest entry carries a digest
    served,            \* what the hub serves under the URL: "good", or "bad" for another revision
    final,             \* the file under its own name
    assembling,        \* the file being assembled
    chunk,             \* the chunk files under .chunktmp
    pc,                \* where process_file is; "off" when no process runs
    round,             \* collection passes begun
    todo,              \* chunks of this pass whose download has not returned
    writing,           \* chunks whose file is open for writing
    result,            \* "none", "ok" (verified, exists, downloaded) or "failed"
    kills

hubVars == <<sha, served>>
fileVars == <<final, assembling, chunk>>
runVars == <<pc, round, todo, writing, result>>
vars == <<hubVars, fileVars, runVars, kills>>

Sized == {"good", "bad"}
Contents == {"absent", "empty", "short"} \union Sized
Places == {"off", "check", "plan", "fetch", "recheck", "assemble", "verify", "rename", "cleanup"}

TypeOK ==
    /\ sha \in BOOLEAN
    /\ served \in Sized
    /\ final \in Contents /\ assembling \in Contents
    /\ chunk \in [Chunks -> Contents]
    /\ pc \in Places
    /\ round \in 0..MaxRounds
    /\ todo \in SUBSET Chunks
    /\ writing \in SUBSET todo
    /\ result \in {"none", "ok", "failed"}
    /\ kills \in 0..MaxKills

(* The directory may hold what earlier runs and other tools left there.    *)
Init ==
    /\ sha \in BOOLEAN
    /\ served \in Sized
    /\ final \in {"absent", "short", "good", "bad"}
    /\ assembling \in {"absent", "short"}
    /\ chunk \in [Chunks -> {"absent", "short", "good", "bad"}]
    /\ pc = "off"
    /\ round = 0
    /\ todo = {} /\ writing = {}
    /\ result = "none"
    /\ kills = 0

----------------------------------------------------------------------------
(* The hub: a branch may move between two requests, also back. *)
HubMoves ==
    /\ \E content \in Sized \ {served} : served' = content
    /\ UNCHANGED <<sha, fileVars, runVars, kills>>

Run ==
    /\ pc = "off"
    /\ pc' = "check"
    /\ round' = 0
    /\ result' = "none"
    /\ UNCHANGED <<hubVars, fileVars, todo, writing, kills>>

Finish(verdict) == pc' = "off" /\ result' = verdict

(* Mutants: the size alone decides; whatever is there is removed first. *)
CheckFinalBySize ==
    /\ pc = "check"
    /\ IF final \in Sized THEN Finish("ok") ELSE pc' = "plan" /\ UNCHANGED result
    /\ UNCHANGED <<hubVars, fileVars, round, todo, writing, kills>>

CheckFinalRemovingFirst ==
    /\ pc = "check"
    /\ pc' = "plan"
    /\ final' = "absent"
    /\ UNCHANGED <<hubVars, assembling, chunk, round, todo, writing, result, kills>>

(* A file of the right size is done, if its digest agrees or there is none *)
(* to compare; a wrong digest removes it.                                  *)
CheckFinal ==
    /\ pc = "check"
    /\ IF final \in Sized /\ (sha => final = "good")
       THEN Finish("ok") /\ UNCHANGED final
       ELSE /\ pc' = "plan"
            /\ final' = IF final \in Sized THEN "absent" ELSE final
            /\ UNCHANGED result
    /\ UNCHANGED <<hubVars, assembling, chunk, round, todo, writing, kills>>

----------------------------------------------------------------------------
(* Collection passes *)

Missing == {i \in Chunks : chunk[i] \notin Sized}

(* Mutants of Plan: one pass too many; all chunks anew; any chunk that is  *)
(* not empty is taken for complete.                                        *)
PlanOneTooMany ==
    /\ pc = "plan"
    /\ IF round <= MaxRounds /\ Missing # {}
       THEN pc' = "fetch" /\ round' = round + 1 /\ todo' = Missing
       ELSE pc' = "recheck" /\ UNCHANGED <<round, todo>>
    /\ UNCHANGED <<hubVars, fileVars, writing, result, kills>>

PlanRefetchingAll ==
    /\ pc = "plan"
    /\ IF round < MaxRounds /\ Missing # {}
       THEN pc' = "fetch" /\ round' = round + 1 /\ todo' = Chunks
       ELSE pc' = "recheck" /\ UNCHANGED <<round, todo>>
    /\ UNCHANGED <<hubVars, fileVars, writing, result, kills>>

PlanTrustingShort ==
    /\ pc = "plan"
    /\ LET absent == {i \in Chunks : chunk[i] \in {"absent", "empty"}} IN
       IF round < MaxRounds /\ absent # {}
       THEN pc' = "fetch" /\ round' = round + 1 /\ todo' = absent
       ELSE pc' = "recheck" /\ UNCHANGED <<round, todo>>
    /\ UNCHANGED <<hubVars, fileVars, writing, result, kills>>

Plan ==
    /\ pc = "plan"
    /\ IF round < MaxRounds /\ Missing # {}
       THEN pc' = "fetch" /\ round' = round + 1 /\ todo' = Missing
       ELSE pc' = "recheck" /\ UNCHANGED <<round, todo>>
    /\ UNCHANGED <<hubVars, fileVars, writing, result, kills>>

(* A range of the right length has arrived: the chunk's file is opened,    *)
(* which truncates it, and written.  A failed write is swallowed and the   *)
(* chunk is tried again; after enough attempts it is given up.             *)
BeginWrite(i) ==
    /\ pc = "fetch"
    /\ i \in todo \ writing
    /\ writing' = writing \union {i}
    /\ chunk' = [chunk EXCEPT ![i] = "empty"]
    /\ UNCHANGED <<hubVars, final, assembling, pc, round, todo, result, kills>>

EndWrite(i) ==
    /\ i \in writing
    /\ writing' = writing \ {i} /\ todo' = todo \ {i}
    /\ chunk' = [chunk EXCEPT ![i] = served]
    /\ UNCHANGED <<hubVars, final, assembling, pc, round, result, kills>>

BreakWrite(i) ==
    /\ i \in writing
    /\ writing' = writing \ {i}
    /\ \E content \in {"empty", "short"} : chunk' = [chunk EXCEPT ![i] = content]
    /\ UNCHANGED <<hubVars, final, assembling, pc, round, todo, result, kills>>

GiveUp(i) ==
    /\ i \in todo \ writing
    /\ todo' = todo \ {i}
    /\ UNCHANGED <<hubVars, fileVars, pc, round, writing, result, kills>>

PassDone ==
    /\ pc = "fetch"
    /\ todo = {}
    /\ pc' = "plan"
    /\ UNCHANGED <<hubVars, fileVars, round, todo, writing, result, kills>>

----------------------------------------------------------------------------
(* Assembly *)

(* What is still missing is judged again, by a weaker test. *)
Recheck ==
    /\ pc = "recheck"
    /\ IF \E i \in Chunks : chunk[i] \in {"absent", "empty"}
       THEN Finish("failed") /\ UNCHANGED assembling
       ELSE pc' = "assemble" /\ assembling' = "empty" /\ UNCHANGED result
    /\ UNCHANGED <<hubVars, final, chunk, round, todo, writing, kills>>

Assemble ==
    /\ pc = "assemble"
    /\ pc' = "verify"
    /\ assembling' = CASE \E i \in Chunks : chunk[i] \notin Sized -> "short"
                       [] \A i \in Chunks : chunk[i] = "good" -> "good"
                       [] OTHER -> "bad"
    /\ UNCHANGED <<hubVars, final, chunk, round, todo, writing, result, kills>>

(* Mutant: the digest is not compared. *)
VerifyBySize ==
    /\ pc = "verify"
    /\ IF assembling \in Sized
       THEN pc' = "rename" /\ UNCHANGED <<assembling, result>>
       ELSE Finish("failed") /\ assembling' = "absent"
    /\ UNCHANGED <<hubVars, final, chunk, round, todo, writing, kills>>

(* Size, then digest; a mismatch removes the assembled file and keeps      *)
(* every chunk.                                                            *)
Verify ==
    /\ pc = "verify"
    /\ IF assembling \in Sized /\ (sha => assembling = "good")
       THEN pc' = "rename" /\ UNCHANGED <<assembling, result>>
       ELSE Finish("failed") /\ assembling' = "absent"
    /\ UNCHANGED <<hubVars, final, chunk, round, todo, writing, kills>>

Rename ==
    /\ pc = "rename"
    /\ pc' = "cleanup"
    /\ final' = assembling
    /\ assembling' = "absent"
    /\ UNCHANGED <<hubVars, chunk, round, todo, writing, result, kills>>

RemoveChunk(i) ==
    /\ pc = "cleanup"
    /\ chunk[i] # "absent"
    /\ chunk' = [chunk EXCEPT ![i] = "absent"]
    /\ UNCHANGED <<hubVars, final, assembling, runVars, kills>>

CleanupDone ==
    /\ pc = "cleanup"
    /\ \A i \in Chunks : chunk[i] = "absent"
    /\ Finish("ok")
    /\ UNCHANGED <<hubVars, fileVars, round, todo, writing, kills>>

(* The process is killed: files that are being written stay as they are,   *)
(* an assembly or a chunk possibly in part.                                *)
Kill ==
    /\ pc # "off"
    /\ kills < MaxKills
    /\ kills' = kills + 1
    /\ pc' = "off"
    /\ todo' = {} /\ writing' = {}
    /\ \E torn \in SUBSET writing :
          chunk' = [i \in Chunks |-> IF i \in torn THEN "short" ELSE chunk[i]]
    /\ assembling' \in IF pc = "assemble" THEN {"empty", "short"} ELSE {assembling}
    /\ UNCHANGED <<hubVars, final, round, result>>

FetchStep(i) == BeginWrite(i) \/ EndWrite(i) \/ BreakWrite(i) \/ GiveUp(i)

FileStep == CheckFinal \/ Plan \/ PassDone \/ Recheck \/ Assemble \/ Verify \/ Rename \/ CleanupDone

Next ==
    \/ HubMoves
    \/ Run
    \/ FileStep
    \/ \E i \in Chunks : FetchStep(i) \/ RemoveChunk(i)
    \/ Kill

Spec == Init /\ [][Next]_vars

(* The process runs on and is run again when it has ended; a range that is *)
(* asked for again and again is answered and written at last.              *)
Fairness ==
    /\ WF_vars(Run) /\ WF_vars(FileStep)
    /\ \A i \in Chunks : SF_vars(BeginWrite(i)) /\ SF_vars(EndWrite(i)) /\ WF_vars(RemoveChunk(i))

FairSpec == Spec /\ Fairness

----------------------------------------------------------------------------
(* "sha256-verifies against the manifest and only then renames into        *)
(* place": the file's own name gets verified content only, of the right    *)
(* size if there is no digest, however often the process is killed and run *)
(* again over what it left (chunkdl.py 9-13, 131-152).                     *)
NamedIsVerified ==
    [][final' # final => final' = "absent" \/ final' = "good" \/ (~sha /\ final' = "bad")]_vars

(* A file that is as the manifest describes it is never removed, truncated *)
(* or replaced by a later run (104-111, 152).                              *)
VerifiedIsKept == [][final = "good" => final' = "good"]_vars

(* Chunks that were banked are not fetched again: only the cleanup of a    *)
(* published file removes a complete chunk (116-120, 153-157).             *)
BankedIsKept ==
    [][\A i \in Chunks : chunk[i] \in Sized /\ chunk'[i] # chunk[i] =>
          final \in Sized /\ (sha => final = "good")]_vars

(* Exit status 0, on which HALF_DONE is stamped, means the file is there   *)
(* (104-111, 163, 200-205).                                                *)
OkMeansVerified == result = "ok" => final \in Sized /\ (sha => final = "good")

(* Run again after every failure and kill, the download ends well, if the  *)
(* hub serves what the manifest describes and no complete chunk is wrong:  *)
(* torn, short and missing chunks are all found and fetched (116-135).     *)
ResumesToDone ==
    (\A i \in Chunks : chunk[i] # "bad") /\ [](served = "good") => <>(result = "ok")

(* "so it resumes cleanly over already-banked shards" (12-13; README.md 85 *)
(* "a re-run resumes"): once the hub serves what the manifest describes,   *)
(* running it again and again ends well.                                   *)
RerunRecovers == <>[](served = "good") => <>(result = "ok")

=============================================================================
