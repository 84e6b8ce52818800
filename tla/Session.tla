------------------------------ MODULE Session ------------------------------
(***************************************************************************)
(* One invocation of the program, from the configuration to the files: the *)
(* configuration is validated, and for the one policy it names, or for all *)
(* when they are compared, a workload is generated from the seed, a        *)
(* simulation is run, and its results are written.                         *)
(*                                                                         *)
(* The simulation itself is one step here (module TimedEngine).  Each step *)
(* that touches the file system may fail.                                  *)
(***************************************************************************)
EXTENDS Workload

CONSTANTS
  Policies,   (* the list of policies in runComparison                     *)
  OutDir      (* the output directory of a single run                      *)

VARIABLES
  compare,   (* the flag --compare                                         *)
  stage,     (* where main is                                              *)
  todo,      (* the policies that are still to be run, the current first   *)
  disk,      (* for each directory, what its two files hold                *)
  reported,  (* the directories for which an export error was reported     *)
  first      (* the workload of the first policy, a set of one or none     *)

sessionVars == <<workloadVars, compare, stage, todo, disk, reported, first>>

SchedulerNames == {"fifo", "priority", "wfq", "srtf", "dynbatch"}

(* Config.Validate.                                                        *)
Valid(c) ==
  /\ c.numWorkers > 0 /\ c.memoryGB > 0 /\ c.maxBatchSize > 0
  /\ c.durationMs > 0
  /\ c.tiers # <<>>
  /\ c.kvPerTokenGB > 0
  /\ c.scheduler \in SchedulerNames

ASSUME SessionAssumption ==
  /\ Policies \in Seq(SchedulerNames) /\ Policies # <<>>
  /\ OutDir \notin SchedulerNames

Dirs == SchedulerNames \cup {OutDir}
DirOf(policy) == IF compare THEN policy ELSE OutDir
Current == DirOf(Head(todo))

(* A file is missing, left by an earlier invocation, cut off, or complete. *)
FileStates == {"none", "earlier", "partial", "new"}

SessionInit ==
  /\ WorkloadInit
  /\ compare \in BOOLEAN
  /\ stage = "load"
  /\ todo = IF compare THEN Policies ELSE <<cfg.scheduler>>
  /\ \E before \in {"none", "earlier"} :
       disk = [d \in Dirs |-> [summary |-> before, requests |-> before]]
  /\ reported = {}
  /\ first = {}

-----------------------------------------------------------------------------
(* main: log.Fatalf when the file cannot be read or parsed, or is refused. *)
Load ==
  /\ stage = "load"
  /\ \/ Valid(cfg) /\ stage' = "start"
     \/ stage' = "fatal"
  /\ UNCHANGED <<workloadVars, compare, todo, disk, reported, first>>

(* runSimulation.                                                          *)
StartSimulation ==
  /\ stage = "start"
  /\ Generate
  /\ stage' = "generate"
  /\ UNCHANGED <<compare, todo, disk, reported, first>>

GenerateWorkload ==
  /\ stage = "generate"
  /\ GeneratorTurn
  /\ UNCHANGED <<compare, stage, todo, disk, reported, first>>

GeneratedAnyway == phase \in {"done", "failed"}   \* the error is ignored

Generated == phase = "done"

Simulate ==
  /\ stage = "generate" /\ Generated
  /\ stage' = "mkdir"
  /\ first' = IF first = {} THEN {requests} ELSE first
  /\ UNCHANGED <<workloadVars, compare, todo, disk, reported>>

WorkloadError ==
  /\ stage = "generate" /\ phase = "failed"
  /\ stage' = "fatal"
  /\ UNCHANGED <<workloadVars, compare, todo, disk, reported, first>>

(* runComparison goes on with the next policy; runSingle has only one.     *)
SamePolicyAgain ==   \* a failed export is tried again
  stage' = "start" /\ UNCHANGED todo

NextPolicyAlways ==   \* the end of the list is not noticed
  todo' = Tail(todo) /\ stage' = "start"

NextPolicy ==
  /\ todo' = Tail(todo)
  /\ stage' = IF Tail(todo) = <<>> THEN "finished" ELSE "start"

(* An export error ends a single run and is only logged in a comparison.   *)
ExportError ==
  /\ reported' = reported \cup {Current}
  /\ IF compare THEN NextPolicy ELSE stage' = "fatal" /\ UNCHANGED todo

(* The steps of exportResults, in their order.                             *)
MakeDir ==
  /\ stage = "mkdir"
  /\ \/ stage' = "summary" /\ UNCHANGED <<todo, reported>>
     \/ ExportError
  /\ UNCHANGED <<workloadVars, compare, disk, first>>

(* ExportSummaryJSON: a summary that cannot be marshalled or a file that   *)
(* cannot be opened leaves the old file, a failed write leaves a part.     *)
SummaryIgnoringError ==   \* the rows are written in any case
  \/ disk' = [disk EXCEPT ![Current].summary = "new"]
  \/ UNCHANGED disk

SummaryWritten == disk' = [disk EXCEPT ![Current].summary = "new"]

ExportSummary ==
  /\ stage = "summary"
  /\ \/ SummaryWritten /\ stage' = "requests" /\ UNCHANGED <<todo, reported>>
     \/ /\ \/ UNCHANGED disk
           \/ disk' = [disk EXCEPT ![Current].summary = "partial"]
        /\ ExportError
  /\ UNCHANGED <<workloadVars, compare, first>>

(* ExportRequestCSV: an error of a row is returned, an error of the        *)
(* deferred Flush is not.                                                  *)
ExportRequests ==
  /\ stage = "requests"
  /\ \/ /\ \E state \in {"new", "partial"} :
             disk' = [disk EXCEPT ![Current].requests = state]
        /\ NextPolicy
        /\ UNCHANGED reported
     \/ /\ \/ UNCHANGED disk
           \/ disk' = [disk EXCEPT ![Current].requests = "partial"]
        /\ ExportError
  /\ UNCHANGED <<workloadVars, compare, first>>

SessionNext ==
  \/ Load
  \/ StartSimulation
  \/ GenerateWorkload
  \/ Simulate
  \/ WorkloadError
  \/ MakeDir
  \/ ExportSummary
  \/ ExportRequests

(* The program goes on while it can.                                       *)
SessionSpec ==
  SessionInit /\ [][SessionNext]_sessionVars /\ WF_sessionVars(SessionNext)

-----------------------------------------------------------------------------
SessionTypeOK ==
  /\ cfg \in Configs
  /\ rng.words \in Seq(Words) /\ rng.used \in 0..Len(rng.words)
  /\ phase \in {"idle", "running", "done", "failed"}
  /\ timeMs \in Nat /\ periodStart \in Nat /\ inBurst \in BOOLEAN
  /\ compare \in BOOLEAN
  /\ stage \in {"load", "start", "generate", "mkdir", "summary", "requests",
                "finished", "fatal"}
  /\ todo = <<>> <=> stage = "finished"
  /\ disk \in [Dirs -> [summary : FileStates, requests : FileStates]]
  /\ reported \subseteq Dirs
  /\ Cardinality(first) <= 1

(* All policies are compared on the same arrivals: a seed determines the   *)
(* number of requests, their times, their tokens and their prefixes.  Each *)
(* policy reads the file of a trace anew: its rows are the same as long as *)
(* nobody edits it.                                                        *)
ButTier(r) == [r EXCEPT !.tier = ""]

Unedited == cfg.type = "trace" => \A s, t \in cfg.traces : s = t

SameButTiers ==
  Unedited /\ phase = "done" => \A f \in first :
    /\ Len(f) = Len(requests)
    /\ \A i \in DOMAIN f : ButTier(f[i]) = ButTier(requests[i])

(* Unless an error is reported, a directory that has been exported to does *)
(* not hold a file of an earlier invocation beside one of this, and lacks  *)
(* none; the rows may have been cut off.                                   *)
Exported ==
  IF compare THEN {Policies[n] : n \in 1..(Len(Policies) - Len(todo))}
  ELSE IF todo = <<>> THEN {OutDir} ELSE {}

NoSilentMix ==
  \A d \in Exported \ reported :
    disk[d].summary = "new" /\ disk[d].requests \in {"new", "partial"}

(* A configuration that is refused leaves all results of earlier           *)
(* invocations alone, and a workload that is refused those of its policy   *)
(* and of the policies after it.  Only a trace, which is read anew for     *)
(* each policy, can be refused after results of this invocation have been  *)
(* exported: those of the policies before.                                 *)
Untouched(d) ==
  \A file \in {"summary", "requests"} : disk[d][file] \in {"none", "earlier"}

RefusedBeforeExport ==
  /\ ~Valid(cfg) => \A d \in Dirs : Untouched(d)
  /\ phase = "failed" =>
       \A d \in Dirs : Untouched(d) \/ (cfg.type = "trace" /\ d \in Exported)

(* An invocation ends: generation reaches the duration, and failed exports *)
(* are not tried again.                                                    *)
SessionEnds == <>(stage \in {"finished", "fatal"})

-----------------------------------------------------------------------------
(* What comments and documents say of the code and the code does not do.   *)

(* NewRNG creates a deterministic generator from a seed: a seed determines *)
(* the workload.                                                           *)
SeedDeterminesWorkload ==
  Unedited /\ phase = "done" => \A f \in first : f = requests
=============================================================================
