----------------------------- MODULE Publishing -----------------------------
(***************************************************************************)
(* The files of one site over several runs of mp4frag (main,               *)
(* mp4frag_main.cc), and the nginx module that serves them meanwhile.  The *)
(* tool overwrites its files in place, one after the other, and any step   *)
(* may be the last one: an exception ends it with what is on disk, like a  *)
(* crash.  The handler maps the index and reads what is in the file at the *)
(* moment it reads, for the mapping is shared.                             *)
(*                                                                         *)
(* A file is known by the run that wrote it.  The index has two parts, the *)
(* tables and the samples, that are written in this order.  Sources do not *)
(* change (mod_nginx/README forbids it).                                   *)
(***************************************************************************)
EXTENDS Integers, Sequences

CONSTANTS
  Jobs,          (* What a run can be asked for: see IsJob.             *)
  MaxFragment,   (* Fragments that files and requests are numbered to.  *)
  MaxRuns        (* Bound: runs of the tool.                            *)

Modes == {"index", "static", "manifest"}

IsJob(job) == job.mode \in Modes /\ job.fragments \in 1..MaxFragment

ASSUME JobsAssumption == \A job \in Jobs : IsJob(job)
ASSUME BoundsAssumption == MaxRuns \in Nat /\ MaxFragment \in Nat

VARIABLES
  testing,       (* The tool is built with TESTING: an input, never assigned.    *)
  runs,          (* The jobs of the runs so far.                                 *)
  tool,          (* What the last run is about to do, "idle" when it has ended.  *)
  fragment,      (* Its fragment file in hand.                                   *)
  index,         (* The index: whether it exists, and the runs of its parts.     *)
  files,         (* The static fragments: run (0: no file) and whether whole.    *)
  manifest,      (* The same of the manifest.                                    *)
  request        (* The request in hand, or the last one.                        *)

disk == <<index, files, manifest>>
vars == <<testing, runs, tool, fragment, disk, request>>

PARTS == 2
Me == Len(runs)
Job == runs[Me]

NoFile == [run |-> 0, whole |-> FALSE]
NoRequest == [pc |-> "none", fragment |-> 1, length |-> 0, read |-> <<>>, status |-> 0,
              calm |-> TRUE, promised |-> 0]
-----------------------------------------------------------------------------
Init ==
  /\ testing \in BOOLEAN
  /\ runs = <<>> /\ tool = "idle" /\ fragment = 1
  /\ index = [exists |-> FALSE, parts |-> <<>>]
  /\ files = [k \in 1..MaxFragment |-> NoFile]
  /\ manifest = NoFile
  /\ request = NoRequest

StartRun ==
  /\ tool = "idle" /\ Len(runs) < MaxRuns
  /\ \E job \in Jobs : runs' = Append(runs, job)
  /\ tool' = "parse" /\ fragment' = 1
  /\ UNCHANGED <<testing, disk, request>>

FirstStage_NoIndex(mode) == "manifest"

(* What is written first; --nofragments goes over --index. *)
FirstStage(mode) ==
  CASE mode = "index" -> "index" [] mode = "static" -> "file" [] mode = "manifest" -> "manifest"

ParseSources ==
  /\ tool = "parse"
  /\ tool' = FirstStage(Job.mode)
  /\ UNCHANGED <<testing, runs, fragment, disk, request>>

(* The request in hand, if any, sees the index change. *)
Disturb == request' = [request EXCEPT !.calm = FALSE]

OpenIndex_NoTruncate ==
  /\ tool = "index"
  /\ index' = [index EXCEPT !.exists = TRUE]
  /\ tool' = "write_index" /\ Disturb
  /\ UNCHANGED <<testing, runs, fragment, files, manifest>>

OpenIndex ==
  /\ tool = "index"
  /\ index' = [exists |-> TRUE, parts |-> <<>>]
  /\ tool' = "write_index" /\ Disturb
  /\ UNCHANGED <<testing, runs, fragment, files, manifest>>

(* serialize, one buffer after the other. *)
WriteIndex ==
  /\ tool = "write_index" /\ Len(index.parts) < PARTS
  /\ index' = [index EXCEPT !.parts = Append(@, Me)]
  /\ Disturb
  /\ UNCHANGED <<testing, runs, tool, fragment, files, manifest>>

CloseIndex_Unchecked ==
  /\ tool = "write_index"
  /\ tool' = IF testing THEN "test" ELSE "manifest"
  /\ UNCHANGED <<testing, runs, fragment, disk, request>>

(* What could not be written is found when the file is closed. *)
CloseIndex ==
  /\ tool = "write_index" /\ Len(index.parts) = PARTS
  /\ tool' = IF testing THEN "test" ELSE "manifest"
  /\ UNCHANGED <<testing, runs, fragment, disk, request>>

(* A TESTING build reads the index back, from the first fragment on; but    *)
(* get_fragment knows no version above 2, and serialize writes 3.           *)
TestIndex ==
  /\ tool = "test"
  /\ files' = [files EXCEPT ![1] = [run |-> Me, whole |-> FALSE]]
  /\ tool' = "idle"
  /\ UNCHANGED <<testing, runs, fragment, index, manifest, request>>

OpenFragment ==
  /\ tool = "file" /\ fragment <= Job.fragments
  /\ files' = [files EXCEPT ![fragment] = [run |-> Me, whole |-> FALSE]]
  /\ tool' = "write_file"
  /\ UNCHANGED <<testing, runs, fragment, index, manifest, request>>

CloseFragment ==
  /\ tool = "write_file"
  /\ files' = [files EXCEPT ![fragment].whole = TRUE]
  /\ fragment' = fragment + 1
  /\ tool' = "file"
  /\ UNCHANGED <<testing, runs, index, manifest, request>>

EndFragments ==
  /\ tool = "file" /\ fragment > Job.fragments
  /\ tool' = "manifest"
  /\ UNCHANGED <<testing, runs, fragment, disk, request>>

OpenManifest ==
  /\ tool = "manifest"
  /\ manifest' = [run |-> Me, whole |-> FALSE]
  /\ tool' = "write_manifest"
  /\ UNCHANGED <<testing, runs, fragment, index, files, request>>

CloseManifest ==
  /\ tool = "write_manifest"
  /\ manifest' = [manifest EXCEPT !.whole = TRUE]
  /\ tool' = "idle"
  /\ UNCHANGED <<testing, runs, fragment, index, files, request>>

(* A source that cannot be mapped, a file that cannot be opened, written or *)
(* closed, an odd fragment, or a crash: nothing is undone.                  *)
Stop ==
  /\ tool # "idle"
  /\ tool' = "idle"
  /\ UNCHANGED <<testing, runs, fragment, disk, request>>

Tool ==
  \/ StartRun \/ ParseSources \/ OpenIndex \/ WriteIndex \/ CloseIndex \/ TestIndex
  \/ OpenFragment \/ CloseFragment \/ EndFragments \/ OpenManifest \/ CloseManifest \/ Stop
-----------------------------------------------------------------------------
(* The run whose manifest lists fragment k, with an index: a player asks    *)
(* for what a manifest lists.  No later run is about to write an index.     *)
Promised(k) ==
  LET r == manifest.run IN
  IF /\ manifest.whole /\ runs[r].mode = "index" /\ k <= runs[r].fragments
     /\ \A s \in (r + 1)..Me : runs[s].mode # "index"
  THEN r ELSE 0

(* make_mapping of the index: its length is looked at once. *)
MapIndex ==
  /\ request.pc \in {"none", "answered"}
  /\ \E k \in 1..MaxFragment :
       LET r == [NoRequest EXCEPT !.fragment = k, !.promised = Promised(k)] IN
       request' = CASE ~index.exists -> [r EXCEPT !.pc = "answered", !.status = 404]
                    [] index.exists /\ index.parts = <<>> ->
                         [r EXCEPT !.pc = "answered", !.status = 500]
                    [] OTHER -> [r EXCEPT !.pc = "read", !.length = Len(index.parts)]
  /\ UNCHANGED <<testing, runs, tool, fragment, disk>>

(* CHECKMAP: the part is beyond the mapping. *)
RefuseShort ==
  /\ request.pc = "read" /\ Len(request.read) < PARTS
  /\ Len(request.read) + 1 > request.length
  /\ request' = [request EXCEPT !.pc = "answered", !.status = 500]
  /\ UNCHANGED <<testing, runs, tool, fragment, disk>>

(* The part as it is now.  In a file that was cut meanwhile, the page it is *)
(* in reads as zeros (run 0), or is gone and the worker dies of the read.   *)
ReadPart ==
  LET i == Len(request.read) + 1 IN
  /\ request.pc = "read" /\ i <= PARTS /\ i <= request.length
  /\ \/ /\ i <= Len(index.parts)
        /\ request' = [request EXCEPT !.read = Append(@, index.parts[i])]
     \/ /\ i > Len(index.parts)
        /\ request' \in {[request EXCEPT !.read = Append(@, 0)],
                         [request EXCEPT !.pc = "answered", !.status = 0]}
  /\ UNCHANGED <<testing, runs, tool, fragment, disk>>

(* Parts of one run are an index: the fragment is in it or not.  Parts of   *)
(* several may pass for one.  Fragments have samples: the manifest of a     *)
(* movie with an empty one is never written.                                *)
Respond ==
  LET r == request.read[1] IN
  /\ request.pc = "read" /\ Len(request.read) = PARTS
  /\ \E status \in {200, 404, 500} :
       /\ request.read = <<r, r>> /\ r # 0 =>
            status = IF request.fragment <= runs[r].fragments THEN 200 ELSE 404
       /\ request' = [request EXCEPT !.pc = "answered", !.status = status]
  /\ UNCHANGED <<testing, runs, tool, fragment, disk>>

Handler == MapIndex \/ RefuseShort \/ ReadPart \/ Respond

Next == Tool \/ Handler

Spec == Init /\ [][Next]_vars
-----------------------------------------------------------------------------
IndexRun(r) == runs[r].mode = "index"
Later(r) == (r + 1)..Me

(* A manifest is only whole when what it lists is: the index is that of its *)
(* run, or a later run has begun to replace it; the same of each static     *)
(* fragment.  A build with TESTING, which refuses its own index, never      *)
(* gets to a manifest for one.                                              *)
ManifestLast ==
  manifest.whole =>
    LET r == manifest.run IN
    /\ IndexRun(r) =>
         /\ ~testing
         /\ \/ index.parts = <<r, r>>
            \/ \E s \in Later(r) :
                 IndexRun(s) /\ index.exists /\ \A i \in 1..Len(index.parts) : index.parts[i] = s
    /\ runs[r].mode = "static" =>
         \A k \in 1..runs[r].fragments :
           files[k] = [run |-> r, whole |-> TRUE] \/ files[k].run \in Later(r)

(* Unless the index is written while a request is served, its answer is     *)
(* never made of two indexes, whatever runs failed before: the file is cut  *)
(* before it is written, so that what is left of a failed run is a prefix.  *)
NotMixed ==
  request.pc = "answered" /\ request.calm /\ request.status \in {200, 404} /\ request.length > 0 =>
    \E r \in 1..Me :
      /\ request.read = <<r, r>> /\ IndexRun(r)
      /\ request.status = 200 <=> request.fragment <= runs[r].fragments

(* A fragment that a manifest lists is served, from the index of that       *)
(* manifest, until the tool is run for another index: failed runs of other  *)
(* modes leave the site as it is.                                           *)
ListedServed ==
  request.pc = "answered" /\ request.calm /\ request.promised # 0 =>
    request.status = 200 /\ request.read = <<request.promised, request.promised>>
=============================================================================
