-------------------------- MODULE PublishingProofs --------------------------
(***************************************************************************)
(* Proofs about Publishing, for any jobs and any number of runs.  The      *)
(* inductive invariant says what the run in hand has already written at    *)
(* each stage, that the parts in the index are a prefix of one run's, and  *)
(* that an undisturbed request has read a prefix of them.                  *)
(***************************************************************************)
EXTENDS Publishing, TLAPS, SequenceTheorems

Stages == {"idle", "parse", "index", "write_index", "test", "file", "write_file",
           "manifest", "write_manifest"}
FileState == [run : Nat, whole : BOOLEAN]
IndexState == [exists : BOOLEAN, parts : Seq(Nat)]
Request == [pc : {"none", "read", "answered"}, fragment : Nat, length : Nat,
            read : Seq(Nat), status : {0, 200, 404, 500}, calm : BOOLEAN, promised : Nat]

(* The type invariant. *)
TypeOK ==
  /\ testing \in BOOLEAN
  /\ runs \in Seq(Jobs)
  /\ tool \in Stages /\ fragment \in Nat \ {0}
  /\ index \in IndexState
  /\ files \in [1..MaxFragment -> FileState]
  /\ manifest \in FileState
  /\ request \in Request

(* Files and the manifest are of runs that were started. *)
RunsKnown ==
  /\ \A k \in 1..MaxFragment : files[k].run <= Me
  /\ manifest.run <= Me /\ (manifest.whole => manifest.run # 0)
  /\ tool \notin {"idle", "write_manifest"} => manifest.run < Me

(* What the manifest of run r lists is on disk. *)
Listed(r) ==
  /\ IndexRun(r) => ~testing /\ index.parts = <<r, r>>
  /\ runs[r].mode = "static" =>
       \A k \in 1..runs[r].fragments : files[k] = [run |-> r, whole |-> TRUE]

(* What the run in hand has done when it comes to each stage. *)
StageReached ==
  /\ tool # "idle" => Me > 0
  /\ tool = "parse" => fragment = 1
  /\ tool \in {"index", "write_index", "test"} => IndexRun(Me)
  /\ tool = "test" => testing
  /\ tool = "write_index" =>
       index.exists /\ \A i \in 1..Len(index.parts) : index.parts[i] = Me
  /\ tool \in {"file", "write_file"} =>
       /\ Job.mode = "static"
       /\ \A k \in 1..Job.fragments : k < fragment => files[k] = [run |-> Me, whole |-> TRUE]
  /\ tool = "write_file" => fragment <= Job.fragments /\ files[fragment].run = Me
  /\ tool \in {"manifest", "write_manifest"} => Listed(Me)
  /\ tool = "write_manifest" => manifest = [run |-> Me, whole |-> FALSE]

(* The index is a prefix of what one run writes. *)
IndexOfOneRun ==
  /\ Len(index.parts) <= PARTS
  /\ index.parts # <<>> => index.exists
  /\ \A i \in 1..Len(index.parts) :
       index.parts[i] = index.parts[1] /\ index.parts[i] \in 1..Me /\ IndexRun(index.parts[i])

(* A request that saw no change has read a prefix of the index. *)
CalmReader ==
  request.pc = "read" /\ request.calm =>
    /\ request.length = Len(index.parts) /\ request.length > 0
    /\ Len(request.read) <= request.length
    /\ \A i \in 1..Len(request.read) : request.read[i] = index.parts[i]
    /\ request.promised # 0 =>
         /\ request.promised \in 1..Me
         /\ request.fragment <= runs[request.promised].fragments
         /\ index.parts = <<request.promised, request.promised>>

IInv ==
  /\ TypeOK
  /\ RunsKnown
  /\ StageReached
  /\ IndexOfOneRun
  /\ ManifestLast
  /\ CalmReader
  /\ NotMixed
  /\ ListedServed
-----------------------------------------------------------------------------
(* A run that was started has a mode and a number of fragments. *)
LEMMA JobFacts ==
  ASSUME TypeOK, NEW r \in 1..Me
  PROVE  /\ runs[r] \in Jobs /\ runs[r].mode \in Modes
         /\ runs[r].fragments \in 1..MaxFragment
<1>1. runs[r] \in Jobs
  BY DEF TypeOK, Me
<1> QED
  BY <1>1, JobsAssumption DEF IsJob

(* A new run leaves the earlier ones as they are. *)
LEMMA StartShape ==
  ASSUME TypeOK, StartRun
  PROVE  /\ Me \in Nat /\ Me' = Me + 1
         /\ runs' \in Seq(Jobs)
         /\ \A r \in 1..Me : runs'[r] = runs[r]
<1> PICK job \in Jobs : runs' = Append(runs, job)
  BY DEF StartRun
<1> QED
  BY AppendProperties DEF TypeOK, Me

(* The new run's part is added to the index. *)
LEMMA WriteShape ==
  ASSUME TypeOK, WriteIndex
  PROVE  /\ Me \in Nat /\ index' \in IndexState /\ index'.exists = index.exists
         /\ Len(index'.parts) = Len(index.parts) + 1 /\ Len(index.parts) \in Nat
         /\ \A i \in 1..Len(index.parts) : index'.parts[i] = index.parts[i]
         /\ index'.parts[Len(index.parts) + 1] = Me
<1>1. index \in IndexState /\ index.parts \in Seq(Nat) /\ Me \in Nat
  BY LenProperties DEF TypeOK, IndexState, Me
<1>2. index' = [index EXCEPT !.parts = Append(index.parts, Me)]
  BY DEF WriteIndex
<1>3. index'.exists = index.exists /\ index'.parts = Append(index.parts, Me)
  BY <1>1, <1>2 DEF IndexState
<1>4. /\ Append(index.parts, Me) \in Seq(Nat)
      /\ Len(Append(index.parts, Me)) = Len(index.parts) + 1 /\ Len(index.parts) \in Nat
      /\ \A i \in 1..Len(index.parts) : Append(index.parts, Me)[i] = index.parts[i]
      /\ Append(index.parts, Me)[Len(index.parts) + 1] = Me
  BY <1>1, AppendProperties, LenProperties
<1>5. index' \in IndexState
  BY <1>1, <1>2, <1>4 DEF IndexState
<1> QED
  BY <1>1, <1>3, <1>4, <1>5

(* What a request in hand becomes when a part is read. *)
LEMMA ReadShape ==
  ASSUME TypeOK, ReadPart
  PROVE  /\ request' \in Request
         /\ request'.fragment = request.fragment /\ request'.length = request.length
         /\ request'.calm = request.calm /\ request'.promised = request.promised
         /\ \/ /\ request'.pc = "read"
               /\ Len(request'.read) = Len(request.read) + 1
               /\ \A i \in 1..Len(request.read) : request'.read[i] = request.read[i]
               /\ Len(request.read) + 1 <= Len(index.parts) =>
                    request'.read[Len(request.read) + 1] = index.parts[Len(request.read) + 1]
            \/ request'.pc = "answered" /\ request'.status = 0
<1> DEFINE i == Len(request.read) + 1
<1>1. /\ request \in Request /\ request.read \in Seq(Nat) /\ i \in Nat \ {0}
      /\ index.parts \in Seq(Nat)
  BY LenProperties DEF TypeOK, Request, IndexState
<1>2. CASE request' = [request EXCEPT !.pc = "answered", !.status = 0]
  BY <1>1, <1>2, ZenonT(60) DEF Request
<1>3. ASSUME NEW part \in Nat, request' = [request EXCEPT !.read = Append(@, part)],
             i <= Len(index.parts) => part = index.parts[i], request.pc = "read"
      PROVE  /\ request' \in Request /\ request'.pc = "read"
             /\ request'.fragment = request.fragment /\ request'.length = request.length
             /\ request'.calm = request.calm /\ request'.promised = request.promised
             /\ Len(request'.read) = i
             /\ \A j \in 1..Len(request.read) : request'.read[j] = request.read[j]
             /\ i <= Len(index.parts) => request'.read[i] = index.parts[i]
  <2>1. request'.read = Append(request.read, part)
    BY <1>1, <1>3 DEF Request
  <2>2. /\ Append(request.read, part) \in Seq(Nat)
        /\ Len(Append(request.read, part)) = i
        /\ \A j \in 1..Len(request.read) : Append(request.read, part)[j] = request.read[j]
        /\ Append(request.read, part)[i] = part
    BY <1>1, <1>3, AppendProperties
  <2>3. /\ request'.pc = "read" /\ request'.fragment = request.fragment
        /\ request'.length = request.length /\ request'.calm = request.calm
        /\ request'.promised = request.promised
    BY <1>1, <1>3 DEF Request
  <2>4. request' \in Request
    BY <1>1, <1>3, <2>2, ZenonT(60) DEF Request
  <2> QED BY <1>1, <1>3, <2>1, <2>2, <2>3, <2>4
<1>4. CASE i <= Len(index.parts) /\ request' = [request EXCEPT !.read = Append(@, index.parts[i])]
  <2>1. index.parts[i] \in Nat
    BY <1>1, <1>4
  <2> QED BY <1>3, <1>4, <2>1 DEF ReadPart
<1>5. CASE i > Len(index.parts) /\ request' = [request EXCEPT !.read = Append(@, 0)]
  <2>1. ~(i <= Len(index.parts))
    BY <1>1, <1>5, LenProperties
  <2> QED BY <1>3, <1>5, <2>1 DEF ReadPart
<1> QED
  BY <1>2, <1>4, <1>5 DEF ReadPart
Answered(r, status) == [r EXCEPT !.pc = "answered", !.status = status]

(* A file that is closed is whole, and of the same run. *)
LEMMA CloseShape ==
  ASSUME NEW f \in FileState
  PROVE  [f EXCEPT !.whole = TRUE] = [run |-> f.run, whole |-> TRUE]
<1> DEFINE g == [f EXCEPT !.whole = TRUE]
<1>1. g \in FileState /\ g.run = f.run /\ g.whole = TRUE
  BY DEF FileState
<1> HIDE DEF g
<1>2. g = [run |-> f.run, whole |-> TRUE]
  BY <1>1 DEF FileState
<1> QED
  BY <1>2 DEF g

(* Answering a request changes nothing else of it. *)
LEMMA AnswerShape ==
  ASSUME NEW r \in Request, NEW status \in {0, 200, 404, 500}
  PROVE  LET q == Answered(r, status) IN
         /\ q \in Request /\ q.pc = "answered" /\ q.status = status
         /\ q.fragment = r.fragment /\ q.length = r.length /\ q.read = r.read
         /\ q.calm = r.calm /\ q.promised = r.promised
<1> DEFINE p == [r EXCEPT !.pc = "answered"]
           q == [p EXCEPT !.status = status]
<1>1. /\ p \in Request /\ p.pc = "answered"
      /\ p.fragment = r.fragment /\ p.length = r.length /\ p.read = r.read
      /\ p.calm = r.calm /\ p.promised = r.promised
  BY SMTT(30) DEF Request
<1> HIDE DEF p
<1>2. /\ q \in Request /\ q.pc = p.pc /\ q.status = status
      /\ q.fragment = p.fragment /\ q.length = p.length /\ q.read = p.read
      /\ q.calm = p.calm /\ q.promised = p.promised
  BY <1>1, SMTT(30) DEF Request
<1> HIDE DEF q
<1>3. Answered(r, status) = q
  BY DEF p, q, Request, Answered
<1> QED
  BY <1>1, <1>2, <1>3

(* Respond answers, whatever was read. *)
LEMMA RespondAnswers ==
  Respond => \E status \in {200, 404, 500} : request' = Answered(request, status)
BY ZenonT(60) DEF Respond, Answered

(* So does RefuseShort. *)
LEMMA RefuseAnswers == RefuseShort => request' = Answered(request, 500)
BY SMTT(30) DEF RefuseShort, Answered

(* A new request is answered at once, or finds the index as long as it is. *)
LEMMA MapShape ==
  ASSUME TypeOK, MapIndex
  PROVE  /\ request' \in Request /\ request'.calm /\ request'.read = <<>>
         /\ request'.promised = Promised(request'.fragment)
         /\ \/ /\ request'.pc = "answered" /\ request'.length = 0
               /\ ~index.exists \/ index.parts = <<>>
            \/ /\ request'.pc = "read" /\ request'.length = Len(index.parts)
               /\ index.parts # <<>>
<1> DEFINE asked(k) == [NoRequest EXCEPT !.fragment = k, !.promised = Promised(k)]
<1>1. PICK k \in 1..MaxFragment :
        request' = CASE ~index.exists -> [asked(k) EXCEPT !.pc = "answered", !.status = 404]
                     [] index.exists /\ index.parts = <<>> ->
                          [asked(k) EXCEPT !.pc = "answered", !.status = 500]
                     [] OTHER -> [asked(k) EXCEPT !.pc = "read", !.length = Len(index.parts)]
  BY DEF MapIndex
<1>2. Promised(k) \in Nat
  BY DEF TypeOK, Promised, FileState
<1>3. index.exists \in BOOLEAN /\ Len(index.parts) \in Nat
  BY LenProperties DEF TypeOK, IndexState
<1>4. /\ asked(k) \in Request /\ asked(k).calm /\ asked(k).read = <<>> /\ asked(k).length = 0
      /\ asked(k).fragment = k /\ asked(k).promised = Promised(k)
  <2> DEFINE p == [NoRequest EXCEPT !.fragment = k]
             q == [p EXCEPT !.promised = Promised(k)]
  <2>1. NoRequest \in Request /\ k \in Nat
    BY BoundsAssumption DEF NoRequest, Request
  <2>2. p \in Request
    BY <2>1, SMTT(60) DEF Request
  <2>3. p.calm /\ p.read = <<>> /\ p.length = 0 /\ p.fragment = k
    BY DEF NoRequest
  <2>4. asked(k) = q
    BY DEF NoRequest
  <2> HIDE DEF p
  <2>5. /\ q \in Request /\ q.calm /\ q.read = <<>> /\ q.length = 0 /\ q.fragment = k
        /\ q.promised = Promised(k)
    BY <1>2, <2>2, <2>3 DEF Request
  <2> QED BY <2>4, <2>5
<1> HIDE DEF asked
<1>5. CASE ~index.exists \/ index.parts = <<>>
  <2>1. PICK status \in {404, 500} :
          request' = Answered(asked(k), status)
    BY <1>1, <1>3, <1>5 DEF Answered
  <2>2. status \in {0, 200, 404, 500}
    OBVIOUS
  <2>3. /\ request' \in Request /\ request'.pc = "answered" /\ request'.fragment = k
        /\ request'.length = 0 /\ request'.read = <<>> /\ request'.calm
        /\ request'.promised = Promised(k)
    BY <1>4, <2>1, <2>2, AnswerShape
  <2> QED BY <1>5, <2>3
<1>6. CASE index.exists /\ index.parts # <<>>
  <2> DEFINE p == [asked(k) EXCEPT !.pc = "read"]
             q == [p EXCEPT !.length = Len(index.parts)]
  <2>1. request' = q
    BY <1>1, <1>4, <1>6 DEF Request
  <2>2. /\ p \in Request /\ p.pc = "read" /\ p.calm /\ p.read = <<>>
        /\ p.fragment = k /\ p.promised = Promised(k)
    BY <1>4 DEF Request
  <2> HIDE DEF p
  <2>3. /\ q \in Request /\ q.pc = "read" /\ q.calm /\ q.read = <<>>
        /\ q.fragment = k /\ q.promised = Promised(k) /\ q.length = Len(index.parts)
    BY <1>3, <2>2 DEF Request
  <2> QED BY <1>6, <2>1, <2>3
<1> QED
  BY <1>3, <1>5, <1>6
-----------------------------------------------------------------------------
(* Every step keeps the types. *)
LEMMA StepType ==
  ASSUME TypeOK, StageReached, [Next]_vars
  PROVE  TypeOK'
<1> USE DEF disk
<1>0. /\ testing \in BOOLEAN /\ runs \in Seq(Jobs) /\ tool \in Stages
      /\ fragment \in Nat \ {0} /\ index \in IndexState
      /\ files \in [1..MaxFragment -> FileState] /\ manifest \in FileState /\ request \in Request
  BY DEF TypeOK
<1>a. Me \in Nat
  BY <1>0, LenProperties DEF Me
<1>b. \A k \in 1..MaxFragment : files[k] \in FileState
  BY <1>0
<1>c. \A w \in BOOLEAN : [run |-> Me, whole |-> w] \in FileState
  BY <1>a DEF FileState
<1>d. [request EXCEPT !.calm = FALSE] \in Request
  BY <1>0, ZenonT(60) DEF Request
<1>1. CASE StartRun
  BY <1>0, <1>1, StartShape DEF StartRun, TypeOK, Stages
<1>2. CASE ParseSources
  <2>1. FirstStage(Job.mode) \in Stages
    <3>1. Me \in 1..Me
      BY <1>2, <1>a DEF ParseSources, StageReached
    <3>2. Job.mode \in Modes
      BY <3>1, JobFacts DEF Job
    <3> QED BY <3>2 DEF FirstStage, Stages, Modes
  <2> QED BY <1>0, <1>2, <2>1 DEF ParseSources, TypeOK
<1>3. CASE OpenIndex
  <2>1. [exists |-> TRUE, parts |-> <<>>] \in IndexState
    BY DEF IndexState
  <2> QED BY <1>0, <1>3, <1>d, <2>1 DEF OpenIndex, Disturb, TypeOK, Stages
<1>4. CASE WriteIndex
  BY <1>0, <1>4, <1>d, WriteShape DEF WriteIndex, Disturb, TypeOK
<1>5. CASE CloseIndex
  BY <1>0, <1>5 DEF CloseIndex, TypeOK, Stages
<1>6. CASE TestIndex
  BY <1>0, <1>6, <1>c DEF TestIndex, TypeOK, Stages
<1>7. CASE OpenFragment
  BY <1>0, <1>7, <1>c DEF OpenFragment, TypeOK, Stages
<1>8. CASE CloseFragment
  <2>1. files' \in [1..MaxFragment -> FileState]
    <3>1. files' = [files EXCEPT ![fragment] = [files[fragment] EXCEPT !.whole = TRUE]]
      BY <1>8 DEF CloseFragment
    <3>2. fragment \in 1..MaxFragment => [files[fragment] EXCEPT !.whole = TRUE] \in FileState
      BY <1>b DEF FileState
    <3> QED BY <1>0, <3>1, <3>2
  <2>2. fragment' = fragment + 1
    BY <1>8 DEF CloseFragment
  <2>3. fragment' \in Nat \ {0}
    BY <1>0, <2>2
  <2> QED BY <1>0, <1>8, <2>1, <2>3 DEF CloseFragment, TypeOK, Stages
<1>9. CASE EndFragments
  BY <1>0, <1>9 DEF EndFragments, TypeOK, Stages
<1>10. CASE OpenManifest
  BY <1>0, <1>10, <1>c DEF OpenManifest, TypeOK, Stages
<1>11. CASE CloseManifest
  BY <1>0, <1>11 DEF CloseManifest, FileState, TypeOK, Stages
<1>12. CASE Stop
  BY <1>0, <1>12 DEF Stop, TypeOK, Stages
<1>13. CASE MapIndex
  BY <1>0, <1>13, MapShape DEF MapIndex, TypeOK
<1>14. CASE RefuseShort
  <2>1. request' \in Request
    BY <1>0, <1>14, RefuseAnswers, AnswerShape
  <2> QED BY <1>0, <1>14, <2>1 DEF RefuseShort, TypeOK
<1>15. CASE ReadPart
  BY <1>0, <1>15, ReadShape DEF ReadPart, TypeOK
<1>16. CASE Respond
  <2>1. PICK status \in {200, 404, 500} :
          request' = Answered(request, status)
    BY <1>16, RespondAnswers
  <2>2. status \in {0, 200, 404, 500}
    OBVIOUS
  <2>3. request' \in Request
    BY <1>0, <2>1, <2>2, AnswerShape
  <2> QED BY <1>0, <1>16, <2>3 DEF Respond, TypeOK
<1>17. CASE UNCHANGED vars
  BY <1>0, <1>17 DEF vars, TypeOK
<1> QED
  BY <1>1, <1>2, <1>3, <1>4, <1>5, <1>6, <1>7, <1>8, <1>9, <1>10, <1>11, <1>12, <1>13,
     <1>14, <1>15, <1>16, <1>17 DEF Next, Tool, Handler

(* The tool's actions but StartRun leave the runs alone, and the handler's *)
(* leave everything alone but the request.                                  *)
LEMMA Untouched ==
  /\ Tool => StartRun \/ (runs' = runs /\ Me' = Me)
  /\ Tool => UNCHANGED testing
  /\ Handler => UNCHANGED <<testing, runs, tool, fragment, index, files, manifest, Me>>
BY DEF Tool, Handler, ParseSources, OpenIndex, WriteIndex, CloseIndex, TestIndex, OpenFragment,
       CloseFragment, EndFragments, OpenManifest, CloseManifest, Stop, StartRun, MapIndex,
       RefuseShort, ReadPart, Respond, Me, disk

(* The files on disk are of known runs. *)
LEMMA StepRuns ==
  ASSUME IInv, Next
  PROVE  RunsKnown'
<1> USE DEF disk
<1>0. TypeOK /\ RunsKnown
  BY DEF IInv
<1>1. Me \in Nat
  BY LenProperties, <1>0 DEF TypeOK, Me
<1>2. manifest \in FileState /\ files \in [1..MaxFragment -> FileState]
  BY <1>0 DEF TypeOK
<1>3. manifest.run \in Nat /\ \A k \in 1..MaxFragment : files[k].run \in Nat
  BY <1>2 DEF FileState
<1>4. /\ \A k \in 1..MaxFragment : files[k].run <= Me
      /\ manifest.run <= Me
  BY <1>0 DEF RunsKnown
<1>5. manifest.whole => manifest.run # 0
  BY <1>0 DEF RunsKnown
<1>6. tool \notin {"idle", "write_manifest"} => manifest.run < Me
  BY <1>0 DEF RunsKnown
<1>7. CASE StartRun
  <2>1. Me' = Me + 1 /\ UNCHANGED <<files, manifest>>
    BY <1>0, <1>7, StartShape DEF StartRun
  <2>2. \A k \in 1..MaxFragment : files'[k].run <= Me'
    BY <1>1, <1>3, <1>4, <2>1
  <2>3. manifest'.run < Me' /\ manifest'.run <= Me'
    BY <1>1, <1>3, <1>4, <2>1
  <2>4. manifest'.whole => manifest'.run # 0
    BY <1>5, <2>1
  <2> QED BY <2>2, <2>3, <2>4 DEF RunsKnown
<1>8. CASE ParseSources \/ OpenIndex \/ WriteIndex \/ CloseIndex \/ EndFragments
  <2>1. Me' = Me /\ UNCHANGED <<files, manifest>>
    BY <1>8 DEF ParseSources, OpenIndex, WriteIndex, CloseIndex, EndFragments, Me
  <2>2. tool \notin {"idle", "write_manifest"}
    BY <1>8 DEF ParseSources, OpenIndex, WriteIndex, CloseIndex, EndFragments
  <2> QED BY <1>4, <1>5, <1>6, <2>1, <2>2 DEF RunsKnown
<1>9. CASE TestIndex \/ OpenFragment
  <2>1. PICK j : files' = [files EXCEPT ![j] = [run |-> Me, whole |-> FALSE]]
    BY <1>9 DEF TestIndex, OpenFragment
  <2>2. \A k \in 1..MaxFragment : files'[k].run <= Me
    BY <1>1, <1>2, <1>4, <2>1
  <2>3. Me' = Me /\ manifest' = manifest
    BY <1>9 DEF TestIndex, OpenFragment, Me
  <2>4. tool \notin {"idle", "write_manifest"}
    BY <1>9 DEF TestIndex, OpenFragment
  <2> QED BY <1>4, <1>5, <1>6, <2>2, <2>3, <2>4 DEF RunsKnown
<1>10. CASE CloseFragment
  <2>1. \A k \in 1..MaxFragment : files'[k].run = files[k].run
    BY <1>2, <1>10 DEF CloseFragment, FileState
  <2>2. Me' = Me /\ manifest' = manifest /\ tool = "write_file"
    BY <1>10 DEF CloseFragment, Me
  <2> QED BY <1>4, <1>5, <1>6, <2>1, <2>2 DEF RunsKnown
<1>11. CASE OpenManifest
  <2>1. manifest'.run = Me /\ tool' = "write_manifest" /\ Me' = Me /\ files' = files
    BY <1>11 DEF OpenManifest, Me
  <2>2. manifest'.whole => manifest'.run # 0
    BY <1>11 DEF OpenManifest
  <2>3. tool' \notin {"idle", "write_manifest"} => manifest'.run < Me'
    BY <2>1
  <2>4. manifest'.run <= Me' /\ \A k \in 1..MaxFragment : files'[k].run <= Me'
    BY <1>1, <1>4, <2>1
  <2> QED BY <2>2, <2>3, <2>4 DEF RunsKnown
<1>12. CASE CloseManifest
  <2>1. manifest = [run |-> Me, whole |-> FALSE] /\ Me > 0
    BY <1>12 DEF CloseManifest, IInv, StageReached
  <2>2. /\ manifest'.run = Me /\ tool' = "idle" /\ files' = files /\ Me' = Me
    BY <1>12, <2>1 DEF CloseManifest, Me
  <2> QED BY <1>1, <1>4, <2>1, <2>2 DEF RunsKnown
<1>13. CASE Stop
  <2>1. tool' = "idle" /\ UNCHANGED <<files, manifest, Me>>
    BY <1>13 DEF Stop, Me
  <2> QED BY <1>4, <1>5, <2>1 DEF RunsKnown
<1>14. CASE Handler
  <2>1. UNCHANGED <<tool, files, manifest, Me>>
    BY <1>14, Untouched
  <2> QED BY <1>0, <2>1 DEF RunsKnown
<1> QED
  BY <1>7, <1>8, <1>9, <1>10, <1>11, <1>12, <1>13, <1>14 DEF Next, Tool

(* What was listed by a known run stays listed while the files are the same. *)
LEMMA ListedStays ==
  ASSUME NEW r, Listed(r), runs'[r] = runs[r], UNCHANGED <<testing, index, files>>
  PROVE  Listed(r)'
BY DEF Listed, IndexRun

(* What the run in hand has done is not undone. *)
LEMMA StepStage ==
  ASSUME IInv, Next
  PROVE  StageReached'
<1> USE DEF disk
<1>0. TypeOK /\ StageReached /\ IndexOfOneRun
  BY DEF IInv
<1>1. Me \in Nat /\ fragment \in Nat \ {0} /\ index \in IndexState
  BY LenProperties, <1>0 DEF TypeOK, Me
<1>2. files \in [1..MaxFragment -> FileState]
  BY <1>0 DEF TypeOK
<1>3. tool # "idle" => Me \in 1..Me /\ Job.mode \in Modes /\ Job.fragments \in 1..MaxFragment
  <2>1. tool # "idle" => Me \in 1..Me
    BY <1>0, <1>1 DEF StageReached
  <2> QED BY <1>0, <2>1, JobFacts DEF Job
<1>4. CASE StartRun
  <2>1. tool' = "parse" /\ Me' > 0
    BY <1>0, <1>4, StartShape DEF StartRun
  <2>2. fragment' = 1
    BY <1>4 DEF StartRun
  <2> QED BY <2>1, <2>2 DEF StageReached
<1>5. CASE ParseSources
  <2>1. /\ tool # "idle" /\ tool' = FirstStage(Job.mode) /\ Me' = Me /\ runs' = runs
        /\ fragment' = fragment
    BY <1>5 DEF ParseSources, Me
  <2>2. CASE Job.mode = "index"
    <3>1. tool' = "index"
      BY <2>1, <2>2 DEF FirstStage
    <3> QED BY <1>0, <2>1, <2>2, <3>1 DEF StageReached, IndexRun, Job
  <2>3. CASE Job.mode = "static"
    <3>1. tool' = "file"
      BY <2>1, <2>3 DEF FirstStage
    <3>2. fragment' = 1
      BY <1>0, <1>5, <2>1 DEF ParseSources, StageReached
    <3>3. \A k \in 1..Job.fragments : ~(k < 1)
      BY <1>3, <2>1
    <3> QED BY <1>0, <2>1, <2>3, <3>1, <3>2, <3>3 DEF StageReached, Job
  <2>4. CASE Job.mode = "manifest"
    <3>1. tool' = "manifest"
      BY <2>1, <2>4 DEF FirstStage
    <3> QED BY <1>0, <2>1, <2>4, <3>1 DEF StageReached, Job, Listed, IndexRun
  <2> QED BY <1>3, <2>1, <2>2, <2>3, <2>4 DEF Modes
<1>6. CASE OpenIndex
  BY <1>0, <1>6 DEF OpenIndex, StageReached, IndexRun, Me
<1>7. CASE WriteIndex
  BY <1>0, <1>7, WriteShape DEF WriteIndex, StageReached, IndexRun, Me
<1>8. CASE CloseIndex
  <2>1. /\ tool = "write_index" /\ IndexRun(Me) /\ Len(index.parts) = 2
        /\ \A i \in 1..Len(index.parts) : index.parts[i] = Me
        /\ tool' = IF testing THEN "test" ELSE "manifest"
        /\ Me > 0
        /\ UNCHANGED <<testing, runs, fragment, index, files, manifest, Me>>
    BY <1>0, <1>8 DEF CloseIndex, StageReached, PARTS, Me
  <2>2. index.parts \in Seq(Nat)
    BY <1>1 DEF IndexState
  <2>3. index.parts = <<Me, Me>>
    BY <2>1, <2>2
  <2>4. IndexRun(Me)' /\ runs'[Me'].mode = "index"
    BY <2>1 DEF IndexRun
  <2>5. testing = FALSE => Listed(Me)'
    BY <2>1, <2>3, <2>4 DEF Listed
  <2>6. testing \in BOOLEAN
    BY <1>0 DEF TypeOK
  <2> QED BY <2>1, <2>4, <2>5, <2>6 DEF StageReached
<1>9. CASE TestIndex
  BY <1>0, <1>9 DEF TestIndex, StageReached
<1>10. CASE OpenFragment
  <2>1. /\ tool = "file" /\ fragment \in 1..MaxFragment /\ fragment <= Job.fragments
        /\ Job.mode = "static" /\ Me > 0
        /\ \A k \in 1..Job.fragments : k < fragment => files[k] = [run |-> Me, whole |-> TRUE]
        /\ \A k \in 1..Job.fragments : k \in 1..MaxFragment
    <3>1. tool = "file" /\ Job.fragments \in 1..MaxFragment
      BY <1>3, <1>10 DEF OpenFragment
    <3>2. fragment <= Job.fragments
      BY <1>0, <1>10, <3>1 DEF OpenFragment, StageReached
    <3>3. fragment \in 1..MaxFragment
      BY <1>1, <3>1, <3>2, BoundsAssumption
    <3>4. \A k \in 1..Job.fragments : k \in 1..MaxFragment
      BY <3>1, BoundsAssumption
    <3> QED BY <1>0, <3>1, <3>2, <3>3, <3>4 DEF StageReached
  <2>2. /\ tool' = "write_file" /\ UNCHANGED <<fragment, runs, Me, Job>>
        /\ files' = [files EXCEPT ![fragment] = [run |-> Me, whole |-> FALSE]]
    BY <1>10 DEF OpenFragment, Me, Job
  <2>3. files'[fragment].run = Me
    BY <1>2, <2>1, <2>2
  <2>4. \A k \in 1..Job.fragments : k < fragment => files'[k] = [run |-> Me, whole |-> TRUE]
    <3> SUFFICES ASSUME NEW k \in 1..Job.fragments, k < fragment
                 PROVE  files'[k] = [run |-> Me, whole |-> TRUE]
      OBVIOUS
    <3>1. k # fragment /\ k \in 1..MaxFragment
      BY <1>1, <2>1
    <3>2. files'[k] = files[k]
      BY <1>2, <2>2, <3>1
    <3> QED BY <2>1, <3>2
  <2> QED BY <2>1, <2>2, <2>3, <2>4 DEF StageReached
<1>11. CASE CloseFragment
  <2>1. /\ tool = "write_file" /\ fragment \in 1..MaxFragment /\ files[fragment].run = Me
        /\ Job.mode = "static" /\ Me > 0
        /\ \A k \in 1..Job.fragments : k < fragment => files[k] = [run |-> Me, whole |-> TRUE]
        /\ \A k \in 1..Job.fragments : k \in 1..MaxFragment
    <3>1. tool = "write_file" /\ Job.fragments \in 1..MaxFragment
      BY <1>3, <1>11 DEF CloseFragment
    <3>2. fragment <= Job.fragments
      BY <1>0, <1>11, <3>1 DEF CloseFragment, StageReached
    <3>3. fragment \in 1..MaxFragment
      BY <1>1, <3>1, <3>2, BoundsAssumption
    <3>4. \A k \in 1..Job.fragments : k \in 1..MaxFragment
      BY <3>1, BoundsAssumption
    <3> QED BY <1>0, <3>1, <3>2, <3>3, <3>4 DEF StageReached
  <2>2. /\ tool' = "file" /\ fragment' = fragment + 1 /\ UNCHANGED <<runs, Me, Job>>
        /\ files' = [files EXCEPT ![fragment] = [files[fragment] EXCEPT !.whole = TRUE]]
    BY <1>11 DEF CloseFragment, Me, Job
  <2>3. [files[fragment] EXCEPT !.whole = TRUE] = [run |-> Me, whole |-> TRUE]
    <3>1. files[fragment] \in FileState
      BY <1>2, <2>1
    <3> QED BY <2>1, <3>1, CloseShape
  <2>4. \A k \in 1..Job.fragments : k < fragment + 1 => files'[k] = [run |-> Me, whole |-> TRUE]
    <3>1. \A k \in 1..Job.fragments : k < fragment + 1 => k < fragment \/ k = fragment
      BY <1>1, <1>3, <2>1, BoundsAssumption
    <3> QED BY <1>2, <2>1, <2>2, <2>3, <3>1
  <2> QED BY <2>1, <2>2, <2>4 DEF StageReached
<1>12. CASE EndFragments
  <2>1. /\ tool = "file" /\ fragment > Job.fragments /\ Job.mode = "static" /\ Me > 0
        /\ \A k \in 1..Job.fragments : k < fragment => files[k] = [run |-> Me, whole |-> TRUE]
    BY <1>0, <1>12 DEF EndFragments, StageReached
  <2>2. tool' = "manifest" /\ UNCHANGED <<testing, index, files, runs, Me>>
    BY <1>12 DEF EndFragments, Me
  <2>3. \A k \in 1..Job.fragments : files[k] = [run |-> Me, whole |-> TRUE]
    <3>1. Job.fragments \in 1..MaxFragment
      BY <1>3, <2>1
    <3>2. \A k \in 1..Job.fragments : k < fragment
      BY <1>1, <2>1, <3>1, BoundsAssumption
    <3> QED BY <2>1, <3>2
  <2>4. Listed(Me)
    BY <2>1, <2>3 DEF Listed, IndexRun, Job
  <2>5. Listed(Me)'
    BY <2>2, <2>4 DEF Listed, IndexRun
  <2> QED BY <2>1, <2>2, <2>5 DEF StageReached
<1>13. CASE OpenManifest
  <2>1. Listed(Me) /\ Me > 0
    BY <1>0, <1>13 DEF OpenManifest, StageReached
  <2>2. /\ tool' = "write_manifest" /\ manifest' = [run |-> Me, whole |-> FALSE]
        /\ UNCHANGED <<testing, index, files, runs, Me>>
    BY <1>13 DEF OpenManifest, Me
  <2>3. Listed(Me)'
    BY <2>1, <2>2 DEF Listed, IndexRun
  <2> QED BY <2>1, <2>2, <2>3 DEF StageReached
<1>14. CASE CloseManifest \/ Stop
  <2>1. tool' = "idle"
    BY <1>14 DEF CloseManifest, Stop
  <2> QED BY <2>1 DEF StageReached
<1>15. CASE Handler
  <2>1. UNCHANGED <<testing, runs, tool, fragment, index, files, manifest>>
    BY <1>15, Untouched
  <2> QED BY <1>0, <2>1 DEF StageReached, Listed, IndexRun, Job, Me
<1> QED
  BY <1>4, <1>5, <1>6, <1>7, <1>8, <1>9, <1>10, <1>11, <1>12, <1>13, <1>14, <1>15
  DEF Next, Tool

(* The index stays a prefix of one run's: it is emptied before it is written. *)
LEMMA StepIndex ==
  ASSUME IInv, Next
  PROVE  IndexOfOneRun'
<1> USE DEF disk
<1>0. TypeOK /\ StageReached /\ IndexOfOneRun /\ Me \in Nat
  BY LenProperties DEF IInv, TypeOK, Me
<1>1. CASE StartRun
  <2>1. /\ index' = index /\ Me' = Me + 1 /\ \A r \in 1..Me : runs'[r] = runs[r]
    BY <1>0, <1>1, StartShape DEF StartRun
  <2> QED BY <1>0, <2>1 DEF IndexOfOneRun, IndexRun
<1>2. CASE OpenIndex
  <2>1. index' = [exists |-> TRUE, parts |-> <<>>]
    BY <1>2 DEF OpenIndex
  <2>2. index'.parts = <<>> /\ index'.exists /\ Len(index'.parts) = 0
    BY <2>1
  <2> QED BY <2>2 DEF IndexOfOneRun, PARTS
<1>3. CASE WriteIndex
  <2>1. /\ tool = "write_index" /\ Len(index.parts) < PARTS /\ Me > 0 /\ IndexRun(Me)
        /\ index.exists /\ \A i \in 1..Len(index.parts) : index.parts[i] = Me
    BY <1>0, <1>3 DEF WriteIndex, StageReached
  <2>2. Me' = Me /\ IndexRun(Me)'
    BY <1>3, <2>1 DEF WriteIndex, Me, IndexRun
  <2>3. \A i \in 1..Len(index'.parts) : index'.parts[i] = Me
    BY <1>0, <1>3, <2>1, WriteShape
  <2>4. Len(index'.parts) <= PARTS /\ 1 \in 1..Len(index'.parts) /\ index'.exists
    <3>1. /\ Len(index.parts) \in Nat /\ Len(index'.parts) = Len(index.parts) + 1
          /\ index'.exists = index.exists
      BY <1>0, <1>3, WriteShape
    <3> QED BY <2>1, <3>1 DEF PARTS
  <2> QED BY <1>0, <2>1, <2>2, <2>3, <2>4 DEF IndexOfOneRun
<1>4. CASE UNCHANGED <<index, runs>>
  BY <1>0, <1>4 DEF IndexOfOneRun, IndexRun, Me
<1>5. ParseSources \/ CloseIndex \/ TestIndex \/ OpenFragment \/ CloseFragment \/ EndFragments
        \/ OpenManifest \/ CloseManifest \/ Stop \/ Handler => UNCHANGED <<index, runs>>
  BY Untouched DEF ParseSources, CloseIndex, TestIndex, OpenFragment, CloseFragment,
     EndFragments, OpenManifest, CloseManifest, Stop
<1> QED
  BY <1>1, <1>2, <1>3, <1>4, <1>5 DEF Next, Tool
-----------------------------------------------------------------------------
(* The two halves of ManifestLast, for the run r of the manifest. *)
IndexLast(r) ==
  IndexRun(r) =>
    /\ ~testing
    /\ \/ index.parts = <<r, r>>
       \/ \E s \in Later(r) :
            IndexRun(s) /\ index.exists /\ \A i \in 1..Len(index.parts) : index.parts[i] = s

FilesLast(r) ==
  runs[r].mode = "static" =>
    \A k \in 1..runs[r].fragments :
      files[k] = [run |-> r, whole |-> TRUE] \/ files[k].run \in Later(r)

(* ManifestLast is about the index and about the fragments. *)
LEMMA LastIsTwo == ManifestLast <=> (manifest.whole => IndexLast(manifest.run) /\ FilesLast(manifest.run))
BY DEF ManifestLast, IndexLast, FilesLast

(* What is in place of the index the manifest needs is that of the manifest *)
(* or of a later run.                                                       *)
LEMMA StepIndexLast ==
  ASSUME IInv, Next, NEW r \in 1..Me, IndexLast(r), tool \in {"index", "write_index"} => r < Me
  PROVE  IndexLast(r)'
<1> USE DEF disk
<1>0. TypeOK /\ StageReached /\ Me \in Nat /\ r \in Nat
  BY LenProperties DEF IInv, TypeOK, Me
<1>1. CASE StartRun
  <2>1. /\ index' = index /\ testing' = testing /\ Me' = Me + 1
        /\ \A q \in 1..Me : runs'[q] = runs[q]
    BY <1>0, <1>1, StartShape DEF StartRun
  <2> QED BY <1>0, <2>1 DEF IndexLast, IndexRun, Later
<1>2. CASE OpenIndex
  <2>1. tool = "index" /\ index' = [exists |-> TRUE, parts |-> <<>>]
        /\ UNCHANGED <<testing, runs, Me>>
    BY <1>2 DEF OpenIndex, Me
  <2>2. IndexRun(Me) /\ Me \in Later(r)
    BY <1>0, <2>1 DEF StageReached, Later
  <2>3. index'.exists /\ Len(index'.parts) = 0
    BY <2>1
  <2> QED BY <2>1, <2>2, <2>3 DEF IndexLast, IndexRun, Later
<1>3. CASE WriteIndex
  <2>1. /\ tool = "write_index" /\ IndexRun(Me)
        /\ index.exists /\ \A i \in 1..Len(index.parts) : index.parts[i] = Me
        /\ UNCHANGED <<testing, runs, Me>>
    BY <1>0, <1>3 DEF WriteIndex, StageReached, Me
  <2>2. Me \in Later(r)
    BY <1>0, <2>1 DEF Later
  <2>3. index'.exists /\ \A i \in 1..Len(index'.parts) : index'.parts[i] = Me
    <3>1. \A i \in 1..Len(index'.parts) : index'.parts[i] = Me
      BY <1>0, <1>3, <2>1, WriteShape
    <3>2. index'.exists
      BY <1>0, <1>3, <2>1, WriteShape
    <3> QED BY <3>1, <3>2
  <2> QED BY <2>1, <2>2, <2>3 DEF IndexLast, IndexRun, Later
<1>4. CASE UNCHANGED <<testing, index, runs>>
  BY <1>4 DEF IndexLast, IndexRun, Later, Me
<1>5. ParseSources \/ CloseIndex \/ TestIndex \/ OpenFragment \/ CloseFragment \/ EndFragments
        \/ OpenManifest \/ CloseManifest \/ Stop \/ Handler => UNCHANGED <<testing, index, runs>>
  BY Untouched DEF ParseSources, CloseIndex, TestIndex, OpenFragment, CloseFragment,
     EndFragments, OpenManifest, CloseManifest, Stop
<1> QED
  BY <1>1, <1>2, <1>3, <1>4, <1>5 DEF Next, Tool

(* The same of the static fragments: a file is only touched by a later run. *)
LEMMA StepFilesLast ==
  ASSUME IInv, Next, NEW r \in 1..Me, FilesLast(r),
         tool \in {"test", "file", "write_file"} => r < Me
  PROVE  FilesLast(r)'
<1> USE DEF disk
<1>0. TypeOK /\ StageReached /\ Me \in Nat /\ r \in Nat
  BY LenProperties DEF IInv, TypeOK, Me
<1>1. files \in [1..MaxFragment -> FileState] /\ fragment \in Nat
  BY <1>0 DEF TypeOK
<1>2. \A k \in 1..runs[r].fragments : k \in 1..MaxFragment
  BY <1>0, JobFacts, BoundsAssumption
<1>3. CASE StartRun
  <2>1. /\ files' = files /\ Me' = Me + 1 /\ \A q \in 1..Me : runs'[q] = runs[q]
    BY <1>0, <1>3, StartShape DEF StartRun
  <2>2. runs'[r] = runs[r] /\ \A s \in Later(r) : s \in (r + 1)..(Me + 1)
    BY <1>0, <2>1 DEF Later
  <2> QED BY <2>1, <2>2 DEF FilesLast, Later
<1>4. CASE TestIndex \/ OpenFragment
  <2>1. PICK j : files' = [files EXCEPT ![j] = [run |-> Me, whole |-> FALSE]]
    BY <1>4 DEF TestIndex, OpenFragment
  <2>2. r < Me /\ UNCHANGED <<runs, Me>>
    BY <1>4 DEF TestIndex, OpenFragment, Me
  <2>3. \A k \in 1..MaxFragment : files'[k] = files[k] \/ files'[k].run = Me
    BY <1>1, <2>1
  <2>4. Me \in Later(r)
    BY <1>0, <2>2 DEF Later
  <2> QED BY <1>2, <2>2, <2>3, <2>4 DEF FilesLast, Later
<1>5. CASE CloseFragment
  <2>1. tool = "write_file" /\ files[fragment].run = Me /\ UNCHANGED <<runs, Me>> /\ r < Me
    BY <1>0, <1>5 DEF CloseFragment, StageReached, Me
  <2>2. files' = [files EXCEPT ![fragment] = [files[fragment] EXCEPT !.whole = TRUE]]
    BY <1>5 DEF CloseFragment
  <2>3. \A k \in 1..MaxFragment : files'[k] = files[k] \/ files'[k].run = Me
    <3>1. fragment \in 1..MaxFragment =>
            [files[fragment] EXCEPT !.whole = TRUE] = [run |-> Me, whole |-> TRUE]
      BY <1>1, <2>1, CloseShape
    <3> QED BY <1>1, <2>2, <3>1
  <2>4. Me \in Later(r)
    BY <1>0, <2>1 DEF Later
  <2> QED BY <1>2, <2>1, <2>3, <2>4 DEF FilesLast, Later
<1>6. CASE UNCHANGED <<files, runs>>
  BY <1>6 DEF FilesLast, Later, Me
<1>7. ParseSources \/ OpenIndex \/ WriteIndex \/ CloseIndex \/ EndFragments
        \/ OpenManifest \/ CloseManifest \/ Stop \/ Handler => UNCHANGED <<files, runs>>
  BY Untouched DEF ParseSources, OpenIndex, WriteIndex, CloseIndex,
     EndFragments, OpenManifest, CloseManifest, Stop
<1> QED
  BY <1>3, <1>4, <1>5, <1>6, <1>7 DEF Next, Tool

(* A manifest becomes whole when what it lists is, and stays so. *)
LEMMA StepManifest ==
  ASSUME IInv, Next
  PROVE  ManifestLast'
<1> USE DEF disk
<1>0. /\ TypeOK /\ StageReached /\ RunsKnown /\ ManifestLast /\ Me \in Nat
      /\ manifest \in FileState
  BY LenProperties DEF IInv, TypeOK, Me
<1>1. CASE OpenManifest
  BY <1>1 DEF OpenManifest, ManifestLast
<1>2. CASE CloseManifest
  <2>1. manifest = [run |-> Me, whole |-> FALSE] /\ Listed(Me)
    BY <1>0, <1>2 DEF CloseManifest, StageReached
  <2>2. manifest'.run = Me /\ UNCHANGED <<testing, index, files, runs, Me>>
    BY <1>2, <2>1 DEF CloseManifest, Me
  <2>3. IndexLast(Me)' /\ FilesLast(Me)'
    BY <2>1, <2>2 DEF Listed, IndexLast, FilesLast, IndexRun
  <2> QED BY <2>2, <2>3 DEF ManifestLast, IndexLast, FilesLast, IndexRun, Later
<1>3. CASE manifest' = manifest
  <2> SUFFICES ASSUME manifest.whole
               PROVE  IndexLast(manifest.run)' /\ FilesLast(manifest.run)'
    BY <1>3 DEF ManifestLast, IndexLast, FilesLast, IndexRun, Later
  <2>1. manifest.run \in 1..Me
    BY <1>0 DEF RunsKnown, FileState
  <2>2. IndexLast(manifest.run) /\ FilesLast(manifest.run)
    BY <1>0, LastIsTwo
  <2>3. tool \in {"index", "write_index", "test", "file", "write_file"} => manifest.run < Me
    BY <1>0 DEF RunsKnown
  <2>4. IndexLast(manifest.run)'
    BY <1>3, <2>1, <2>2, <2>3, StepIndexLast DEF IndexLast, IndexRun, Later
  <2>5. FilesLast(manifest.run)'
    BY <1>3, <2>1, <2>2, <2>3, StepFilesLast DEF FilesLast, Later
  <2> QED BY <2>4, <2>5
<1>4. ~OpenManifest /\ ~CloseManifest => manifest' = manifest
  BY Untouched DEF Next, Tool, StartRun, ParseSources, OpenIndex, WriteIndex, CloseIndex,
     TestIndex, OpenFragment, CloseFragment, EndFragments, Stop
<1> QED
  BY <1>1, <1>2, <1>3, <1>4

(* Handler's request is undisturbed as long as no action touches the index: *)
(* then its length is still the file's and what it read is still there.     *)
LEMMA CalmIndex ==
  ASSUME TypeOK, Tool, request'.calm
  PROVE  UNCHANGED <<index, request>>
<1>1. [request EXCEPT !.calm = FALSE].calm = FALSE
  BY DEF TypeOK, Request
<1>2. ~OpenIndex /\ ~WriteIndex
  BY <1>1 DEF OpenIndex, WriteIndex, Disturb
<1> QED
  BY <1>2 DEF Tool, StartRun, ParseSources, CloseIndex, TestIndex, OpenFragment, CloseFragment,
     EndFragments, OpenManifest, CloseManifest, Stop, disk

(* What a manifest promises is in the index. *)
LEMMA PromiseHeld ==
  ASSUME IInv, NEW k \in Nat, Promised(k) # 0
  PROVE  /\ Promised(k) \in 1..Me /\ k <= runs[Promised(k)].fragments
         /\ index.parts = <<Promised(k), Promised(k)>>
<1> DEFINE r == manifest.run
<1>1. /\ manifest.whole /\ IndexRun(r) /\ k <= runs[r].fragments /\ Promised(k) = r
      /\ \A s \in Later(r) : ~IndexRun(s)
  BY DEF Promised, IndexRun, Later
<1>2. r \in 1..Me
  BY <1>1, LenProperties DEF IInv, RunsKnown, TypeOK, FileState, Me
<1>3. IndexLast(r)
  BY <1>1, LastIsTwo DEF IInv
<1> QED
  BY <1>1, <1>2, <1>3 DEF IndexLast

(* A request reads the index in order, as it is. *)
LEMMA StepReader ==
  ASSUME IInv, Next
  PROVE  CalmReader'
<1>0. TypeOK /\ CalmReader /\ Me \in Nat /\ index \in IndexState /\ request \in Request
  BY LenProperties DEF IInv, TypeOK, Me
<1>1. CASE Tool
  <2> SUFFICES ASSUME request'.pc = "read", request'.calm
               PROVE  CalmReader'
    BY DEF CalmReader
  <2>1. UNCHANGED <<index, request>>
    BY <1>0, <1>1, CalmIndex
  <2>2. Me' \in Nat /\ Me' >= Me /\ \A r \in 1..Me : runs'[r] = runs[r]
    BY <1>0, <1>1, Untouched, StartShape
  <2> QED BY <1>0, <2>1, <2>2 DEF CalmReader
<1>2. CASE MapIndex
  <2>1. UNCHANGED <<index, runs, Me>>
    BY <1>2 DEF MapIndex, Me, disk
  <2>2. /\ request'.read = <<>> /\ request' \in Request
        /\ request'.promised = Promised(request'.fragment)
        /\ request'.pc = "read" => request'.length = Len(index.parts) /\ index.parts # <<>>
    BY <1>0, <1>2, MapShape
  <2>3. Len(request'.read) = 0
    BY <2>2
  <2>4. index.parts \in Seq(Nat) /\ request'.fragment \in Nat
    BY <1>0, <2>2 DEF IndexState, Request
  <2>5. index.parts # <<>> => Len(index.parts) > 0
    BY <2>4
  <2>6. request'.promised # 0 =>
          /\ request'.promised \in 1..Me
          /\ request'.fragment <= runs[request'.promised].fragments
          /\ index.parts = <<request'.promised, request'.promised>>
    BY <2>2, <2>4, PromiseHeld
  <2> QED BY <2>1, <2>2, <2>3, <2>5, <2>6 DEF CalmReader
<1>3. CASE RefuseShort \/ Respond
  <2>1. PICK status \in {0, 200, 404, 500} : request' = Answered(request, status)
    BY <1>3 DEF RefuseShort, Respond, Answered
  <2>2. request'.pc = "answered"
    BY <1>0, <2>1, AnswerShape
  <2> QED BY <2>2 DEF CalmReader
<1>4. CASE ReadPart
  <2> SUFFICES ASSUME request'.pc = "read", request'.calm
               PROVE  CalmReader'
    BY DEF CalmReader
  <2>1. UNCHANGED <<index, runs, Me>>
    BY <1>4 DEF ReadPart, Me, disk
  <2>2. /\ request'.length = request.length /\ request'.promised = request.promised
        /\ request'.fragment = request.fragment /\ request.calm
        /\ Len(request'.read) = Len(request.read) + 1
        /\ \A i \in 1..Len(request.read) : request'.read[i] = request.read[i]
        /\ Len(request.read) + 1 <= Len(index.parts) =>
             request'.read[Len(request.read) + 1] = index.parts[Len(request.read) + 1]
    BY <1>0, <1>4, ReadShape
  <2>3. request.pc = "read" /\ Len(request.read) + 1 <= request.length
    BY <1>4 DEF ReadPart
  <2>4. request.length = Len(index.parts) /\ \A i \in 1..Len(request.read) : request.read[i] = index.parts[i]
    BY <1>0, <2>2, <2>3 DEF CalmReader
  <2>5. Len(request.read) \in Nat
    BY <1>0, LenProperties DEF Request
  <2>6. \A i \in 1..Len(request'.read) : request'.read[i] = index.parts[i]
    BY <2>2, <2>3, <2>4, <2>5
  <2> QED BY <1>0, <2>1, <2>2, <2>3, <2>4, <2>5, <2>6 DEF CalmReader
<1> QED
  BY <1>1, <1>2, <1>3, <1>4 DEF Next, Handler

(* A tool's step leaves an undisturbed request and the runs it is about. *)
LEMMA ToolKeeps ==
  ASSUME TypeOK, Tool, request'.calm
  PROVE  /\ request' = request /\ index' = index
         /\ Me \in Nat /\ Me' \in Nat /\ Me <= Me' /\ \A r \in 1..Me : runs'[r] = runs[r]
BY CalmIndex, Untouched, StartShape, LenProperties DEF TypeOK, Me

(* The answer of an undisturbed request that has read every part. *)
LEMMA RespondShape ==
  ASSUME IInv, Respond, request'.calm
  PROVE  LET r == index.parts[1] IN
         /\ r \in 1..Me /\ IndexRun(r) /\ request'.read = <<r, r>>
         /\ request'.status = IF request'.fragment <= runs[r].fragments THEN 200 ELSE 404
         /\ request'.promised = request.promised /\ request'.fragment = request.fragment
<1> DEFINE r == index.parts[1]
<1>0. /\ TypeOK /\ CalmReader /\ IndexOfOneRun /\ request \in Request /\ index \in IndexState
      /\ Me \in Nat
  BY LenProperties DEF IInv, TypeOK, Me
<1>1. request.read \in Seq(Nat) /\ index.parts \in Seq(Nat) /\ Len(index.parts) \in Nat
  BY <1>0, LenProperties DEF Request, IndexState
<1>2. PICK status \in {200, 404, 500} :
        /\ request.read = <<request.read[1], request.read[1]>> /\ request.read[1] # 0 =>
             status = IF request.fragment <= runs[request.read[1]].fragments THEN 200 ELSE 404
        /\ request' = Answered(request, status)
  BY DEF Respond, Answered
<1>3. status \in {0, 200, 404, 500}
  OBVIOUS
<1>4. /\ request'.status = status /\ request'.read = request.read /\ request.calm
      /\ request'.promised = request.promised /\ request'.fragment = request.fragment
  BY <1>0, <1>2, <1>3, AnswerShape
<1>5. request.pc = "read" /\ Len(request.read) = 2
  BY DEF Respond, PARTS
<1>6. /\ 2 <= Len(index.parts) /\ request.read[1] = index.parts[1]
      /\ request.read[2] = index.parts[2]
  BY <1>0, <1>1, <1>4, <1>5 DEF CalmReader
<1>7. r \in 1..Me /\ IndexRun(r) /\ index.parts[2] = r
  BY <1>0, <1>1, <1>6 DEF IndexOfOneRun
<1>8. request.read = <<r, r>> /\ r # 0
  BY <1>0, <1>1, <1>5, <1>6, <1>7
<1> QED
  BY <1>2, <1>4, <1>6, <1>7, <1>8

(* An undisturbed answer stays one of a single index. *)
LEMMA StepNotMixed ==
  ASSUME IInv, Next
  PROVE  NotMixed'
<1>0. TypeOK /\ NotMixed /\ request \in Request
  BY DEF IInv, TypeOK
<1> SUFFICES ASSUME request'.pc = "answered", request'.calm, request'.status \in {200, 404},
                    request'.length > 0
             PROVE  NotMixed'
  BY DEF NotMixed
<1>1. CASE Tool
  BY <1>0, <1>1, ToolKeeps DEF NotMixed, IndexRun
<1>2. CASE MapIndex
  <2>1. request'.length = 0
    BY <1>0, <1>2, MapShape
  <2> QED BY <2>1
<1>3. CASE RefuseShort
  <2>1. request'.status = 500
    BY <1>0, <1>3, RefuseAnswers, AnswerShape
  <2> QED BY <2>1
<1>4. CASE ReadPart
  <2>1. request'.status = 0
    BY <1>0, <1>4, ReadShape
  <2> QED BY <2>1
<1>5. CASE Respond
  <2>1. UNCHANGED <<runs, Me>>
    BY <1>5 DEF Respond, Me
  <2> QED BY <1>5, <2>1, RespondShape DEF NotMixed, IndexRun
<1> QED
  BY <1>1, <1>2, <1>3, <1>4, <1>5 DEF Next, Handler

(* An undisturbed request gets what the manifest promised it. *)
LEMMA StepListed ==
  ASSUME IInv, Next
  PROVE  ListedServed'
<1>0. /\ TypeOK /\ ListedServed /\ CalmReader /\ IndexOfOneRun /\ request \in Request
      /\ index \in IndexState
  BY DEF IInv, TypeOK
<1> SUFFICES ASSUME request'.pc = "answered", request'.calm, request'.promised # 0
             PROVE  request'.status = 200 /\ request'.read = <<request'.promised, request'.promised>>
  BY DEF ListedServed
<1>1. CASE Tool
  BY <1>0, <1>1, ToolKeeps DEF ListedServed
<1>2. CASE MapIndex
  <2>1. /\ request' \in Request /\ request'.promised = Promised(request'.fragment)
        /\ ~index.exists \/ index.parts = <<>>
    BY <1>0, <1>2, MapShape
  <2>2. index.parts = <<request'.promised, request'.promised>>
    BY <2>1, PromiseHeld DEF Request
  <2>3. index.parts # <<>>
    BY <2>2
  <2> QED BY <1>0, <2>1, <2>3 DEF IndexOfOneRun
<1>3. ASSUME request.pc = "read", request.calm, request.promised # 0
      PROVE  request.length = 2
  <2>1. index.parts = <<request.promised, request.promised>> /\ request.length = Len(index.parts)
    BY <1>0, <1>3 DEF CalmReader
  <2> QED BY <2>1
<1>4. CASE RefuseShort
  <2>1. request.pc = "read" /\ Len(request.read) < 2 /\ Len(request.read) + 1 > request.length
    BY <1>4 DEF RefuseShort, PARTS
  <2>2. request.calm /\ request.promised # 0
    BY <1>0, <1>4, RefuseAnswers, AnswerShape
  <2>3. request.length = 2 /\ Len(request.read) \in Nat
    BY <1>0, <1>3, <2>1, <2>2, LenProperties DEF Request
  <2> QED BY <2>1, <2>3
<1>5. CASE ReadPart
  <2>1. request.calm /\ request.pc = "read" /\ Len(request.read) + 1 <= request.length
    BY <1>0, <1>5, ReadShape DEF ReadPart
  <2>2. request.length = Len(index.parts)
    BY <1>0, <2>1 DEF CalmReader
  <2>3. Len(request.read) + 1 <= Len(index.parts)
    BY <2>1, <2>2
  <2>4. request' = [request EXCEPT !.read = Append(request.read, index.parts[Len(request.read) + 1])]
    BY <1>0, <1>5, <2>3, LenProperties DEF ReadPart, Request, IndexState
  <2>5. request'.pc = request.pc
    BY <1>0, <2>4 DEF Request
  <2> QED BY <2>1, <2>5
<1>6. CASE Respond
  <2>1. /\ request.pc = "read" /\ request.calm /\ request'.promised = request.promised
        /\ request'.fragment = request.fragment
    <3>1. PICK status \in {200, 404, 500} : request' = Answered(request, status)
      BY <1>6, RespondAnswers
    <3>2. status \in {0, 200, 404, 500}
      OBVIOUS
    <3> QED BY <1>0, <1>6, <3>1, <3>2, AnswerShape DEF Respond
  <2>2. /\ request'.fragment <= runs[request'.promised].fragments
        /\ index.parts = <<request'.promised, request'.promised>>
    BY <1>0, <2>1 DEF CalmReader
  <2>3. index.parts[1] = request'.promised
    BY <2>2
  <2> QED BY <1>6, <2>2, <2>3, RespondShape
<1> QED
  BY <1>1, <1>2, <1>4, <1>5, <1>6 DEF Next, Handler
-----------------------------------------------------------------------------
(* Nothing is on disk and nothing was asked. *)
LEMMA InitInvariant == Init => IInv
<1> SUFFICES ASSUME Init PROVE IInv
  OBVIOUS
<1>1. /\ testing \in BOOLEAN /\ runs = <<>> /\ tool = "idle" /\ fragment = 1
      /\ index = [exists |-> FALSE, parts |-> <<>>]
      /\ files = [k \in 1..MaxFragment |-> NoFile] /\ manifest = NoFile /\ request = NoRequest
  BY DEF Init
<1>2. Me = 0 /\ runs \in Seq(Jobs) /\ <<>> \in Seq(Nat)
  BY <1>1 DEF Me
<1>3. NoFile \in FileState /\ NoRequest \in Request /\ index \in IndexState
  BY <1>1, <1>2 DEF NoFile, FileState, NoRequest, Request, IndexState
<1>4. TypeOK
  BY <1>1, <1>2, <1>3 DEF TypeOK, Stages
<1>5. /\ ~manifest.whole /\ manifest.run = 0 /\ request.pc = "none" /\ index.parts = <<>>
      /\ \A k \in 1..MaxFragment : files[k].run = 0
  BY <1>1 DEF NoFile, NoRequest
<1>6. RunsKnown
  BY <1>1, <1>2, <1>5 DEF RunsKnown
<1>7. StageReached
  BY <1>1 DEF StageReached
<1>8. Len(index.parts) = 0
  BY <1>5
<1>9. IndexOfOneRun
  BY <1>5, <1>8 DEF IndexOfOneRun, PARTS
<1> QED
  BY <1>4, <1>5, <1>6, <1>7, <1>9 DEF IInv, ManifestLast, CalmReader, NotMixed, ListedServed

LEMMA NextInvariant == IInv /\ [Next]_vars => IInv'
<1> SUFFICES ASSUME IInv, [Next]_vars PROVE IInv'
  OBVIOUS
<1>1. TypeOK'
  BY StepType DEF IInv
<1>2. CASE Next
  BY <1>1, <1>2, StepRuns, StepStage, StepIndex, StepManifest, StepReader, StepNotMixed, StepListed
  DEF IInv
<1>3. CASE UNCHANGED vars
  <2>1. UNCHANGED <<testing, runs, tool, fragment, index, files, manifest, request, Me>>
    BY <1>3 DEF vars, disk, Me
  <2>2. RunsKnown' /\ StageReached' /\ IndexOfOneRun'
    BY <2>1 DEF IInv, RunsKnown, StageReached, IndexOfOneRun, Job, Listed, IndexRun
  <2>3. ManifestLast' /\ CalmReader' /\ NotMixed' /\ ListedServed'
    <3>1. ManifestLast /\ CalmReader /\ NotMixed /\ ListedServed
      BY DEF IInv
    <3>2. ManifestLast'
      BY <2>1, <3>1 DEF ManifestLast, IndexRun, Later
    <3>3. CalmReader' /\ ListedServed'
      BY <2>1, <3>1 DEF CalmReader, ListedServed
    <3>4. NotMixed'
      BY <2>1, <3>1 DEF NotMixed, IndexRun
    <3> QED BY <3>2, <3>3, <3>4
  <2> QED BY <1>1, <2>2, <2>3 DEF IInv
<1> QED
  BY <1>2, <1>3

(* The invariant holds in every state of every behaviour. *)
THEOREM Invariance == Spec => []IInv
BY InitInvariant, NextInvariant, PTL DEF Spec

(* Whatever runs failed or went on when, a whole manifest means that the    *)
(* index, or the static fragments, it lists were written whole before it    *)
(* and are there, or that a later run has begun to replace them.            *)
THEOREM ManifestIsLast == Spec => []ManifestLast
<1>1. IInv => ManifestLast
  BY DEF IInv
<1> QED
  BY <1>1, Invariance, PTL

(* A request during which no index is written is answered from one index,   *)
(* never from the start of one and the end of another.                      *)
THEOREM AnswersNotMixed == Spec => []NotMixed
<1>1. IInv => NotMixed
  BY DEF IInv
<1> QED
  BY <1>1, Invariance, PTL

(* A fragment of a whole manifest is served from the manifest's own index   *)
(* until the tool is run for another index.                                 *)
THEOREM ListedIsServed == Spec => []ListedServed
<1>1. IInv => ListedServed
  BY DEF IInv
<1> QED
  BY <1>1, Invariance, PTL
=============================================================================
